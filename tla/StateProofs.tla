----------------------------- MODULE StateProofs -----------------------------
(***************************************************************************)
(* What the handlers of src/state.rs share: state.json, for any number of  *)
(* handlers, lengths and kills; the admin password and its sessions, for   *)
(* any number of logins, changes, streams and ticks; the rate limiter, for *)
(* any limits and any window; and the locks, for any number of tasks and   *)
(* any of the sections.                                                    *)
(*                                                                         *)
(* The state file: while no two saves overlap, the file that will replace  *)
(* state.json is apart from it, is empty or equal to the snapshot of the   *)
(* one handler that saves, and that snapshot has all that state.json has.  *)
(* Then its rename is the one step that makes changes durable, and the     *)
(* other steps of a save stutter (StateRefines).                           *)
(*                                                                         *)
(* The password: nothing makes a credential legacy again, so a login that  *)
(* waits to re-hash one either read what is still there, or is stale.      *)
(*                                                                         *)
(* The rate limiter: what it holds of a key is the end of what it granted, *)
(* and what is before it is out of the window (HeldIsTail).                *)
(*                                                                         *)
(* The locks: who holds one and waits for another holds Inner for reading  *)
(* and waits for the ring of calls, but for the settings (WaitsInOrder).   *)
(***************************************************************************)
EXTENDS StatePersist, AdminAuth, RateLimiter, Locks,
        SequenceTheorems, FiniteSetTheorems, WellFoundedInduction, TLAPS

\* A fresh Inner is a content, and so is what a write leaves behind.
LEMMA FreshType == \A i \in Ids : Fresh(i) \in Content
<1>1. (CHOOSE n \in Lens : TRUE) \in Lens
    BY ConstantsAssumption
<1> QED
    BY <1>1 DEF Fresh, Content

LEMMA EmptyType == Empty \in Content
    BY ConstantsAssumption DEF Empty, Content, Ids

LEMMA OverwriteType ==
    ASSUME NEW a \in Content, NEW c \in Content
    PROVE  /\ Overwrite(a, c) \in Content
           /\ \A n \in Lens \cup {0} : Torn(c, n) \in Content
           /\ Overwrite(a, c).whole => Overwrite(a, c).id = c.id
    BY ConstantsAssumption DEF Overwrite, Torn, Content

\* Over an empty file a write leaves the content itself.
LEMMA OverwriteEmpty ==
    ASSUME NEW a \in Content, NEW c \in Content, a.len = 0
    PROVE  Overwrite(a, c) = c
<1>1. c.len \in Lens \cup {0}
    BY DEF Content
<1>2. \A n \in Lens \cup {0} : n \in Nat
    BY ConstantsAssumption
<1>3. \A n \in Nat : ~(0 > n)
    OBVIOUS
<1> QED
    BY <1>1, <1>2, <1>3 DEF Overwrite

\* Every step keeps the types.
LEMMA TypeStep ==
    ASSUME TypeOK, [Next]_vars
    PROVE  TypeOK'
<1> USE DEF TypeOK, Procs, Saving
<1>1. ASSUME NEW w \in Writers, Mutate(w) PROVE TypeOK'
    BY <1>1 DEF Mutate, history, disk, Content, Changed
<1>2. ASSUME NEW w \in Writers, Cancel(w) PROVE TypeOK'
    BY <1>2 DEF Cancel, history, disk
<1>3. ASSUME NEW w \in Procs, Snapshot(w) PROVE TypeOK'
    BY <1>3 DEF Snapshot, disk
<1>4. ASSUME NEW w \in Procs, OpenTmp(w) PROVE TypeOK'
    BY <1>4, EmptyType DEF OpenTmp, history
<1>5. ASSUME NEW w \in Procs, WriteTmp(w) PROVE TypeOK'
    <2>1. fd[w] \in Files \/ file' = file
        BY <1>5, ConstantsAssumption DEF WriteTmp
    <2>2. /\ fd[w] \in Files => Overwrite(file[fd[w]], snap[w]) \in Content
          /\ \A n \in Lens \cup {0} : Torn(snap[w], n) \in Content
        BY <2>1, OverwriteType
    <2>3. file' \in [Files -> Content]
        BY <1>5, <2>1, <2>2 DEF WriteTmp
    <2> QED
        BY <1>5, <2>3 DEF WriteTmp, history
<1>6. ASSUME NEW w \in Procs, OpenFails(w) PROVE TypeOK'
    BY <1>6 DEF OpenFails, disk
<1>7. ASSUME NEW w \in Procs, WriteFails(w) PROVE TypeOK'
    <2>1. fd[w] \in Files \/ file' = file
        BY <1>7, ConstantsAssumption DEF WriteFails
    <2>2. /\ fd[w] \in Files => Overwrite(file[fd[w]], snap[w]) \in Content
          /\ \A n \in Lens \cup {0} : Torn(snap[w], n) \in Content
        BY <2>1, OverwriteType
    <2>3. file' \in [Files -> Content]
        BY <1>7, <2>1, <2>2 DEF WriteFails
    <2> QED
        BY <1>7, <2>3 DEF WriteFails
<1>8. ASSUME NEW w \in Procs, Rename(w) PROVE TypeOK'
    BY <1>8, EmptyType DEF Rename, Return, history
<1>9. ASSUME NEW w \in Procs, GiveUp(w) PROVE TypeOK'
    BY <1>9, EmptyType DEF GiveUp, Return, history
<1>10. ASSUME Crash PROVE TypeOK'
    BY <1>10, EmptyType, ConstantsAssumption DEF Crash, disk, Ids
<1>11. ASSUME StartFresh PROVE TypeOK'
    BY <1>11, FreshType DEF StartFresh, history, disk
<1>12. ASSUME StartLoaded PROVE TypeOK'
    BY <1>12 DEF StartLoaded, history, disk
<1>13. ASSUME StartFails PROVE TypeOK'
    BY <1>13 DEF StartFails, history, disk
<1>14. ASSUME FinishBoot PROVE TypeOK'
    <2>1. \A n \in Lens : Changed(mem, Boot, n) \in Content
        BY DEF Changed, Content
    <2>2. mem' \in Content
        BY <1>14, <2>1 DEF FinishBoot
    <2>3. up' \in {"up", "booting"} /\ pc' \in [Procs -> {"idle", "mutated", "acked", "gone"} \cup Saving]
        BY <1>14 DEF FinishBoot
    <2> QED
        BY <1>14, <2>2, <2>3 DEF FinishBoot, history, disk
<1>15. ASSUME UNCHANGED vars PROVE TypeOK'
    BY <1>15 DEF vars, disk, history
<1> QED
    BY <1>1, <1>2, <1>3, <1>4, <1>5, <1>6, <1>7, <1>8, <1>9, <1>10, <1>11, <1>12, <1>13, <1>14,
       <1>15 DEF Next

\* No handler runs while the process does not.
LEMMA RunningStep ==
    ASSUME TypeOK, RunningOnly, [Next]_vars
    PROVE  RunningOnly'
<1> USE DEF TypeOK, RunningOnly, Procs, Saving
<1>1. ASSUME NEW w \in Writers, Mutate(w) PROVE RunningOnly'
    BY <1>1 DEF Mutate
<1>2. ASSUME NEW w \in Writers, Cancel(w) PROVE RunningOnly'
    BY <1>2 DEF Cancel
<1>3. ASSUME NEW w \in Procs, Snapshot(w) PROVE RunningOnly'
    BY <1>3 DEF Snapshot
<1>4. ASSUME NEW w \in Procs, OpenTmp(w) PROVE RunningOnly'
    BY <1>4 DEF OpenTmp
<1>5. ASSUME NEW w \in Procs, WriteTmp(w) PROVE RunningOnly'
    BY <1>5 DEF WriteTmp
<1>6. ASSUME NEW w \in Procs, OpenFails(w) PROVE RunningOnly'
    BY <1>6 DEF OpenFails
<1>7. ASSUME NEW w \in Procs, WriteFails(w) PROVE RunningOnly'
    BY <1>7 DEF WriteFails
<1>8. ASSUME NEW w \in Procs, Rename(w) PROVE RunningOnly'
    BY <1>8 DEF Rename, Return
<1>9. ASSUME NEW w \in Procs, GiveUp(w) PROVE RunningOnly'
    BY <1>9 DEF GiveUp, Return
<1>10. ASSUME Crash PROVE RunningOnly'
    BY <1>10 DEF Crash
<1>11. ASSUME StartFresh PROVE RunningOnly'
    BY <1>11 DEF StartFresh
<1>12. ASSUME StartLoaded PROVE RunningOnly'
    BY <1>12 DEF StartLoaded
<1>13. ASSUME StartFails PROVE RunningOnly'
    BY <1>13 DEF StartFails
<1>14. ASSUME FinishBoot PROVE RunningOnly'
    BY <1>14 DEF FinishBoot
<1>15. ASSUME UNCHANGED vars PROVE RunningOnly'
    BY <1>15 DEF vars
<1> QED
    BY <1>1, <1>2, <1>3, <1>4, <1>5, <1>6, <1>7, <1>8, <1>9, <1>10, <1>11, <1>12, <1>13, <1>14,
       <1>15 DEF Next

\* Every file that is or becomes state.json keeps the identity in memory.
LEMMA SameIdStep ==
    ASSUME TypeOK, TypeOK', RunningOnly, SameId, [Next]_vars
    PROVE  SameId'
<1> USE DEF TypeOK, SameId, Procs, Saving
<1>1. ASSUME NEW w \in Writers, Mutate(w) PROVE SameId'
    BY <1>1 DEF Mutate, disk, Content, Changed
<1>2. ASSUME NEW w \in Writers, Cancel(w) PROVE SameId'
    BY <1>2 DEF Cancel, disk
<1>3. ASSUME NEW w \in Procs, Snapshot(w) PROVE SameId'
    BY <1>3 DEF Snapshot, disk
<1>4. ASSUME NEW w \in Procs, OpenTmp(w) PROVE SameId'
    BY <1>4, ConstantsAssumption DEF OpenTmp, Unused, Empty
<1>5. ASSUME NEW w \in Procs, WriteTmp(w) PROVE SameId'
    <2>1. fd[w] \in Files /\ file[fd[w]] \in Content /\ snap[w] \in Content
        BY <1>5, ConstantsAssumption DEF WriteTmp
    <2>2. file'[fd[w]].whole => file'[fd[w]].id = snap[w].id
        BY <1>5, <2>1, OverwriteType DEF WriteTmp, Content, Torn
    <2>3. \A f \in Files : f # fd[w] => file'[f] = file[f]
        BY <1>5 DEF WriteTmp
    <2> QED
        BY <1>5, <2>1, <2>2, <2>3, ConstantsAssumption DEF WriteTmp, history
<1>6. ASSUME NEW w \in Procs, OpenFails(w) PROVE SameId'
    BY <1>6 DEF OpenFails, disk
<1>7. ASSUME NEW w \in Procs, WriteFails(w) PROVE SameId'
    <2>1. fd[w] \in Files /\ file[fd[w]] \in Content /\ snap[w] \in Content
        BY <1>7, ConstantsAssumption DEF WriteFails
    <2>2. file'[fd[w]].whole => file'[fd[w]].id = snap[w].id
        BY <1>7, <2>1, OverwriteType DEF WriteFails, Content, Torn
    <2>3. \A f \in Files : f # fd[w] => file'[f] = file[f]
        BY <1>7 DEF WriteFails
    <2> QED
        BY <1>7, <2>1, <2>2, <2>3, ConstantsAssumption DEF WriteFails, history
<1>8. ASSUME NEW w \in Procs, Rename(w) PROVE SameId'
    BY <1>8 DEF Rename, Return
<1>9. ASSUME NEW w \in Procs, GiveUp(w) PROVE SameId'
    BY <1>9 DEF GiveUp, Return
<1>10. ASSUME Crash PROVE SameId'
    BY <1>10 DEF Crash, disk
<1>11. ASSUME StartFresh PROVE SameId'
    BY <1>11 DEF StartFresh, RunningOnly, disk
<1>12. ASSUME StartLoaded PROVE SameId'
    BY <1>12 DEF StartLoaded, RunningOnly, disk
<1>13. ASSUME StartFails PROVE SameId'
    BY <1>13 DEF StartFails, disk
<1>14. ASSUME FinishBoot PROVE SameId'
    BY <1>14 DEF FinishBoot, disk, Content, Changed
<1>15. ASSUME UNCHANGED vars PROVE SameId'
    BY <1>15 DEF vars, disk
<1> QED
    BY <1>1, <1>2, <1>3, <1>4, <1>5, <1>6, <1>7, <1>8, <1>9, <1>10, <1>11, <1>12, <1>13, <1>14,
       <1>15 DEF Next

\* While no two saves overlap, state.json and the file beside it stay in order.
LEMMA CleanStep ==
    ASSUME Inv, TypeOK', RunningOnly', [Next]_vars, ~overlapped'
    PROVE  (Clean /\ StateIntact /\ AckedIsDurable)'
<1> USE ConstantsAssumption DEF Procs, Saving
<1> ~overlapped
    BY DEF Inv, TypeOK, Next, vars, Mutate, Cancel, Snapshot, OpenTmp, WriteTmp, OpenFails,
       WriteFails,
       Rename, GiveUp, Return, Crash, StartFresh, StartLoaded, StartFails, FinishBoot, history
<1> USE DEF Inv, TypeOK, RunningOnly, Clean, SaveAlone, Alone, MemoryAhead, StateIntact, AckedIsDurable, saved
<1>1. ASSUME NEW w \in Writers, Mutate(w) PROVE (Clean /\ StateIntact /\ AckedIsDurable)'
    <2>1. \A v \in Procs : SaveAlone(v)'
        BY <1>1 DEF Mutate, disk, Content, Changed, history
    <2>2. MemoryAhead'
        BY <1>1 DEF Mutate, disk, Content, Changed, history
    <2>3. (dst # None => dst # tmp)'
        BY <1>1 DEF Mutate, disk, Content, Changed, history
    <2>4. StateIntact'
        BY <1>1 DEF Mutate, disk, Content, Changed, history
    <2>5. AckedIsDurable'
        BY <1>1 DEF Mutate, disk, Content, Changed, history
    <2> QED
        BY <2>1, <2>2, <2>3, <2>4, <2>5
<1>2. ASSUME NEW w \in Writers, Cancel(w) PROVE (Clean /\ StateIntact /\ AckedIsDurable)'
    <2>1. \A v \in Procs : SaveAlone(v)'
        BY <1>2 DEF Cancel, disk, history
    <2>2. MemoryAhead'
        BY <1>2 DEF Cancel, disk, history
    <2>3. (dst # None => dst # tmp)'
        BY <1>2 DEF Cancel, disk, history
    <2>4. StateIntact'
        BY <1>2 DEF Cancel, disk, history
    <2>5. AckedIsDurable'
        BY <1>2 DEF Cancel, disk, history
    <2> QED
        BY <2>1, <2>2, <2>3, <2>4, <2>5
<1>3. ASSUME NEW w \in Procs, Snapshot(w) PROVE (Clean /\ StateIntact /\ AckedIsDurable)'
    <2>1. \A v \in Procs : SaveAlone(v)'
        BY <1>3 DEF Snapshot, disk, Content
    <2>2. MemoryAhead'
        BY <1>3 DEF Snapshot, disk, Content
    <2>3. (dst # None => dst # tmp)'
        BY <1>3 DEF Snapshot, disk, Content
    <2>4. StateIntact'
        BY <1>3 DEF Snapshot, disk, Content
    <2>5. AckedIsDurable'
        BY <1>3 DEF Snapshot, disk, Content
    <2> QED
        BY <2>1, <2>2, <2>3, <2>4, <2>5
<1>4. ASSUME NEW w \in Procs, OpenTmp(w) PROVE (Clean /\ StateIntact /\ AckedIsDurable)'
    <2>1. \A v \in Procs : SaveAlone(v)'
        BY <1>4 DEF OpenTmp, Unused, Empty, history
    <2>2. MemoryAhead'
        BY <1>4 DEF OpenTmp, Unused, Empty, history
    <2>3. (dst # None => dst # tmp)'
        BY <1>4 DEF OpenTmp, Unused, Empty, history
    <2>4. StateIntact'
        BY <1>4 DEF OpenTmp, Unused, Empty, history
    <2>5. AckedIsDurable'
        BY <1>4 DEF OpenTmp, Unused, Empty, history
    <2> QED
        BY <2>1, <2>2, <2>3, <2>4, <2>5
<1>5. ASSUME NEW w \in Procs, WriteTmp(w) PROVE (Clean /\ StateIntact /\ AckedIsDurable)'
    <2>1. snap[w] \in Content /\ fd[w] \in Files /\ file[fd[w]] \in Content /\ file[fd[w]].len = 0
        BY <1>5 DEF WriteTmp, SameId
    <2>2. Overwrite(file[fd[w]], snap[w]) = snap[w]
        BY <2>1, OverwriteEmpty
    <2>3. file' = [file EXCEPT ![fd[w]] = snap[w]]
        BY <1>5, <2>2 DEF WriteTmp
    <2>4. \A v \in Procs : SaveAlone(v)'
        BY <1>5, <2>1, <2>3 DEF WriteTmp, history
    <2>5. MemoryAhead'
        BY <1>5, <2>1, <2>3 DEF WriteTmp, history
    <2>6. (dst # None => dst # tmp)'
        BY <1>5, <2>1, <2>3 DEF WriteTmp, history
    <2>7. StateIntact'
        BY <1>5, <2>1, <2>3 DEF WriteTmp, history
    <2>8. AckedIsDurable'
        BY <1>5, <2>1, <2>3 DEF WriteTmp, history
    <2> QED
        BY <2>4, <2>5, <2>6, <2>7, <2>8
<1>6. ASSUME NEW w \in Procs, OpenFails(w) PROVE (Clean /\ StateIntact /\ AckedIsDurable)'
    <2>1. \A v \in Procs : SaveAlone(v)'
        BY <1>6 DEF OpenFails, disk
    <2>2. MemoryAhead'
        BY <1>6 DEF OpenFails, disk
    <2>3. (dst # None => dst # tmp)'
        BY <1>6 DEF OpenFails, disk
    <2>4. StateIntact'
        BY <1>6 DEF OpenFails, disk
    <2>5. AckedIsDurable'
        BY <1>6 DEF OpenFails, disk
    <2> QED
        BY <2>1, <2>2, <2>3, <2>4, <2>5
<1>7. ASSUME NEW w \in Procs, WriteFails(w) PROVE (Clean /\ StateIntact /\ AckedIsDurable)'
    <2>1. \A v \in Procs : SaveAlone(v)'
        BY <1>7 DEF WriteFails, Torn
    <2>2. MemoryAhead'
        BY <1>7 DEF WriteFails, Torn
    <2>3. (dst # None => dst # tmp)'
        BY <1>7 DEF WriteFails, Torn
    <2>4. StateIntact'
        BY <1>7 DEF WriteFails, Torn
    <2>5. AckedIsDurable'
        BY <1>7 DEF WriteFails, Torn
    <2> QED
        BY <2>1, <2>2, <2>3, <2>4, <2>5
<1>8. ASSUME NEW w \in Procs, Rename(w) PROVE (Clean /\ StateIntact /\ AckedIsDurable)'
    <2>1. \A v \in Procs : SaveAlone(v)'
        BY <1>8 DEF Rename, Return, history
    <2>2. MemoryAhead'
        BY <1>8 DEF Rename, Return, history
    <2>3. (dst # None => dst # tmp)'
        BY <1>8 DEF Rename, Return, history
    <2>4. StateIntact'
        BY <1>8 DEF Rename, Return, history
    <2>5. AckedIsDurable'
        <3>1. tmp # None /\ dst' = tmp /\ file' = file /\ file[tmp] = snap[w]
            BY <1>8 DEF Rename, Return, SameId
        <3>2. saved' = snap[w].muts
            BY <3>1
        <3>3. ASSUME NEW v \in Writers, pc'[v] = "acked", ~ioFailed' PROVE v \in snap[w].muts
            <4>1. CASE v = w
                BY <4>1, <1>8 DEF Rename
            <4>2. CASE v # w
                BY <4>2, <3>3, <1>8 DEF Rename, Return, history
            <4> QED
                BY <4>1, <4>2
        <3> QED
            BY <3>2, <3>3
    <2> QED
        BY <2>1, <2>2, <2>3, <2>4, <2>5
<1>9. ASSUME NEW w \in Procs, GiveUp(w) PROVE (Clean /\ StateIntact /\ AckedIsDurable)'
    <2>1. \A v \in Procs : SaveAlone(v)'
        BY <1>9 DEF GiveUp, Return, history
    <2>2. MemoryAhead'
        BY <1>9 DEF GiveUp, Return, history
    <2>3. (dst # None => dst # tmp)'
        BY <1>9 DEF GiveUp, Return, history
    <2>4. StateIntact'
        BY <1>9 DEF GiveUp, Return, history
    <2>5. AckedIsDurable'
        BY <1>9 DEF GiveUp, Return, history
    <2> QED
        BY <2>1, <2>2, <2>3, <2>4, <2>5
<1>10. ASSUME Crash PROVE (Clean /\ StateIntact /\ AckedIsDurable)'
    <2>1. \A v \in Procs : SaveAlone(v)'
        BY <1>10 DEF Crash, disk
    <2>2. MemoryAhead'
        BY <1>10 DEF Crash, disk
    <2>3. (dst # None => dst # tmp)'
        BY <1>10 DEF Crash, disk
    <2>4. StateIntact'
        BY <1>10 DEF Crash, disk
    <2>5. AckedIsDurable'
        BY <1>10 DEF Crash, disk
    <2> QED
        BY <2>1, <2>2, <2>3, <2>4, <2>5
<1>11. ASSUME StartFresh PROVE (Clean /\ StateIntact /\ AckedIsDurable)'
    <2>1. \A v \in Procs : SaveAlone(v)'
        BY <1>11 DEF StartFresh, disk, Fresh, history
    <2>2. MemoryAhead'
        BY <1>11 DEF StartFresh, disk, Fresh, history
    <2>3. (dst # None => dst # tmp)'
        BY <1>11 DEF StartFresh, disk, Fresh, history
    <2>4. StateIntact'
        BY <1>11 DEF StartFresh, disk, Fresh, history
    <2>5. AckedIsDurable'
        BY <1>11 DEF StartFresh, disk, Fresh, history
    <2> QED
        BY <2>1, <2>2, <2>3, <2>4, <2>5
<1>12. ASSUME StartLoaded PROVE (Clean /\ StateIntact /\ AckedIsDurable)'
    <2>1. \A v \in Procs : SaveAlone(v)'
        BY <1>12 DEF StartLoaded, disk, history
    <2>2. MemoryAhead'
        BY <1>12 DEF StartLoaded, disk, history
    <2>3. (dst # None => dst # tmp)'
        BY <1>12 DEF StartLoaded, disk, history
    <2>4. StateIntact'
        BY <1>12 DEF StartLoaded, disk, history
    <2>5. AckedIsDurable'
        BY <1>12 DEF StartLoaded, disk, history
    <2> QED
        BY <2>1, <2>2, <2>3, <2>4, <2>5
<1>13. ASSUME StartFails PROVE (Clean /\ StateIntact /\ AckedIsDurable)'
    <2>1. \A v \in Procs : SaveAlone(v)'
        BY <1>13 DEF StartFails, disk, history
    <2>2. MemoryAhead'
        BY <1>13 DEF StartFails, disk, history
    <2>3. (dst # None => dst # tmp)'
        BY <1>13 DEF StartFails, disk, history
    <2>4. StateIntact'
        BY <1>13 DEF StartFails, disk, history
    <2>5. AckedIsDurable'
        BY <1>13 DEF StartFails, disk, history
    <2> QED
        BY <2>1, <2>2, <2>3, <2>4, <2>5
<1>14. ASSUME FinishBoot PROVE (Clean /\ StateIntact /\ AckedIsDurable)'
    <2>1. \A v \in Procs : SaveAlone(v)'
        BY <1>14 DEF FinishBoot, disk, Content, Changed, history
    <2>2. MemoryAhead'
        BY <1>14 DEF FinishBoot, disk, Content, Changed, history
    <2>3. (dst # None => dst # tmp)'
        BY <1>14 DEF FinishBoot, disk, Content, Changed, history
    <2>4. StateIntact'
        BY <1>14 DEF FinishBoot, disk, Content, Changed, history
    <2>5. AckedIsDurable'
        BY <1>14 DEF FinishBoot, disk, Content, Changed, history
    <2> QED
        BY <2>1, <2>2, <2>3, <2>4, <2>5
<1>15. ASSUME UNCHANGED vars PROVE (Clean /\ StateIntact /\ AckedIsDurable)'
    BY <1>15 DEF vars
<1> QED
    BY <1>1, <1>2, <1>3, <1>4, <1>5, <1>6, <1>7, <1>8, <1>9, <1>10, <1>11, <1>12, <1>13, <1>14,
       <1>15 DEF Next

-----------------------------------------------------------------------------
\* The inductive invariant, for any number of handlers and kills.
THEOREM Invariant == Spec => []Inv
<1>1. Init => Inv
    <2> SUFFICES ASSUME Init PROVE Inv
        OBVIOUS
    <2> USE DEF Init, Procs, Saving
    <2>1. TypeOK
        <3>1. 0 \in Ids
            BY ConstantsAssumption DEF Ids
        <3> QED
            BY <3>1, FreshType, EmptyType DEF TypeOK
    <2>2. RunningOnly /\ SameId
        BY DEF RunningOnly, SameId
    <2>3. Clean /\ StateIntact /\ AckedIsDurable
        BY DEF Clean, SaveAlone, MemoryAhead, StateIntact, AckedIsDurable
    <2> QED
        BY <2>1, <2>2, <2>3 DEF Inv
<1>2. Inv /\ [Next]_vars => Inv'
    <2> SUFFICES ASSUME Inv, [Next]_vars PROVE Inv'
        OBVIOUS
    <2>1. TypeOK' /\ RunningOnly'
        BY TypeStep, RunningStep DEF Inv
    <2>2. SameId'
        BY <2>1, SameIdStep DEF Inv
    <2>3. CASE overlapped'
        BY <2>1, <2>2, <2>3 DEF Inv, StateIntact, AckedIsDurable
    <2>4. CASE ~overlapped'
        BY <2>1, <2>2, <2>4, CleanStep DEF Inv
    <2> QED
        BY <2>3, <2>4
<1> QED
    BY <1>1, <1>2, PTL DEF Spec

\* The types.
THEOREM TypeCorrect == Spec => []TypeOK
<1>1. Inv => TypeOK
    BY DEF Inv
<1> QED
    BY <1>1, Invariant, PTL

\* A kill or a disk failure during a save leaves a complete state.json, unless
\* two saves ran at the same time.
THEOREM StateStaysIntact == Spec => []StateIntact
<1>1. Inv => StateIntact
    BY DEF Inv
<1> QED
    BY <1>1, Invariant, PTL

\* A change whose handler answered is in state.json from then on, unless two
\* saves ran at the same time or the disk failed.
THEOREM AckedStaysDurable == Spec => []AckedIsDurable
<1>1. Inv => AckedIsDurable
    BY DEF Inv
<1> QED
    BY <1>1, Invariant, PTL

\* Once there is a state.json the tokens never change, whatever overlaps or fails.
THEOREM TokensStay == Spec => TokensKept
<1>1. ASSUME Inv, [Next]_vars, dst # None PROVE mem'.id = mem.id /\ dst' # None
    <2> USE <1>1 DEF Inv, TypeOK, SameId, Procs
    <2>1. ASSUME NEW w \in Writers, Mutate(w) PROVE mem'.id = mem.id /\ dst' # None
        BY <2>1 DEF Mutate, history, disk, Changed
    <2>2. ASSUME NEW w \in Writers, Cancel(w) PROVE mem'.id = mem.id /\ dst' # None
        BY <2>2 DEF Cancel, history, disk
    <2>3. ASSUME NEW w \in Procs, Snapshot(w) PROVE mem'.id = mem.id /\ dst' # None
        BY <2>3 DEF Snapshot, history, disk
    <2>4. ASSUME NEW w \in Procs, OpenTmp(w) PROVE mem'.id = mem.id /\ dst' # None
        BY <2>4 DEF OpenTmp, history, disk
    <2>5. ASSUME NEW w \in Procs, WriteTmp(w) PROVE mem'.id = mem.id /\ dst' # None
        BY <2>5 DEF WriteTmp, history, disk
    <2>6. ASSUME NEW w \in Procs, OpenFails(w) PROVE mem'.id = mem.id /\ dst' # None
        BY <2>6 DEF OpenFails, history, disk
    <2>7. ASSUME NEW w \in Procs, WriteFails(w) PROVE mem'.id = mem.id /\ dst' # None
        BY <2>7 DEF WriteFails, history, disk
    <2>8. ASSUME NEW w \in Procs, Rename(w) PROVE mem'.id = mem.id /\ dst' # None
        BY <2>8 DEF Rename, history, disk, Return
    <2>9. ASSUME NEW w \in Procs, GiveUp(w) PROVE mem'.id = mem.id /\ dst' # None
        BY <2>9 DEF GiveUp, history, disk, Return
    <2>10. ASSUME Crash PROVE mem'.id = mem.id /\ dst' # None
        BY <2>10 DEF Crash, history, disk
    <2>11. ASSUME StartFresh PROVE mem'.id = mem.id /\ dst' # None
        BY <2>11 DEF StartFresh, history, disk
    <2>12. ASSUME StartLoaded PROVE mem'.id = mem.id /\ dst' # None
        BY <2>12 DEF StartLoaded, history, disk
    <2>13. ASSUME StartFails PROVE mem'.id = mem.id /\ dst' # None
        BY <2>13 DEF StartFails, history, disk
    <2>14. ASSUME FinishBoot PROVE mem'.id = mem.id /\ dst' # None
        BY <2>14 DEF FinishBoot, history, disk, Changed
    <2>15. ASSUME UNCHANGED vars PROVE mem'.id = mem.id /\ dst' # None
        BY <2>15 DEF vars, disk
    <2> QED
        BY <1>1, <2>1, <2>2, <2>3, <2>4, <2>5, <2>6, <2>7, <2>8, <2>9, <2>10, <2>11, <2>12,
           <2>13, <2>14, <2>15 DEF Next
<1>2. Inv /\ [Next]_vars => [dst # None => mem'.id = mem.id /\ dst' # None]_vars
    BY <1>1
<1> QED
    BY <1>2, Invariant, PTL DEF Spec, TokensKept

\* A new state.json has all the changes of the one before, unless two saves ran
\* at the same time.
THEOREM SavedOnlyGrows == Spec => SavedGrows
<1>1. ASSUME Inv, Inv', [Next]_vars, ~overlapped' PROVE saved \subseteq saved'
    <2>1. ~overlapped
        BY <1>1 DEF Inv, TypeOK, Next, vars, Mutate, Cancel, Snapshot, OpenTmp, WriteTmp,
           OpenFails, WriteFails,
           Rename, GiveUp, Return, Crash, StartFresh, StartLoaded, StartFails, FinishBoot, history
    <2>2. Clean
        BY <1>1, <2>1 DEF Inv
    <2>3. CASE UNCHANGED disk
        BY <2>3 DEF disk, saved
    <2>4. ASSUME NEW w \in Procs, OpenTmp(w) PROVE saved \subseteq saved'
        BY <1>1, <2>2, <2>4 DEF OpenTmp, Unused, Clean, saved, Inv, TypeOK
    <2>5. ASSUME NEW w \in Procs, WriteTmp(w) PROVE saved \subseteq saved'
        BY <1>1, <2>2, <2>5 DEF WriteTmp, Clean, SaveAlone, Saving, saved, Inv, TypeOK
    <2>6. ASSUME NEW w \in Procs, WriteFails(w) PROVE saved \subseteq saved'
        BY <1>1, <2>2, <2>6 DEF WriteFails, Clean, SaveAlone, Saving, saved, Inv, TypeOK
    <2>7. ASSUME NEW w \in Procs, Rename(w) PROVE saved \subseteq saved'
        BY <1>1, <2>2, <2>7 DEF Rename, Return, Clean, SaveAlone, Saving, SameId, saved, Inv, TypeOK
    <2>8. ASSUME NEW w \in Procs, GiveUp(w) PROVE UNCHANGED disk
        BY <2>8 DEF GiveUp, Return, disk
    <2>9. CASE UNCHANGED vars
        BY <2>9 DEF vars, disk, saved
    <2> QED
        BY <1>1, <2>3, <2>4, <2>5, <2>6, <2>7, <2>8, <2>9
           DEF Next, Mutate, Cancel, Snapshot, OpenFails, Crash, StartFresh, StartLoaded, StartFails, FinishBoot
<1>2. Inv /\ Inv' /\ [Next]_vars => [~overlapped' => saved \subseteq saved']_vars
    BY <1>1
<1> QED
    BY <1>2, Invariant, PTL DEF Spec, SavedGrows

\* While no two saves overlap a step is one of DurableState, or changes nothing of it.
LEMMA StoreStep ==
    ASSUME Inv, Inv', [Next]_vars
    PROVE  [Store!Next]_(Store!vars)
<1> DEFINE answers == {w \in Writers : pc[w] = "acked"}
<1>1. CASE overlapped'
    BY <1>1 DEF Store!Next, Store!Tangle
<1> SUFFICES ASSUME ~overlapped' PROVE [Store!Next]_(Store!vars)
    BY <1>1
<1> USE ConstantsAssumption DEF Procs, Saving
<1>2. ~overlapped
    BY DEF Inv, TypeOK, Next, vars, Mutate, Cancel, Snapshot, OpenTmp, WriteTmp, OpenFails,
       WriteFails,
       Rename, GiveUp, Return, Crash, StartFresh, StartLoaded, StartFails, FinishBoot, history
<1>3. TypeOK /\ RunningOnly /\ MemoryAhead /\ (\A w \in Procs : SaveAlone(w)) /\ SameId /\ (dst # None => dst # tmp)
    BY <1>2 DEF Inv, Clean
<1>4. ASSUME UNCHANGED <<changes, saved, answers, ioFailed>> PROVE [Store!Next]_(Store!vars)
    BY <1>2, <1>4 DEF Store!vars
\* Steps that leave state.json and the answers alone.
<1>5. ASSUME NEW w \in Writers, Mutate(w) PROVE Store!Next
    <2>1. /\ mem'.muts = mem.muts \cup {w} /\ up = "up" /\ up' = up
          /\ UNCHANGED <<saved, overlapped, ioFailed>>
        BY <1>5 DEF Mutate, Changed, disk, history, saved
    <2>2. answers' = answers
        BY <1>3, <1>5 DEF Mutate, TypeOK
    <2>3. Store!Change(w)
        BY <2>1, <2>2 DEF Store!Change, changes
    <2> QED
        BY <2>3 DEF Store!Next
<1>6. ASSUME NEW w \in Procs, (w \in Writers /\ Cancel(w)) \/ Snapshot(w) PROVE [Store!Next]_(Store!vars)
    <2>1. UNCHANGED <<up, mem, saved, ioFailed>>
        BY <1>6 DEF Cancel, Snapshot, disk, history, saved
    <2>2. answers' = answers
        BY <1>3, <1>6 DEF Cancel, Snapshot, TypeOK
    <2> QED
        BY <1>4, <2>1, <2>2 DEF changes
<1>7. ASSUME NEW w \in Procs, OpenTmp(w) \/ WriteTmp(w) PROVE [Store!Next]_(Store!vars)
    <2>1. saved' = saved
        BY <1>3, <1>7 DEF OpenTmp, WriteTmp, Unused, saved, TypeOK, SaveAlone
    <2>2. UNCHANGED <<up, mem, ioFailed>>
        BY <1>7 DEF OpenTmp, WriteTmp, history
    <2>3. answers' = answers
        BY <1>3, <1>7 DEF OpenTmp, WriteTmp, TypeOK
    <2> QED
        BY <1>4, <2>1, <2>2, <2>3 DEF changes
<1>8. ASSUME NEW w \in Procs, OpenFails(w) \/ WriteFails(w) PROVE Store!Next
    <2>1. saved' = saved
        BY <1>3, <1>8 DEF OpenFails, WriteFails, disk, saved, TypeOK, SaveAlone
    <2>2. UNCHANGED <<up, mem, overlapped>> /\ ioFailed'
        BY <1>8 DEF OpenFails, WriteFails
    <2>3. answers' = answers
        BY <1>3, <1>8 DEF OpenFails, WriteFails, TypeOK
    <2>4. Store!Refuse
        BY <2>1, <2>2, <2>3 DEF Store!Refuse, changes
    <2> QED
        BY <2>4 DEF Store!Next
\* The end of a save.
<1>9. ASSUME NEW w \in Procs, Rename(w) PROVE Store!Next
    <2>1. pc[w] = "written" /\ tmp # None /\ dst' = tmp /\ file' = file /\ file[tmp] = snap[w]
        BY <1>3, <1>9 DEF Rename, Return, SaveAlone, SameId
    <2>2. saved' = snap[w].muts /\ saved \subseteq snap[w].muts /\ snap[w].muts \subseteq mem.muts
          /\ (w \in Writers => w \in snap[w].muts)
        BY <1>3, <2>1 DEF saved, SaveAlone
    <2>3. UNCHANGED <<up, mem, overlapped, ioFailed>> /\ up \in {"booting", "up"}
        BY <1>3, <1>9, <2>1 DEF Rename, Return, history, RunningOnly, TypeOK
    <2>4. changes = mem.muts /\ changes' = changes
        BY <2>3 DEF changes
    <2>5. answers' = answers \cup ({w} \cap Writers)
        BY <1>3, <1>9 DEF Rename, Return, TypeOK
    <2>6. CASE w \in Writers
        <3>1. Store!Save({w})
            BY <2>2, <2>3, <2>4, <2>5, <2>6 DEF Store!Save
        <3> QED
            BY <2>6, <3>1 DEF Store!Next
    <2>7. CASE w \notin Writers
        <3>1. Store!Save({})
            BY <2>2, <2>3, <2>4, <2>5, <2>7 DEF Store!Save
        <3> QED
            BY <3>1 DEF Store!Next
    <2> QED
        BY <2>6, <2>7
<1>10. ASSUME NEW w \in Procs, GiveUp(w) PROVE [Store!Next]_(Store!vars)
    <2>1. ioFailed /\ UNCHANGED <<up, mem, saved, overlapped, ioFailed>>
        BY <1>3, <1>10 DEF GiveUp, Return, SaveAlone, history, saved
    <2>2. answers' = answers \cup ({w} \cap Writers)
        BY <1>3, <1>10 DEF GiveUp, Return, TypeOK
    <2>3. CASE w \in Writers
        <3>1. Store!Mislead(w)
            BY <2>1, <2>2, <2>3 DEF Store!Mislead, changes
        <3> QED
            BY <2>3, <3>1 DEF Store!Next
    <2>4. CASE w \notin Writers
        BY <1>4, <2>1, <2>2, <2>4 DEF changes
    <2> QED
        BY <2>3, <2>4
\* Kill and start.
<1>11. ASSUME Crash PROVE Store!Next
    <2>1. UNCHANGED <<saved, overlapped, ioFailed>> /\ up' = "down"
        BY <1>11 DEF Crash, disk, saved
    <2>2. answers' = answers
        BY <1>3, <1>11 DEF Crash, TypeOK
    <2>3. Store!Kill
        BY <2>1, <2>2 DEF Store!Kill, changes
    <2> QED
        BY <2>3 DEF Store!Next
<1>12. ASSUME StartFresh \/ StartLoaded \/ StartFails PROVE [Store!Next]_(Store!vars)
    <2>1. UNCHANGED <<saved, ioFailed>> /\ up = "down" /\ up' \in {"booting", "failed"}
        BY <1>12 DEF StartFresh, StartLoaded, StartFails, disk, history, saved
    <2>2. answers' = answers
        BY <1>3, <1>12 DEF StartFresh, StartLoaded, StartFails, TypeOK
    <2>3. up' = "booting" => mem'.muts = saved
        BY <1>12 DEF StartFresh, StartLoaded, StartFails, Fresh, saved
    <2> QED
        BY <1>4, <2>1, <2>2, <2>3 DEF changes
<1>13. ASSUME FinishBoot PROVE [Store!Next]_(Store!vars)
    <2>1. UNCHANGED <<saved, overlapped, ioFailed>> /\ up = "booting" /\ up' \in {"booting", "up"}
        BY <1>13 DEF FinishBoot, disk, history, saved
    <2>2. answers' = answers
        BY <1>3, <1>13 DEF FinishBoot, TypeOK
    <2>3. CASE Boot \in mem.muts
        <3>1. mem' = mem
            BY <1>13, <2>3 DEF FinishBoot
        <3> QED
            BY <1>4, <2>1, <2>2, <3>1 DEF changes
    <2>4. CASE Boot \notin mem.muts
        <3>1. mem'.muts = mem.muts \cup {Boot}
            BY <1>13, <2>4 DEF FinishBoot, Changed
        <3>2. Store!Change(Boot)
            BY <2>1, <2>2, <3>1 DEF Store!Change, changes
        <3> QED
            BY <3>2 DEF Store!Next
    <2> QED
        BY <2>3, <2>4
<1>14. CASE UNCHANGED vars
    <2>1. UNCHANGED <<changes, saved, answers, ioFailed>>
        BY <1>14 DEF vars, changes, saved
    <2> QED
        BY <1>4, <2>1
<1> QED
    BY <1>5, <1>6, <1>7, <1>8, <1>9, <1>10, <1>11, <1>12, <1>13, <1>14 DEF Next

\* The handlers, files and kills implement DurableState: as long as no two saves
\* overlap, a save is one step, and a restart starts with what was saved.
THEOREM StateRefines == Spec => StoreSpec
<1>1. ASSUME Init PROVE Store!Init
    <2>1. saved = {} /\ changes = {} /\ ~overlapped /\ ~ioFailed
        BY <1>1 DEF Init, changes, saved
    <2>2. \A w \in Writers : pc[w] # "acked"
        BY <1>1 DEF Init, Procs
    <2>3. {w \in Writers : pc[w] = "acked"} = {}
        BY <2>2
    <2> QED
        BY <2>1, <2>3 DEF Store!Init
<1>2. Inv /\ Inv' /\ [Next]_vars => [Store!Next]_(Store!vars)
    BY StoreStep
<1> QED
    BY <1>1, <1>2, Invariant, PTL DEF Spec, StoreSpec, Store!Spec

-----------------------------------------------------------------------------
(* The admin password and its sessions.                                    *)

LEMMA KeptSessions ==
    ASSUME AuthOK
    PROVE  /\ DOMAIN Kept \subseteq Logins
           /\ \A l \in DOMAIN Kept : Kept[l] = until[l]
    BY DEF AuthOK, Kept, Live

LEMMA LiveSessions ==
    ASSUME AuthOK, NEW l, Live(l)
    PROVE  l \in Logins /\ now < until[l]
<1>1. l \in Logins /\ sessions[l] = until[l] /\ until[l] > now
    BY DEF AuthOK, Live
<1>2. now \in Nat /\ until[l] \in Nat
    BY <1>1 DEF AuthOK
<1> QED
    BY <1>1, <1>2

\* Every step keeps the types.
LEMMA AuthTypeStep ==
    ASSUME AuthOK, [AuthNext]_authVars
    PROVE  AuthOK'
<1> USE AuthAssumption DEF AuthOK
<1>k. DOMAIN Kept \subseteq Logins /\ \A l \in DOMAIN Kept : Kept[l] = until[l]
    BY KeptSessions
<1>1. CASE Tick
    BY <1>1 DEF Tick, login, stream
<1>2. ASSUME NEW l \in Logins, Verify(l) PROVE AuthOK'
    BY <1>2 DEF Verify, stream
<1>3. ASSUME NEW l \in Logins, Upgrade(l) PROVE AuthOK'
    <2>1. given[l] \in Passwords
        BY <1>3 DEF Upgrade
    <2> QED
        BY <1>3, <2>1 DEF Upgrade, stream
<1>4. ASSUME NEW l \in Logins, Open(l) PROVE AuthOK'
    <2>1. now + Ttl \in Nat
        OBVIOUS
    <2>2. /\ DOMAIN sessions' \subseteq Logins
          /\ \A k \in DOMAIN sessions' : sessions'[k] = until'[k]
        BY <1>4, <1>k DEF Open
    <2> QED
        BY <1>4, <2>1, <2>2 DEF Open, stream
<1>5. ASSUME NEW l \in Logins, Leave(l) PROVE AuthOK'
    BY <1>5 DEF Leave, stream
<1>6. ASSUME NEW l \in Logins, Logout(l) PROVE AuthOK'
    <2>1. until' \in [Logins -> Nat]
        BY <1>6 DEF Logout
    <2>2. /\ DOMAIN sessions' \subseteq Logins
          /\ \A k \in DOMAIN sessions' : sessions'[k] = until'[k]
        BY <1>6 DEF Logout
    <2> QED
        BY <1>6, <2>1, <2>2 DEF Logout, login, stream
<1>7. ASSUME NEW e \in Edits, EditBegin(e) PROVE AuthOK'
    <2>1. sessions' = Kept
        BY <1>7 DEF EditBegin, Gate
    <2> QED
        BY <1>7, <2>1, <1>k DEF EditBegin, login, stream
<1>8. ASSUME NEW e \in Edits, EditApply(e) PROVE AuthOK'
    <2>1. edit[e].new \in Passwords
        BY <1>8 DEF EditApply
    <2> QED
        BY <1>8, <2>1 DEF EditApply, Ended, login, stream
<1>9. ASSUME NEW e \in Edits, EditEnds(e) PROVE AuthOK'
    BY <1>9 DEF EditEnds, Ended, login, stream
<1>10. ASSUME NEW s \in Streams, StreamOpens(s) PROVE AuthOK'
    <2>1. PICK l \in Logins : Gate(l) /\ token' = [token EXCEPT ![s] = l]
        BY <1>10 DEF StreamOpens
    <2> QED
        BY <1>10, <2>1, <1>k DEF StreamOpens, Gate, login
<1>11. ASSUME NEW s \in Streams, StreamYields(s) PROVE AuthOK'
    BY <1>11 DEF StreamYields, login
<1>12. ASSUME NEW s \in Streams, StreamLoops(s) PROVE AuthOK'
    <2>1. sessions' = sessions \/ sessions' = Kept
        BY <1>12 DEF StreamLoops
    <2> QED
        BY <1>12, <2>1, <1>k DEF StreamLoops, login
<1>13. ASSUME NEW s \in Streams, StreamLeaves(s) PROVE AuthOK'
    BY <1>13 DEF StreamLeaves, login
<1>14. CASE UNCHANGED authVars
    BY <1>14 DEF authVars, login, stream
<1> QED
    BY <1>1, <1>2, <1>3, <1>4, <1>5, <1>6, <1>7, <1>8, <1>9, <1>10, <1>11, <1>12, <1>13, <1>14
    DEF AuthNext, LoginStep, EditStep, StreamStep

\* A credential is legacy only until it is first changed or re-hashed.
LEMMA LegacyStep ==
    ASSUME AuthOK, LegacyIsFirst, PasswordIsChosen, [AuthNext]_authVars
    PROVE  LegacyIsFirst' /\ PasswordIsChosen'
<1> USE DEF LegacyIsFirst, PasswordIsChosen
<1>o. step \in [Logins -> {"idle", "refused", "legacy", "verified", "saving", "done", "gone"}]
      /\ given \in [Logins -> Passwords \cup {Nobody}] /\ stale \subseteq Logins
    BY DEF AuthOK
<1>1. ASSUME NEW l \in Logins, Verify(l) PROVE LegacyIsFirst' /\ PasswordIsChosen'
    <2>1. PICK p \in Passwords :
              /\ given' = [given EXCEPT ![l] = p]
              /\ step' = [step EXCEPT ![l] = IF p # admin.pw THEN "refused"
                                             ELSE IF admin.legacy THEN "legacy" ELSE "verified"]
        BY <1>1 DEF Verify
    <2>2. step[l] = "idle" /\ admin' = admin /\ chosen' = chosen /\ stale' = stale
        BY <1>1 DEF Verify
    <2>3. \A k \in Logins : k # l => step'[k] = step[k] /\ given'[k] = given[k]
        BY <2>1, <1>o
    <2>4. given'[l] = p /\ (step'[l] = "legacy" => p = admin.pw /\ admin.legacy)
        BY <2>1, <1>o
    <2>5. LegacyIsFirst'
        BY <2>2, <2>3, <2>4
    <2>6. PasswordIsChosen'
        BY <2>2, <2>3, <1>o
    <2> QED
        BY <2>5, <2>6
<1>2. ASSUME NEW l \in Logins, Upgrade(l) PROVE LegacyIsFirst' /\ PasswordIsChosen'
    <2>1. /\ step[l] = "legacy" /\ step'[l] = "saving"
          /\ \A k \in Logins : k # l => step'[k] = step[k]
          /\ admin'.pw = given[l] /\ admin'.legacy = FALSE
          /\ given' = given /\ chosen' = chosen /\ stale' = stale
        BY <1>2, <1>o DEF Upgrade
    <2>2. l \in stale \/ (stale = {} /\ given[l] = admin.pw /\ admin.pw = chosen)
        BY <2>1
    <2>3. LegacyIsFirst'
        <3>1. ASSUME NEW k \in Logins, step'[k] = "legacy"
              PROVE  k \in stale' \/ (stale' = {} /\ given'[k] = admin'.pw /\ admin'.pw = chosen')
            <4>1. k # l /\ step[k] = "legacy"
                BY <2>1, <3>1
            <4>2. k \in stale \/ (stale = {} /\ given[k] = admin.pw /\ admin.pw = chosen)
                BY <4>1
            <4>3. CASE stale = {}
                BY <4>2, <4>3, <2>1, <2>2
            <4>4. CASE stale # {}
                BY <4>2, <4>4, <2>1
            <4> QED
                BY <4>3, <4>4
        <3> QED
            BY <2>1, <3>1
    <2>4. PasswordIsChosen'
        BY <2>1, <2>2
    <2> QED
        BY <2>3, <2>4
<1>3. ASSUME NEW l \in Logins, Open(l) \/ Leave(l)
      PROVE  LegacyIsFirst' /\ PasswordIsChosen'
    <2>1. /\ step[l] \in {"legacy", "verified", "saving"} /\ step'[l] \in {"done", "gone"}
          /\ \A k \in Logins : k # l => step'[k] = step[k]
          /\ admin' = admin /\ given' = given /\ chosen' = chosen /\ stale' = stale
        BY <1>3, <1>o DEF Open, Leave
    <2>2. LegacyIsFirst'
        BY <2>1
    <2>3. PasswordIsChosen'
        BY <2>1, <1>o
    <2> QED
        BY <2>2, <2>3
<1>4. ASSUME NEW e \in Edits, EditApply(e) PROVE LegacyIsFirst' /\ PasswordIsChosen'
    <2>1. /\ step' = step /\ chosen' = admin'.pw /\ admin'.legacy = FALSE
          /\ stale' = stale \cup {l \in Logins : step[l] = "legacy"}
        BY <1>4 DEF EditApply, login
    <2> QED
        BY <2>1
<1>5. CASE UNCHANGED <<admin, login, chosen, stale>>
    BY <1>5 DEF login
<1> QED
    BY <1>1, <1>2, <1>3, <1>4, <1>5
    DEF AuthNext, LoginStep, EditStep, StreamStep, authVars, Tick, Logout, EditBegin, EditEnds,
        StreamOpens, StreamYields, StreamLoops, StreamLeaves

\* What a session is over by moves only forward, or back to now.
LEMMA UntilStep ==
    ASSUME AuthOK, [AuthNext]_authVars, NEW l \in Logins
    PROVE  until'[l] >= until[l] \/ until'[l] >= now
<1> USE AuthAssumption DEF AuthOK
<1>1. ASSUME NEW k \in Logins, Open(k) PROVE until'[l] >= until[l] \/ until'[l] >= now
    BY <1>1 DEF Open
<1>2. ASSUME NEW k \in Logins, Logout(k) PROVE until'[l] >= until[l] \/ until'[l] >= now
    BY <1>2 DEF Logout
<1>3. CASE UNCHANGED until
    BY <1>3
<1> QED
    BY <1>1, <1>2, <1>3
    DEF AuthNext, LoginStep, EditStep, StreamStep, authVars, login, stream, Tick, Verify, Upgrade,
        Leave, EditBegin, EditApply, EditEnds, StreamOpens, StreamYields, StreamLoops, StreamLeaves

\* An open stream had a session when it was last checked, and waits no longer than
\* the code lets it.
LEMMA StreamsStep ==
    ASSUME AuthOK, StreamHadSession, StreamWaits, [AuthNext]_authVars
    PROVE  StreamHadSession' /\ StreamWaits'
<1> USE AuthAssumption DEF StreamHadSession, StreamWaits
<1>o. /\ now \in Nat /\ until \in [Logins -> Nat] /\ checked \in [Streams -> Nat]
      /\ since \in [Streams -> Nat] /\ phase \in [Streams -> {"idle", "waiting", "yielded", "closed"}]
      /\ token \in [Streams -> Logins \cup {Nobody}] /\ Recheck \in Nat \ {0}
    BY DEF AuthOK
<1>u. until' \in [Logins -> Nat]
    BY AuthTypeStep DEF AuthOK
<1>1. CASE Tick
    <2>1. /\ now' = now + 1 /\ UNCHANGED <<stream, until>>
          /\ \A s \in Streams : phase[s] = "waiting" => now < since[s] + Recheck
        BY <1>1 DEF Tick
    <2> QED
        BY <2>1, <1>o DEF stream
<1>2. CASE UNCHANGED <<now, stream>>
    <2>1. \A l \in Logins : until'[l] >= until[l] \/ until'[l] >= now
        BY UntilStep
    <2> QED
        BY <1>2, <2>1, <1>o, <1>u DEF stream
<1>3. ASSUME NEW s \in Streams, StreamOpens(s) PROVE StreamHadSession' /\ StreamWaits'
    <2>1. PICK l \in Logins : Live(l) /\ token' = [token EXCEPT ![s] = l]
        BY <1>3 DEF StreamOpens, Gate
    <2>2. now < until[l]
        BY <2>1, LiveSessions
    <2> QED
        BY <1>3, <2>1, <2>2, <1>o DEF StreamOpens
<1>4. ASSUME NEW s \in Streams, StreamYields(s) \/ StreamLeaves(s)
      PROVE  StreamHadSession' /\ StreamWaits'
    BY <1>4, <1>o DEF StreamYields, StreamLeaves
<1>5. ASSUME NEW s \in Streams, StreamLoops(s) PROVE StreamHadSession' /\ StreamWaits'
    <2>1. CASE now < checked[s] + Recheck
        BY <1>5, <2>1, <1>o DEF StreamLoops
    <2>2. CASE ~(now < checked[s] + Recheck)
        <3>1. Live(token[s]) => token[s] \in Logins /\ now < until[token[s]]
            BY LiveSessions
        <3> QED
            BY <1>5, <2>2, <3>1, <1>o DEF StreamLoops
    <2> QED
        BY <2>1, <2>2
<1> QED
    BY <1>1, <1>2, <1>3, <1>4, <1>5
    DEF AuthNext, LoginStep, EditStep, StreamStep, authVars, Verify, Upgrade, Open, Leave, Logout,
        EditBegin, EditApply, EditEnds

\* The invariant of the password and the sessions, for any number of passwords,
\* logins, changes and streams, and any times.
THEOREM AuthInvariant == AuthSpec => []AuthInv
<1>1. AuthInit => AuthInv
    <2> SUFFICES ASSUME AuthInit PROVE AuthInv
        OBVIOUS
    <2>1. AuthOK
        BY AuthAssumption DEF AuthInit, AuthOK
    <2>2. LegacyIsFirst /\ PasswordIsChosen /\ StreamHadSession /\ StreamWaits
        BY DEF AuthInit, LegacyIsFirst, PasswordIsChosen, StreamHadSession, StreamWaits
    <2> QED
        BY <2>1, <2>2 DEF AuthInv
<1>2. AuthInv /\ [AuthNext]_authVars => AuthInv'
    BY AuthTypeStep, LegacyStep, StreamsStep DEF AuthInv
<1> QED
    BY <1>1, <1>2, PTL DEF AuthSpec

\* The credential verifies the password that was chosen last, but for a login that
\* re-hashes an old one it had verified before (state.rs:970).
THEOREM ChosenStays == AuthSpec => []PasswordIsChosen
    BY AuthInvariant, PTL DEF AuthInv

\* The password changes only by a change that gave the one before, or by such a login.
THEOREM KnowersChange == AuthSpec => OnlyKnowersChange
<1>1. ASSUME AuthInv, [AuthNext]_authVars, admin'.pw # admin.pw
      PROVE  \/ \E e \in Edits : edit[e].at = "gated" /\ edit[e].old = admin.pw /\ edit'[e].at = "done"
             \/ \E l \in stale : step[l] = "legacy" /\ given[l] = admin'.pw
    <2>1. ASSUME NEW l \in Logins, Upgrade(l)
          PROVE  l \in stale /\ step[l] = "legacy" /\ given[l] = admin'.pw
        <3>1. step[l] = "legacy" /\ admin'.pw = given[l]
            BY <2>1 DEF Upgrade
        <3> QED
            BY <1>1, <3>1 DEF AuthInv, LegacyIsFirst
    <2>2. ASSUME NEW e \in Edits, EditApply(e)
          PROVE  edit[e].at = "gated" /\ edit[e].old = admin.pw /\ edit'[e].at = "done"
        BY <1>1, <2>2 DEF EditApply, Ended, AuthInv, AuthOK
    <2>3. CASE UNCHANGED admin
        BY <1>1, <2>3
    <2> QED
        BY <1>1, <2>1, <2>2, <2>3
        DEF AuthNext, LoginStep, EditStep, StreamStep, authVars, Tick, Verify, Open, Leave, Logout,
            EditBegin, EditEnds, StreamOpens, StreamYields, StreamLoops, StreamLeaves
<1> QED
    BY <1>1, AuthInvariant, PTL DEF AuthSpec, OnlyKnowersChange

\* An event stream yields nothing later than two rechecks after its session was
\* over, however busy it is and however slow its client.
THEOREM StreamsEndSoon == AuthSpec => StreamEndsSoon
<1>1. ASSUME AuthInv, NEW s \in Streams, phase[s] = "waiting"
      PROVE  now < until[token[s]] + 2 * Recheck
    <2>1. /\ token[s] \in Logins /\ checked[s] <= until[token[s]]
          /\ since[s] < checked[s] + Recheck /\ now <= since[s] + Recheck
        BY <1>1 DEF AuthInv, StreamHadSession, StreamWaits
    <2>2. /\ now \in Nat /\ until[token[s]] \in Nat /\ checked[s] \in Nat /\ since[s] \in Nat
          /\ Recheck \in Nat
        BY <1>1, <2>1, AuthAssumption DEF AuthInv, AuthOK
    <2> QED
        BY <2>1, <2>2
<1>2. AuthInv /\ [AuthNext]_authVars =>
        [\A s \in Streams : phase[s] = "waiting" /\ phase'[s] = "yielded" =>
            now < until[token[s]] + 2 * Recheck]_authVars
    BY <1>1
<1> QED
    BY <1>2, AuthInvariant, PTL DEF AuthSpec, StreamEndsSoon

-----------------------------------------------------------------------------
(* The window of the rate limiter.                                         *)

Grants == [at : Times, limit : Limits]

\* A set of naturals has a least one.
LEMMA MinOfNat ==
    ASSUME NEW S \in SUBSET Nat, S # {}
    PROVE  Min(S) \in S /\ \A y \in S : Min(S) <= y
<1>1. PICK t \in S : \A u \in S : <<u, t>> \notin OpToRel(<, Nat)
    BY NatLessThanWellFounded, WFMin
<1>2. \A u \in S : t <= u
    <2>1. SUFFICES ASSUME NEW u \in S PROVE t <= u
        OBVIOUS
    <2>2. t \in Nat /\ u \in Nat /\ ~(u < t)
        BY <1>1 DEF OpToRel
    <2> QED
        BY <2>2
<1> QED
    BY <1>2 DEF Min

\* A time is a natural number.
LEMMA TimesAreNat == Times \subseteq Nat /\ \A t \in Times : t - Window \in Nat /\ Window <= t
    BY LimiterAssumption DEF Times

LEMMA QueueType ==
    ASSUME NEW h \in Seq(Times)
    PROVE  Len(h) \in Nat /\ DOMAIN h = 1..Len(h) /\ \A i \in 1..Len(h) : h[i] \in Times /\ h[i] \in Nat
<1>1. ASSUME NEW i \in 1..Len(h) PROVE h[i] \in Times /\ h[i] \in Nat
    <2>1. h[i] \in Times
        OBVIOUS
    <2> QED
        BY <2>1, TimesAreNat
<1> QED
    BY <1>1

LEMMA GrantsType ==
    ASSUME NEW g \in Seq(Grants)
    PROVE  Len(g) \in Nat /\ DOMAIN g = 1..Len(g) /\ \A i \in 1..Len(g) : g[i].at \in Times /\ g[i].at \in Nat
<1>1. ASSUME NEW i \in 1..Len(g) PROVE g[i].at \in Times /\ g[i].at \in Nat
    <2>1. g[i] \in Grants
        OBVIOUS
    <2> QED
        BY <2>1, TimesAreNat DEF Grants
<1> QED
    BY <1>1

\* Pruning takes what is before the cutoff from the front, and nothing else.
LEMMA PrunedIsTail ==
    ASSUME NEW q \in Seq(Times), NEW cutoff \in Nat
    PROVE  \E e \in 0..Len(q) :
              /\ Pruned(q, cutoff) \in Seq(Times)
              /\ Len(Pruned(q, cutoff)) = Len(q) - e
              /\ \A i \in 1..(Len(q) - e) : Pruned(q, cutoff)[i] = q[i + e]
              /\ \A i \in 1..e : q[i] < cutoff
              /\ e < Len(q) => q[e + 1] >= cutoff
<1> DEFINE I == {i \in 1..Len(q) : q[i] >= cutoff}
           first == SelectInSeq(q, LAMBDA t : t >= cutoff)
<1>1. Len(q) \in Nat /\ \A i \in 1..Len(q) : q[i] \in Times /\ q[i] \in Nat
    BY QueueType
<1>2. first = IF I # {} THEN Min(I) ELSE 0
    BY DEF SelectInSeq
<1>3. Pruned(q, cutoff) = IF first = 0 THEN <<>> ELSE SubSeq(q, first, Len(q))
    BY DEF Pruned
<1>4. CASE I = {}
    <2>1. Pruned(q, cutoff) = <<>>
        BY <1>2, <1>3, <1>4
    <2>2. \A i \in 1..Len(q) : q[i] < cutoff
        BY <1>1, <1>4
    <2> HIDE DEF I, first
    <2>3. Len(q) \in 0..Len(q) /\ Len(q) - Len(q) = 0 /\ ~(Len(q) < Len(q))
        BY <1>1
    <2> QED
        BY <1>1, <2>1, <2>2, <2>3
<1>5. CASE I # {}
    <2>1. first \in I /\ \A i \in I : first <= i
        <3>1. I \in SUBSET Nat
            OBVIOUS
        <3> HIDE DEF I, first
        <3> QED
            BY <1>2, <1>5, <3>1, MinOfNat
    <2>2. first \in 1..Len(q) /\ q[first] >= cutoff
        BY <2>1
    <2>3. \A i \in 1..(first - 1) : q[i] < cutoff
        <3>1. ASSUME NEW i \in 1..(first - 1) PROVE q[i] < cutoff
            <4>1. i \in 1..Len(q) /\ i \in Nat /\ i < first
                BY <1>1, <2>2
            <4>2. i \notin I
                <5>1. first \in Nat /\ ~(first <= i)
                    BY <2>2, <4>1
                <5> QED
                    BY <2>1, <5>1
            <4> QED
                BY <1>1, <4>1, <4>2
        <3> QED
            BY <3>1
    <2> HIDE DEF I, first
    <2>4. Pruned(q, cutoff) = SubSeq(q, first, Len(q))
        BY <1>3, <2>2
    <2> DEFINE e == first - 1
    <2>5. e \in 0..Len(q) /\ first = e + 1 /\ e < Len(q)
        BY <1>1, <2>2
    <2>6. /\ SubSeq(q, first, Len(q)) \in Seq(Times)
          /\ Len(SubSeq(q, first, Len(q))) = Len(q) - e
          /\ \A i \in 1..(Len(q) - e) : SubSeq(q, first, Len(q))[i] = q[i + e]
        BY <1>1, <2>2, <2>5
    <2> HIDE DEF e
    <2>7. \A i \in 1..e : q[i] < cutoff
        BY <2>3 DEF e
    <2> QED
        BY <2>2, <2>4, <2>5, <2>6, <2>7
<1> QED
    BY <1>4, <1>5

\* Time passes, and threads are late.
LEMMA TailStays ==
    ASSUME NEW h \in Seq(Times), NEW g \in Seq(Grants), NEW t \in Times, NEW u \in Times, t <= u,
           NEW s \in Nat, NEW r \in Nat, s <= r, IsTail(h, g, t, s)
    PROVE  IsTail(h, g, u, r)
<1>1. Len(h) \in Nat /\ Len(g) \in Nat /\ \A i \in 1..Len(h) : h[i] \in Nat
    BY QueueType
<1>2. \A i \in 1..Len(g) : g[i].at \in Nat
    BY GrantsType
<1>3. t \in Nat /\ u \in Nat /\ Window \in Nat
    BY TimesAreNat, LimiterAssumption
<1>4. ASSUME NEW i \in 1..(Len(g) - Len(h)) PROVE g[i].at + Window < u + r
    <2>1. i \in 1..Len(g)
        BY <1>1
    <2>2. g[i].at + Window < t + s /\ g[i].at \in Nat
        BY <1>2, <2>1 DEF IsTail
    <2> QED
        BY <1>3, <2>2
<1>5. ASSUME NEW i \in 1..Len(h)
      PROVE  /\ h[i] <= g[i + (Len(g) - Len(h))].at
             /\ g[i + (Len(g) - Len(h))].at <= h[i] + r
    <2> DEFINE j == i + (Len(g) - Len(h))
    <2>1. j \in 1..Len(g)
        BY <1>1 DEF IsTail
    <2>2. h[i] <= g[j].at /\ g[j].at <= h[i] + s /\ g[j].at \in Nat /\ h[i] \in Nat
        BY <1>1, <1>2, <2>1 DEF IsTail
    <2> HIDE DEF j
    <2>3. h[i] <= g[j].at /\ g[j].at <= h[i] + r
        BY <2>2
    <2> QED
        BY <2>3 DEF j
<1> QED
    BY <1>4, <1>5 DEF IsTail

\* What a decision at a time up to t prunes is over by then.
LEMMA TailPruned ==
    ASSUME NEW h \in Seq(Times), NEW g \in Seq(Grants), NEW t \in Times, NEW s \in Nat,
           IsTail(h, g, t, s), NEW stamp \in Times, stamp <= t
    PROVE  IsTail(Pruned(h, stamp - Window), g, t, s)
<1> DEFINE cutoff == stamp - Window
           p      == Pruned(h, cutoff)
           gone   == Len(g) - Len(h)
<1>1. cutoff \in Nat /\ cutoff + Window = stamp /\ Window \in Nat /\ stamp \in Nat /\ t \in Nat
    BY TimesAreNat, LimiterAssumption
<1>2. PICK e \in 0..Len(h) :
              /\ p \in Seq(Times) /\ Len(p) = Len(h) - e
              /\ \A i \in 1..(Len(h) - e) : p[i] = h[i + e]
              /\ \A i \in 1..e : h[i] < cutoff
    <2> HIDE DEF cutoff
    <2> QED
        BY <1>1, PrunedIsTail
<1>3. /\ Len(h) \in Nat /\ Len(g) \in Nat /\ gone \in Nat /\ e \in Nat
      /\ Len(h) + gone = Len(g) /\ Len(g) - Len(p) = gone + e
    <2>1. Len(h) \in Nat /\ Len(g) \in Nat /\ Len(h) <= Len(g) /\ Len(p) = Len(h) - e /\ e \in Nat
        BY <1>2, QueueType, GrantsType DEF IsTail
    <2> HIDE DEF p
    <2> QED
        BY <2>1
<1>4. \A i \in 1..Len(g) : g[i].at \in Nat
    BY GrantsType
<1>5. \A i \in 1..Len(h) : h[i] \in Nat
    BY QueueType
<1>6. \A i \in 1..Len(h) : h[i] <= g[i + gone].at /\ g[i + gone].at <= h[i] + s
    BY DEF IsTail
<1>7. \A i \in 1..gone : g[i].at + Window < t + s
    BY DEF IsTail
<1> HIDE DEF p, gone, cutoff
<1>8. ASSUME NEW i \in 1..(gone + e) PROVE g[i].at + Window < t + s
    <2>1. CASE i \in 1..gone
        BY <1>7, <2>1
    <2>2. CASE i \notin 1..gone
        <3>1. i - gone \in 1..e /\ i - gone \in 1..Len(h) /\ (i - gone) + gone = i /\ i \in 1..Len(g)
            BY <1>2, <1>3, <2>2
        <3>2. h[i - gone] < cutoff /\ h[i - gone] \in Nat /\ g[i].at <= h[i - gone] + s /\ g[i].at \in Nat
            BY <1>2, <1>4, <1>5, <1>6, <3>1
        <3>3. ASSUME NEW a \in Nat, NEW b \in Nat, b < cutoff, a <= b + s PROVE a + Window < t + s
            BY <1>1, <3>3
        <3> QED
            BY <3>2, <3>3
    <2> QED
        BY <2>1, <2>2
<1>9. ASSUME NEW i \in 1..Len(p)
      PROVE  p[i] <= g[i + (gone + e)].at /\ g[i + (gone + e)].at <= p[i] + s
    <2>1. i + e \in 1..Len(h) /\ i \in 1..(Len(h) - e) /\ (i + e) + gone = i + (gone + e)
        BY <1>2, <1>3
    <2> QED
        BY <1>2, <1>6, <2>1
<1>10. Len(p) <= Len(g)
    BY <1>2, <1>3
<1>11. IsTail(p, g, t, s)
    BY <1>3, <1>8, <1>9, <1>10 DEF IsTail
<1> QED
    BY <1>11 DEF p, cutoff

\* Nor is anything lost with a key that has not been used since the cutoff.
LEMMA TailDropped ==
    ASSUME NEW h \in Seq(Times), NEW g \in Seq(Grants), NEW t \in Times, NEW s \in Nat,
           IsTail(h, g, t, s), NEW stamp \in Times, stamp <= t,
           h = <<>> \/ h[Len(h)] < stamp - Window,
           \A i \in DOMAIN g : \A j \in 1..i : g[j].at <= g[i].at
    PROVE  IsTail(<<>>, g, t, s)
<1>1. CASE h = <<>>
    BY <1>1
<1>2. CASE h # <<>>
    <2> DEFINE n == Len(h)
               m == Len(g)
    <2>1. n \in Nat /\ n > 0 /\ m \in Nat /\ n <= m /\ n + (m - n) = m /\ m \in 1..m
        BY <1>2, EmptySeq DEF IsTail
    <2>2. h[n] \in Nat /\ h[n] < stamp - Window /\ stamp \in Nat /\ Window \in Nat /\ t \in Nat
        <3>1. h[n] \in Nat
            BY <2>1, QueueType
        <3> QED
            BY <1>2, <3>1, TimesAreNat, LimiterAssumption
    <2>3. \A i \in 1..m : g[i].at \in Nat
        BY GrantsType
    <2>4. g[m].at <= h[n] + s
        BY <2>1 DEF IsTail
    <2>5. \A j \in 1..m : g[j].at <= g[m].at
        BY <2>1
    <2> HIDE DEF n, m
    <2>6. ASSUME NEW j \in 1..m PROVE g[j].at + Window < t + s
        <3>1. g[j].at <= h[n] + s /\ g[j].at \in Nat
            <4>1. g[j].at \in Nat /\ g[m].at \in Nat /\ g[j].at <= g[m].at
                BY <2>1, <2>3, <2>5
            <4>2. ASSUME NEW a \in Nat, NEW b \in Nat, NEW x \in Nat, a <= b, b <= x + s
                  PROVE  a <= x + s
                BY <4>2
            <4> QED
                BY <2>2, <2>4, <4>1, <4>2
        <3>2. ASSUME NEW a \in Nat, NEW b \in Nat, b < stamp - Window, a <= b + s
              PROVE  a + Window < t + s
            BY <2>2, <3>2
        <3> QED
            BY <2>2, <3>1, <3>2
    <2>7. Len(<<>>) = 0 /\ Len(g) - Len(<<>>) = m /\ Len(<<>>) <= Len(g)
        BY <2>1 DEF m
    <2>8. \A i \in 1..(Len(g) - Len(<<>>)) : g[i].at + Window < t + s
        BY <2>6, <2>7
    <2>9. \A i \in 1..Len(<<>>) : FALSE
        BY <2>7
    <2> QED
        BY <2>7, <2>8, <2>9 DEF IsTail
<1> QED
    BY <1>1, <1>2

\* What is granted now is held from now on.
LEMMA TailGrows ==
    ASSUME NEW h \in Seq(Times), NEW g \in Seq(Grants), NEW t \in Times, NEW s \in Nat,
           IsTail(h, g, t, s), NEW stamp \in Times, stamp <= t, t <= stamp + s,
           NEW limit \in Limits
    PROVE  IsTail(Append(h, stamp), Append(g, [at |-> t, limit |-> limit]), t, s)
<1> DEFINE x == [at |-> t, limit |-> limit]
           H == Append(h, stamp)
           G == Append(g, x)
           gone == Len(g) - Len(h)
<1>1. x \in Grants /\ x.at = t
    BY DEF Grants
<1>2. /\ Len(h) \in Nat /\ Len(g) \in Nat /\ gone \in Nat /\ Len(h) + gone = Len(g)
    BY DEF IsTail
<1>3. Len(H) = Len(h) + 1 /\ H[Len(h) + 1] = stamp /\ \A i \in 1..Len(h) : H[i] = h[i]
    OBVIOUS
<1>4. Len(G) = Len(g) + 1 /\ G[Len(g) + 1] = x /\ \A i \in 1..Len(g) : G[i] = g[i]
    BY <1>1
<1>5. \A i \in 1..Len(h) : h[i] <= g[i + gone].at /\ g[i + gone].at <= h[i] + s
    BY DEF IsTail
<1>6. \A i \in 1..gone : g[i].at + Window < t + s
    BY DEF IsTail
<1> HIDE DEF x, H, G, gone
<1>7. Len(G) - Len(H) = gone /\ Len(H) <= Len(G)
    BY <1>2, <1>3, <1>4
<1>8. ASSUME NEW i \in 1..gone PROVE G[i].at + Window < t + s
    <2>1. i \in 1..Len(g)
        BY <1>2
    <2> QED
        BY <1>4, <1>6, <2>1
<1>9. ASSUME NEW i \in 1..Len(H) PROVE H[i] <= G[i + gone].at /\ G[i + gone].at <= H[i] + s
    <2>1. CASE i \in 1..Len(h)
        <3>1. i + gone \in 1..Len(g)
            BY <1>2, <2>1
        <3> QED
            BY <1>3, <1>4, <1>5, <2>1, <3>1
    <2>2. CASE i \notin 1..Len(h)
        <3>1. i = Len(h) + 1 /\ i + gone = Len(g) + 1
            BY <1>2, <1>3, <2>2
        <3> QED
            BY <1>1, <1>3, <1>4, <3>1
    <2> QED
        BY <2>1, <2>2
<1>10. IsTail(H, G, t, s)
    BY <1>7, <1>8, <1>9 DEF IsTail
<1> QED
    BY <1>10 DEF H, G, x

\* What the cleanup leaves out is over, and what it leaves in is as it was.
LEMMA CleanedIsTail ==
    ASSUME LimiterInv, NEW j \in Keys, NEW stamp \in Times, stamp <= clock, NEW s \in Nat, Slack <= s
    PROVE  /\ Cleaned(stamp - Window) \subseteq DOMAIN hits
           /\ j \in Cleaned(stamp - Window) => IsTail(hits[j], granted[j], clock, s)
           /\ j \notin Cleaned(stamp - Window) => IsTail(<<>>, granted[j], clock, s)
<1> DEFINE cutoff == stamp - Window
<1>1. Cleaned(cutoff) \subseteq DOMAIN hits
    BY DEF Cleaned
<1>2. /\ Held(j) \in Seq(Times) /\ granted[j] \in Seq(Grants) /\ clock \in Times
      /\ \A k \in DOMAIN hits : hits[k] \in Seq(Times)
    <2>1. \A k \in DOMAIN hits : hits[k] \in Seq(Times)
        BY DEF LimiterInv, LimiterOK
    <2>2. Held(j) \in Seq(Times)
        BY <2>1 DEF Held
    <2>3. granted \in [Keys -> Seq(Grants)] /\ clock \in Times
        BY DEF LimiterInv, LimiterOK, Grants
    <2> QED
        BY <2>1, <2>2, <2>3
<1>3. IsTail(Held(j), granted[j], clock, s)
    <2>1. clock \in Nat /\ Slack \in Nat /\ clock <= clock
        BY <1>2, TimesAreNat, LimiterAssumption DEF Slack
    <2>2. IsTail(Held(j), granted[j], clock, Slack)
        BY DEF LimiterInv, HeldIsTail
    <2> QED
        BY <1>2, <2>1, <2>2, TailStays
<1>4. j \in Cleaned(cutoff) => Held(j) = hits[j]
    BY <1>1 DEF Held
<1>5. ASSUME j \notin Cleaned(cutoff) PROVE IsTail(<<>>, granted[j], clock, s)
    <2>1. Held(j) = <<>> \/ Held(j)[Len(Held(j))] < cutoff
        <3>1. CASE j \notin DOMAIN hits
            BY <3>1 DEF Held
        <3>2. CASE j \in DOMAIN hits
            <4>1. Held(j) = hits[j] /\ (hits[j] = <<>> \/ ~(Last(hits[j]) >= cutoff))
                BY <1>5, <3>2 DEF Cleaned, Held
            <4>2. CASE hits[j] # <<>>
                <5>1. Len(hits[j]) \in 1..Len(hits[j])
                    BY <1>2, <3>2, <4>2, EmptySeq
                <5>2. hits[j][Len(hits[j])] \in Nat
                    BY <1>2, <3>2, <5>1, QueueType
                <5>3. cutoff \in Nat
                    BY TimesAreNat
                <5> HIDE DEF cutoff
                <5> QED
                    BY <4>1, <4>2, <5>2, <5>3 DEF Last
            <4> QED
                BY <4>1, <4>2
        <3> QED
            BY <3>1, <3>2
    <2>2. \A i \in DOMAIN granted[j] : \A n \in 1..i : granted[j][n].at <= granted[j][i].at
        BY DEF LimiterInv, GrantsInOrder
    <2> QED
        BY <1>2, <1>3, <2>1, <2>2, TailDropped
<1> QED
    BY <1>1, <1>3, <1>4, <1>5

Queue(k, stamp) ==
    IF k \in Cleaned(stamp - Window) THEN Pruned(hits[k], stamp - Window) ELSE <<>>

\* The queue that a decision counts, once it has cleaned and pruned.
LEMMA QueueIsTail ==
    ASSUME LimiterInv, NEW k \in Keys, NEW stamp \in Times, stamp <= clock, NEW s \in Nat, Slack <= s
    PROVE  /\ Queue(k, stamp) \in Seq(Times)
           /\ IsTail(Queue(k, stamp), granted[k], clock, s)
           /\ Queue(k, stamp) # <<>> =>
                /\ Queue(k, stamp)[1] >= stamp - Window
                /\ \E limit \in Limits : Len(Queue(k, stamp)) <= limit
<1>1. CASE k \in Cleaned(stamp - Window)
    <2>1. /\ Queue(k, stamp) = Pruned(hits[k], stamp - Window)
          /\ hits[k] \in Seq(Times) /\ granted[k] \in Seq(Grants) /\ clock \in Times
          /\ IsTail(hits[k], granted[k], clock, s)
        BY <1>1, CleanedIsTail DEF Queue, LimiterInv, LimiterOK, Grants
    <2>2. IsTail(Queue(k, stamp), granted[k], clock, s)
        BY <2>1, TailPruned
    <2>3. PICK e \in 0..Len(hits[k]) :
              /\ Queue(k, stamp) \in Seq(Times)
              /\ Len(Queue(k, stamp)) = Len(hits[k]) - e
              /\ \A i \in 1..(Len(hits[k]) - e) : Queue(k, stamp)[i] = hits[k][i + e]
              /\ e < Len(hits[k]) => hits[k][e + 1] >= stamp - Window
        <3> DEFINE h      == hits[k]
                   cutoff == stamp - Window
        <3>1. Queue(k, stamp) = Pruned(h, cutoff)
            BY <2>1
        <3>2. h \in Seq(Times) /\ cutoff \in Nat
            BY <2>1, TimesAreNat
        <3> HIDE DEF h, cutoff
        <3>3. \E e \in 0..Len(h) :
                 /\ Pruned(h, cutoff) \in Seq(Times)
                 /\ Len(Pruned(h, cutoff)) = Len(h) - e
                 /\ \A i \in 1..(Len(h) - e) : Pruned(h, cutoff)[i] = h[i + e]
                 /\ \A i \in 1..e : h[i] < cutoff
                 /\ e < Len(h) => h[e + 1] >= cutoff
            BY <3>2, PrunedIsTail
        <3>4. \E e \in 0..Len(h) :
                 /\ Queue(k, stamp) \in Seq(Times)
                 /\ Len(Queue(k, stamp)) = Len(h) - e
                 /\ \A i \in 1..(Len(h) - e) : Queue(k, stamp)[i] = h[i + e]
                 /\ e < Len(h) => h[e + 1] >= cutoff
            BY <3>1, <3>3
        <3> QED
            BY <3>4 DEF h, cutoff
    <2>4. PICK limit \in Limits : Len(hits[k]) <= limit
        BY <1>1, CleanedIsTail DEF LimiterInv, LimiterOK
    <2>5. Len(hits[k]) \in Nat /\ e \in Nat /\ limit \in Nat
        BY <2>1, LimiterAssumption
    <2>6. Len(Queue(k, stamp)) <= limit
        BY <2>3, <2>4, <2>5
    <2>7. ASSUME Queue(k, stamp) # <<>> PROVE Queue(k, stamp)[1] >= stamp - Window
        <3>1. Len(Queue(k, stamp)) > 0
            BY <2>3, <2>7, EmptySeq
        <3>2. e < Len(hits[k]) /\ 1 \in 1..(Len(hits[k]) - e) /\ 1 + e = e + 1
            BY <2>3, <2>5, <3>1
        <3> QED
            BY <2>3, <3>2
    <2> QED
        BY <2>2, <2>3, <2>6, <2>7
<1>2. CASE k \notin Cleaned(stamp - Window)
    BY <1>2, CleanedIsTail DEF Queue
<1> QED
    BY <1>1, <1>2

\* A decision, in the terms of the queue it counts.
LEMMA DecideIs ==
    ASSUME LimiterInv, NEW c \in Calls, Decide(c)
    PROVE  LET k     == call[c].key
               stamp == call[c].stamp
               limit == call[c].limit
               q     == Queue(k, stamp)
           IN  /\ k \in Keys /\ stamp \in Times /\ stamp <= clock /\ limit \in Limits
               /\ clock \in Times /\ clock' = clock
               /\ late' \in BOOLEAN /\ Slack' \in Nat /\ Slack <= Slack' /\ Slack' <= Skew
               /\ (~late' => Slack' = 0 /\ stamp = clock)
               /\ clock <= stamp + Slack'
               /\ hits' = [j \in Cleaned(stamp - Window) \cup {k} |->
                              IF j # k THEN hits[j] ELSE IF Len(q) < limit THEN Append(q, stamp) ELSE q]
               /\ granted' = IF Len(q) < limit
                             THEN [granted EXCEPT ![k] = Append(@, [at |-> clock, limit |-> limit])]
                             ELSE granted
               /\ call' = [call EXCEPT ![c].place = IF Len(q) < limit THEN "granted" ELSE "refused"]
<1>1. call[c] \in Waiting /\ clock \in Times /\ late \in BOOLEAN
    BY DEF Decide, LimiterInv, LimiterOK, Idle
<1>2. call[c].stamp <= clock /\ clock <= call[c].stamp + Skew
    BY DEF Decide, LimiterInv, StampsAreRecent
<1>3. call[c].key \in Keys /\ call[c].stamp \in Times /\ call[c].limit \in Limits
    BY <1>1 DEF Waiting
<1>4. late' = (late \/ clock > call[c].stamp) /\ clock' = clock
    BY DEF Decide
<1>5. clock \in Nat /\ call[c].stamp \in Nat /\ Skew \in Nat
    BY <1>1, <1>3, TimesAreNat, LimiterAssumption
<1>6. late' \in BOOLEAN /\ Slack' \in Nat /\ Slack <= Slack' /\ Slack' <= Skew
    BY <1>1, <1>4, <1>5 DEF Slack
<1>7. ~late' => Slack' = 0 /\ call[c].stamp = clock
    <2>1. ASSUME ~late' PROVE ~(clock > call[c].stamp)
        BY <1>4, <2>1
    <2>2. ~late' => Slack' = 0
        BY DEF Slack
    <2> QED
        BY <1>2, <1>5, <2>1, <2>2
<1>8. clock <= call[c].stamp + Slack'
    <2>1. late' => Slack' = Skew
        BY DEF Slack
    <2>2. CASE late'
        BY <1>2, <2>1, <2>2
    <2>3. CASE ~late'
        BY <1>5, <1>7, <2>3
    <2> QED
        BY <2>2, <2>3
<1> QED
    BY <1>1, <1>2, <1>3, <1>4, <1>6, <1>7, <1>8 DEF Decide, Queue

LEMMA DecideKeepsTail ==
    ASSUME LimiterInv, NEW c \in Calls, Decide(c)
    PROVE  HeldIsTail'
<1> DEFINE k     == call[c].key
           stamp == call[c].stamp
           limit == call[c].limit
           q     == Queue(k, stamp)
<1>1. /\ k \in Keys /\ stamp \in Times /\ stamp <= clock /\ limit \in Limits
      /\ clock \in Times /\ clock' = clock
      /\ Slack' \in Nat /\ Slack <= Slack' /\ clock <= stamp + Slack'
    BY DecideIs
<1>2. hits' = [j \in Cleaned(stamp - Window) \cup {k} |->
                  IF j # k THEN hits[j] ELSE IF Len(q) < limit THEN Append(q, stamp) ELSE q]
    BY DecideIs
<1>3. granted' = IF Len(q) < limit
                 THEN [granted EXCEPT ![k] = Append(@, [at |-> clock, limit |-> limit])]
                 ELSE granted
    BY DecideIs
<1>4. granted \in [Keys -> Seq(Grants)]
    BY DEF LimiterInv, LimiterOK, Grants
<1>5. q \in Seq(Times) /\ IsTail(q, granted[k], clock, Slack')
    BY <1>1, QueueIsTail
<1> HIDE DEF k, stamp, limit, q
<1>6. ASSUME NEW j \in Keys PROVE IsTail(Held(j)', granted'[j], clock, Slack')
    <2>1. CASE j = k /\ Len(q) < limit
        <3>1. Held(j)' = Append(q, stamp)
            BY <1>2, <2>1 DEF Held
        <3>2. granted'[j] = Append(granted[k], [at |-> clock, limit |-> limit])
            BY <1>1, <1>3, <1>4, <2>1
        <3> QED
            BY <1>1, <1>4, <1>5, <3>1, <3>2, TailGrows
    <2>2. CASE j = k /\ ~(Len(q) < limit)
        BY <1>2, <1>3, <1>5, <2>2 DEF Held
    <2>3. CASE j # k
        <3>1. granted'[j] = granted[j]
            BY <1>1, <1>3, <1>4, <2>3
        <3>2. /\ j \in Cleaned(stamp - Window) => Held(j)' = hits[j]
              /\ j \notin Cleaned(stamp - Window) => Held(j)' = <<>>
            BY <1>2, <2>3 DEF Held
        <3> QED
            BY <1>1, <3>1, <3>2, CleanedIsTail
    <2> QED
        BY <2>1, <2>2, <2>3
<1> QED
    BY <1>1, <1>6 DEF HeldIsTail

\* Every step keeps the types.
LEMMA LimiterTypeStep ==
    ASSUME LimiterInv, [LimiterNext]_limiterVars
    PROVE  LimiterOK'
<1>1. LimiterOK
    BY DEF LimiterInv
<1>2. ASSUME ClockTicks PROVE LimiterOK'
    <2>1. clock' \in Times
        BY <1>1, <1>2, LimiterAssumption DEF ClockTicks, LimiterOK, Times
    <2> QED
        BY <1>1, <1>2, <2>1 DEF ClockTicks, LimiterOK
<1>3. ASSUME NEW c \in Calls, NEW k \in Keys, NEW limit \in Limits, ReadClock(c, k, limit)
      PROVE  LimiterOK'
    <2>1. [place |-> "waiting", key |-> k, limit |-> limit, stamp |-> clock] \in Waiting
        BY <1>1 DEF LimiterOK, Waiting
    <2> QED
        BY <1>1, <1>3, <2>1 DEF ReadClock, LimiterOK
<1>4. ASSUME NEW c \in Calls, Decide(c) PROVE LimiterOK'
    <2> DEFINE k     == call[c].key
               stamp == call[c].stamp
               limit == call[c].limit
               q     == Queue(k, stamp)
    <2>1. /\ k \in Keys /\ stamp \in Times /\ stamp <= clock /\ limit \in Limits
          /\ clock \in Times /\ clock' = clock /\ late' \in BOOLEAN
          /\ Slack' \in Nat /\ Slack <= Slack'
        BY <1>4, DecideIs
    <2>2. hits' = [j \in Cleaned(stamp - Window) \cup {k} |->
                      IF j # k THEN hits[j] ELSE IF Len(q) < limit THEN Append(q, stamp) ELSE q]
        BY <1>4, DecideIs
    <2>3. granted' = IF Len(q) < limit
                     THEN [granted EXCEPT ![k] = Append(@, [at |-> clock, limit |-> limit])]
                     ELSE granted
        BY <1>4, DecideIs
    <2>4. call' = [call EXCEPT ![c].place = IF Len(q) < limit THEN "granted" ELSE "refused"]
        BY <1>4, DecideIs
    <2>5. /\ q \in Seq(Times)
          /\ q # <<>> => \E n \in Limits : Len(q) <= n
        BY <2>1, QueueIsTail
    <2>6. Cleaned(stamp - Window) \subseteq DOMAIN hits
        BY DEF Cleaned
    <2>7. call[c] \in Waiting
        BY <1>1, <1>4 DEF Decide, LimiterOK, Idle
    <2>8. call' \in [Calls -> {Idle} \cup Waiting]
        BY <1>1, <2>4, <2>7 DEF LimiterOK, Waiting
    <2>9. granted' \in [Keys -> Seq([at : Times, limit : Limits])]
        <3> HIDE DEF k, stamp, limit, q
        <3>1. granted \in [Keys -> Seq(Grants)]
            BY <1>1 DEF LimiterOK, Grants
        <3>2. [at |-> clock, limit |-> limit] \in Grants
            BY <2>1 DEF Grants
        <3>3. Append(granted[k], [at |-> clock, limit |-> limit]) \in Seq(Grants)
            BY <2>1, <3>1, <3>2
        <3>4. granted' \in [Keys -> Seq(Grants)]
            BY <2>3, <3>1, <3>3
        <3> QED
            BY <3>4 DEF Grants
    <2> HIDE DEF k, stamp, limit, q
    <2>10. limit \in Nat /\ limit > 0 /\ Len(q) \in Nat /\ Len(<<>>) = 0
        <3>1. limit \in Nat \ {0}
            BY <2>1, LimiterAssumption
        <3>2. \A n \in Nat \ {0} : n \in Nat /\ n > 0
            OBVIOUS
        <3> QED
            BY <2>5, <3>1, <3>2
    <2>11. DOMAIN hits' \subseteq Keys
        BY <1>1, <2>1, <2>2, <2>6 DEF LimiterOK
    <2>12. ASSUME NEW j \in DOMAIN hits'
           PROVE  hits'[j] \in Seq(Times) /\ \E n \in Limits : Len(hits'[j]) <= n
        <3>1. CASE j # k
            <4>1. j \in DOMAIN hits /\ hits'[j] = hits[j]
                BY <2>2, <2>6, <2>12, <3>1
            <4> QED
                BY <1>1, <4>1 DEF LimiterOK
        <3>2. CASE j = k /\ Len(q) < limit
            <4>1. hits'[j] = Append(q, stamp)
                BY <2>2, <2>12, <3>2
            <4>2. Append(q, stamp) \in Seq(Times) /\ Len(Append(q, stamp)) = Len(q) + 1
                BY <2>1, <2>5
            <4>3. Len(q) + 1 <= limit
                BY <2>10, <3>2
            <4> QED
                BY <2>1, <4>1, <4>2, <4>3
        <3>3. CASE j = k /\ ~(Len(q) < limit)
            <4>1. hits'[j] = q
                BY <2>2, <2>12, <3>3
            <4>2. q # <<>>
                BY <2>10, <3>3
            <4> QED
                BY <2>5, <4>1, <4>2
        <3> QED
            BY <3>1, <3>2, <3>3
    <2> QED
        BY <2>1, <2>8, <2>9, <2>11, <2>12 DEF LimiterOK
<1>5. ASSUME UNCHANGED limiterVars PROVE LimiterOK'
    BY <1>1, <1>5 DEF limiterVars, LimiterOK
<1> QED
    BY <1>2, <1>3, <1>4, <1>5 DEF LimiterNext

\* The clock waits for who waits for the mutex.
LEMMA StampsStep ==
    ASSUME LimiterInv, [LimiterNext]_limiterVars
    PROVE  StampsAreRecent'
<1>1. LimiterOK /\ StampsAreRecent
    BY DEF LimiterInv
<1>2. clock \in Nat /\ Skew \in Nat
    BY <1>1, TimesAreNat, LimiterAssumption DEF LimiterOK
<1>3. ASSUME NEW c \in Calls, call[c].place = "waiting" PROVE call[c].stamp \in Nat
    <2>1. call[c] \in Waiting
        BY <1>1, <1>3 DEF LimiterOK, Idle
    <2> QED
        BY <2>1, TimesAreNat DEF Waiting
<1>4. ASSUME ClockTicks PROVE StampsAreRecent'
    <2> SUFFICES ASSUME NEW c \in Calls, call[c].place = "waiting"
                 PROVE  call[c].stamp <= clock + 1 /\ clock + 1 <= call[c].stamp + Skew
        BY <1>4 DEF ClockTicks, StampsAreRecent
    <2>1. clock < call[c].stamp + Skew /\ call[c].stamp <= clock
        BY <1>1, <1>4 DEF ClockTicks, StampsAreRecent
    <2> QED
        BY <1>2, <1>3, <2>1
<1>5. ASSUME NEW c \in Calls, NEW k \in Keys, NEW limit \in Limits, ReadClock(c, k, limit)
      PROVE  StampsAreRecent'
    <2>1. clock <= clock + Skew
        BY <1>2
    <2> QED
        BY <1>1, <1>2, <1>5, <2>1 DEF ReadClock, LimiterOK, StampsAreRecent
<1>6. ASSUME NEW c \in Calls, Decide(c) PROVE StampsAreRecent'
    <2>1. \A d \in Calls : call'[d].place = "waiting" => call'[d] = call[d]
        BY <1>1, <1>6 DEF Decide, LimiterOK, Waiting, Idle
    <2>2. clock' = clock /\ \A d \in Calls : call'[d].place = "waiting" => call[d].place = "waiting"
        BY <1>6, <2>1 DEF Decide
    <2> QED
        BY <1>1, <2>1, <2>2 DEF StampsAreRecent
<1>7. ASSUME UNCHANGED limiterVars PROVE StampsAreRecent'
    BY <1>1, <1>7 DEF limiterVars, StampsAreRecent
<1> QED
    BY <1>4, <1>5, <1>6, <1>7 DEF LimiterNext

\* What is granted now is the latest.
LEMMA InOrderStep ==
    ASSUME LimiterInv, [LimiterNext]_limiterVars
    PROVE  GrantsInOrder'
<1>1. LimiterOK /\ GrantsInOrder
    BY DEF LimiterInv
<1>2. clock \in Nat /\ granted \in [Keys -> Seq(Grants)]
    BY <1>1, TimesAreNat DEF LimiterOK, Grants
<1>3. ASSUME granted' = granted, clock' \in {clock, clock + 1} PROVE GrantsInOrder'
    <2> SUFFICES ASSUME NEW k \in Keys, NEW i \in DOMAIN granted[k]
                 PROVE  /\ granted[k][i].at <= clock'
                        /\ \A j \in 1..i : granted[k][j].at <= granted[k][i].at
        BY <1>3 DEF GrantsInOrder
    <2>1. granted[k][i].at \in Nat /\ granted[k][i].at <= clock
        BY <1>1, <1>2, GrantsType DEF GrantsInOrder
    <2> QED
        BY <1>1, <1>2, <1>3, <2>1 DEF GrantsInOrder
<1>4. ASSUME NEW c \in Calls, Decide(c) PROVE GrantsInOrder'
    <2> DEFINE k     == call[c].key
               limit == call[c].limit
               q     == Queue(k, call[c].stamp)
    <2>1. /\ k \in Keys /\ limit \in Limits /\ clock \in Times /\ clock' = clock
          /\ granted' = IF Len(q) < limit
                        THEN [granted EXCEPT ![k] = Append(@, [at |-> clock, limit |-> limit])]
                        ELSE granted
        BY <1>4, DecideIs
    <2> HIDE DEF k, limit, q
    <2>2. CASE Len(q) < limit
        <3> DEFINE g == granted[k]
                   x == [at |-> clock, limit |-> limit]
        <3>1. g \in Seq(Grants) /\ x \in Grants /\ x.at = clock
            BY <1>2, <2>1 DEF Grants
        <3>2. /\ granted'[k] = Append(g, x) /\ \A j \in Keys \ {k} : granted'[j] = granted[j]
              /\ Len(g) \in Nat
            BY <1>2, <2>1, <2>2
        <3>3. /\ DOMAIN Append(g, x) = 1..(Len(g) + 1) /\ Append(g, x)[Len(g) + 1] = x
              /\ \A i \in 1..Len(g) : Append(g, x)[i] = g[i]
            BY <3>1
        <3>4. \A i \in 1..Len(g) : g[i].at <= clock /\ \A j \in 1..i : g[j].at <= g[i].at
            BY <1>1, <2>1, <3>1 DEF GrantsInOrder
        <3> HIDE DEF g, x
        <3>5. ASSUME NEW i \in 1..(Len(g) + 1)
              PROVE  /\ Append(g, x)[i].at <= clock
                     /\ \A j \in 1..i : Append(g, x)[j].at <= Append(g, x)[i].at
            <4>1. CASE i \in 1..Len(g)
                <5>1. \A j \in 1..i : j \in 1..Len(g)
                    BY <3>2, <4>1
                <5> QED
                    BY <3>3, <3>4, <4>1, <5>1
            <4>2. CASE i \notin 1..Len(g)
                <5>1. i = Len(g) + 1 /\ \A j \in 1..i : j \in 1..Len(g) \/ j = Len(g) + 1
                    BY <3>2, <4>2
                <5>2. clock <= clock
                    BY <1>2
                <5> QED
                    BY <3>1, <3>3, <3>4, <5>1, <5>2
            <4> QED
                BY <4>1, <4>2
        <3>6. \A i \in DOMAIN granted'[k] : /\ granted'[k][i].at <= clock'
                                           /\ \A j \in 1..i : granted'[k][j].at <= granted'[k][i].at
            BY <2>1, <3>2, <3>3, <3>5
        <3> QED
            BY <1>1, <2>1, <3>2, <3>6 DEF GrantsInOrder
    <2>3. CASE ~(Len(q) < limit)
        BY <1>3, <2>1, <2>3
    <2> QED
        BY <2>2, <2>3
<1>5. ASSUME ClockTicks \/ UNCHANGED limiterVars PROVE GrantsInOrder'
    BY <1>3, <1>5 DEF ClockTicks, limiterVars
<1>6. ASSUME NEW c \in Calls, NEW k \in Keys, NEW limit \in Limits, ReadClock(c, k, limit)
      PROVE  GrantsInOrder'
    BY <1>3, <1>6 DEF ReadClock
<1> QED
    BY <1>4, <1>5, <1>6 DEF LimiterNext

\* Nothing but a decision changes what is held.
LEMMA HeldStep ==
    ASSUME LimiterInv, [LimiterNext]_limiterVars
    PROVE  HeldIsTail'
<1>1. LimiterOK /\ HeldIsTail
    BY DEF LimiterInv
<1>2. ASSUME UNCHANGED <<hits, granted, late>>, clock' \in {clock, clock + 1}, clock' \in Times
      PROVE  HeldIsTail'
    <2> SUFFICES ASSUME NEW k \in Keys PROVE IsTail(Held(k), granted[k], clock', Slack)
        BY <1>2 DEF HeldIsTail, Held, Slack
    <2>1. clock \in Times /\ clock' \in Times /\ clock <= clock' /\ Slack \in Nat /\ Slack <= Slack
        BY <1>1, <1>2, TimesAreNat, LimiterAssumption DEF LimiterOK, Slack
    <2>2. \A j \in DOMAIN hits : hits[j] \in Seq(Times)
        BY <1>1 DEF LimiterOK
    <2>3. Held(k) \in Seq(Times) /\ granted[k] \in Seq(Grants)
        <3>1. Held(k) \in Seq(Times)
            BY <2>2 DEF Held
        <3> QED
            BY <1>1, <3>1 DEF LimiterOK, Grants
    <2>4. IsTail(Held(k), granted[k], clock, Slack)
        BY <1>1 DEF HeldIsTail
    <2> QED
        BY <2>1, <2>3, <2>4, TailStays
<1>3. clock' \in Times
    BY LimiterTypeStep DEF LimiterOK
<1>4. ASSUME ClockTicks \/ UNCHANGED limiterVars PROVE HeldIsTail'
    BY <1>2, <1>3, <1>4 DEF ClockTicks, limiterVars
<1>5. ASSUME NEW c \in Calls, NEW k \in Keys, NEW limit \in Limits, ReadClock(c, k, limit)
      PROVE  HeldIsTail'
    BY <1>2, <1>3, <1>5 DEF ReadClock
<1> QED
    BY <1>4, <1>5, DecideKeepsTail DEF LimiterNext

\* The inductive invariant of the limiter: what it holds of a key is the end of
\* what it granted.
THEOREM LimiterInvariant == LimiterSpec => []LimiterInv
<1>1. LimiterInit => LimiterInv
    <2> SUFFICES ASSUME LimiterInit PROVE LimiterInv
        OBVIOUS
    <2>1. Window \in Times /\ late \in BOOLEAN /\ DOMAIN hits = {}
        <3>1. \A w, l \in Nat : w \in w..(w + l)
            OBVIOUS
        <3>2. Window \in Times
            BY <3>1, LimiterAssumption DEF Times
        <3>3. late \in BOOLEAN
            BY DEF LimiterInit
        <3>4. DOMAIN <<>> = {}
            OBVIOUS
        <3> QED
            BY <3>2, <3>3, <3>4 DEF LimiterInit
    <2>2. LimiterOK
        BY <2>1 DEF LimiterInit, LimiterOK
    <2>3. StampsAreRecent
        BY DEF LimiterInit, StampsAreRecent, Idle
    <2>4. GrantsInOrder
        BY DEF LimiterInit, GrantsInOrder
    <2>5. HeldIsTail
        <3>1. \A k \in Keys : Held(k) = <<>> /\ granted[k] = <<>>
            BY <2>1 DEF LimiterInit, Held
        <3>2. Len(<<>>) = 0 /\ 1..(0 - 0) = {} /\ 1..0 = {} /\ 0 <= 0
            OBVIOUS
        <3>3. IsTail(<<>>, <<>>, clock, Slack)
            BY <3>2 DEF IsTail
        <3> QED
            BY <3>1, <3>3 DEF HeldIsTail
    <2> QED
        BY <2>2, <2>3, <2>4, <2>5 DEF LimiterInv
<1>2. LimiterInv /\ [LimiterNext]_limiterVars => LimiterInv'
    BY LimiterTypeStep, StampsStep, InOrderStep, HeldStep DEF LimiterInv
<1> QED
    BY <1>1, <1>2, PTL DEF LimiterSpec

\* No key ever holds more times than the largest limit (RateLimiter.hits).
THEOREM LimiterTypeCorrect == LimiterSpec => []LimiterOK
<1>1. LimiterInv => LimiterOK
    BY DEF LimiterInv
<1> QED
    BY <1>1, LimiterInvariant, PTL

\* The grants that are out of the queue are out of the window too, be it shorter by
\* what the threads may be late; and the queue is the window when none is.
LEMMA QueueCounts ==
    ASSUME LimiterInv, NEW c \in Calls, Decide(c)
    PROVE  LET k == call[c].key
               q == Queue(k, call[c].stamp)
           IN  /\ Len(q) \in Nat
               /\ Cardinality(Recent(k, Window - Skew)) \in Nat
               /\ Cardinality(Recent(k, Window - Skew)) <= Len(q)
               /\ ~late' => Cardinality(Recent(k, Window)) = Len(q)
<1> DEFINE k     == call[c].key
           stamp == call[c].stamp
           q     == Queue(k, stamp)
           g     == granted[k]
           gone  == Len(g) - Len(q)
<1>1. /\ k \in Keys /\ stamp \in Times /\ stamp <= clock /\ clock \in Times
      /\ Slack' \in Nat /\ Slack <= Slack' /\ Slack' <= Skew
      /\ (~late' => Slack' = 0 /\ stamp = clock)
    BY DecideIs
<1>2. q \in Seq(Times) /\ IsTail(q, g, clock, Slack') /\ (q # <<>> => q[1] >= stamp - Window)
    BY <1>1, QueueIsTail
<1>3. g \in Seq(Grants) /\ \A i \in DOMAIN g : \A j \in 1..i : g[j].at <= g[i].at
    BY <1>1 DEF LimiterInv, LimiterOK, GrantsInOrder, Grants
<1>4. \A i \in 1..Len(g) : g[i].at \in Nat
    BY <1>3, GrantsType
<1>5. /\ DOMAIN g = 1..Len(g) /\ Len(g) \in Nat /\ Len(q) \in Nat /\ gone \in Nat
      /\ Len(q) + gone = Len(g)
    <2>1. Len(q) \in Nat /\ Len(g) \in Nat /\ Len(q) <= Len(g) /\ DOMAIN g = 1..Len(g)
        BY <1>2, <1>3, QueueType, GrantsType DEF IsTail
    <2> QED
        BY <2>1
<1>6. \A i \in 1..gone : g[i].at + Window < clock + Slack'
    BY <1>2 DEF IsTail
<1>7. clock \in Nat /\ Window \in Nat /\ Skew \in Nat /\ Skew <= Window /\ Window <= clock
    BY <1>1, TimesAreNat, LimiterAssumption
<1>8. IsFiniteSet((gone + 1)..Len(g)) /\ Cardinality((gone + 1)..Len(g)) = Len(q)
    <2>1. gone + 1 \in Int /\ Len(g) \in Int
        BY <1>5
    <2>2. \A a, b, n \in Nat : n + a = b => (IF a + 1 > b THEN 0 ELSE b - (a + 1) + 1) = n
        OBVIOUS
    <2> HIDE DEF gone, q, g
    <2>3. (IF gone + 1 > Len(g) THEN 0 ELSE Len(g) - (gone + 1) + 1) = Len(q)
        BY <1>5, <2>2
    <2>4. \A a, b \in Int : IsFiniteSet(a..b) /\ Cardinality(a..b) = IF a > b THEN 0 ELSE b - a + 1
        BY FS_Interval
    <2> QED
        BY <2>1, <2>3, <2>4
<1> HIDE DEF k, stamp, q, g, gone
<1>9. ASSUME NEW w \in Nat, w + Slack' <= Window
      PROVE  {i \in DOMAIN g : g[i].at >= clock - w} \subseteq (gone + 1)..Len(g)
    <2> SUFFICES ASSUME NEW i \in 1..Len(g), g[i].at >= clock - w PROVE i \in (gone + 1)..Len(g)
        BY <1>5
    <2>1. i \notin 1..gone
        <3>1. ASSUME i \in 1..gone PROVE FALSE
            <4>1. g[i].at + Window < clock + Slack' /\ g[i].at \in Nat
                BY <1>4, <1>6, <3>1
            <4>2. ASSUME NEW a \in Nat, NEW t \in Nat, NEW r \in Nat, NEW win \in Nat,
                         a + win < t + r, a >= t - w, w + r <= win
                  PROVE  FALSE
                BY <4>2
            <4> QED
                BY <1>1, <1>7, <1>9, <4>1, <4>2
        <3> QED
            BY <3>1
    <2> QED
        BY <1>5, <2>1
<1>10. /\ Cardinality(Recent(k, Window - Skew)) \in Nat
       /\ Cardinality(Recent(k, Window - Skew)) <= Len(q)
    <2>1. Window - Skew \in Nat /\ (Window - Skew) + Slack' <= Window
        <3>1. \A a, b, r \in Nat : b <= a /\ r <= b => a - b \in Nat /\ (a - b) + r <= a
            OBVIOUS
        <3> QED
            BY <1>1, <1>7, <3>1
    <2>2. Recent(k, Window - Skew) \subseteq (gone + 1)..Len(g)
        BY <1>9, <2>1 DEF Recent, g
    <2>3. IsFiniteSet(Recent(k, Window - Skew)) /\ Cardinality(Recent(k, Window - Skew)) <= Len(q)
        <3> DEFINE R == Recent(k, Window - Skew)
                   D == (gone + 1)..Len(g)
        <3>1. R \subseteq D /\ IsFiniteSet(D) /\ Cardinality(D) = Len(q)
            BY <1>8, <2>2
        <3> HIDE DEF R, D
        <3>2. IsFiniteSet(R) /\ Cardinality(R) <= Cardinality(D)
            BY <3>1, FS_Subset
        <3> QED
            BY <3>1, <3>2 DEF R
    <2> QED
        BY <2>3, FS_CardinalityType
<1>11. ASSUME ~late' PROVE Cardinality(Recent(k, Window)) = Len(q)
    <2>1. Slack' = 0 /\ stamp = clock /\ Window + 0 <= Window
        BY <1>1, <1>7, <1>11
    <2>2. Recent(k, Window) \subseteq (gone + 1)..Len(g)
        BY <1>7, <1>9, <2>1 DEF Recent, g
    <2>3. ASSUME NEW i \in (gone + 1)..Len(g) PROVE g[i].at >= clock - Window
        <3>1. /\ i \in 1..Len(g) /\ gone + 1 \in 1..Len(g) /\ gone + 1 \in 1..i
              /\ 1 \in 1..Len(q) /\ 1 + gone = gone + 1
            BY <1>5
        <3>2. q # <<>> /\ q[1] \in Nat
            BY <1>2, <3>1, QueueType
        <3>3. q[1] >= clock - Window
            BY <1>2, <2>1, <3>2
        <3>4. q[1] <= g[1 + gone].at
            BY <1>2, <3>1 DEF IsTail, gone
        <3>5. g[gone + 1].at <= g[i].at /\ g[i].at \in Nat /\ g[gone + 1].at \in Nat
            BY <1>3, <1>4, <1>5, <3>1
        <3>6. clock - Window \in Nat
            BY <1>7
        <3>7. \A a, b, x, y \in Nat : a >= x /\ a <= b /\ b <= y => y >= x
            OBVIOUS
        <3> QED
            BY <3>1, <3>2, <3>3, <3>4, <3>5, <3>6, <3>7
    <2>4. \A i \in (gone + 1)..Len(g) : i \in DOMAIN g
        BY <1>5
    <2>5. Recent(k, Window) = (gone + 1)..Len(g)
        BY <2>2, <2>3, <2>4 DEF Recent, g
    <2> QED
        BY <1>8, <2>5
<1> QED
    BY <1>5, <1>10, <1>11 DEF k, q, stamp

\* Who decides.
LEMMA OnlyDecideDecides ==
    ASSUME LimiterInv, LimiterNext, NEW c \in Calls, Decided(c)
    PROVE  Decide(c)
<1>1. call \in [Calls -> {Idle} \cup Waiting]
    BY DEF LimiterInv, LimiterOK
<1>2. ~ClockTicks
    BY DEF ClockTicks, Decided
<1>3. ASSUME NEW d \in Calls, NEW k \in Keys, NEW limit \in Limits, ReadClock(d, k, limit)
      PROVE  FALSE
    BY <1>1, <1>3 DEF ReadClock, Decided, Idle
<1>4. ASSUME NEW d \in Calls, Decide(d) PROVE d = c
    BY <1>1, <1>4 DEF Decide, Decided
<1> QED
    BY <1>2, <1>3, <1>4 DEF LimiterNext

LEMMA DecidedByQueue ==
    ASSUME LimiterInv, NEW c \in Calls, Decide(c)
    PROVE  call'[c].place = "granted" <=> Len(Queue(call[c].key, call[c].stamp)) < call[c].limit
<1> DEFINE q == Queue(call[c].key, call[c].stamp)
<1>1. call' = [call EXCEPT ![c].place = IF Len(q) < call[c].limit THEN "granted" ELSE "refused"]
    BY DecideIs
<1>2. call \in [Calls -> {Idle} \cup Waiting] /\ call[c] \in Waiting
    BY DEF LimiterInv, LimiterOK, Decide, Idle
<1> HIDE DEF q
<1>3. call'[c].place = IF Len(q) < call[c].limit THEN "granted" ELSE "refused"
    BY <1>1, <1>2 DEF Waiting
<1> QED
    BY <1>3 DEF q

\* As long as the mutex is taken in the second in which the clock was read, a
\* request is granted if and only if fewer than its limit were granted in the last
\* Window seconds, through every pruning and every cleanup.
THEOREM WindowRolls == LimiterSpec => RollingWindow
<1> DEFINE Right == \A c \in Calls : Decided(c) /\ ~late' =>
                      (call'[c].place = "granted"
                          <=> Cardinality(Recent(call[c].key, Window)) < call[c].limit)
<1>1. ASSUME LimiterInv, [LimiterNext]_limiterVars PROVE [Right]_limiterVars
    <2> SUFFICES ASSUME LimiterNext, NEW c \in Calls, Decided(c), ~late'
                 PROVE  call'[c].place = "granted"
                          <=> Cardinality(Recent(call[c].key, Window)) < call[c].limit
        BY <1>1
    <2>1. Decide(c)
        BY <1>1, OnlyDecideDecides
    <2>2. Cardinality(Recent(call[c].key, Window)) = Len(Queue(call[c].key, call[c].stamp))
        BY <1>1, <2>1, QueueCounts
    <2> QED
        BY <1>1, <2>1, <2>2, DecidedByQueue
<1> QED
    BY <1>1, LimiterInvariant, PTL DEF LimiterSpec, RollingWindow

\* Threads that wait up to Skew seconds for the mutex grant no more than the limit
\* over a window that is shorter by as much.
THEOREM LimitHolds == LimiterSpec => LimitWithinSkew
<1> DEFINE Within == \A c \in Calls : Decided(c) /\ call'[c].place = "granted" =>
                       Cardinality(Recent(call[c].key, Window - Skew)) < call[c].limit
<1>1. ASSUME LimiterInv, [LimiterNext]_limiterVars PROVE [Within]_limiterVars
    <2> SUFFICES ASSUME LimiterNext, NEW c \in Calls, Decided(c), call'[c].place = "granted"
                 PROVE  Cardinality(Recent(call[c].key, Window - Skew)) < call[c].limit
        BY <1>1
    <2>1. Decide(c)
        BY <1>1, OnlyDecideDecides
    <2>2. Len(Queue(call[c].key, call[c].stamp)) < call[c].limit
        BY <1>1, <2>1, DecidedByQueue
    <2>3. /\ Len(Queue(call[c].key, call[c].stamp)) \in Nat
          /\ Cardinality(Recent(call[c].key, Window - Skew)) \in Nat
          /\ Cardinality(Recent(call[c].key, Window - Skew)) <= Len(Queue(call[c].key, call[c].stamp))
        BY <1>1, <2>1, QueueCounts
    <2>4. call[c].limit \in Nat
        <3>1. call[c].limit \in Limits
            BY <1>1, <2>1, DecideIs
        <3> QED
            BY <3>1, LimiterAssumption
    <2> QED
        BY <2>2, <2>3, <2>4
<1> QED
    BY <1>1, LimiterInvariant, PTL DEF LimiterSpec, LimitWithinSkew

-----------------------------------------------------------------------------
(* The locks: the sections, and the removal of a place from a queue.       *)

\* Every section takes a lock first; the second is taken in order, but for the
\* settings.
LEMMA SectionsInOrder ==
    ASSUME NEW s \in Sections
    PROVE  /\ Section[s].first \in Grip
           /\ Section[s].second \in Grip \cup {NoGrip}
           /\ Section[s].second # NoGrip =>
                /\ Section[s].first = Read("inner")
                /\ \/ Section[s].second = Read("log_ring")
                   \/ s = "settings" /\ Section[s].second = Read("inner")
<1>1. s \in DOMAIN Section
    BY SectionsAssumption
<1> QED
    BY <1>1 DEF Section, ResolveCaller, Update, SetState, TopologyPeers, SettingsJson, RecentLog,
                LogRoute, ApiMessages, LogChat, Takes, TakesBoth, Read, Write, NoGrip, Grip,
                LockNames, Modes

\* A queue without its place i.
WithoutPlace(q, i, r) ==
    /\ r \in Seq(Tasks) /\ Len(r) = Len(q) - 1
    /\ \A j \in 1..Len(r) : r[j] = IF j < i THEN q[j] ELSE q[j + 1]

\* RemoveAt takes out one place.
LEMMA RemoveAtIsWithout ==
    ASSUME NEW q \in Seq(Tasks), NEW i \in DOMAIN q
    PROVE  WithoutPlace(q, i, RemoveAt(q, i))
<1>1. i \in 1..Len(q) /\ Len(q) \in Nat
    BY LenProperties
<1> DEFINE a == SubSeq(q, 1, i - 1)
           b == SubSeq(q, i + 1, Len(q))
<1>2. a \in Seq(Tasks) /\ Len(a) = i - 1 /\ \A j \in 1..(i - 1) : a[j] = q[j]
    BY <1>1, SubSeqProperties
<1>3. b \in Seq(Tasks) /\ Len(b) = Len(q) - i /\ \A j \in 1..(Len(q) - i) : b[j] = q[i + j]
    BY <1>1, SubSeqProperties
<1> DEFINE c == a \o b
<1>4. /\ c \in Seq(Tasks) /\ Len(c) = Len(a) + Len(b)
      /\ \A j \in 1..(Len(a) + Len(b)) : c[j] = IF j <= Len(a) THEN a[j] ELSE b[j - Len(a)]
    BY <1>2, <1>3, ConcatProperties
<1> HIDE DEF a, b, c
<1>5. Len(c) = Len(q) - 1 /\ Len(a) + Len(b) = Len(q) - 1
    BY <1>1, <1>2, <1>3, <1>4
<1>6. ASSUME NEW j \in 1..(Len(q) - 1)
      PROVE  c[j] = IF j < i THEN q[j] ELSE q[j + 1]
    <2>1. CASE j < i
        <3>1. j \in 1..(i - 1) /\ j <= Len(a) /\ j \in 1..(Len(a) + Len(b))
            BY <2>1, <1>1, <1>2, <1>5
        <3>2. c[j] = a[j]
            BY <3>1, <1>4
        <3> QED
            BY <2>1, <3>1, <3>2, <1>2
    <2>2. CASE ~(j < i)
        <3>1. /\ j - (i - 1) \in 1..(Len(q) - i) /\ i + (j - (i - 1)) = j + 1
              /\ ~(j <= Len(a)) /\ j \in 1..(Len(a) + Len(b)) /\ j - Len(a) = j - (i - 1)
            BY <2>2, <1>1, <1>2, <1>5
        <3>2. c[j] = b[j - (i - 1)]
            BY <3>1, <1>4
        <3> QED
            BY <2>2, <3>1, <3>2, <1>3
    <2> QED
        BY <2>1, <2>2
<1>7. c = RemoveAt(q, i)
    BY DEF RemoveAt, a, b, c
<1> QED
    BY <1>4, <1>5, <1>6, <1>7 DEF WithoutPlace

\* Tail takes out the first.
LEMMA TailIsWithout ==
    ASSUME NEW q \in Seq(Tasks), q # <<>>
    PROVE  1 \in DOMAIN q /\ Head(q) = q[1] /\ WithoutPlace(q, 1, Tail(q))
<1>1. Len(q) \in Nat /\ Len(q) # 0
    BY LenProperties, EmptySeq
<1>2. Tail(q) \in Seq(Tasks) /\ Len(Tail(q)) = Len(q) - 1
      /\ \A j \in 1..Len(Tail(q)) : Tail(q)[j] = q[j + 1]
    BY HeadTailProperties
<1> QED
    BY <1>1, <1>2, LenProperties DEF WithoutPlace

-----------------------------------------------------------------------------
(* The queues, whoever moves.                                              *)

Queues == QueuedWait /\ WaitersQueued /\ QueuedOnce

\* A step of a task does not change what the others hold and want.
LEMMA OthersStay ==
    ASSUME LocksOK, NEW t \in Tasks, NEW r, run' = [run EXCEPT ![t] = r],
           NEW u \in Tasks, u # t
    PROVE  run'[u] = run[u] /\ (Waits(u)' <=> Waits(u)) /\ Wanted(u)' = Wanted(u)
<1>1. run'[u] = run[u]
    BY DEF LocksOK
<1> QED
    BY <1>1 DEF Waits, Wanted, First, Second

\* What is in a queue is a task, which waits for that lock.
LEMMA QueuedTask ==
    ASSUME LocksOK, QueuedWait, NEW l \in LockNames, NEW i \in DOMAIN queue[l]
    PROVE  queue[l][i] \in Tasks /\ Waits(queue[l][i]) /\ Wanted(queue[l][i]).lock = l
<1>1. queue[l] \in Seq(Tasks)
    BY DEF LocksOK
<1>2. queue[l][i] \in Tasks
    BY <1>1, LenProperties, ElementOfSeq
<1> QED
    BY <1>2 DEF QueuedWait

\* A task that waits before and after, or neither, leaves the queues as they are.
LEMMA StayKeeps ==
    ASSUME LocksOK, Queues, NEW t \in Tasks, NEW r, run' = [run EXCEPT ![t] = r],
           ~Waits(t), ~Waits(t)', UNCHANGED queue
    PROVE  Queues'
<1>1. \A l \in LockNames : \A i \in DOMAIN queue[l] : queue[l][i] \in Tasks /\ queue[l][i] # t
    BY QueuedTask DEF Queues
<1>2. QueuedWait'
    <2> SUFFICES ASSUME NEW k \in LockNames, NEW i \in DOMAIN queue[k]
                 PROVE  (Waits(queue[k][i]) /\ Wanted(queue[k][i]).lock = k)'
        BY DEF QueuedWait
    <2>1. PICK u \in Tasks : u = queue[k][i] /\ u # t
        BY <1>1
    <2>2. Waits(u) /\ Wanted(u).lock = k
        BY <2>1 DEF Queues, QueuedWait
    <2>3. run'[queue'[k][i]] = run[u]
        BY <2>1, OthersStay
    <2> QED
        BY <2>2, <2>3 DEF Waits, Wanted, First, Second
<1>3. WaitersQueued'
    <2> SUFFICES ASSUME NEW u \in Tasks, Waits(u)'
                 PROVE  (\E i \in DOMAIN queue[Wanted(u).lock] : queue[Wanted(u).lock][i] = u)'
        BY DEF WaitersQueued
    <2>1. u # t
        OBVIOUS
    <2>2. Waits(u) /\ Wanted(u)' = Wanted(u)
        BY <2>1, OthersStay
    <2>3. \E i \in DOMAIN queue[Wanted(u).lock] : queue[Wanted(u).lock][i] = u
        BY <2>2 DEF Queues, WaitersQueued
    <2> QED
        BY <2>2, <2>3
<1> QED
    BY <1>2, <1>3 DEF Queues, QueuedOnce

\* A task that begins to wait joins the queue of the lock it wants.
LEMMA JoinKeeps ==
    ASSUME LocksOK, Queues, NEW t \in Tasks, NEW r, run' = [run EXCEPT ![t] = r],
           NEW l \in LockNames, Joins(t, l),
           ~Waits(t), Waits(t)', Wanted(t)'.lock = l
    PROVE  Queues' /\ queue' \in [LockNames -> Seq(Tasks)]
<1>1. \A k \in LockNames : \A i \in DOMAIN queue[k] : queue[k][i] \in Tasks /\ queue[k][i] # t
    BY QueuedTask DEF Queues
<1> DEFINE q == Append(queue[l], t)
<1>2. queue[l] \in Seq(Tasks) /\ Len(queue[l]) \in Nat /\ DOMAIN queue[l] = 1..Len(queue[l])
    BY LenProperties DEF LocksOK
<1>3. /\ q \in Seq(Tasks) /\ DOMAIN q = 1..(Len(queue[l]) + 1)
      /\ q[Len(queue[l]) + 1] = t
      /\ \A i \in 1..Len(queue[l]) : q[i] = queue[l][i]
    BY <1>2, AppendProperties, LenProperties
<1>4. queue'[l] = q /\ (\A k \in LockNames : k # l => queue'[k] = queue[k])
      /\ queue' \in [LockNames -> Seq(Tasks)]
    BY <1>3 DEF Joins, LocksOK
<1> HIDE DEF q
<1>5. QueuedWait'
    <2> SUFFICES ASSUME NEW k \in LockNames, NEW i \in DOMAIN queue'[k]
                 PROVE  (Waits(queue[k][i]) /\ Wanted(queue[k][i]).lock = k)'
        BY DEF QueuedWait
    <2>1. CASE k = l /\ i = Len(queue[l]) + 1
        <3>1. queue'[k][i] = t
            BY <2>1, <1>3, <1>4
        <3>2. run'[queue'[k][i]] = run'[t] /\ k = l
            BY <2>1, <3>1
        <3> QED
            BY <3>2 DEF Waits, Wanted, First, Second
    <2>2. CASE ~(k = l /\ i = Len(queue[l]) + 1)
        <3>1. i \in DOMAIN queue[k] /\ queue'[k][i] = queue[k][i]
            <4>1. CASE k # l
                BY <4>1, <1>4
            <4>2. CASE k = l
                <5>1. i \in 1..(Len(queue[l]) + 1) /\ i # Len(queue[l]) + 1
                    BY <2>2, <4>2, <1>3, <1>4
                <5>2. i \in 1..Len(queue[l])
                    BY <5>1, <1>2
                <5> QED
                    BY <4>2, <5>2, <1>2, <1>3, <1>4
            <4> QED
                BY <4>1, <4>2
        <3>2. PICK u \in Tasks : u = queue[k][i] /\ u # t
            BY <3>1, <1>1
        <3>3. Waits(u) /\ Wanted(u).lock = k
            BY <3>1, <3>2 DEF Queues, QueuedWait
        <3>4. run'[queue'[k][i]] = run[u]
            BY <3>1, <3>2, OthersStay
        <3> QED
            BY <3>3, <3>4 DEF Waits, Wanted, First, Second
    <2> QED
        BY <2>1, <2>2
<1>6. WaitersQueued'
    <2> SUFFICES ASSUME NEW u \in Tasks, Waits(u)'
                 PROVE  \E i \in DOMAIN queue'[Wanted(u)'.lock] : queue'[Wanted(u)'.lock][i] = u
        BY DEF WaitersQueued
    <2>1. CASE u = t
        <3>1. Len(queue[l]) + 1 \in DOMAIN q
            BY <1>2, <1>3
        <3> QED
            BY <2>1, <3>1, <1>3, <1>4
    <2>2. CASE u # t
        <3>1. PICK i \in DOMAIN queue[Wanted(u).lock] : queue[Wanted(u).lock][i] = u
            BY <2>2, OthersStay DEF Queues, WaitersQueued
        <3>2. Wanted(u)' = Wanted(u)
            BY <2>2, OthersStay
        <3>3. CASE Wanted(u).lock = l
            <4>1. i \in DOMAIN q /\ q[i] = u
                BY <3>1, <3>3, <1>2, <1>3
            <4> QED
                BY <4>1, <3>2, <3>3, <1>4
        <3>4. CASE Wanted(u).lock # l
            <4>1. queue'[Wanted(u).lock] = queue[Wanted(u).lock]
                BY <3>4 DEF Joins, LocksOK
            <4> QED
                BY <4>1, <3>1, <3>2
        <3> QED
            BY <3>3, <3>4
    <2> QED
        BY <2>1, <2>2
<1>7. QueuedOnce'
    <2> SUFFICES ASSUME NEW k \in LockNames, NEW i \in DOMAIN queue'[k], NEW j \in DOMAIN queue'[k],
                        queue'[k][i] = queue'[k][j]
                 PROVE  i = j
        BY DEF QueuedOnce
    <2>1. CASE k # l
        BY <2>1, <1>4 DEF Queues, QueuedOnce
    <2>2. CASE k = l
        BY <2>2, <1>1, <1>2, <1>3, <1>4 DEF Queues, QueuedOnce
    <2> QED
        BY <2>1, <2>2
<1> QED
    BY <1>4, <1>5, <1>6, <1>7 DEF Queues

\* A task that no longer waits is taken out of the queue it was in.
LEMMA RemoveKeeps ==
    ASSUME LocksOK, Queues, NEW t \in Tasks, NEW r, run' = [run EXCEPT ![t] = r],
           NEW l \in LockNames, NEW n \in DOMAIN queue[l], queue[l][n] = t,
           NEW q, WithoutPlace(queue[l], n, q), queue' = [queue EXCEPT ![l] = q],
           ~Waits(t)'
    PROVE  Queues' /\ queue' \in [LockNames -> Seq(Tasks)]
<1>1. /\ queue[l] \in Seq(Tasks) /\ Len(queue[l]) \in Nat
      /\ DOMAIN queue[l] = 1..Len(queue[l]) /\ n \in 1..Len(queue[l])
    BY LenProperties DEF LocksOK
<1>2. /\ q \in Seq(Tasks) /\ DOMAIN q = 1..(Len(queue[l]) - 1)
      /\ \A j \in DOMAIN q : q[j] = IF j < n THEN queue[l][j] ELSE queue[l][j + 1]
    BY <1>1, LenProperties DEF WithoutPlace
<1>3. queue'[l] = q /\ (\A k \in LockNames : k # l => queue'[k] = queue[k])
      /\ queue' \in [LockNames -> Seq(Tasks)]
    BY <1>2 DEF LocksOK
<1>4. \A j \in DOMAIN q : \E i \in DOMAIN queue[l] : i # n /\ q[j] = queue[l][i]
    <2> SUFFICES ASSUME NEW j \in DOMAIN q
                 PROVE  \E i \in DOMAIN queue[l] : i # n /\ q[j] = queue[l][i]
        OBVIOUS
    <2>1. CASE j < n
        BY <2>1, <1>1, <1>2
    <2>2. CASE j >= n
        <3>1. j \in 1..(Len(queue[l]) - 1) /\ q[j] = IF j < n THEN queue[l][j] ELSE queue[l][j + 1]
            BY <1>2
        <3>2. j + 1 \in 1..Len(queue[l]) /\ j + 1 # n /\ ~(j < n)
            BY <2>2, <1>1, <3>1
        <3>3. j + 1 \in DOMAIN queue[l] /\ j + 1 # n /\ q[j] = queue[l][j + 1]
            BY <1>1, <3>1, <3>2
        <3> QED
            BY <3>3
    <2> QED
        BY <2>1, <2>2, <1>1, <1>2
<1>5. \A k \in LockNames : \A i \in DOMAIN queue[k] :
        queue[k][i] \in Tasks /\ (queue[k][i] = t => k = l /\ i = n)
    BY <1>1 DEF LocksOK, Queues, QueuedWait, QueuedOnce
<1>6. QueuedWait'
    <2> SUFFICES ASSUME NEW k \in LockNames, NEW i \in DOMAIN queue'[k]
                 PROVE  (Waits(queue[k][i]) /\ Wanted(queue[k][i]).lock = k)'
        BY DEF QueuedWait
    <2>1. PICK j \in DOMAIN queue[k] : (k = l => j # n) /\ queue'[k][i] = queue[k][j]
        BY <1>3, <1>4
    <2>2. PICK u \in Tasks : u = queue[k][j] /\ u # t
        BY <2>1, <1>5
    <2>3. Waits(u) /\ Wanted(u).lock = k
        BY <2>2 DEF Queues, QueuedWait
    <2>4. run'[queue'[k][i]] = run[u]
        BY <2>1, <2>2, OthersStay
    <2> QED
        BY <2>3, <2>4 DEF Waits, Wanted, First, Second
<1>7. WaitersQueued'
    <2> SUFFICES ASSUME NEW u \in Tasks, Waits(u)'
                 PROVE  \E i \in DOMAIN queue'[Wanted(u)'.lock] : queue'[Wanted(u)'.lock][i] = u
        BY DEF WaitersQueued
    <2>1. u # t /\ Waits(u) /\ Wanted(u)' = Wanted(u)
        BY OthersStay
    <2>2. PICK i \in DOMAIN queue[Wanted(u).lock] : queue[Wanted(u).lock][i] = u
        BY <2>1 DEF Queues, WaitersQueued
    <2>3. CASE Wanted(u).lock # l
        <3>1. queue'[Wanted(u).lock] = queue[Wanted(u).lock]
            BY <2>3 DEF LocksOK
        <3> QED
            BY <3>1, <2>1, <2>2
    <2>4. CASE Wanted(u).lock = l /\ i < n
        <3>1. i \in DOMAIN q /\ q[i] = u
            BY <2>2, <2>4, <1>1, <1>2
        <3> QED
            BY <3>1, <2>1, <2>4, <1>3
    <2>5. CASE Wanted(u).lock = l /\ i >= n
        <3>1. i # n /\ i \in 1..Len(queue[l])
            BY <2>1, <2>2, <2>5, <1>1
        <3>2. i - 1 \in DOMAIN q /\ q[i - 1] = queue[l][(i - 1) + 1] /\ (i - 1) + 1 = i
            BY <3>1, <2>5, <1>1, <1>2
        <3>3. q[i - 1] = u
            BY <3>2, <2>2, <2>5
        <3> QED
            BY <3>2, <3>3, <2>1, <2>5, <1>3
    <2> QED
        BY <2>2, <2>3, <2>4, <2>5, <1>1
<1>8. QueuedOnce'
    <2> SUFFICES ASSUME NEW k \in LockNames, NEW i \in DOMAIN queue'[k], NEW j \in DOMAIN queue'[k],
                        queue'[k][i] = queue'[k][j]
                 PROVE  i = j
        BY DEF QueuedOnce
    <2>1. CASE k # l
        BY <2>1, <1>3 DEF Queues, QueuedOnce
    <2>2. CASE k = l
        <3> DEFINE at(x) == IF x < n THEN x ELSE x + 1
        <3>1. /\ at(i) \in DOMAIN queue[l] /\ queue'[l][i] = queue[l][at(i)]
              /\ at(j) \in DOMAIN queue[l] /\ queue'[l][j] = queue[l][at(j)]
            BY <2>2, <1>1, <1>2, <1>3
        <3>2. at(i) = at(j)
            BY <3>1, <2>2 DEF Queues, QueuedOnce
        <3> QED
            BY <3>2, <2>2, <1>1, <1>2, <1>3
    <2> QED
        BY <2>1, <2>2
<1> QED
    BY <1>3, <1>6, <1>7, <1>8 DEF Queues
-----------------------------------------------------------------------------
(* The invariant holds.                                                    *)

\* The invariant holds before any request.
LEMMA LocksInitInv ==
    ASSUME LocksInit
    PROVE  LocksInv
<1>1. \A l \in LockNames : queue[l] = <<>> /\ DOMAIN queue[l] = {}
    BY EmptySeq DEF LocksInit
<1>2. LocksOK
    BY EmptySeq DEF LocksInit, LocksOK
<1>3. \A t \in Tasks : run[t].at = "idle"
    BY DEF LocksInit, NoSection
<1> QED
    BY <1>1, <1>2, <1>3 DEF LocksInv, QueuedWait, WaitersQueued, QueuedOnce, NestsKnown,
       WaitsInOrder, Waits

\* Of the places that a task may come to, those after a second lock need one.
NestsOrdered == NestsKnown /\ WaitsInOrder

\* A task keeps the order of locks when its place says so.
LEMMA OrderKeeps ==
    ASSUME LocksOK, NestsOrdered, NEW t \in Tasks, NEW r, run' = [run EXCEPT ![t] = r],
           r.at \in {"nests", "both", "last"} =>
                r.section \in Sections /\ Section[r.section].second # NoGrip
    PROVE  NestsOrdered'
<1>1. run'[t] = r
    BY DEF LocksOK
<1>2. ASSUME NEW u \in Tasks, u # t
      PROVE  run'[u] = run[u]
    BY <1>2 DEF LocksOK
<1>3. NestsKnown'
    BY <1>1, <1>2 DEF NestsOrdered, NestsKnown, Second
<1>4. ASSUME r.at = "nests"
      PROVE  /\ Section[r.section].first = Read("inner")
             /\ \/ Section[r.section].second = Read("log_ring")
                \/ r.section = "settings" /\ Section[r.section].second = Read("inner")
    BY <1>4, SectionsInOrder
<1>5. WaitsInOrder'
    BY <1>1, <1>2, <1>4 DEF NestsOrdered, WaitsInOrder, First, Second
<1> QED
    BY <1>3, <1>5 DEF NestsOrdered

\* The places of a section.
LEMMA PlaceOfTask ==
    ASSUME LocksOK, NEW t \in Tasks, run[t].at # "idle"
    PROVE  run[t].section \in Sections /\ run[t].at \in Places \ {"idle"}
BY DEF LocksOK, NoSection

\* A step of a task types.
LEMMA RunType ==
    ASSUME LocksOK, NEW t \in Tasks, NEW r, run' = [run EXCEPT ![t] = r],
           r \in {NoSection} \cup [section : Sections, at : Places \ {"idle"}],
           queue' \in [LockNames -> Seq(Tasks)]
    PROVE  LocksOK'
BY DEF LocksOK

\* A move keeps the section.
LEMMA MoveIs ==
    ASSUME LocksOK, NEW t \in Tasks, NEW p, Moves(t, p), run[t].at # "idle"
    PROVE  run' = [run EXCEPT ![t] = [section |-> run[t].section, at |-> p]]
<1>1. run[t] \in [section : Sections, at : Places \ {"idle"}]
    BY DEF LocksOK, NoSection
<1>2. [run[t] EXCEPT !.at = p] = [section |-> run[t].section, at |-> p]
    BY <1>1
<1>3. run' = [run EXCEPT ![t] = [run[t] EXCEPT !.at = p]]
    BY DEF Moves
<1> QED
    BY <1>2, <1>3

\* A task that comes to a lock keeps the invariant.
LEMMA EnterKeeps ==
    ASSUME LocksInv, NEW t \in Tasks, Enter(t)
    PROVE  LocksInv'
<1>1. PICK s \in Sections :
        /\ run' = [run EXCEPT ![t] = [section |-> s, at |-> "asks"]]
        /\ Joins(t, Section[s].first.lock)
    BY DEF Enter
<1>2. run'[t] = [section |-> s, at |-> "asks"]
    BY <1>1 DEF LocksInv, LocksOK
<1>3. Section[s].first.lock \in LockNames
    BY SectionsInOrder DEF Grip
<1>4. ~Waits(t) /\ Waits(t)' /\ Wanted(t)'.lock = Section[s].first.lock
    BY <1>2 DEF Enter, Waits, Wanted, First
<1>5. Queues' /\ queue' \in [LockNames -> Seq(Tasks)]
    BY <1>1, <1>3, <1>4, JoinKeeps DEF LocksInv, Queues
<1>6. NestsOrdered'
    BY <1>1, OrderKeeps DEF LocksInv, NestsOrdered
<1>7. LocksOK'
    BY <1>1, <1>5, RunType DEF LocksInv, Places
<1> QED
    BY <1>5, <1>6, <1>7 DEF LocksInv, Queues, NestsOrdered

\* So does a lock that is given to the head of its queue,
LEMMA GrantKeeps ==
    ASSUME LocksInv, NEW l \in LockNames, Grant(l)
    PROVE  LocksInv'
<1>1. queue[l] \in Seq(Tasks) /\ queue[l] # <<>>
    BY DEF LocksInv, LocksOK, Grant
<1>2. 1 \in DOMAIN queue[l] /\ Head(queue[l]) = queue[l][1] /\ WithoutPlace(queue[l], 1, Tail(queue[l]))
    BY <1>1, TailIsWithout
<1>3. PICK t \in Tasks : t = queue[l][1] /\ Waits(t)
    BY <1>1, <1>2, LenProperties DEF LocksInv, QueuedWait
<1> DEFINE p == IF run[t].at = "asks" THEN "has" ELSE "both"
           r == [section |-> run[t].section, at |-> p]
<1>4. run[t].at # "idle" /\ (run[t].at = "asks" \/ run[t].at = "nests")
    BY <1>3 DEF Waits
<1>5. run' = [run EXCEPT ![t] = r] /\ queue' = [queue EXCEPT ![l] = Tail(queue[l])]
    BY <1>2, <1>3, <1>4, MoveIs DEF Grant, LocksInv
<1>6. run'[t] = r
    BY <1>5 DEF LocksInv, LocksOK
<1>7. ~Waits(t)'
    BY <1>6 DEF Waits
<1>8. run[t].section \in Sections /\ r \in [section : Sections, at : Places \ {"idle"}]
    BY <1>4, PlaceOfTask DEF LocksInv, Places
<1>9. r.at \in {"nests", "both", "last"} => Section[r.section].second # NoGrip
    BY <1>4 DEF LocksInv, NestsKnown, Second
<1> HIDE DEF r
<1>10. Queues' /\ queue' \in [LockNames -> Seq(Tasks)]
    BY <1>2, <1>3, <1>5, <1>7, RemoveKeeps DEF LocksInv, Queues
<1>11. NestsOrdered'
    <2>1. r.section \in Sections
        BY <1>8
    <2> QED
        BY <2>1, <1>5, <1>9, OrderKeeps DEF LocksInv, NestsOrdered
<1>12. LocksOK'
    BY <1>5, <1>8, <1>10, RunType DEF LocksInv
<1> QED
    BY <1>10, <1>11, <1>12 DEF LocksInv, Queues, NestsOrdered

\* a task that wants its second lock,
LEMMA NestKeeps ==
    ASSUME LocksInv, NEW t \in Tasks, Nest(t)
    PROVE  LocksInv'
<1> DEFINE r == [section |-> run[t].section, at |-> "nests"]
<1>1. run[t].at = "has" /\ Second(t) # NoGrip /\ Joins(t, Second(t).lock)
    BY DEF Nest
<1>2. run' = [run EXCEPT ![t] = r]
    BY <1>1, MoveIs DEF Nest, LocksInv
<1>3. run[t].section \in Sections
    BY <1>1, PlaceOfTask DEF LocksInv
<1>4. Second(t).lock \in LockNames
    BY <1>1, <1>3, SectionsInOrder DEF Second, Grip
<1>5. run'[t] = r
    BY <1>2 DEF LocksInv, LocksOK
<1>6. ~Waits(t) /\ Waits(t)' /\ Wanted(t)'.lock = Second(t).lock
    BY <1>1, <1>5 DEF Waits, Wanted, Second
<1>7. Queues' /\ queue' \in [LockNames -> Seq(Tasks)]
    BY <1>1, <1>2, <1>4, <1>6, JoinKeeps DEF LocksInv, Queues
<1>8. NestsOrdered'
    BY <1>1, <1>2, <1>3, OrderKeeps DEF LocksInv, NestsOrdered, Second
<1>9. LocksOK'
    BY <1>2, <1>3, <1>7, RunType DEF LocksInv, Places
<1> QED
    BY <1>7, <1>8, <1>9 DEF LocksInv, Queues, NestsOrdered

\* one that lets it go,
LEMMA UnnestKeeps ==
    ASSUME LocksInv, NEW t \in Tasks, Unnest(t)
    PROVE  LocksInv'
<1> DEFINE r == [section |-> run[t].section, at |-> "last"]
<1>1. run[t].at = "both" /\ UNCHANGED queue
    BY DEF Unnest
<1>2. run' = [run EXCEPT ![t] = r]
    BY <1>1, MoveIs DEF Unnest, LocksInv
<1>3. run[t].section \in Sections /\ Section[run[t].section].second # NoGrip
    BY <1>1, PlaceOfTask DEF LocksInv, NestsKnown, Second
<1>4. run'[t] = r
    BY <1>2 DEF LocksInv, LocksOK
<1>5. ~Waits(t) /\ ~Waits(t)'
    BY <1>1, <1>4 DEF Waits
<1>6. Queues'
    BY <1>1, <1>2, <1>5, StayKeeps DEF LocksInv, Queues
<1>7. NestsOrdered'
    BY <1>2, <1>3, OrderKeeps DEF LocksInv, NestsOrdered
<1>8. queue' \in [LockNames -> Seq(Tasks)]
    BY <1>1 DEF LocksInv, LocksOK
<1>9. LocksOK'
    BY <1>2, <1>3, <1>8, RunType DEF LocksInv, Places
<1> QED
    BY <1>6, <1>7, <1>9 DEF LocksInv, Queues, NestsOrdered

\* one that ends its section,
LEMMA LeaveKeeps ==
    ASSUME LocksInv, NEW t \in Tasks, LeaveSection(t)
    PROVE  LocksInv'
<1>1. run[t].at \in {"last", "has"} /\ UNCHANGED queue /\ run' = [run EXCEPT ![t] = NoSection]
    BY DEF LeaveSection
<1>2. run'[t] = NoSection
    BY <1>1 DEF LocksInv, LocksOK
<1>3. ~Waits(t) /\ ~Waits(t)'
    BY <1>1, <1>2 DEF Waits, NoSection
<1>4. Queues'
    BY <1>1, <1>3, StayKeeps DEF LocksInv, Queues
<1>5. NestsOrdered'
    BY <1>1, OrderKeeps DEF LocksInv, NestsOrdered, NoSection
<1>6. queue' \in [LockNames -> Seq(Tasks)]
    BY <1>1 DEF LocksInv, LocksOK
<1>7. LocksOK'
    BY <1>1, <1>6, RunType DEF LocksInv
<1> QED
    BY <1>4, <1>5, <1>7 DEF LocksInv, Queues, NestsOrdered

\* and one whose client leaves while it waits.
LEMMA DroppedKeeps ==
    ASSUME LocksInv, NEW t \in Tasks, Dropped(t)
    PROVE  LocksInv'
<1>1. Waits(t) /\ run' = [run EXCEPT ![t] = NoSection]
    BY DEF Dropped
<1> DEFINE l == Wanted(t).lock
<1>2. l \in LockNames
    <2>1. run[t].section \in Sections
        BY <1>1, PlaceOfTask DEF LocksInv, Waits
    <2>2. run[t].at = "nests" => Second(t) # NoGrip
        BY DEF LocksInv, NestsKnown
    <2> QED
        BY <1>1, <2>1, <2>2, SectionsInOrder DEF Waits, Wanted, First, Second, Grip
<1>3. PICK i \in DOMAIN queue[l] :
        queue[l][i] = t /\ queue' = [queue EXCEPT ![l] = RemoveAt(queue[l], i)]
    BY DEF Dropped
<1> HIDE DEF l
<1>4. WithoutPlace(queue[l], i, RemoveAt(queue[l], i))
    BY <1>2, RemoveAtIsWithout DEF LocksInv, LocksOK
<1>5. ~Waits(t)'
    BY <1>1 DEF LocksInv, LocksOK, Waits, NoSection
<1>6. Queues' /\ queue' \in [LockNames -> Seq(Tasks)]
    BY <1>1, <1>2, <1>3, <1>4, <1>5, RemoveKeeps DEF LocksInv, Queues
<1>7. NestsOrdered'
    BY <1>1, OrderKeeps DEF LocksInv, NestsOrdered, NoSection
<1>8. LocksOK'
    BY <1>1, <1>6, RunType DEF LocksInv
<1> QED
    BY <1>6, <1>7, <1>8 DEF LocksInv, Queues, NestsOrdered

\* The inductive invariant.
THEOREM LocksInvariant == LocksSpec => []LocksInv
<1>1. LocksInit => LocksInv
    BY LocksInitInv
<1>2. LocksInv /\ [LocksNext]_locksVars => LocksInv'
    <2> SUFFICES ASSUME LocksInv, [LocksNext]_locksVars
                 PROVE  LocksInv'
        OBVIOUS
    <2>1. CASE UNCHANGED locksVars
        <3>1. run' = run /\ queue' = queue
            BY <2>1 DEF locksVars
        <3>2. LocksOK' /\ QueuedOnce'
            BY <3>1, SMTT(30) DEF LocksInv, LocksOK, QueuedOnce
        <3>3. QueuedWait' /\ WaitersQueued'
            BY <3>1 DEF LocksInv, QueuedWait, WaitersQueued, Waits, Wanted, First, Second
        <3>4. NestsKnown' /\ WaitsInOrder'
            BY <3>1 DEF LocksInv, NestsKnown, WaitsInOrder, First, Second
        <3> QED
            BY <3>2, <3>3, <3>4 DEF LocksInv
    <2>2. CASE LocksNext
        <3>1. ASSUME NEW t \in Tasks, Enter(t) \/ Dropped(t) PROVE LocksInv'
            BY <3>1, EnterKeeps, DroppedKeeps
        <3>2. ASSUME NEW t \in Tasks, TaskStep(t) PROVE LocksInv'
            BY <3>2, NestKeeps, UnnestKeeps, LeaveKeeps DEF TaskStep
        <3> QED
            BY <2>2, <3>1, <3>2, GrantKeeps DEF LocksNext
    <2> QED
        BY <2>1, <2>2
<1> QED
    BY <1>1, <1>2, PTL DEF LocksSpec

-----------------------------------------------------------------------------
(* Who stands in whose way.                                                *)

\* Whoever waits is behind someone: its queue has a head.
LEMMA QueueHasHead ==
    ASSUME LocksInv, NEW t \in Tasks, Waits(t)
    PROVE  /\ Wanted(t).lock \in LockNames
           /\ queue[Wanted(t).lock] # <<>>
           /\ \E i \in DOMAIN queue[Wanted(t).lock] : queue[Wanted(t).lock][i] = t
<1>1. PICK i \in DOMAIN queue[Wanted(t).lock] : queue[Wanted(t).lock][i] = t
    BY DEF LocksInv, WaitersQueued
<1>2. run[t].section \in Sections
    BY PlaceOfTask DEF LocksInv, Waits
<1>3. run[t].at = "nests" => Second(t) # NoGrip
    BY DEF LocksInv, NestsKnown
<1>4. Wanted(t).lock \in LockNames
    BY <1>2, <1>3, SectionsInOrder DEF Waits, Wanted, First, Second, Grip
<1>5. queue[Wanted(t).lock] # <<>>
    BY <1>1, EmptySeq
<1> QED
    BY <1>1, <1>4, <1>5

\* The head of a queue that is not let in is kept out by someone who holds the
\* lock, and who, if it waits, waits for a second lock with Inner in hand.
LEMMA HeadIsKeptOut ==
    ASSUME LocksInv, ~SomeoneMoves, NEW l \in LockNames, queue[l] # <<>>
    PROVE  \E h, u \in Tasks :
            /\ h = Head(queue[l]) /\ 1 \in DOMAIN queue[l] /\ h = queue[l][1]
            /\ Waits(h) /\ Wanted(h).lock = l
            /\ run[u].at = "nests" /\ l = "inner" /\ First(u) = Read("inner")
            /\ Wanted(h).mode # "read"
<1>1. queue[l] \in Seq(Tasks) /\ 1 \in DOMAIN queue[l] /\ Head(queue[l]) = queue[l][1]
    BY TailIsWithout DEF LocksInv, LocksOK
<1>2. PICK h \in Tasks : h = queue[l][1]
    BY <1>1, LenProperties
<1>3. Waits(h) /\ Wanted(h).lock = l
    BY <1>1, <1>2 DEF LocksInv, QueuedWait
<1>4. ~Admits(h)
    BY <1>1, <1>2 DEF SomeoneMoves
<1>5. PICK u \in Tasks : \E g \in Holds(u) : g.lock = l /\ ~(g.mode = "read" /\ Wanted(h).mode = "read")
    BY <1>3, <1>4 DEF Admits
<1>6. Holds(u) # {}
    BY <1>5
<1>7. run[u].at # "idle"
    BY <1>6 DEF Holds
<1>8. run[u].at \in {"asks", "nests"}
    BY <1>7 DEF SomeoneMoves, Busy, Waits
<1>9. run[u].at = "nests" /\ Holds(u) = {First(u)}
    BY <1>6, <1>8 DEF Holds
<1>10. First(u) = Read("inner")
    BY <1>9 DEF LocksInv, WaitsInOrder
<1>11. l = "inner" /\ Wanted(h).mode # "read"
    BY <1>5, <1>9, <1>10 DEF Read
<1> QED
    BY <1>1, <1>2, <1>3, <1>9, <1>10, <1>11

\* Nobody waits for another lock than Inner when nobody can move.
LEMMA OnlyInnerIsAwaited ==
    ASSUME LocksInv, ~SomeoneMoves, NEW t \in Tasks, Waits(t)
    PROVE  Wanted(t).lock = "inner"
<1>1. Wanted(t).lock \in LockNames /\ queue[Wanted(t).lock] # <<>>
    BY QueueHasHead
<1> QED
    BY <1>1, HeadIsKeptOut

\* The handlers stand still only when a request for the settings blocks itself.
LEMMA StandstillIsOfSettings ==
    ASSUME LocksInv
    PROVE  OnlySettingsBlock
<1> SUFFICES ASSUME NEW t \in Tasks, Busy(t), ~SomeoneMoves
             PROVE  \E u \in Tasks : BlocksItself(u)
    BY DEF OnlySettingsBlock
<1>1. Waits(t)
    BY DEF SomeoneMoves
<1>2. queue["inner"] # <<>> /\ "inner" \in LockNames
    BY <1>1, QueueHasHead, OnlyInnerIsAwaited
<1>3. PICK h, u \in Tasks :
        /\ 1 \in DOMAIN queue["inner"] /\ h = queue["inner"][1]
        /\ Waits(h) /\ Wanted(h).mode # "read" /\ Wanted(h).lock = "inner"
        /\ run[u].at = "nests" /\ First(u) = Read("inner")
    BY <1>2, HeadIsKeptOut
<1>4. Waits(u) /\ Wanted(u) = Second(u)
    BY <1>3 DEF Waits, Wanted
<1>5. Wanted(u).lock = "inner"
    BY <1>4, OnlyInnerIsAwaited
<1>6. run[u].section = "settings" /\ Second(u) = Read("inner")
    BY <1>3, <1>4, <1>5 DEF LocksInv, WaitsInOrder, Read
<1>7. run[u] = [section |-> "settings", at |-> "nests"]
    BY <1>3, <1>6 DEF LocksInv, LocksOK, NoSection
<1>8. PICK j \in DOMAIN queue["inner"] : queue["inner"][j] = u
    BY <1>4, <1>5, QueueHasHead
<1>9. u # h
    BY <1>3, <1>4, <1>6 DEF Read
<1>10. 1 < j
    <2>1. queue["inner"] \in Seq(Tasks)
        BY <1>2 DEF LocksInv, LocksOK
    <2>2. j \in 1..Len(queue["inner"]) /\ Len(queue["inner"]) \in Nat
        BY <2>1, LenProperties
    <2> QED
        BY <1>3, <1>8, <1>9, <2>2
<1>11. Wanted(h).mode = "write"
    <2>1. run[h].section \in Sections
        BY <1>3, PlaceOfTask DEF LocksInv, Waits
    <2>2. run[h].at = "nests" => Second(h) # NoGrip
        BY DEF LocksInv, NestsKnown
    <2>3. Wanted(h) \in Grip
        BY <1>3, <2>1, <2>2, SectionsInOrder DEF Waits, Wanted, First, Second
    <2> QED
        BY <1>3, <2>3 DEF Grip, Modes
<1> QED
    BY <1>3, <1>7, <1>8, <1>10, <1>11 DEF BlocksItself

\* For any number of tasks.
THEOREM StandstillsAreOfSettings == LocksSpec => []OnlySettingsBlock
BY LocksInvariant, StandstillIsOfSettings, PTL
=============================================================================
