-------------------------- MODULE TaskInboxProofs --------------------------
(***************************************************************************)
(* The bound of the task inbox and its order of eviction, for any cap and  *)
(* any number of calls, cancels and restarts; and what an entry shows of   *)
(* the log: a key with at most one line on its way to the inbox            *)
(* (OneOnItsWay) has the entry that its other lines make (ToldIsShown).    *)
(***************************************************************************)
EXTENDS TaskInbox, SubsequenceProofs

-----------------------------------------------------------------------------
(* observe_locked.                                                         *)

\* The keys of the inbox are finitely many.
LEMMA KeysInInbox ==
    ASSUME TypeOK
    PROVE  IsFiniteSet(DOMAIN inbox) /\ Cardinality(DOMAIN inbox) \in Nat
<1>1. DOMAIN inbox \subseteq Keys /\ IsFiniteSet(Keys)
    BY ConstantsAssumption DEF TypeOK, InboxOK
<1> QED
    BY <1>1, FS_Subset, FS_CardinalityType

\* An entry in the place of another, or a new one.
LEMMA PutType ==
    ASSUME InboxOK, NEW k \in Keys, NEW e \in Entry, e.history # <<>>,
           inbox' = Put(inbox, k, e)
    PROVE  InboxOK'
BY DEF InboxOK, Put

\* A line starts a task.
LEMMA FreshType ==
    ASSUME NEW l \in Line
    PROVE  Fresh(l) \in Entry /\ Fresh(l).history # <<>>
<1>1. <<l.state>> \in Seq(States) /\ <<l.state>> # <<>>
    BY EmptySeq DEF Line
<1> QED
    BY <1>1 DEF Fresh, Line, Entry

\* A line changes a task.
LEMMA MergedType ==
    ASSUME NEW t \in Entry, t.history # <<>>, NEW l \in Line
    PROVE  Merged(t, l) \in Entry /\ Merged(t, l).history # <<>>
<1>1. Append(t.history, l.state) \in Seq(States) /\ Append(t.history, l.state) # <<>>
    BY AppendProperties, EmptySeq DEF Entry, Line
<1>2. t.a2a \/ l.a2a \in BOOLEAN
    BY DEF Entry, Line
<1> QED
    BY <1>1, <1>2 DEF Merged, Entry, Line

\* Whoever is evicted was in the inbox.
LEMMA VictimsIn ==
    ASSUME NEW box, NEW v \in Victims(box)
    PROVE  v \in DOMAIN box
BY DEF Victims, Oldest

\* An observation keeps the types.
LEMMA ObservedType ==
    ASSUME TypeOK, NEW l \in Line, Observed(l)
    PROVE  InboxOK' /\ apart' \in SUBSET Keys
<1>1. l.key \in Keys
    BY DEF Line
<1>2. CASE l.key \in DOMAIN inbox
    <2>1. inbox' = Put(inbox, l.key, Merged(inbox[l.key], l)) /\ apart' = apart
        BY <1>2 DEF Observed
    <2>2. Merged(inbox[l.key], l) \in Entry /\ Merged(inbox[l.key], l).history # <<>>
        BY <1>2, MergedType DEF TypeOK, InboxOK
    <2> QED
        BY <1>1, <2>1, <2>2, PutType DEF TypeOK
<1>3. CASE l.key \notin DOMAIN inbox
    <2> DEFINE box == Put(inbox, l.key, Fresh(l))
    <2>1. /\ DOMAIN box \subseteq Keys
          /\ \A k \in DOMAIN box : box[k] \in Entry /\ box[k].history # <<>>
        BY <1>1, FreshType DEF Put, TypeOK, InboxOK
    <2>2. CASE Overfull(box)
        <3>1. PICK v \in Victims(box) : inbox' = Without(box, v) /\ apart' = apart \cup {v}
            BY <1>3, <2>2 DEF Observed
        <3>2. v \in Keys
            BY <2>1, VictimsIn
        <3> HIDE DEF box
        <3> QED
            BY <2>1, <3>1, <3>2 DEF Without, InboxOK, TypeOK
    <2>3. CASE ~Overfull(box)
        <3>1. inbox' = box /\ apart' = apart
            BY <1>3, <2>3 DEF Observed
        <3> QED
            BY <2>1, <3>1 DEF InboxOK, TypeOK
    <2> QED
        BY <2>2, <2>3
<1> QED
    BY <1>2, <1>3

\* An observation evicts as much as it adds when the inbox is full.
LEMMA ObservedBound ==
    ASSUME TypeOK, BoundedInbox, NEW l \in Line, Observed(l), excess' = excess
    PROVE  BoundedInbox'
<1> DEFINE D == DOMAIN inbox
<1>1. IsFiniteSet(D) /\ Cardinality(D) \in Nat
    BY KeysInInbox
<1>2. TaskCap \in Nat /\ excess \in Nat
    BY ConstantsAssumption DEF TypeOK
<1>3. CASE l.key \in D
    <2>1. DOMAIN inbox' = D
        BY <1>3 DEF Observed, Put
    <2> QED
        BY <2>1 DEF BoundedInbox
<1>4. CASE l.key \notin D
    <2> DEFINE box == Put(inbox, l.key, Fresh(l))
    <2>1. DOMAIN box = D \cup {l.key}
        BY DEF Put
    <2>2. /\ IsFiniteSet(DOMAIN box)
          /\ Cardinality(DOMAIN box) = Cardinality(D) + 1
        BY <1>1, <1>4, <2>1, FS_AddElement
    <2>3. CASE Overfull(box)
        <3>1. PICK v \in Victims(box) : inbox' = Without(box, v)
            BY <1>4, <2>3 DEF Observed
        <3> HIDE DEF box
        <3>2. v \in DOMAIN box
            BY VictimsIn
        <3>3. DOMAIN inbox' = DOMAIN box \ {v}
            BY <3>1 DEF Without
        <3>4. Cardinality(DOMAIN inbox') = Cardinality(DOMAIN box) - 1
            BY <2>2, <3>2, <3>3, FS_RemoveElement
        <3>5. Cardinality(DOMAIN inbox') = Cardinality(D)
            BY <1>1, <2>2, <3>4
        <3> QED
            BY <3>5 DEF BoundedInbox
    <2>4. CASE ~Overfull(box)
        <3>1. inbox' = box
            BY <1>4, <2>4 DEF Observed
        <3>2. Cardinality(DOMAIN inbox') <= TaskCap
            BY <1>1, <1>2, <2>2, <2>4, <3>1 DEF Overfull
        <3>3. Cardinality(DOMAIN inbox') \in Nat
            BY <1>1, <2>2, <3>1
        <3> QED
            BY <1>2, <3>2, <3>3 DEF BoundedInbox
    <2> QED
        BY <2>3, <2>4
<1> QED
    BY <1>3, <1>4

\* An observation evicts an active task only if no closed one is there.
LEMMA ObservedStays ==
    ASSUME TypeOK, NEW l \in Line, Observed(l),
           NEW k \in DOMAIN inbox \ DOMAIN inbox', inbox[k].state \in Active,
           NEW j \in DOMAIN inbox'
    PROVE  inbox'[j].state \in Active
<1> DEFINE box == Put(inbox, l.key, Fresh(l))
<1>1. l.key \notin DOMAIN inbox
    BY DEF Observed, Put
<1>2. Overfull(box)
    BY <1>1 DEF Observed, Put
<1>3. PICK v \in Victims(box) : inbox' = Without(box, v)
    BY <1>1, <1>2 DEF Observed
<1>4. k \in DOMAIN box /\ box[k] = inbox[k]
    BY <1>1 DEF Put
<1>5. /\ \A i \in DOMAIN inbox : box[i].state \in States
      /\ DOMAIN box = DOMAIN inbox \cup {l.key}
    BY <1>1 DEF Put, TypeOK, InboxOK, Entry
<1>6. box[l.key].state \in States
    BY DEF Put, Fresh, Line
<1> HIDE DEF box
<1>7. k = v
    BY <1>3, <1>4 DEF Without
<1>8. {i \in DOMAIN box : box[i].state \in Closed} = {}
    <2>1. box[k].state \notin Closed
        BY <1>4, ConstantsAssumption
    <2> QED
        BY <1>3, <1>7, <2>1 DEF Victims, Oldest
<1>9. j \in DOMAIN box /\ inbox'[j] = box[j]
    BY <1>3 DEF Without
<1> QED
    BY <1>5, <1>6, <1>8, <1>9 DEF States

-----------------------------------------------------------------------------
(* The steps.                                                              *)

\* A line that the log does not get changes nothing but the file, and sets its
\* key apart, with those of the lines that the file loses.
LEMMA LosesIs ==
    ASSUME TypeOK, LogHasLines, NEW c \in Calls, AppendLoses(c)
    PROVE  /\ Serving /\ place[c] = "routed" /\ place' = [place EXCEPT ![c] = "logged"]
           /\ UNCHANGED <<now, inbox, boot, line, cancel, excess, rotations, restarts>>
           /\ apart' \in SUBSET Keys /\ apart \subseteq apart' /\ line[c].key \in apart'
           /\ file' = file \/ (file' = <<>> /\ Logged \subseteq apart')
           /\ tail' \in {"whole", "part", "ruined"} /\ faults' \in 0..MaxFaults
<1>1. line[c].key \in Keys
    BY DEF AppendLoses, AppendGlued, AppendFails, AppendRuins, Loses, TypeOK, LinesOK, Line
<1>2. Logged \in SUBSET Keys
    BY DEF Logged, LogHasLines, TypeOK, LinesOK, Line
<1>3. CASE AppendGlued(c)
    BY <1>1, <1>3 DEF AppendGlued, Loses, TypeOK
<1>4. CASE AppendFails(c)
    BY <1>1, <1>4, ConstantsAssumption DEF AppendFails, Loses, TypeOK
<1>5. CASE AppendRuins(c)
    BY <1>1, <1>2, <1>5, ConstantsAssumption DEF AppendRuins, Loses, TypeOK
<1> QED
    BY <1>3, <1>4, <1>5 DEF AppendLoses

\* Every step keeps the types.
LEMMA TypeStep ==
    ASSUME TypeOK, LogHasLines, [Next]_vars
    PROVE  TypeOK'
<1>1. ASSUME NEW c \in Calls, Route(c) PROVE TypeOK'
    <2>1. PICK k \in Keys, a \in BOOLEAN, s \in States :
            line' = [line EXCEPT ![c] = [key |-> k, a2a |-> a, state |-> s, ts |-> now]]
        BY <1>1 DEF Route
    <2>2. [key |-> k, a2a |-> a, state |-> s, ts |-> now] \in Line
        BY DEF TypeOK, Line
    <2> QED
        BY <1>1, <2>1, <2>2 DEF Route, TypeOK, LinesOK, InboxOK, CancelsOK, Places, counters
<1>2. ASSUME NEW c \in Calls, AppendLine(c) PROVE TypeOK'
    <2>1. line[c].key \in Keys
        BY <1>2 DEF AppendLine, TypeOK, LinesOK, Line
    <2>2. Append(file, c) \in Seq(Calls)
        BY DEF TypeOK
    <2> QED
        BY <1>2, <2>1, <2>2 DEF AppendLine, TypeOK, LinesOK, InboxOK, CancelsOK, Places, counters
<1>3. ASSUME NEW c \in Calls, Observe(c) PROVE TypeOK'
    <2>1. line[c] \in Line /\ Observed(line[c])
        BY <1>3 DEF Observe, TypeOK, LinesOK
    <2>2. InboxOK' /\ apart' \in SUBSET Keys
        BY <2>1, ObservedType DEF TypeOK
    <2> QED
        BY <1>3, <2>2 DEF Observe, TypeOK, LinesOK, InboxOK, CancelsOK, Places, counters
<1>4. ASSUME NEW c \in Calls, Abandon(c) PROVE TypeOK'
    <2>1. line[c].key \in Keys
        BY <1>4 DEF Abandon, TypeOK, LinesOK, Line
    <2> QED
        BY <1>4, <2>1 DEF Abandon, TypeOK, LinesOK, InboxOK, CancelsOK, Places, counters
<1>5. ASSUME NEW x \in Cancels, CancelRead(x) PROVE TypeOK'
    <2>1. CancelsOK'
        BY <1>5 DEF CancelRead, TypeOK, CancelsOK, InboxOK, Cancelling
    <2> QED
        BY <1>5, <2>1 DEF CancelRead, TypeOK, LinesOK, InboxOK, CancelsOK, Places, counters
<1>6. ASSUME NEW x \in Cancels, CancelEnds(x) PROVE TypeOK'
    <2>1. CancelsOK'
        BY <1>6 DEF CancelEnds, Ended, TypeOK, CancelsOK, NoCancel, Cancelling
    <2> QED
        BY <1>6, <2>1 DEF CancelEnds, TypeOK, LinesOK, InboxOK, CancelsOK, Places, counters
<1>7. ASSUME NEW x \in Cancels, CancelCopies(x) PROVE TypeOK'
    <2>1. PICK s \in States : LET t == inbox[cancel[x].key] IN
            cancel' = [cancel EXCEPT ![x] = [at |-> "copied", key |-> cancel[x].key,
                 copy |-> [state |-> s, a2a |-> t.a2a, created |-> t.created,
                           updated |-> now, history |-> Append(t.history, s)]]]
        BY <1>7 DEF CancelCopies
    <2> DEFINE k == cancel[x].key
               t == inbox[k]
               e == [state |-> s, a2a |-> t.a2a, created |-> t.created,
                     updated |-> now, history |-> Append(t.history, s)]
    <2>2. k \in Keys /\ t \in Entry
        BY <1>7 DEF CancelCopies, TypeOK, InboxOK
    <2>3. Append(t.history, s) \in Seq(States) /\ Append(t.history, s) # <<>>
        BY <2>2, AppendProperties, EmptySeq DEF Entry
    <2>4. e \in Entry /\ e.history # <<>>
        BY <2>2, <2>3 DEF Entry, TypeOK
    <2>5. [at |-> "copied", key |-> k, copy |-> e] \in Cancelling
        BY <2>2, <2>4 DEF Cancelling
    <2> HIDE DEF e
    <2>6. cancel' = [cancel EXCEPT ![x] = [at |-> "copied", key |-> k, copy |-> e]]
        BY <2>1 DEF e
    <2> QED
        BY <1>7, <2>4, <2>5, <2>6 DEF CancelCopies, TypeOK, LinesOK, CancelsOK, InboxOK, Places,
           counters
<1>8. ASSUME NEW x \in Cancels, CancelInserts(x) PROVE TypeOK'
    <2> DEFINE k == cancel[x].key
    <2>1. /\ k \in Keys
          /\ cancel[x].copy \in Entry /\ cancel[x].copy.history # <<>>
        <3>1. CancelsOK /\ cancel[x].at = "copied"
            BY <1>8 DEF CancelInserts, TypeOK
        <3>2. cancel[x] \in Cancelling
            BY <3>1 DEF CancelsOK, NoCancel
        <3> QED
            BY <3>2 DEF Cancelling
    <2>2. inbox' = Put(inbox, k, cancel[x].copy)
        BY <1>8 DEF CancelInserts
    <2>3. InboxOK'
        BY <2>1, <2>2, PutType DEF TypeOK
    <2>4. excess' \in Nat /\ apart' \in SUBSET Keys
        BY <1>8, <2>1 DEF CancelInserts, TypeOK
    <2>5. CancelsOK'
        BY <1>8, <2>1 DEF CancelInserts, TypeOK, CancelsOK, Ended, Cancelling
    <2> QED
        BY <1>8, <2>3, <2>4, <2>5 DEF CancelInserts, TypeOK, LinesOK, InboxOK, CancelsOK,
           Places, counters
<1>9. ASSUME Tick PROVE TypeOK'
    BY <1>9, ConstantsAssumption DEF Tick, TypeOK, LinesOK, InboxOK, CancelsOK, Places, Times,
       counters
<1>10. ASSUME Rotate PROVE TypeOK'
    <2>1. \A i \in DOMAIN file : line[file[i]].key \in Keys
        BY DEF LogHasLines, TypeOK, LinesOK, Line
    <2>2. apart' \in SUBSET Keys
        BY <1>10, <2>1 DEF Rotate, Logged, TypeOK
    <2>3. file' \in Seq(Calls) /\ rotations' \in 0..MaxRotations
        BY <1>10, EmptySeq, ConstantsAssumption DEF Rotate, TypeOK
    <2> QED
        BY <1>10, <2>2, <2>3 DEF Rotate, TypeOK, LinesOK, InboxOK, CancelsOK, Places
<1>11. ASSUME Restart PROVE TypeOK'
    <2>1. CancelsOK'
        BY <1>11 DEF Restart, Ended, TypeOK, CancelsOK, NoCancel, Cancelling
    <2>2. InboxOK'
        BY <1>11 DEF Restart, InboxOK
    <2>3. LinesOK' /\ place' \in [Calls -> Places]
        BY <1>11 DEF Restart, TypeOK, LinesOK, Places
    <2> QED
        BY <1>11, <2>1, <2>2, <2>3, ConstantsAssumption DEF Restart, TypeOK, Places
<1>12. ASSUME Replay PROVE TypeOK'
    <2>1. boot # <<>> /\ boot \in Seq(Calls)
        BY <1>12 DEF Replay, Serving, TypeOK
    <2>2. Tail(boot) \in Seq(Calls) /\ Head(boot) = boot[1] /\ 1 \in DOMAIN boot
        BY <2>1, HeadTailProperties
    <2>3. line[Head(boot)] \in Line
        BY <2>1, <2>2 DEF LogHasLines, TypeOK, LinesOK
    <2>4. InboxOK' /\ apart' \in SUBSET Keys
        BY <1>12, <2>3, ObservedType DEF Replay, TypeOK
    <2> QED
        BY <1>12, <2>2, <2>4 DEF Replay, TypeOK, LinesOK, InboxOK, CancelsOK, Places, counters
<1>13. ASSUME UNCHANGED vars PROVE TypeOK'
    BY <1>13 DEF vars, counters, TypeOK, LinesOK, InboxOK, CancelsOK, Places
<1>14. ASSUME NEW c \in Calls, AppendLoses(c) PROVE TypeOK'
    <2>1. file' \in Seq(Calls)
        <3>1. file' = file \/ file' = <<>>
            BY <1>14, LosesIs
        <3> QED
            BY <3>1, EmptySeq DEF TypeOK
    <2> QED
        BY <1>14, <2>1, LosesIs DEF TypeOK, LinesOK, InboxOK, CancelsOK, Places
<1> QED
    BY <1>1, <1>2, <1>3, <1>4, <1>5, <1>6, <1>7, <1>8, <1>9, <1>10,
       <1>11, <1>12, <1>13, <1>14 DEF Next, CallStep, CancelStep

\* Every call whose line is in the log has ended its exchange.
LEMMA LogStep ==
    ASSUME TypeOK, LogHasLines, [Next]_vars
    PROVE  LogHasLines'
<1> USE DEF TypeOK, LogHasLines
<1>1. ASSUME NEW c \in Calls, Route(c) PROVE LogHasLines'
    BY <1>1 DEF Route, counters
<1>2. ASSUME NEW c \in Calls, AppendLine(c) PROVE LogHasLines'
    <2>1. \A i \in DOMAIN file' : (i \in DOMAIN file /\ file'[i] = file[i]) \/ file'[i] = c
        BY <1>2, AppendProperties DEF AppendLine, TypeOK
    <2>2. place'[c] # "idle" /\ \A d \in Calls : place[d] # "idle" => place'[d] # "idle"
        BY <1>2 DEF AppendLine, TypeOK
    <2> QED
        BY <1>2, <2>1, <2>2 DEF AppendLine, LogHasLines, TypeOK
<1>3. ASSUME NEW c \in Calls, Observe(c) PROVE LogHasLines'
    BY <1>3 DEF Observe, counters
<1>4. ASSUME NEW c \in Calls, Abandon(c) PROVE LogHasLines'
    BY <1>4 DEF Abandon, counters
<1>5. ASSUME NEW x \in Cancels, CancelRead(x) PROVE LogHasLines'
    BY <1>5 DEF CancelRead, counters
<1>6. ASSUME NEW x \in Cancels, CancelEnds(x) PROVE LogHasLines'
    BY <1>6 DEF CancelEnds, Ended, counters
<1>7. ASSUME NEW x \in Cancels, CancelCopies(x) PROVE LogHasLines'
    BY <1>7 DEF CancelCopies, counters
<1>8. ASSUME NEW x \in Cancels, CancelInserts(x) PROVE LogHasLines'
    BY <1>8 DEF CancelInserts, Ended, Put, counters
<1>9. ASSUME Tick PROVE LogHasLines'
    BY <1>9 DEF Tick, counters
<1>10. ASSUME Rotate PROVE LogHasLines'
    <2>1. DOMAIN file' = {}
        BY <1>10 DEF Rotate
    <2> QED
        BY <1>10, <2>1 DEF Rotate, LogHasLines
<1>11. ASSUME Restart PROVE LogHasLines'
    <2>1. \A d \in Calls : place[d] # "idle" => place'[d] # "idle"
        BY <1>11 DEF Restart
    <2> QED
        BY <1>11, <2>1 DEF Restart, LogHasLines, TypeOK
<1>12. ASSUME Replay PROVE LogHasLines'
    <2>1. boot # <<>> /\ boot \in Seq(Calls)
        BY <1>12 DEF Replay, Serving, TypeOK
    <2>2. \A i \in DOMAIN Tail(boot) : i + 1 \in DOMAIN boot /\ Tail(boot)[i] = boot[i + 1]
        BY <2>1, HeadTailProperties
    <2> QED
        BY <1>12, <2>2 DEF Replay, LogHasLines
<1>13. ASSUME UNCHANGED vars PROVE LogHasLines'
    BY <1>13 DEF vars, counters
<1>14. ASSUME NEW c \in Calls, AppendLoses(c) PROVE LogHasLines'
    <2>1. \A d \in Calls : place[d] # "idle" => place'[d] # "idle"
        BY <1>14, LosesIs
    <2>2. boot' = boot /\ (file' = file \/ DOMAIN file' = {})
        BY <1>14, LosesIs
    <2> QED
        BY <2>1, <2>2
<1> QED
    BY <1>1, <1>2, <1>3, <1>4, <1>5, <1>6, <1>7, <1>8, <1>9, <1>10,
       <1>11, <1>12, <1>13, <1>14 DEF Next, CallStep, CancelStep

\* Every step keeps the bound.
LEMMA BoundStep ==
    ASSUME TypeOK, LogHasLines, BoundedInbox, [Next]_vars
    PROVE  BoundedInbox'
<1> USE DEF BoundedInbox
<1>1. ASSUME NEW c \in Calls, Route(c) PROVE BoundedInbox'
    BY <1>1 DEF Route, counters
<1>2. ASSUME NEW c \in Calls, AppendLine(c) PROVE BoundedInbox'
    BY <1>2 DEF AppendLine, counters
<1>3. ASSUME NEW c \in Calls, Observe(c) PROVE BoundedInbox'
    <2>1. line[c] \in Line /\ Observed(line[c]) /\ excess' = excess
        BY <1>3 DEF Observe, TypeOK, LinesOK
    <2> QED
        BY <2>1, ObservedBound
<1>4. ASSUME NEW c \in Calls, Abandon(c) PROVE BoundedInbox'
    BY <1>4 DEF Abandon, counters
<1>5. ASSUME NEW x \in Cancels, CancelRead(x) PROVE BoundedInbox'
    BY <1>5 DEF CancelRead, counters
<1>6. ASSUME NEW x \in Cancels, CancelEnds(x) PROVE BoundedInbox'
    BY <1>6 DEF CancelEnds, Ended, counters
<1>7. ASSUME NEW x \in Cancels, CancelCopies(x) PROVE BoundedInbox'
    BY <1>7 DEF CancelCopies, counters
<1>8. ASSUME NEW x \in Cancels, CancelInserts(x) PROVE BoundedInbox'
    <2> DEFINE k == cancel[x].key
    <2>1. /\ DOMAIN inbox' = DOMAIN inbox \cup {k}
          /\ excess' = IF k \notin DOMAIN inbox /\ Cardinality(DOMAIN inbox) >= TaskCap
                       THEN excess + 1 ELSE excess
        BY <1>8 DEF CancelInserts, Put
    <2>2. IsFiniteSet(DOMAIN inbox) /\ Cardinality(DOMAIN inbox) \in Nat
        BY KeysInInbox
    <2>3. /\ k \in DOMAIN inbox => Cardinality(DOMAIN inbox') = Cardinality(DOMAIN inbox)
          /\ k \notin DOMAIN inbox => Cardinality(DOMAIN inbox') = Cardinality(DOMAIN inbox) + 1
        BY <2>1, <2>2, FS_AddElement
    <2>4. TaskCap \in Nat /\ excess \in Nat
        BY ConstantsAssumption DEF TypeOK
    <2> HIDE DEF k
    <2> QED
        BY <2>1, <2>2, <2>3, <2>4 DEF BoundedInbox
<1>9. ASSUME Tick PROVE BoundedInbox'
    BY <1>9 DEF Tick, counters
<1>10. ASSUME Rotate PROVE BoundedInbox'
    BY <1>10 DEF Rotate
<1>11. ASSUME Restart PROVE BoundedInbox'
    <2>1. DOMAIN inbox' = {} /\ excess' = 0
        BY <1>11 DEF Restart
    <2> QED
        BY <2>1, FS_EmptySet, ConstantsAssumption DEF BoundedInbox
<1>12. ASSUME Replay PROVE BoundedInbox'
    <2>1. boot # <<>> /\ boot \in Seq(Calls)
        BY <1>12 DEF Replay, Serving, TypeOK
    <2>2. Head(boot) = boot[1] /\ 1 \in DOMAIN boot
        BY <2>1, HeadTailProperties
    <2>3. line[Head(boot)] \in Line /\ Observed(line[Head(boot)]) /\ excess' = excess
        BY <1>12, <2>1, <2>2 DEF Replay, LogHasLines, TypeOK, LinesOK
    <2> QED
        BY <2>3, ObservedBound
<1>13. ASSUME UNCHANGED vars PROVE BoundedInbox'
    BY <1>13 DEF vars, counters
<1>14. ASSUME NEW c \in Calls, AppendLoses(c) PROVE BoundedInbox'
    BY <1>14, LosesIs
<1> QED
    BY <1>1, <1>2, <1>3, <1>4, <1>5, <1>6, <1>7, <1>8, <1>9, <1>10,
       <1>11, <1>12, <1>13, <1>14 DEF Next, CallStep, CancelStep

\* No step lets an active task go while a closed one is there.
LEMMA StaysStep ==
    ASSUME TypeOK, LogHasLines, [Next]_vars
    PROVE  \A k \in DOMAIN inbox \ DOMAIN inbox' :
           restarts' = restarts /\ inbox[k].state \in Active =>
               \A j \in DOMAIN inbox' : inbox'[j].state \in Active
<1>1. ASSUME NEW c \in Calls, Route(c) PROVE \A k \in DOMAIN inbox \ DOMAIN inbox' :
           restarts' = restarts /\ inbox[k].state \in Active =>
               \A j \in DOMAIN inbox' : inbox'[j].state \in Active
    BY <1>1 DEF Route, counters
<1>2. ASSUME NEW c \in Calls, AppendLine(c) PROVE \A k \in DOMAIN inbox \ DOMAIN inbox' :
           restarts' = restarts /\ inbox[k].state \in Active =>
               \A j \in DOMAIN inbox' : inbox'[j].state \in Active
    BY <1>2 DEF AppendLine, counters
<1>3. ASSUME NEW c \in Calls, Observe(c) PROVE \A k \in DOMAIN inbox \ DOMAIN inbox' :
           restarts' = restarts /\ inbox[k].state \in Active =>
               \A j \in DOMAIN inbox' : inbox'[j].state \in Active
    <2>1. line[c] \in Line /\ Observed(line[c])
        BY <1>3 DEF Observe, TypeOK, LinesOK
    <2> QED
        BY <2>1, ObservedStays
<1>4. ASSUME NEW c \in Calls, Abandon(c) PROVE \A k \in DOMAIN inbox \ DOMAIN inbox' :
           restarts' = restarts /\ inbox[k].state \in Active =>
               \A j \in DOMAIN inbox' : inbox'[j].state \in Active
    BY <1>4 DEF Abandon, counters
<1>5. ASSUME NEW x \in Cancels, CancelRead(x) PROVE \A k \in DOMAIN inbox \ DOMAIN inbox' :
           restarts' = restarts /\ inbox[k].state \in Active =>
               \A j \in DOMAIN inbox' : inbox'[j].state \in Active
    BY <1>5 DEF CancelRead, counters
<1>6. ASSUME NEW x \in Cancels, CancelEnds(x) PROVE \A k \in DOMAIN inbox \ DOMAIN inbox' :
           restarts' = restarts /\ inbox[k].state \in Active =>
               \A j \in DOMAIN inbox' : inbox'[j].state \in Active
    BY <1>6 DEF CancelEnds, Ended, counters
<1>7. ASSUME NEW x \in Cancels, CancelCopies(x) PROVE \A k \in DOMAIN inbox \ DOMAIN inbox' :
           restarts' = restarts /\ inbox[k].state \in Active =>
               \A j \in DOMAIN inbox' : inbox'[j].state \in Active
    BY <1>7 DEF CancelCopies, counters
<1>8. ASSUME NEW x \in Cancels, CancelInserts(x) PROVE \A k \in DOMAIN inbox \ DOMAIN inbox' :
           restarts' = restarts /\ inbox[k].state \in Active =>
               \A j \in DOMAIN inbox' : inbox'[j].state \in Active
    BY <1>8 DEF CancelInserts, Ended, Put, counters
<1>9. ASSUME Tick PROVE \A k \in DOMAIN inbox \ DOMAIN inbox' :
           restarts' = restarts /\ inbox[k].state \in Active =>
               \A j \in DOMAIN inbox' : inbox'[j].state \in Active
    BY <1>9 DEF Tick, counters
<1>10. ASSUME Rotate PROVE \A k \in DOMAIN inbox \ DOMAIN inbox' :
           restarts' = restarts /\ inbox[k].state \in Active =>
               \A j \in DOMAIN inbox' : inbox'[j].state \in Active
    BY <1>10 DEF Rotate
<1>11. ASSUME Restart PROVE \A k \in DOMAIN inbox \ DOMAIN inbox' :
           restarts' = restarts /\ inbox[k].state \in Active =>
               \A j \in DOMAIN inbox' : inbox'[j].state \in Active
    <2>1. restarts' # restarts
        BY <1>11 DEF Restart, TypeOK
    <2> QED
        BY <2>1
<1>12. ASSUME Replay PROVE \A k \in DOMAIN inbox \ DOMAIN inbox' :
           restarts' = restarts /\ inbox[k].state \in Active =>
               \A j \in DOMAIN inbox' : inbox'[j].state \in Active
    <2>1. boot # <<>> /\ boot \in Seq(Calls)
        BY <1>12 DEF Replay, Serving, TypeOK
    <2>2. Head(boot) = boot[1] /\ 1 \in DOMAIN boot
        BY <2>1, HeadTailProperties
    <2>3. line[Head(boot)] \in Line /\ Observed(line[Head(boot)])
        BY <1>12, <2>1, <2>2 DEF Replay, LogHasLines, TypeOK, LinesOK
    <2> QED
        BY <2>3, ObservedStays
<1>13. ASSUME UNCHANGED vars PROVE \A k \in DOMAIN inbox \ DOMAIN inbox' :
           restarts' = restarts /\ inbox[k].state \in Active =>
               \A j \in DOMAIN inbox' : inbox'[j].state \in Active
    BY <1>13 DEF vars, counters
<1>14. ASSUME NEW c \in Calls, AppendLoses(c) PROVE \A k \in DOMAIN inbox \ DOMAIN inbox' :
           restarts' = restarts /\ inbox[k].state \in Active =>
               \A j \in DOMAIN inbox' : inbox'[j].state \in Active
    BY <1>14, LosesIs
<1> QED
    BY <1>1, <1>2, <1>3, <1>4, <1>5, <1>6, <1>7, <1>8, <1>9, <1>10,
       <1>11, <1>12, <1>13, <1>14 DEF Next, CallStep, CancelStep

\* The inductive invariant of the inbox.
THEOREM Invariant == Spec => []Inv
<1>1. Init => Inv
    <2>1. ASSUME Init PROVE BoundedInbox
        <3>1. DOMAIN inbox = {} /\ excess = 0
            BY <2>1 DEF Init
        <3> QED
            BY <3>1, FS_EmptySet, ConstantsAssumption DEF BoundedInbox
    <2>2. ASSUME Init PROVE TypeOK
        BY <2>2, ConstantsAssumption
        DEF Init, TypeOK, LinesOK, InboxOK, CancelsOK, Places, Times, NoLine
    <2>3. ASSUME Init PROVE LogHasLines
        <3>1. DOMAIN file = {} /\ DOMAIN boot = {}
            BY <2>3 DEF Init
        <3> QED
            BY <3>1 DEF LogHasLines
    <2> QED
        BY <2>1, <2>2, <2>3 DEF Inv
<1>2. Inv /\ [Next]_vars => Inv'
    BY TypeStep, LogStep, BoundStep DEF Inv
<1> QED
    BY <1>1, <1>2, PTL DEF Spec

\* Type correctness.
THEOREM TypeCorrect == Spec => []TypeOK
<1>1. Inv => TypeOK
    BY DEF Inv
<1> QED
    BY <1>1, Invariant, PTL

\* The inbox has no more than TASK_CAP entries, but for those cancels put back.
THEOREM InboxIsBounded == Spec => []BoundedInbox
<1>1. Inv => BoundedInbox
    BY DEF Inv
<1> QED
    BY <1>1, Invariant, PTL

\* Active tasks outlive closed ones.
THEOREM ActiveOutlive == Spec => ActiveStays
<1> DEFINE Stays == \A k \in DOMAIN inbox \ DOMAIN inbox' :
            restarts' = restarts /\ inbox[k].state \in Active =>
                \A j \in DOMAIN inbox' : inbox'[j].state \in Active
<1>1. ASSUME Inv, [Next]_vars PROVE [Stays]_vars
    BY <1>1, StaysStep DEF Inv
<1> QED
    BY <1>1, Invariant, PTL DEF Spec, ActiveStays

-----------------------------------------------------------------------------
(* What lines say of their task.                                           *)

\* The lines of a key are lines, each line of the log adds one or none.
LEMMA LinesInMore ==
    ASSUME NEW n \in Nat, NEW log, NEW k, \A i \in 1..(n + 1) : log[i] \in Line
    PROVE  /\ LinesIn(log, k, n) \in Seq(Line)
           /\ LinesIn(log, k, n + 1) = IF log[n + 1].key = k
                                       THEN Append(LinesIn(log, k, n), log[n + 1])
                                       ELSE LinesIn(log, k, n)
<1> DEFINE I == {i \in 1..n : log[i].key = k}
           J == {i \in 1..(n + 1) : log[i].key = k}
<1>1. I \in SUBSET (1..n) /\ \A i \in I : log[i] \in Line
    OBVIOUS
<1>2. log[n + 1] \in Line
    OBVIOUS
<1>3. J = IF log[n + 1].key = k THEN I \cup {n + 1} ELSE I
    OBVIOUS
<1>4. LinesIn(log, k, n) = Picked(log, I) /\ LinesIn(log, k, n + 1) = Picked(log, J)
    BY DEF LinesIn
<1> HIDE DEF I, J
<1>5. Picked(log, I) \in Seq(Line) /\ Picked(log, I \cup {n + 1}) = Append(Picked(log, I), log[n + 1])
    BY <1>1, <1>2, PickedMore, ZenonT(60)
<1>6. CASE log[n + 1].key = k
    <2>1. J = I \cup {n + 1}
        BY <1>3, <1>6
    <2> QED
        BY <1>4, <1>5, <1>6, <2>1
<1>7. CASE log[n + 1].key # k
    <2>1. J = I
        BY <1>3, <1>7
    <2> QED
        BY <1>4, <1>5, <1>7, <2>1
<1> QED
    BY <1>6, <1>7

LEMMA LinesInSeq ==
    ASSUME NEW n \in Nat, NEW log, NEW k, \A i \in 1..n : log[i] \in Line
    PROVE  LinesIn(log, k, n) \in Seq(Line)
<1> DEFINE I == {i \in 1..n : log[i].key = k}
<1>1. I \in SUBSET (1..n) /\ \A i \in I : log[i] \in Line
    OBVIOUS
<1>2. LinesIn(log, k, n) = Picked(log, I)
    BY DEF LinesIn
<1> HIDE DEF I
<1>3. I \in SUBSET Nat /\ IsFiniteSet(I)
    BY <1>1, WithinInterval
<1> QED
    BY <1>1, <1>2, <1>3, PickedIs

\* A log that begins with the same lines has the same ones of a key there.
LEMMA LinesInSame ==
    ASSUME NEW n \in Nat, NEW log, NEW other, NEW k, \A i \in 1..n : log[i] = other[i]
    PROVE  LinesIn(log, k, n) = LinesIn(other, k, n)
<1> DEFINE I == {i \in 1..n : log[i].key = k}
<1>1. I \in SUBSET (1..n) /\ \A i \in I : log[i] = other[i]
    OBVIOUS
<1>2. I = {i \in 1..n : other[i].key = k}
    OBVIOUS
<1>3. LinesIn(log, k, n) = Picked(log, I) /\ LinesIn(other, k, n) = Picked(other, I)
    BY <1>2 DEF LinesIn
<1> HIDE DEF I
<1>4. I \in SUBSET Nat /\ IsFiniteSet(I)
    BY <1>1, WithinInterval
<1> QED
    BY <1>1, <1>3, <1>4, PickedSame

\* Without a line of the key there are none.
LEMMA LinesInNone ==
    ASSUME NEW n \in Nat, NEW log, NEW k, \A i \in 1..n : log[i].key # k
    PROVE  LinesIn(log, k, n) = <<>>
<1>1. {i \in 1..n : log[i].key = k} = {}
    OBVIOUS
<1> QED
    BY <1>1, PickedNone DEF LinesIn

\* A state that follows is a transition if it is not the same.
LEMMA TransitionsMore ==
    ASSUME NEW ss \in Seq(States), ss # <<>>, NEW x \in States
    PROVE  /\ Transitions(ss) \in Seq(States)
           /\ Transitions(Append(ss, x)) = IF Last(ss) # x
                                           THEN Append(Transitions(ss), x)
                                           ELSE Transitions(ss)
<1> DEFINE n == Len(ss)
           a == Append(ss, x)
           I == {i \in DOMAIN ss : i = 1 \/ ss[i] # ss[i - 1]}
           J == {i \in DOMAIN a : i = 1 \/ a[i] # a[i - 1]}
<1>1. n \in Nat /\ n # 0 /\ DOMAIN ss = 1..n /\ \A i \in 1..n : ss[i] \in States
    BY LenProperties, EmptySeq, ElementOfSeq
<1>2. DOMAIN a = 1..(n + 1) /\ a[n + 1] = x /\ \A i \in 1..n : a[i] = ss[i]
    BY AppendProperties, LenProperties
<1>3. Last(ss) = ss[n]
    BY DEF Last
<1> HIDE DEF a, n
<1>4. I \in SUBSET (1..n) /\ \A i \in I : a[i] \in States /\ ss[i] = a[i]
    BY <1>1, <1>2
<1>5. \A i \in 1..n : i \in I <=> i \in J
    <2> SUFFICES ASSUME NEW i \in 1..n PROVE i \in I <=> i \in J
        OBVIOUS
    <2>1. i # 1 => i - 1 \in 1..n
        BY <1>1
    <2> QED
        BY <1>1, <1>2, <2>1
<1>6. n + 1 \in J <=> ss[n] # x
    <2>1. n + 1 # 1 /\ n + 1 - 1 = n /\ n \in 1..n /\ n + 1 \in 1..(n + 1)
        BY <1>1
    <2> QED
        BY <1>2, <2>1
<1>7. J \in SUBSET (1..(n + 1))
    BY <1>2
<1>8. Transitions(ss) = Picked(ss, I) /\ Transitions(a) = Picked(a, J)
    BY DEF Transitions
<1> HIDE DEF I, J
<1>9. J = IF ss[n] # x THEN I \cup {n + 1} ELSE I
    <2>1. \A i \in 1..(n + 1) : i \in 1..n \/ i = n + 1
        BY <1>1
    <2>2. \A i \in J : i \in I \/ (i = n + 1 /\ ss[n] # x)
        BY <1>5, <1>6, <1>7, <2>1
    <2>3. \A i \in I : i \in J /\ i # n + 1
        BY <1>1, <1>4, <1>5
    <2> QED
        BY <1>6, <2>2, <2>3
<1>10. I \in SUBSET Nat /\ IsFiniteSet(I)
    BY <1>1, <1>4, WithinInterval
<1>11. Picked(ss, I) = Picked(a, I)
    BY <1>4, <1>10, PickedSame
<1>12. a[n + 1] \in States
    BY <1>2
<1>13. Picked(a, I) \in Seq(States) /\ Picked(a, I \cup {n + 1}) = Append(Picked(a, I), a[n + 1])
    BY <1>1, <1>4, <1>12, PickedMore, ZenonT(60)
<1>14. CASE ss[n] # x
    <2>1. Transitions(a) = Append(Transitions(ss), x)
        BY <1>2, <1>8, <1>9, <1>11, <1>13, <1>14
    <2> QED
        BY <1>3, <1>8, <1>11, <1>13, <1>14, <2>1 DEF a
<1>15. CASE ss[n] = x
    <2>1. Transitions(a) = Transitions(ss)
        BY <1>8, <1>9, <1>11, <1>15
    <2> QED
        BY <1>3, <1>8, <1>11, <1>13, <1>15, <2>1 DEF a
<1> QED
    BY <1>14, <1>15

\* One state is one transition.
LEMMA TransitionsOne ==
    ASSUME NEW x \in States
    PROVE  Transitions(<<x>>) = <<x>>
<1> DEFINE a == <<x>>
<1>1. DOMAIN a = 1..1 /\ a[1] = x
    OBVIOUS
<1>2. Append(<<>>, x) = a
    OBVIOUS
<1> HIDE DEF a
<1>3. {i \in DOMAIN a : i = 1 \/ a[i] # a[i - 1]} = {} \cup {0 + 1}
    BY <1>1
<1>4. {} \in SUBSET (1..0) /\ a[0 + 1] \in States /\ \A i \in {} : a[i] \in States
    BY <1>1
<1>5. Picked(a, {} \cup {0 + 1}) = Append(Picked(a, {}), a[0 + 1])
    BY <1>4, PickedMore
<1>6. Picked(a, {}) = <<>>
    BY PickedNone
<1>7. Picked(a, {} \cup {0 + 1}) = a
    <2>1. a[0 + 1] = x
        BY <1>1
    <2> QED
        BY <1>2, <1>5, <1>6, <2>1
<1>8. Transitions(a) = a
    BY <1>3, <1>7 DEF Transitions
<1> QED
    BY <1>8 DEF a

\* observe_locked derives entry by entry what all lines together say.
LEMMA SummaryMore ==
    ASSUME NEW ls \in Seq(Line), ls # <<>>, NEW l \in Line,
           Last(Summary(ls).history) = Summary(ls).state
    PROVE  Summary(Append(ls, l)) = Merged(Summary(ls), l)
<1> DEFINE n == Len(ls)
           a == Append(ls, l)
           ss == [i \in DOMAIN ls |-> ls[i].state]
           sa == [i \in DOMAIN a |-> a[i].state]
<1>1. n \in Nat /\ n # 0 /\ DOMAIN ls = 1..n /\ \A i \in 1..n : ls[i] \in Line
    BY LenProperties, EmptySeq, ElementOfSeq
<1>2. DOMAIN a = 1..(n + 1) /\ Len(a) = n + 1 /\ a[n + 1] = l /\ \A i \in 1..n : a[i] = ls[i]
    BY AppendProperties, LenProperties
<1>3. Last(ls) = ls[n] /\ Last(a) = l /\ a[1] = ls[1]
    <2>1. 1 \in 1..n
        BY <1>1
    <2> QED
        BY <1>2, <2>1 DEF Last
<1> HIDE DEF a, n
<1>4. \A i \in 1..n : ls[i].state \in States
    BY <1>1 DEF Line
<1>5. ss \in Seq(States) /\ Len(ss) = n /\ ss # <<>> /\ Last(ss) = ls[n].state
    <2>1. ss = [i \in 1..n |-> ls[i].state]
        BY <1>1
    <2>2. ss[n] = ls[n].state
        BY <1>1
    <2> HIDE DEF ss
    <2>3. ss \in Seq(States)
        BY <1>1, <1>4, <2>1, IsASeq
    <2>4. Len(ss) = n
        BY <1>1, <2>1, <2>3, LenProperties
    <2>5. ss # <<>>
        BY <1>1, <2>3, <2>4, EmptySeq
    <2> QED
        BY <2>2, <2>3, <2>4, <2>5 DEF Last
<1>6. l.state \in States
    BY DEF Line
<1>7. sa = Append(ss, l.state)
    <2> DEFINE b == Append(ss, l.state)
    <2>1. b \in Seq(States) /\ Len(b) = n + 1 /\ b[n + 1] = l.state /\ \A i \in 1..n : b[i] = ss[i]
        BY <1>5, <1>6, AppendProperties
    <2>2. \A i \in 1..n : ss[i] = ls[i].state
        BY <1>1
    <2>3. sa = [i \in 1..(n + 1) |-> a[i].state]
        BY <1>2
    <2> HIDE DEF b, ss, sa
    <2>4. \A i \in 1..(n + 1) : b[i] = a[i].state
        <3> SUFFICES ASSUME NEW i \in 1..(n + 1) PROVE b[i] = a[i].state
            OBVIOUS
        <3>1. CASE i \in 1..n
            BY <1>2, <2>1, <2>2, <3>1
        <3>2. CASE i = n + 1
            BY <1>2, <2>1, <3>2
        <3> QED
            BY <1>1, <3>1, <3>2
    <2>5. b = [i \in 1..(n + 1) |-> b[i]]
        BY <2>1, LenProperties
    <2> QED
        BY <2>3, <2>4, <2>5 DEF b
<1> DEFINE t == Summary(ls)
<1>8. /\ t.state = ls[n].state /\ t.created = ls[1].ts /\ t.history = Transitions(ss)
      /\ t.a2a = (\E i \in DOMAIN ls : ls[i].a2a)
    BY <1>3 DEF Summary
<1>9. Transitions(sa) = IF ls[n].state # l.state THEN Append(t.history, l.state) ELSE t.history
    BY <1>5, <1>6, <1>7, <1>8, TransitionsMore
<1>10. (\E i \in DOMAIN a : a[i].a2a) = (t.a2a \/ l.a2a)
    <2>1. (\E i \in 1..(n + 1) : a[i].a2a) <=> (\E i \in 1..n : ls[i].a2a) \/ l.a2a
        <3>1. \A i \in 1..(n + 1) : i \in 1..n \/ i = n + 1
            BY <1>1
        <3>2. n + 1 \in 1..(n + 1) /\ \A i \in 1..n : i \in 1..(n + 1)
            BY <1>1
        <3> HIDE DEF ss, sa, t
        <3> QED
            BY <1>2, <3>1, <3>2, Zenon
    <2> HIDE DEF ss, sa, t
    <2> QED
        BY <1>1, <1>2, <1>8, <2>1, Zenon
<1>11. Summary(a) = [state |-> l.state, a2a |-> (\E i \in DOMAIN a : a[i].a2a),
                     created |-> ls[1].ts, updated |-> l.ts, history |-> Transitions(sa)]
    BY <1>3 DEF Summary
<1>12. Last(t.history) = ls[n].state
    BY <1>8
<1> HIDE DEF ss, sa, t
<1> QED
    BY <1>8, <1>9, <1>10, <1>11, <1>12 DEF Merged, a, t

LEMMA SummaryOne ==
    ASSUME NEW l \in Line
    PROVE  Summary(<<l>>) = Fresh(l)
<1> DEFINE a == <<l>>
<1>1. DOMAIN a = {1} /\ a[1] = l /\ Len(a) = 1
    OBVIOUS
<1>2. [i \in DOMAIN a |-> a[i].state] = <<l.state>>
    OBVIOUS
<1>3. l.state \in States /\ l.a2a \in BOOLEAN
    BY DEF Line
<1> HIDE DEF a
<1>4. (\E i \in DOMAIN a : a[i].a2a) = l.a2a
    BY <1>1, <1>3
<1> QED
    BY <1>1, <1>2, <1>3, <1>4, TransitionsOne DEF Summary, Fresh, Last, a

-----------------------------------------------------------------------------
(* An observation and what the inbox was told.                             *)

\* The line of a key that is not evicted is added to what its entry says.
LEMMA ObservedTells ==
    ASSUME TypeOK, HistoriesEnd, NEW l \in Line, Observed(l), l.key \notin apart',
           NEW ls \in Seq(Line), Reflects(inbox, l.key, ls)
    PROVE  Reflects(inbox', l.key, Append(ls, l))
<1> DEFINE k == l.key
           box == Put(inbox, k, Fresh(l))
<1>1. Append(ls, l) \in Seq(Line) /\ Append(ls, l) # <<>>
    BY AppendProperties, EmptySeq
<1>2. CASE ls = <<>>
    <2>1. k \notin DOMAIN inbox
        BY <1>2 DEF Reflects
    <2>2. Summary(Append(ls, l)) = Fresh(l)
        <3>1. Append(ls, l) = <<l>>
            BY <1>2
        <3> QED
            BY <3>1, SummaryOne
    <2>3. k \in DOMAIN box /\ box[k] = Fresh(l)
        BY DEF Put
    <2>4. k \in DOMAIN inbox' /\ inbox'[k] = Fresh(l)
        <3>1. CASE Overfull(box)
            <4>1. PICK v \in Victims(box) : inbox' = Without(box, v) /\ apart' = apart \cup {v}
                BY <2>1, <3>1 DEF Observed
            <4>2. v # k
                BY <4>1
            <4> HIDE DEF box
            <4> QED
                BY <2>3, <4>1, <4>2 DEF Without
        <3>2. CASE ~Overfull(box)
            <4>1. inbox' = box
                BY <2>1, <3>2 DEF Observed
            <4> QED
                BY <2>3, <4>1
        <3> QED
            BY <3>1, <3>2
    <2> QED
        BY <1>1, <2>2, <2>4 DEF Reflects
<1>3. CASE ls # <<>>
    <2>1. k \in DOMAIN inbox /\ inbox[k] = Summary(ls)
        BY <1>3 DEF Reflects
    <2>2. Last(Summary(ls).history) = Summary(ls).state
        BY <2>1 DEF HistoriesEnd
    <2>3. Summary(Append(ls, l)) = Merged(inbox[k], l)
        BY <1>3, <2>1, <2>2, SummaryMore
    <2>4. inbox' = Put(inbox, k, Merged(inbox[k], l))
        BY <2>1 DEF Observed
    <2>5. k \in DOMAIN inbox' /\ inbox'[k] = Merged(inbox[k], l)
        BY <2>4 DEF Put
    <2> QED
        BY <1>1, <2>3, <2>5 DEF Reflects
<1> QED
    BY <1>2, <1>3

\* No other entry changes unless it is evicted.
LEMMA ObservedLeaves ==
    ASSUME NEW l \in Line, Observed(l), NEW k, k # l.key, k \notin apart',
           NEW ls, Reflects(inbox, k, ls)
    PROVE  Reflects(inbox', k, ls)
<1> DEFINE box == Put(inbox, l.key, Fresh(l))
<1>1. (k \in DOMAIN inbox' <=> k \in DOMAIN inbox) /\ (k \in DOMAIN inbox => inbox'[k] = inbox[k])
    <2>1. CASE l.key \in DOMAIN inbox
        BY <2>1 DEF Observed, Put
    <2>2. CASE l.key \notin DOMAIN inbox /\ Overfull(box)
        <3>1. PICK v \in Victims(box) : inbox' = Without(box, v) /\ apart' = apart \cup {v}
            BY <2>2 DEF Observed
        <3>2. k # v
            BY <3>1
        <3> QED
            BY <3>1, <3>2 DEF Without, Put
    <2>3. CASE l.key \notin DOMAIN inbox /\ ~Overfull(box)
        BY <2>3 DEF Observed, Put
    <2> QED
        BY <2>1, <2>2, <2>3
<1> QED
    BY <1>1 DEF Reflects

\* Whatever is observed, histories end in the state.
LEMMA ObservedEnds ==
    ASSUME TypeOK, HistoriesEnd, NEW l \in Line, Observed(l), NEW k \in DOMAIN inbox'
    PROVE  Last(inbox'[k].history) = inbox'[k].state
<1> DEFINE box == Put(inbox, l.key, Fresh(l))
<1>1. Last(Fresh(l).history) = Fresh(l).state
    BY DEF Fresh, Last
<1>2. CASE l.key \in DOMAIN inbox
    <2> DEFINE t == inbox[l.key]
    <2>1. inbox' = Put(inbox, l.key, Merged(t, l))
        BY <1>2 DEF Observed
    <2>2. t \in Entry /\ Last(t.history) = t.state
        BY <1>2 DEF TypeOK, InboxOK, HistoriesEnd
    <2>3. Last(Merged(t, l).history) = Merged(t, l).state
        <3>1. Last(Append(t.history, l.state)) = l.state
            <4>1. t.history \in Seq(States) /\ l.state \in States
                BY <2>2 DEF Entry, Line
            <4> QED
                BY <4>1, AppendProperties DEF Last
        <3> HIDE DEF t
        <3> QED
            BY <2>2, <3>1 DEF Merged
    <2> QED
        BY <2>1, <2>3 DEF Put, HistoriesEnd
<1>3. CASE l.key \notin DOMAIN inbox
    <2>1. \A j \in DOMAIN box : Last(box[j].history) = box[j].state
        BY <1>1 DEF Put, HistoriesEnd
    <2>2. k \in DOMAIN box /\ inbox'[k] = box[k]
        <3>1. CASE Overfull(box)
            <4>1. PICK v \in Victims(box) : inbox' = Without(box, v)
                BY <1>3, <3>1 DEF Observed
            <4> HIDE DEF box
            <4> QED
                BY <4>1 DEF Without
        <3>2. CASE ~Overfull(box)
            <4>1. inbox' = box
                BY <1>3, <3>2 DEF Observed
            <4> QED
                BY <4>1
        <3> QED
            BY <3>1, <3>2
    <2> QED
        BY <2>1, <2>2
<1> QED
    BY <1>2, <1>3

-----------------------------------------------------------------------------
(* The log.                                                                *)

\* The log has lines.
LEMMA LogIs ==
    ASSUME TypeOK, LogHasLines
    PROVE  /\ Len(file) \in Nat /\ DOMAIN file = 1..Len(file)
           /\ \A i \in 1..Len(file) : Log[i] = line[file[i]] /\ Log[i] \in Line
<1>1. Len(file) \in Nat /\ DOMAIN file = 1..Len(file) /\ \A i \in 1..Len(file) : file[i] \in Calls
    BY LenProperties, ElementOfSeq DEF TypeOK
<1>2. \A i \in 1..Len(file) : line[file[i]] \in Line
    BY <1>1 DEF TypeOK, LinesOK, LogHasLines
<1> QED
    BY <1>1, <1>2 DEF Log

\* Part of it was read, all of it while it serves.
LEMMA ReadIs ==
    ASSUME TypeOK, LogHasLines, BootIsRest
    PROVE  /\ Len(boot) \in Nat /\ Read \in 0..Len(file)
           /\ Serving => Read = Len(file)
           /\ \A i \in 1..Read : Log[i] \in Line
           /\ \A k : LinesRead(k) \in Seq(Line)
<1>1. Len(file) \in Nat /\ Len(boot) \in Nat /\ (boot = <<>> => Len(boot) = 0)
    BY LenProperties, EmptySeq DEF TypeOK
<1>2. Read \in 0..Len(file) /\ (boot = <<>> => Read = Len(file))
    BY <1>1 DEF BootIsRest, Read
<1>3. \A i \in 1..Read : Log[i] \in Line
    <2> SUFFICES ASSUME NEW i \in 1..Read PROVE Log[i] \in Line
        OBVIOUS
    <2>1. i \in 1..Len(file)
        BY <1>1, <1>2
    <2> QED
        BY <2>1, LogIs
<1>4. Read \in Nat
    BY <1>1, <1>2
<1>5. \A k : LinesRead(k) \in Seq(Line)
    BY <1>3, <1>4, LinesInSeq DEF LinesRead
<1> QED
    BY <1>1, <1>2, <1>3, <1>5 DEF Serving

\* No step but an append and a rotation changes what the log says.
LEMMA LogSame ==
    ASSUME TypeOK, LogHasLines, file' = file,
           \A c \in Calls : place[c] # "idle" => line'[c] = line[c]
    PROVE  Log' = Log
<1>1. \A i \in DOMAIN file : line'[file[i]] = line[file[i]]
    BY LogIs DEF LogHasLines, TypeOK
<1> QED
    BY <1>1 DEF Log

\* A step that changes neither the log, the inbox nor what is on its way.
LEMMA Calm ==
    ASSUME OneOnItsWay, ToldIsShown, Log' = Log,
           file' = file, boot' = boot, inbox' = inbox, apart' = apart,
           \A k \in Keys : Unseen(k)' = Unseen(k),
           \A k \in Keys : \A c \in Unseen(k) : line'[c] = line[c]
    PROVE  OneOnItsWay' /\ ToldIsShown'
<1>1. \A k \in Keys : LinesRead(k)' = LinesRead(k)
    BY DEF LinesRead, Read
<1>2. \A k \in Keys : Told(k)' = Told(k)
    BY <1>1 DEF Told
<1> QED
    BY <1>1, <1>2 DEF OneOnItsWay, ToldIsShown

-----------------------------------------------------------------------------
(* Every step keeps what the inbox was told, and shows it.                 *)

\* What the log does not have of a key is not on its way either.
LEMMA RestStep ==
    ASSUME TypeOK, LogHasLines, BootIsRest, [Next]_vars
    PROVE  BootIsRest'
<1>1. Len(file) \in Nat /\ Len(boot) \in Nat /\ (boot = <<>> => Len(boot) = 0)
    BY LenProperties, EmptySeq DEF TypeOK
<1>2. ASSUME file' = file, boot' = boot,
             ~Serving => \A c \in Calls : place'[c] \in {"idle", "gone"}
      PROVE  BootIsRest'
    BY <1>2 DEF BootIsRest, Read, Serving
<1>3. ASSUME NEW c \in Calls, Route(c) PROVE BootIsRest'
    BY <1>2, <1>3 DEF Route
<1>4. ASSUME NEW c \in Calls, AppendLine(c) PROVE BootIsRest'
    <2>1. boot = <<>> /\ boot' = <<>> /\ Len(boot') = 0
        BY <1>1, <1>4 DEF AppendLine, Serving
    <2>2. Len(file') = Len(file) + 1
        BY <1>4, AppendProperties DEF AppendLine, TypeOK
    <2> QED
        BY <1>1, <2>1, <2>2 DEF BootIsRest, Serving
<1>5. ASSUME NEW c \in Calls, Observe(c) PROVE BootIsRest'
    BY <1>2, <1>5 DEF Observe
<1>6. ASSUME NEW c \in Calls, Abandon(c) PROVE BootIsRest'
    <2>1. ~Serving => \A d \in Calls : place'[d] \in {"idle", "gone"}
        BY <1>6 DEF Abandon, BootIsRest, TypeOK
    <2> QED
        BY <1>2, <1>6, <2>1 DEF Abandon
<1>7. ASSUME NEW x \in Cancels, CancelStep(x) PROVE BootIsRest'
    <2>1. file' = file /\ boot' = boot /\ place' = place
        BY <1>7 DEF CancelStep, CancelRead, CancelEnds, CancelCopies, CancelInserts
    <2> QED
        BY <1>2, <2>1 DEF BootIsRest
<1>8. ASSUME Tick \/ UNCHANGED vars PROVE BootIsRest'
    <2>1. file' = file /\ boot' = boot /\ place' = place
        BY <1>8 DEF Tick, vars
    <2> QED
        BY <1>2, <2>1 DEF BootIsRest
<1>9. ASSUME Rotate PROVE BootIsRest'
    <2>1. boot' = <<>> /\ file' = <<>> /\ Len(boot') = 0 /\ Len(file') = 0
        BY <1>1, <1>9 DEF Rotate, Serving
    <2> QED
        BY <2>1 DEF BootIsRest, Serving
<1>10. ASSUME Restart PROVE BootIsRest'
    <2>1. boot' = file /\ file' = file
        BY <1>10 DEF Restart
    <2>2. \A c \in Calls : place'[c] \in {"idle", "gone"}
        BY <1>10 DEF Restart
    <2>3. Read' = 0 /\ \A i \in 1..Len(file) : 0 + i = i
        BY <1>1, <2>1 DEF Read
    <2> QED
        BY <1>1, <2>1, <2>2, <2>3 DEF BootIsRest
<1>11. ASSUME Replay PROVE BootIsRest'
    <2>1. boot # <<>> /\ boot \in Seq(Calls) /\ boot' = Tail(boot) /\ file' = file /\ place' = place
        BY <1>11 DEF Replay, Serving, TypeOK
    <2>2. /\ Len(boot') = Len(boot) - 1 /\ Len(boot) # 0
          /\ \A i \in 1..Len(boot') : boot'[i] = boot[i + 1]
        BY <1>1, <2>1, HeadTailProperties, EmptySeq
    <2>3. Read' = Read + 1 /\ Read \in Int
        BY <1>1, <2>1, <2>2 DEF Read
    <2>4. ASSUME NEW i \in 1..Len(boot') PROVE boot'[i] = file'[Read' + i]
        <3>1. i + 1 \in 1..Len(boot) /\ Read + (i + 1) = Read' + i
            BY <1>1, <2>2, <2>3
        <3> QED
            BY <2>1, <2>2, <3>1 DEF BootIsRest
    <2> QED
        BY <1>1, <2>1, <2>2, <2>4 DEF BootIsRest, Serving
<1>12. ASSUME NEW c \in Calls, AppendLoses(c) PROVE BootIsRest'
    <2>1. boot = <<>> /\ boot' = <<>> /\ Len(boot') = 0
        BY <1>1, <1>12, LosesIs DEF LogHasLines, Serving
    <2>2. Len(file') \in Nat
        <3>1. file' = file \/ file' = <<>>
            BY <1>12, LosesIs
        <3> QED
            BY <1>1, <3>1, EmptySeq
    <2> QED
        BY <2>1, <2>2 DEF BootIsRest, Serving
<1> QED
    BY <1>3, <1>4, <1>5, <1>6, <1>7, <1>8, <1>9, <1>10, <1>11, <1>12 DEF Next, CallStep

\* A cancel ends the history in the state it gives, as an observation does.
LEMMA EndsStep ==
    ASSUME TypeOK, LogHasLines, HistoriesEnd, [Next]_vars
    PROVE  HistoriesEnd'
<1>1. ASSUME inbox' = inbox, cancel' = cancel PROVE HistoriesEnd'
    BY <1>1 DEF HistoriesEnd
<1>2. ASSUME NEW l \in Line, Observed(l), cancel' = cancel PROVE HistoriesEnd'
    <2>1. \A k \in DOMAIN inbox' : Last(inbox'[k].history) = inbox'[k].state
        BY <1>2, ObservedEnds
    <2> QED
        BY <1>2, <2>1 DEF HistoriesEnd
<1>3. ASSUME NEW c \in Calls, Observe(c) PROVE HistoriesEnd'
    <2>1. line[c] \in Line /\ Observed(line[c]) /\ cancel' = cancel
        BY <1>3 DEF Observe, TypeOK, LinesOK
    <2> QED
        BY <1>2, <2>1
<1>4. ASSUME NEW c \in Calls, Route(c) \/ AppendLine(c) \/ Abandon(c) PROVE HistoriesEnd'
    BY <1>1, <1>4 DEF Route, AppendLine, Abandon
<1>11. ASSUME NEW c \in Calls, AppendLoses(c) PROVE HistoriesEnd'
    BY <1>1, <1>11, LosesIs
<1>5. ASSUME Tick \/ Rotate \/ UNCHANGED vars PROVE HistoriesEnd'
    BY <1>1, <1>5 DEF Tick, Rotate, vars
<1>6. ASSUME NEW x \in Cancels, CancelRead(x) \/ CancelEnds(x) PROVE HistoriesEnd'
    <2>1. inbox' = inbox /\ \A y \in Cancels : cancel'[y].at = "copied" => cancel'[y] = cancel[y]
        BY <1>6 DEF CancelRead, CancelEnds, Ended, TypeOK, CancelsOK
    <2> QED
        BY <2>1 DEF HistoriesEnd
<1>7. ASSUME NEW x \in Cancels, CancelCopies(x) PROVE HistoriesEnd'
    <2> DEFINE t == inbox[cancel[x].key]
    <2>1. PICK s \in States :
            cancel' = [cancel EXCEPT ![x] =
                [at |-> "copied", key |-> cancel[x].key,
                 copy |-> [state |-> s, a2a |-> t.a2a, created |-> t.created,
                           updated |-> now, history |-> Append(t.history, s)]]]
        BY <1>7 DEF CancelCopies
    <2>2. Last(Append(t.history, s)) = s
        <3>1. t.history \in Seq(States)
            BY <1>7 DEF CancelCopies, TypeOK, InboxOK, Entry
        <3> HIDE DEF t
        <3> QED
            BY <3>1, AppendProperties DEF Last
    <2> HIDE DEF t
    <2>3. inbox' = inbox
        BY <1>7 DEF CancelCopies
    <2>4. \A y \in Cancels : cancel'[y].at = "copied" =>
            Last(cancel'[y].copy.history) = cancel'[y].copy.state
        <3> SUFFICES ASSUME NEW y \in Cancels, cancel'[y].at = "copied"
                     PROVE  Last(cancel'[y].copy.history) = cancel'[y].copy.state
            OBVIOUS
        <3>1. CASE y = x
            <4>1. cancel'[y].copy.history = Append(t.history, s) /\ cancel'[y].copy.state = s
                BY <2>1, <3>1 DEF TypeOK, CancelsOK
            <4> QED
                BY <2>2, <4>1
        <3>2. CASE y # x
            BY <2>1, <3>2 DEF TypeOK, CancelsOK, HistoriesEnd
        <3> QED
            BY <3>1, <3>2
    <2> QED
        BY <2>3, <2>4 DEF HistoriesEnd
<1>8. ASSUME NEW x \in Cancels, CancelInserts(x) PROVE HistoriesEnd'
    <2> DEFINE k == cancel[x].key
    <2>1. /\ inbox' = Put(inbox, k, cancel[x].copy) /\ cancel' = [cancel EXCEPT ![x] = Ended(k)]
          /\ cancel[x].at = "copied"
        BY <1>8 DEF CancelInserts
    <2>2. Last(cancel[x].copy.history) = cancel[x].copy.state
        BY <2>1 DEF HistoriesEnd
    <2>3. \A y \in Cancels : cancel'[y].at = "copied" => cancel'[y] = cancel[y]
        BY <2>1 DEF Ended, TypeOK, CancelsOK
    <2>4. \A j \in DOMAIN inbox' : Last(inbox'[j].history) = inbox'[j].state
        BY <2>1, <2>2 DEF Put, HistoriesEnd
    <2> QED
        BY <2>3, <2>4 DEF HistoriesEnd
<1>9. ASSUME Restart PROVE HistoriesEnd'
    <2>1. DOMAIN inbox' = {} /\ \A y \in Cancels : cancel'[y].at # "copied"
        BY <1>9 DEF Restart, Ended, NoCancel
    <2> QED
        BY <2>1 DEF HistoriesEnd
<1>10. ASSUME Replay PROVE HistoriesEnd'
    <2>1. boot # <<>> /\ boot \in Seq(Calls)
        BY <1>10 DEF Replay, Serving, TypeOK
    <2>2. Head(boot) = boot[1] /\ 1 \in DOMAIN boot
        BY <2>1, HeadTailProperties
    <2>3. line[Head(boot)] \in Line /\ Observed(line[Head(boot)]) /\ cancel' = cancel
        BY <1>10, <2>1, <2>2 DEF Replay, LogHasLines, TypeOK, LinesOK
    <2> QED
        BY <1>2, <2>3
<1> QED
    BY <1>3, <1>4, <1>5, <1>6, <1>7, <1>8, <1>9, <1>10, <1>11 DEF Next, CallStep, CancelStep

\* A caller without a line on its way changes no more than the calls.
LEMMA UnseenSame ==
    ASSUME \A c \in Calls : place'[c] = "logged" <=> place[c] = "logged",
           \A c \in Calls : place[c] = "logged" => line'[c] = line[c]
    PROVE  /\ \A k \in Keys : Unseen(k)' = Unseen(k)
           /\ \A k \in Keys : \A c \in Unseen(k) : line'[c] = line[c]
BY DEF Unseen

\* A line is appended: it is on its way if no other of its key is.
LEMMA AppendShows ==
    ASSUME TypeOK, LogHasLines, InboxInv, NEW c \in Calls, AppendLine(c)
    PROVE  OneOnItsWay' /\ ToldIsShown'
<1> DEFINE n == Len(file)
           k0 == line[c].key
<1>1. /\ place[c] = "routed" /\ place' = [place EXCEPT ![c] = "logged"]
      /\ file' = Append(file, c) /\ line' = line /\ inbox' = inbox /\ boot' = boot
      /\ Serving
      /\ apart' = IF Unseen(k0) = {} THEN apart ELSE apart \cup {k0}
    BY DEF AppendLine
<1>2. n \in Nat /\ Read = n /\ \A i \in 1..n : Log[i] \in Line
    BY <1>1, LogIs, ReadIs DEF InboxInv
<1>3. Len(file') = n + 1 /\ Read' = n + 1
    <2>1. Len(file') = n + 1
        BY <1>1, AppendProperties DEF TypeOK
    <2>2. Len(boot) = 0
        BY <1>1 DEF Serving
    <2> QED
        BY <1>1, <1>2, <2>1, <2>2 DEF Read
<1>4. /\ line[c] \in Line
      /\ Log'[n + 1] = line[c] /\ \A i \in 1..n : Log'[i] = Log[i]
    <2>1. line[c] \in Line
        BY <1>1 DEF TypeOK, LinesOK
    <2>2. DOMAIN file' = 1..(n + 1) /\ file'[n + 1] = c /\ \A i \in 1..n : file'[i] = file[i]
        BY <1>1, AppendProperties, LenProperties DEF TypeOK
    <2>3. \A i \in 1..(n + 1) : Log'[i] = line[file'[i]]
        BY <1>1, <2>2 DEF Log
    <2>4. \A i \in 1..n : Log[i] = line[file[i]]
        BY LogIs
    <2>5. n + 1 \in 1..(n + 1) /\ \A i \in 1..n : i \in 1..(n + 1)
        BY <1>2
    <2> HIDE DEF n
    <2> QED
        BY <2>1, <2>2, <2>3, <2>4, <2>5
<1> HIDE DEF n
<1>5. \A i \in 1..(n + 1) : Log'[i] \in Line
    <2> SUFFICES ASSUME NEW i \in 1..(n + 1) PROVE Log'[i] \in Line
        OBVIOUS
    <2>1. i \in 1..n \/ i = n + 1
        BY <1>2
    <2> QED
        BY <1>2, <1>4, <2>1
<1>6. ASSUME NEW k \in Keys
      PROVE  LinesRead(k)' = IF k = k0 THEN Append(LinesRead(k), line[c]) ELSE LinesRead(k)
    <2>1. LinesRead(k)' = LinesIn(Log', k, n + 1) /\ LinesRead(k) = LinesIn(Log, k, n)
        BY <1>2, <1>3 DEF LinesRead
    <2>2. LinesIn(Log', k, n + 1) = IF line[c].key = k THEN Append(LinesIn(Log', k, n), line[c])
                                   ELSE LinesIn(Log', k, n)
        <3> DEFINE log == Log'
        <3>1. log[n + 1] = line[c] /\ \A i \in 1..(n + 1) : log[i] \in Line
            BY <1>4, <1>5
        <3> HIDE DEF log
        <3>2. LinesIn(log, k, n + 1) = IF log[n + 1].key = k
                                       THEN Append(LinesIn(log, k, n), log[n + 1])
                                       ELSE LinesIn(log, k, n)
            BY <1>2, <3>1, LinesInMore
        <3> QED
            BY <3>1, <3>2 DEF log
    <2>3. LinesIn(Log', k, n) = LinesIn(Log, k, n)
        BY <1>2, <1>4, LinesInSame
    <2> QED
        BY <2>1, <2>2, <2>3
<1>7. ASSUME NEW k \in Keys
      PROVE  Unseen(k)' = IF k = k0 THEN Unseen(k) \cup {c} ELSE Unseen(k)
    BY <1>1 DEF Unseen, TypeOK
<1>8. ASSUME NEW k \in Keys \ apart'
      PROVE  /\ Reflects(inbox', k, Told(k)')
             /\ \A d \in Unseen(k)' :
                    /\ Unseen(k)' = {d}
                    /\ LinesRead(k)' # <<>> /\ Last(LinesRead(k)') = line'[d]
    <2>0. k \notin apart /\ (k = k0 => Unseen(k) = {})
        BY <1>1, <1>8
    <2>1. Reflects(inbox, k, Told(k))
        BY <2>0 DEF InboxInv, ToldIsShown
    <2>2. CASE k # k0
        <3>1. Unseen(k)' = Unseen(k) /\ LinesRead(k)' = LinesRead(k)
            BY <1>6, <1>7, <2>2
        <3>2. Told(k)' = Told(k)
            BY <3>1 DEF Told
        <3> QED
            BY <1>1, <2>0, <2>1, <3>1, <3>2 DEF InboxInv, OneOnItsWay
    <2>3. CASE k = k0
        <3>1. LinesRead(k) \in Seq(Line)
            BY ReadIs DEF InboxInv
        <3> DEFINE ls == LinesRead(k)
                   a == Append(ls, line[c])
        <3>2. /\ Unseen(k) = {} /\ Unseen(k)' = {c}
              /\ LinesRead(k)' = a
            BY <1>6, <1>7, <2>0, <2>3
        <3> HIDE DEF ls
        <3>3. ls \in Seq(Line)
            BY <3>1 DEF ls
        <3>4. a # <<>> /\ Last(a) = line[c] /\ Front(a) = ls
            <4>1. a \in Seq(Line) /\ a # <<>> /\ Len(a) = Len(ls) + 1 /\ a[Len(ls) + 1] = line[c]
                BY <1>4, <3>3, AppendProperties, EmptySeq
            <4>2. Front(a) = ls
                BY <1>4, <3>3, FrontOfAppend
            <4> QED
                BY <4>1, <4>2 DEF Last
        <3>5. Told(k) = ls /\ Told(k)' = ls
            <4>1. Told(k) = ls
                BY <3>2 DEF Told, ls
            <4>2. Told(k)' = Front(LinesRead(k)')
                BY <3>2 DEF Told
            <4> QED
                BY <3>2, <3>4, <4>1, <4>2
        <3> QED
            BY <1>1, <2>1, <3>2, <3>4, <3>5
    <2> QED
        BY <2>2, <2>3
<1> QED
    BY <1>8 DEF OneOnItsWay, ToldIsShown

\* The inbox is told of a line, and what was on its way has arrived.
LEMMA ObserveShows ==
    ASSUME TypeOK, LogHasLines, InboxInv, NEW c \in Calls, Observe(c)
    PROVE  OneOnItsWay' /\ ToldIsShown'
<1> DEFINE l == line[c]
           k0 == l.key
<1>1. /\ place[c] = "logged" /\ place' = [place EXCEPT ![c] = "done"]
      /\ file' = file /\ line' = line /\ boot' = boot /\ Observed(l)
    BY DEF Observe
<1>2. l \in Line /\ k0 \in Keys
    <2>1. l \in Line
        BY <1>1 DEF TypeOK, LinesOK
    <2> QED
        BY <2>1 DEF Line
<1>3. \A k \in Keys : LinesRead(k)' = LinesRead(k)
    <2>1. Log' = Log
        BY <1>1, LogSame
    <2> QED
        BY <1>1, <2>1 DEF LinesRead, Read
<1>4. \A k \in Keys : Unseen(k)' = Unseen(k) \ {c} /\ (k # k0 => c \notin Unseen(k))
    BY <1>1 DEF Unseen, TypeOK
<1>5. c \in Unseen(k0)
    BY <1>1 DEF Unseen
<1>6. apart \subseteq apart'
    BY <1>1 DEF Observed
<1> HIDE DEF l
<1>7. ASSUME NEW k \in Keys \ apart'
      PROVE  /\ Reflects(inbox', k, Told(k)')
             /\ \A d \in Unseen(k)' :
                    /\ Unseen(k)' = {d}
                    /\ LinesRead(k)' # <<>> /\ Last(LinesRead(k)') = line'[d]
    <2>0. k \notin apart
        BY <1>6, <1>7
    <2>1. Reflects(inbox, k, Told(k))
        BY <2>0 DEF InboxInv, ToldIsShown
    <2>2. CASE k # k0
        <3>1. Unseen(k)' = Unseen(k) /\ LinesRead(k)' = LinesRead(k)
            BY <1>3, <1>4, <2>2
        <3>2. Told(k)' = Told(k)
            BY <3>1 DEF Told
        <3>3. Reflects(inbox', k, Told(k))
            BY <1>1, <1>2, <1>7, <2>1, <2>2, ObservedLeaves
        <3> QED
            BY <1>1, <2>0, <3>1, <3>2, <3>3 DEF InboxInv, OneOnItsWay
    <2>3. CASE k = k0
        <3> DEFINE ls == LinesRead(k)
        <3>1. Unseen(k) = {c} /\ ls # <<>> /\ Last(ls) = l
            BY <1>5, <2>0, <2>3 DEF InboxInv, OneOnItsWay, l
        <3>2. Unseen(k)' = {}
            BY <1>4, <3>1
        <3>3. Told(k) = Front(ls) /\ Told(k)' = ls
            <4>1. Told(k) = Front(ls)
                BY <3>1 DEF Told
            <4>2. Told(k)' = LinesRead(k)'
                BY <3>2 DEF Told
            <4> QED
                BY <1>3, <4>1, <4>2
        <3>4. ls \in Seq(Line)
            BY ReadIs DEF InboxInv
        <3> HIDE DEF ls
        <3>5. Front(ls) \in Seq(Line) /\ Append(Front(ls), l) = ls
            <4>1. Append(Front(ls), Last(ls)) = ls
                BY <3>1, <3>4, FrontIs
            <4>2. Front(ls) \in Seq(Line)
                BY <3>1, <3>4, FrontIs
            <4> QED
                BY <3>1, <4>1, <4>2
        <3>6. Reflects(inbox', k, Append(Front(ls), l))
            <4>1. HistoriesEnd
                BY DEF InboxInv
            <4> QED
                BY <1>1, <1>2, <1>7, <2>1, <2>3, <3>3, <3>5, <4>1, ObservedTells
        <3> QED
            BY <3>2, <3>3, <3>5, <3>6
    <2> QED
        BY <2>2, <2>3
<1> QED
    BY <1>7 DEF OneOnItsWay, ToldIsShown

\* A key is apart from now on whose line nobody will observe.
LEMMA AbandonShows ==
    ASSUME TypeOK, LogHasLines, InboxInv, NEW c \in Calls, Abandon(c)
    PROVE  OneOnItsWay' /\ ToldIsShown'
<1> DEFINE k0 == line[c].key
<1>1. /\ place' = [place EXCEPT ![c] = "gone"] /\ place[c] = "logged"
      /\ file' = file /\ line' = line /\ boot' = boot /\ inbox' = inbox
      /\ apart' = apart \cup {k0}
    BY DEF Abandon
<1>2. ASSUME NEW k \in Keys \ apart'
      PROVE  Unseen(k)' = Unseen(k) /\ LinesRead(k)' = LinesRead(k)
    <2>1. k # k0
        BY <1>1, <1>2
    <2>2. Unseen(k)' = Unseen(k)
        BY <1>1, <2>1 DEF Unseen, TypeOK
    <2>3. Log' = Log
        BY <1>1, LogSame
    <2> QED
        BY <1>1, <2>2, <2>3 DEF LinesRead, Read
<1>3. \A k \in Keys \ apart' : Told(k)' = Told(k) /\ k \notin apart
    BY <1>1, <1>2 DEF Told
<1> QED
    BY <1>1, <1>2, <1>3 DEF InboxInv, OneOnItsWay, ToldIsShown

\* The log has no line any more: what had no line has no entry.
LEMMA EmptiedShows ==
    ASSUME TypeOK, LogHasLines, InboxInv,
           Serving, file' = <<>>, inbox' = inbox, boot' = boot,
           apart \subseteq apart', Logged \subseteq apart',
           \A k \in Keys \ apart' : Unseen(k)' = Unseen(k)
    PROVE  OneOnItsWay' /\ ToldIsShown'
<1>1. \A k \in Keys \ apart' : k \notin apart /\ \A i \in DOMAIN file : line[file[i]].key # k
    BY DEF Logged
<1>2. Read = Len(file) /\ Len(file) \in Nat /\ DOMAIN file = 1..Len(file)
    BY LogIs, ReadIs DEF InboxInv
<1>3. Read' = 0
    BY DEF Read, Serving
<1>4. ASSUME NEW k \in Keys \ apart'
      PROVE  k \notin apart /\ LinesRead(k) = <<>> /\ LinesRead(k)' = <<>>
             /\ Unseen(k) = {} /\ Unseen(k)' = {}
    <2>1. k \notin apart /\ \A i \in DOMAIN file : line[file[i]].key # k
        BY <1>1, <1>4
    <2>2. LinesRead(k) = <<>>
        <3>1. \A i \in 1..Len(file) : Log[i].key # k
            BY <1>2, <2>1, LogIs
        <3> QED
            BY <1>2, <3>1, LinesInNone DEF LinesRead
    <2>3. LinesRead(k)' = <<>>
        <3> DEFINE log == Log'
        <3>1. LinesRead(k)' = LinesIn(log, k, 0)
            BY <1>3 DEF LinesRead
        <3> HIDE DEF log
        <3>2. 0 \in Nat /\ \A i \in 1..0 : log[i].key # k
            OBVIOUS
        <3> QED
            BY <3>1, <3>2, LinesInNone
    <2>4. Unseen(k) = {}
        BY <2>1, <2>2 DEF InboxInv, OneOnItsWay
    <2>5. Unseen(k)' = Unseen(k)
        BY <1>4
    <2> QED
        BY <2>1, <2>2, <2>3, <2>4, <2>5
<1>5. \A k \in Keys \ apart' : Told(k)' = Told(k)
    BY <1>4 DEF Told
<1> QED
    BY <1>1, <1>4, <1>5 DEF InboxInv, OneOnItsWay, ToldIsShown

\* The log starts anew.
LEMMA RotateShows ==
    ASSUME TypeOK, LogHasLines, InboxInv, Rotate
    PROVE  OneOnItsWay' /\ ToldIsShown'
<1>1. /\ Serving /\ file' = <<>> /\ inbox' = inbox /\ boot' = boot
      /\ apart' = apart \cup Logged /\ line' = line /\ place' = place
    BY DEF Rotate
<1>2. \A k \in Keys : Unseen(k)' = Unseen(k)
    BY <1>1 DEF Unseen
<1> QED
    BY <1>1, <1>2, EmptiedShows

\* A key is apart from now on whose line the log does not get.
LEMMA LosesShows ==
    ASSUME TypeOK, LogHasLines, InboxInv, NEW c \in Calls, AppendLoses(c)
    PROVE  OneOnItsWay' /\ ToldIsShown'
<1>1. /\ Serving /\ place' = [place EXCEPT ![c] = "logged"]
      /\ line' = line /\ inbox' = inbox /\ boot' = boot
      /\ apart \subseteq apart' /\ line[c].key \in apart'
      /\ file' = file \/ (file' = <<>> /\ Logged \subseteq apart')
    BY LosesIs
<1>2. \A k \in Keys \ apart' : k \notin apart /\ Unseen(k)' = Unseen(k)
    BY <1>1 DEF Unseen, TypeOK
<1>3. CASE file' = file
    <2>1. \A k \in Keys : LinesRead(k)' = LinesRead(k)
        <3>1. Log' = Log
            BY <1>1, <1>3, LogSame
        <3> QED
            BY <1>1, <1>3, <3>1 DEF LinesRead, Read
    <2>2. \A k \in Keys \ apart' : Told(k)' = Told(k)
        BY <1>2, <2>1 DEF Told
    <2> QED
        BY <1>1, <1>2, <2>1, <2>2 DEF InboxInv, OneOnItsWay, ToldIsShown
<1>4. CASE file' = <<>> /\ Logged \subseteq apart'
    BY <1>1, <1>2, <1>4, EmptiedShows
<1> QED
    BY <1>1, <1>3, <1>4

\* A cancel's insert sets its key apart.
LEMMA InsertShows ==
    ASSUME TypeOK, LogHasLines, InboxInv, NEW x \in Cancels, CancelInserts(x)
    PROVE  OneOnItsWay' /\ ToldIsShown'
<1> DEFINE k0 == cancel[x].key
<1>1. /\ place' = place /\ file' = file /\ line' = line /\ boot' = boot
      /\ inbox' = Put(inbox, k0, cancel[x].copy)
      /\ apart' = apart \cup {k0}
    BY DEF CancelInserts
<1>2. Log' = Log
    BY <1>1, LogSame
<1>3. ASSUME NEW k \in Keys \ apart'
      PROVE  Unseen(k)' = Unseen(k) /\ LinesRead(k)' = LinesRead(k) /\ k \notin apart
    BY <1>1, <1>2, <1>3 DEF Unseen, LinesRead, Read
<1>4. \A k \in Keys \ apart' : Told(k)' = Told(k)
    BY <1>3 DEF Told
<1>5. ASSUME NEW k \in Keys \ apart' PROVE Reflects(inbox', k, Told(k)')
    <2>1. k # k0 /\ k \notin apart
        BY <1>1, <1>5
    <2>2. Reflects(inbox, k, Told(k)')
        BY <1>4, <2>1 DEF InboxInv, ToldIsShown
    <2>3. (k \in DOMAIN inbox' <=> k \in DOMAIN inbox) /\ (k \in DOMAIN inbox => inbox'[k] = inbox[k])
        BY <1>1, <2>1 DEF Put
    <2> QED
        BY <2>2, <2>3 DEF Reflects
<1>6. OneOnItsWay'
    BY <1>1, <1>3 DEF InboxInv, OneOnItsWay
<1> QED
    BY <1>5, <1>6 DEF ToldIsShown

\* After a restart nothing was read and nothing is shown.
LEMMA RestartShows ==
    ASSUME TypeOK, LogHasLines, Restart
    PROVE  OneOnItsWay' /\ ToldIsShown'
<1>1. /\ DOMAIN inbox' = {} /\ boot' = file /\ file' = file
      /\ \A c \in Calls : place'[c] # "logged"
    BY DEF Restart
<1>2. \A k \in Keys : Unseen(k)' = {}
    BY <1>1 DEF Unseen
<1>3. Read' = 0
    <2>1. Len(file) \in Nat
        BY LogIs
    <2> QED
        BY <1>1, <2>1 DEF Read
<1>4. ASSUME NEW k \in Keys PROVE Told(k)' = <<>>
    <2> DEFINE log == Log'
    <2>1. Told(k)' = LinesIn(log, k, 0)
        BY <1>2, <1>3 DEF Told, LinesRead
    <2> HIDE DEF log
    <2>2. 0 \in Nat /\ \A i \in 1..0 : log[i].key # k
        OBVIOUS
    <2> QED
        BY <2>1, <2>2, LinesInNone
<1> QED
    BY <1>1, <1>2, <1>4 DEF OneOnItsWay, ToldIsShown, Reflects

\* A line is replayed as it was observed.
LEMMA ReplayShows ==
    ASSUME TypeOK, LogHasLines, InboxInv, Replay
    PROVE  OneOnItsWay' /\ ToldIsShown'
<1> DEFINE l == line[Head(boot)]
           n == Read
<1>1. /\ ~Serving /\ boot # <<>> /\ boot \in Seq(Calls)
      /\ boot' = Tail(boot) /\ file' = file /\ place' = place /\ line' = line
      /\ Observed(l)
    BY DEF Replay, Serving, TypeOK
<1>2. Len(file) \in Nat /\ Len(boot) \in Nat /\ Len(boot) # 0 /\ Read \in 0..Len(file)
    BY <1>1, LogIs, ReadIs, EmptySeq DEF InboxInv
<1>3. n \in Nat /\ Read' = n + 1 /\ n + 1 \in 1..Len(file)
    <2>1. Len(boot') = Len(boot) - 1
        BY <1>1, HeadTailProperties
    <2>2. Len(boot) <= Len(file)
        BY DEF InboxInv, BootIsRest
    <2> QED
        BY <1>1, <1>2, <2>1, <2>2 DEF Read
<1>4. l = Log[n + 1] /\ l \in Line
    <2>1. Head(boot) = boot[1]
        BY <1>1, HeadTailProperties
    <2>2. 1 \in 1..Len(boot)
        BY <1>2
    <2>3. boot[1] = file[n + 1]
        BY <2>2 DEF InboxInv, BootIsRest
    <2> HIDE DEF n
    <2> QED
        BY <1>3, <2>1, <2>3, LogIs
<1>5. \A k \in Keys : Unseen(k) = {} /\ Unseen(k)' = {}
    <2>1. \A c \in Calls : place[c] \in {"idle", "gone"}
        BY <1>1 DEF InboxInv, BootIsRest
    <2> QED
        BY <1>1, <2>1 DEF Unseen
<1>6. ASSUME NEW k \in Keys
      PROVE  /\ Told(k) \in Seq(Line)
             /\ Told(k)' = IF l.key = k THEN Append(Told(k), l) ELSE Told(k)
    <2>1. Log' = Log
        BY <1>1, LogSame
    <2> DEFINE log == Log
    <2>2. \A i \in 1..(n + 1) : log[i] \in Line
        <3> SUFFICES ASSUME NEW i \in 1..(n + 1) PROVE log[i] \in Line
            OBVIOUS
        <3>1. i \in 1..Len(file)
            BY <1>2, <1>3
        <3> QED
            BY <3>1, LogIs
    <2>3. Told(k) = LinesIn(log, k, n) /\ Told(k)' = LinesIn(log, k, n + 1)
        BY <1>3, <1>5, <2>1 DEF Told, LinesRead
    <2> HIDE DEF log, n
    <2>4. /\ LinesIn(log, k, n) \in Seq(Line)
          /\ LinesIn(log, k, n + 1) = IF log[n + 1].key = k
                                       THEN Append(LinesIn(log, k, n), log[n + 1])
                                       ELSE LinesIn(log, k, n)
        BY <1>3, <2>2, LinesInMore
    <2> QED
        BY <1>4, <2>3, <2>4 DEF log
<1>7. apart \subseteq apart'
    BY <1>1 DEF Observed
<1> HIDE DEF l, n
<1>8. ASSUME NEW k \in Keys \ apart' PROVE Reflects(inbox', k, Told(k)')
    <2>1. Reflects(inbox, k, Told(k)) /\ Told(k) \in Seq(Line)
        BY <1>6, <1>7, <1>8 DEF InboxInv, ToldIsShown
    <2> DEFINE ls == Told(k)
    <2> HIDE DEF ls
    <2>2. Reflects(inbox, k, ls) /\ ls \in Seq(Line)
        BY <2>1 DEF ls
    <2>3. CASE k = l.key
        <3>1. Reflects(inbox', k, Append(ls, l))
            BY <1>1, <1>4, <1>8, <2>2, <2>3, ObservedTells DEF InboxInv
        <3> QED
            BY <1>6, <2>3, <3>1 DEF ls
    <2>4. CASE k # l.key
        <3>1. Reflects(inbox', k, ls)
            BY <1>1, <1>4, <1>8, <2>2, <2>4, ObservedLeaves
        <3> QED
            BY <1>6, <2>4, <3>1 DEF ls
    <2> QED
        BY <2>3, <2>4
<1> QED
    BY <1>5, <1>8 DEF OneOnItsWay, ToldIsShown

\* A line is shown by its merge, which is one step of the definition by which the
\* lines of a task are summarised; every other step leaves lines and entry alone, or
\* puts the key apart.
LEMMA ShowsStep ==
    ASSUME TypeOK, LogHasLines, InboxInv, [Next]_vars
    PROVE  OneOnItsWay' /\ ToldIsShown'
<1> DEFINE Goal == OneOnItsWay' /\ ToldIsShown'
<1>1. ASSUME file' = file, boot' = boot, inbox' = inbox, apart' = apart,
             \A c \in Calls : place'[c] = "logged" <=> place[c] = "logged",
             \A c \in Calls : place[c] # "idle" => line'[c] = line[c]
      PROVE  Goal
    <2>1. Log' = Log
        BY <1>1, LogSame
    <2>2. /\ \A k \in Keys : Unseen(k)' = Unseen(k)
          /\ \A k \in Keys : \A c \in Unseen(k) : line'[c] = line[c]
        BY <1>1, UnseenSame
    <2>3. OneOnItsWay /\ ToldIsShown
        BY DEF InboxInv
    <2> QED
        BY <1>1, <2>1, <2>2, <2>3, Calm
<1>2. ASSUME NEW c \in Calls, Route(c) PROVE Goal
    <2>1. /\ file' = file /\ boot' = boot /\ inbox' = inbox /\ apart' = apart
          /\ \A d \in Calls : place'[d] = "logged" <=> place[d] = "logged"
          /\ \A d \in Calls : place[d] # "idle" => line'[d] = line[d]
        BY <1>2 DEF Route, TypeOK
    <2> QED
        BY <1>1, <2>1
<1>3. ASSUME NEW c \in Calls, AppendLine(c) \/ AppendLoses(c) \/ Observe(c) \/ Abandon(c) PROVE Goal
    BY <1>3, AppendShows, LosesShows, ObserveShows, AbandonShows
<1>4. ASSUME NEW x \in Cancels, CancelRead(x) \/ CancelEnds(x) \/ CancelCopies(x) PROVE Goal
    <2>1. /\ file' = file /\ boot' = boot /\ inbox' = inbox /\ apart' = apart
          /\ place' = place /\ line' = line
        BY <1>4 DEF CancelRead, CancelEnds, CancelCopies
    <2> QED
        BY <1>1, <2>1
<1>5. ASSUME NEW x \in Cancels, CancelInserts(x) PROVE Goal
    BY <1>5, InsertShows
<1>6. ASSUME Tick \/ UNCHANGED vars PROVE Goal
    <2>1. /\ file' = file /\ boot' = boot /\ inbox' = inbox /\ apart' = apart
          /\ place' = place /\ line' = line
        BY <1>6 DEF Tick, vars
    <2> QED
        BY <1>1, <2>1
<1>7. ASSUME Rotate \/ Restart \/ Replay PROVE Goal
    BY <1>7, RotateShows, RestartShows, ReplayShows
<1> QED
    BY <1>2, <1>3, <1>4, <1>5, <1>6, <1>7 DEF Next, CallStep, CancelStep

\* The inductive invariant of what the inbox shows: of a key that is not apart
\* it says what the lines say that were read or observed, and at most one more
\* line of it is on its way.
THEOREM InboxFollows == Spec => []InboxInv
<1>1. Init => InboxInv
    <2> SUFFICES ASSUME Init PROVE InboxInv
        OBVIOUS
    <2>1. /\ file = <<>> /\ boot = <<>> /\ DOMAIN inbox = {}
          /\ Len(file) = 0 /\ Len(boot) = 0
          /\ \A c \in Calls : place[c] = "idle"
          /\ \A x \in Cancels : cancel[x].at = "idle"
        BY DEF Init, NoCancel
    <2>2. Read = 0
        BY <2>1 DEF Read
    <2>3. BootIsRest
        BY <2>1, <2>2 DEF BootIsRest
    <2>4. HistoriesEnd
        BY <2>1 DEF HistoriesEnd
    <2>5. \A k \in Keys : Unseen(k) = {}
        BY <2>1 DEF Unseen
    <2>6. ASSUME NEW k \in Keys PROVE Told(k) = <<>>
        <3>1. Told(k) = LinesIn(Log, k, 0)
            BY <2>2, <2>5 DEF Told, LinesRead
        <3>2. 0 \in Nat /\ \A i \in 1..0 : Log[i].key # k
            OBVIOUS
        <3> QED
            BY <3>1, <3>2, LinesInNone
    <2>7. OneOnItsWay /\ ToldIsShown
        BY <2>1, <2>5, <2>6 DEF OneOnItsWay, ToldIsShown, Reflects
    <2> QED
        BY <2>3, <2>4, <2>7 DEF InboxInv
<1>2. Inv /\ InboxInv /\ [Next]_vars => InboxInv'
    BY RestStep, EndsStep, ShowsStep DEF Inv, InboxInv
<1> QED
    BY <1>1, <1>2, Invariant, PTL DEF Spec

\* An entry of the inbox is what the routing log says of its task, through any
\* interleaving of calls and cancels and any number of restarts.
THEOREM InboxShowsLog == Spec => []InboxReflectsLog
<1>1. Inv /\ InboxInv => InboxReflectsLog
    <2> SUFFICES ASSUME Inv, InboxInv, Serving, NEW k \in Keys \ apart, Unseen(k) = {}
                 PROVE  Reflects(inbox, k, LinesOf(k))
        BY DEF InboxReflectsLog
    <2>1. Reflects(inbox, k, Told(k))
        BY DEF InboxInv, ToldIsShown
    <2>2. Read = Len(file)
        BY ReadIs DEF Inv, InboxInv
    <2>3. Told(k) = LinesOf(k)
        BY <2>2 DEF Told, LinesRead, LinesOf
    <2> QED
        BY <2>1, <2>3
<1> QED
    BY <1>1, Invariant, InboxFollows, PTL
=============================================================================
