---------------------------- MODULE StatePersist ----------------------------
(***************************************************************************)
(* state.json: what is in it while handlers save, when the disk fails and  *)
(* when the process is killed (App::persist and App::load of src/state.rs, *)
(* the handlers that change Inner and then save).                          *)
(*                                                                         *)
(* A handler makes one change under the write lock and then saves: a       *)
(* snapshot under the read lock, then a file written beside state.json and *)
(* renamed over it.  No lock covers the file steps, so handlers on other   *)
(* threads run between any two of them.  A content is the set of changes   *)
(* in it, the identity (the tokens) it was created with, its length and    *)
(* whether it still parses.                                                *)
(***************************************************************************)
EXTENDS Naturals, FiniteSets

CONSTANTS Writers,     \* handlers, each with one change
          Boot,        \* main(), whose change is the first admin password
          Files,       \* inodes
          Lens,        \* lengths of a serialised state
          None,        \* no file
          MaxCrashes   \* bound: how often the process is killed

ASSUME ConstantsAssumption ==
    /\ Boot \notin Writers
    /\ None \notin Files
    /\ Lens \subseteq Nat \ {0}
    /\ Lens # {}
    /\ MaxCrashes \in Nat

VARIABLES
    up,          \* "down", "booting", "up", or "failed": load() returned an error
    mem,         \* Inner, in memory
    file,        \* the content of every inode
    tmp, dst,    \* what state.json.tmp and state.json name
    pc, snap, fd,   \* a handler's (or main's) place, its snapshot and its open file
    overlapped,  \* history: two saves ran at the same time
    ioFailed,    \* history: an open or a write failed
    crashes      \* how often the process was killed

disk    == <<file, tmp, dst>>
history == <<overlapped, ioFailed, crashes>>
vars == <<up, mem, file, tmp, dst, pc, snap, fd, overlapped, ioFailed, crashes>>

Ids     == 0..MaxCrashes
Procs   == Writers \cup {Boot}
Content == [muts : SUBSET Procs, id : Ids, len : Lens \cup {0}, whole : BOOLEAN]
Saving  == {"saving", "opened", "written", "broken"}   \* inside persist()

Fresh(i) == [muts |-> {}, id |-> i, len |-> CHOOSE n \in Lens : TRUE, whole |-> TRUE]
Empty    == [muts |-> {}, id |-> 0, len |-> 0, whole |-> FALSE]

\* What a write of c at offset 0 leaves in a file: of a longer content the end
\* remains, and the whole no longer parses.
Torn(c, n) == [muts |-> c.muts, id |-> c.id, len |-> n, whole |-> FALSE]

Overwrite(old, c) == IF old.len > c.len THEN Torn(c, old.len) ELSE c

\* An Inner with one change more.
Changed(c, w, n) == [muts |-> c.muts \cup {w}, id |-> c.id, len |-> n, whole |-> TRUE]

\* No name and no open file leads to this inode.
Unused(f) == f # dst /\ \A w \in Procs : fd[w] # f

-----------------------------------------------------------------------------
\* No state.json yet and the process not started.
Init ==
    /\ up = "down"
    /\ mem = Fresh(0)
    /\ file = [f \in Files |-> Empty]
    /\ tmp = None
    /\ dst = None
    /\ pc = [w \in Procs |-> "idle"]
    /\ snap = [w \in Procs |-> Empty]
    /\ fd = [w \in Procs |-> None]
    /\ overlapped = FALSE
    /\ ioFailed = FALSE
    /\ crashes = 0

\* A handler changes Inner under the write lock.
Mutate(w) ==
    /\ up = "up"
    /\ pc[w] = "idle"
    /\ pc' = [pc EXCEPT ![w] = "mutated"]
    /\ \E n \in Lens : mem' = Changed(mem, w, n)
    /\ UNCHANGED <<up, disk, snap, fd, history>>

\* The client leaves while persist() awaits the read lock: the change stays in
\* memory, nothing is saved and nobody is answered.
Cancel(w) ==
    /\ pc[w] = "mutated"
    /\ pc' = [pc EXCEPT ![w] = "gone"]
    /\ UNCHANGED <<up, mem, disk, snap, fd, history>>

\* persist() clones Inner under the read lock.  There is no await after it.
Snapshot(w) ==
    /\ pc[w] = "mutated"
    /\ pc' = [pc EXCEPT ![w] = "saving"]
    /\ snap' = [snap EXCEPT ![w] = mem]
    /\ overlapped' = (overlapped \/ \E v \in Procs : pc[v] \in Saving)
    /\ UNCHANGED <<up, mem, disk, fd, ioFailed, crashes>>

\* fs::write, first half: open(state.json.tmp, O_CREAT | O_TRUNC).  A file
\* that is there already is reused, even while another handler writes to it.
OpenTmp(w) ==
    /\ pc[w] = "saving"
    /\ pc' = [pc EXCEPT ![w] = "opened"]
    /\ \E f \in Files :
        /\ IF tmp = None THEN Unused(f) ELSE f = tmp
        /\ tmp' = f
        /\ fd' = [fd EXCEPT ![w] = f]
        /\ file' = [file EXCEPT ![f] = Empty]
    /\ UNCHANGED <<up, mem, dst, snap, history>>

\* Second half: the JSON goes to the open file, whatever names it by now.
WriteTmp(w) ==
    /\ pc[w] = "opened"
    /\ pc' = [pc EXCEPT ![w] = "written"]
    /\ file' = [file EXCEPT ![fd[w]] = Overwrite(@, snap[w])]
    /\ UNCHANGED <<up, mem, tmp, dst, snap, fd, history>>

\* The disk refuses: the file cannot be opened, or takes only a part.
OpenFails(w) ==
    /\ pc[w] = "saving"
    /\ pc' = [pc EXCEPT ![w] = "broken"]
    /\ ioFailed' = TRUE
    /\ UNCHANGED <<up, mem, disk, snap, fd, overlapped, crashes>>

WriteFails(w) ==
    /\ pc[w] = "opened"
    /\ pc' = [pc EXCEPT ![w] = "broken"]
    /\ \E n \in Lens \cup {0} : file' = [file EXCEPT ![fd[w]] = Torn(snap[w], n)]
    /\ ioFailed' = TRUE
    /\ UNCHANGED <<up, mem, tmp, dst, snap, fd, overlapped, crashes>>

\* persist() returns and the handler answers its client.
Return(w) ==
    /\ pc' = [pc EXCEPT ![w] = "acked"]
    /\ snap' = [snap EXCEPT ![w] = Empty]
    /\ fd' = [fd EXCEPT ![w] = None]
    /\ UNCHANGED <<up, mem, file, history>>

\* Mutant of Rename: the answer goes out before the file is in place.
RenameLater(w) ==
    /\ pc[w] = "written"
    /\ Return(w)
    /\ UNCHANGED <<tmp, dst>>

\* The file named state.json.tmp becomes state.json; when another handler
\* renamed it meanwhile the call fails, and persist() does not tell.
Rename(w) ==
    /\ pc[w] = "written"
    /\ dst' = IF tmp = None THEN dst ELSE tmp
    /\ tmp' = None
    /\ Return(w)

\* Mutant of GiveUp: the rename is not skipped after a failed write.
GiveUpRenames(w) ==
    /\ pc[w] = "broken"
    /\ dst' = IF tmp = None THEN dst ELSE tmp
    /\ tmp' = None
    /\ Return(w)

\* After a failed write persist() returns all the same, and the handler
\* answers its client as if the change were saved.
GiveUp(w) ==
    /\ pc[w] = "broken"
    /\ Return(w)
    /\ UNCHANGED <<tmp, dst>>

-----------------------------------------------------------------------------
\* The process is killed: the handlers are gone, the files stay.
Crash ==
    /\ up \in {"booting", "up"}
    /\ crashes < MaxCrashes
    /\ crashes' = crashes + 1
    /\ up' = "down"
    /\ pc' = [w \in Procs |-> IF pc[w] \in {"idle", "acked"} THEN pc[w] ELSE "gone"]
    /\ snap' = [w \in Procs |-> Empty]
    /\ fd' = [w \in Procs |-> None]
    /\ UNCHANGED <<mem, disk, overlapped, ioFailed>>

\* load() finds no state.json: new tokens, which main() saves.
StartFresh ==
    /\ up = "down"
    /\ dst = None
    /\ up' = "booting"
    /\ mem' = Fresh(crashes)
    /\ pc' = [pc EXCEPT ![Boot] = "mutated"]
    /\ UNCHANGED <<disk, snap, fd, history>>

\* Mutant of StartLoaded: a state.json.tmp that parses is taken for the newer state.
StartLoadedTmp ==
    /\ up = "down"
    /\ dst # None
    /\ file[dst].whole
    /\ up' = "booting"
    /\ mem' = IF tmp # None /\ file[tmp].whole THEN file[tmp] ELSE file[dst]
    /\ pc' = [pc EXCEPT ![Boot] = "acked"]
    /\ UNCHANGED <<disk, snap, fd, history>>

\* load() takes Inner from state.json.
StartLoaded ==
    /\ up = "down"
    /\ dst # None
    /\ file[dst].whole
    /\ up' = "booting"
    /\ mem' = file[dst]
    /\ pc' = [pc EXCEPT ![Boot] = "acked"]
    /\ UNCHANGED <<disk, snap, fd, history>>

\* Mutant of StartFails: a file that does not parse is taken for none.
StartFailsOpen ==
    /\ up = "down"
    /\ dst # None
    /\ ~file[dst].whole
    /\ up' = "booting"
    /\ mem' = Fresh(crashes)
    /\ pc' = [pc EXCEPT ![Boot] = "mutated"]
    /\ UNCHANGED <<disk, snap, fd, history>>

\* state.json does not parse: the process does not start.
StartFails ==
    /\ up = "down"
    /\ dst # None
    /\ ~file[dst].whole
    /\ up' = "failed"
    /\ UNCHANGED <<mem, disk, pc, snap, fd, history>>

\* main(), with nothing of its own left to save: a first admin password if there
\* is none (saved like any change), then the server accepts requests.
FinishBoot ==
    /\ up = "booting"
    /\ pc[Boot] = "acked"
    /\ IF Boot \in mem.muts
       THEN up' = "up" /\ UNCHANGED <<mem, pc>>
       ELSE /\ \E n \in Lens : mem' = Changed(mem, Boot, n)
            /\ pc' = [pc EXCEPT ![Boot] = "mutated"]
            /\ UNCHANGED up
    /\ UNCHANGED <<disk, snap, fd, history>>

-----------------------------------------------------------------------------
Next ==
    \/ \E w \in Writers : Mutate(w)
    \/ \E w \in Writers : Cancel(w)
    \/ \E w \in Procs : Snapshot(w)
    \/ \E w \in Procs : OpenTmp(w)
    \/ \E w \in Procs : WriteTmp(w)
    \/ \E w \in Procs : OpenFails(w)
    \/ \E w \in Procs : WriteFails(w)
    \/ \E w \in Procs : Rename(w)
    \/ \E w \in Procs : GiveUp(w)
    \/ Crash
    \/ StartFresh
    \/ StartLoaded
    \/ StartFails
    \/ FinishBoot

Spec == Init /\ [][Next]_vars

-----------------------------------------------------------------------------
TypeOK ==
    /\ up \in {"down", "booting", "up", "failed"}
    /\ mem \in Content
    /\ file \in [Files -> Content]
    /\ tmp \in Files \cup {None}
    /\ dst \in Files \cup {None}
    /\ pc \in [Procs -> {"idle", "mutated", "acked", "gone"} \cup Saving]
    /\ snap \in [Procs -> Content]
    /\ fd \in [Procs -> Files \cup {None}]
    /\ overlapped \in BOOLEAN
    /\ ioFailed \in BOOLEAN
    /\ crashes \in Ids

saved == IF dst = None THEN {} ELSE file[dst].muts

\* As long as no two saves ran at the same time, state.json is complete at every
\* moment: a kill or a disk failure in any step of a save leaves the previous
\* content or the new one (state.rs:768, 781-792).
StateIntact == ~overlapped /\ dst # None => file[dst].whole

\* Under the same condition, and with a disk that accepts writes, a change whose
\* handler answered its client is in state.json from then on, through kills and
\* restarts (every handler saves before it answers; state.rs:771-793, 682-691).
AckedIsDurable ==
    ~overlapped /\ ~ioFailed => \A w \in Writers : pc[w] = "acked" => w \in saved

\* A state.json is replaced by one that has all its changes and more: neither a
\* cancelled handler nor a restart leads to a save that takes some back.
SavedGrows == [][~overlapped' => saved \subseteq saved']_vars

\* Once there is a state.json the tokens never change again, whatever overlaps
\* or fails: no restart takes a broken file for a first run (state.rs:682-700).
TokensKept == [][dst # None => mem'.id = mem.id /\ dst' # None]_vars

-----------------------------------------------------------------------------
(* What the handlers, files and kills implement.                             *)

\* A process that is down has in memory what it will start with.
changes == IF up \in {"booting", "up"} THEN mem.muts ELSE saved

Store == INSTANCE DurableState
            WITH Clients  <- Writers,
                 Main     <- Boot,
                 memory   <- changes,
                 durable  <- saved,
                 answered <- {w \in Writers : pc[w] = "acked"},
                 orderly  <- ~overlapped,
                 willing  <- ~ioFailed

\* As long as no two saves overlap, snapshot, file and rename are together one step
\* that makes changes durable, and a restart starts with exactly these: not with
\* what a killed save left in state.json.tmp (state.rs:679-793).
StoreSpec == Store!Spec

-----------------------------------------------------------------------------
(* The inductive invariant: what relates handlers, memory and files.         *)

\* Handlers run only while the process does.
Alone(w) == \A v \in Procs : pc[v] \in Saving => v = w

RunningOnly ==
    up \in {"down", "failed"} => \A w \in Procs : pc[w] \notin Saving \cup {"mutated"}

\* Every file that is or will become state.json has the identity in memory.
SameId ==
    /\ dst # None /\ file[dst].whole => file[dst].id = mem.id
    /\ \A w \in Procs :
        /\ pc[w] \in Saving => snap[w].id = mem.id
        /\ pc[w] \in {"opened", "written"} =>
            /\ fd[w] # None
            /\ tmp # None /\ file[tmp].whole => file[tmp].id = mem.id

\* A save that runs alone: its file is state.json.tmp, apart from state.json,
\* empty until written and then equal to its snapshot.
SaveAlone(w) ==
    pc[w] \in Saving =>
        /\ Alone(w)
        /\ snap[w].whole
        /\ saved \subseteq snap[w].muts
        /\ snap[w].muts \subseteq mem.muts
        /\ w \in Writers => w \in snap[w].muts
        /\ pc[w] \in {"opened", "written"} => fd[w] = tmp
        /\ pc[w] = "opened" => file[tmp].len = 0
        /\ pc[w] = "written" => file[tmp] = snap[w]
        /\ pc[w] = "broken" => ioFailed

MemoryAhead ==
    up \in {"booting", "up"} =>
        /\ mem.whole
        /\ saved \subseteq mem.muts
        /\ \A w \in Procs : pc[w] = "mutated" /\ w \in Writers => w \in mem.muts

Clean ==
    /\ \A w \in Procs : SaveAlone(w)
    /\ MemoryAhead
    /\ dst # None => dst # tmp

\* The parts together.
Inv ==
    /\ TypeOK
    /\ RunningOnly
    /\ SameId
    /\ ~overlapped => Clean
    /\ StateIntact
    /\ AckedIsDurable

=============================================================================
