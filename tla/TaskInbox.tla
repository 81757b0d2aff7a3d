----------------------------- MODULE TaskInbox -----------------------------
(***************************************************************************)
(* The task inbox (src/tasks.rs): what an operator is shown of the tasks   *)
(* that routed message/send calls started, kept in memory, bounded, and    *)
(* derived again at boot from the routing log.                             *)
(*                                                                         *)
(* log_route of src/state.rs appends a call's line to the log, awaits the  *)
(* ring, then updates the inbox; other calls, and cancels, run in between. *)
(* An append whose write fails or is torn is not noticed: the inbox is     *)
(* told of a line that the log does not have.  RouteLog has the steps of   *)
(* the append itself.  A reply is a routed call: what it checks before it  *)
(* is sent changes nothing.                                                *)
(***************************************************************************)
EXTENDS Naturals, Sequences, FiniteSets, SequencesExt, Subsequences

CONSTANTS Calls,        \* routed calls
          Cancels,      \* cancel requests of operators
          Keys,         \* task ids, and JSON-RPC ids that stand in for one
          Active,       \* task states: submitted, working, queued, input-required
          Closed,       \* task states: all others
          None,
          TaskCap,      \* TASK_CAP, 500
          MaxNow,       \* bound: how far the clock runs
          MaxFaults,    \* bound: writes that fail or are torn
          MaxRotations, \* bound
          MaxRestarts   \* bound

States == Active \cup Closed

ASSUME ConstantsAssumption ==
    /\ IsFiniteSet(Keys)
    /\ Active \cap Closed = {}
    /\ None \notin Keys \cup States
    /\ {TaskCap, MaxNow, MaxFaults, MaxRotations, MaxRestarts} \subseteq Nat

VARIABLES
    now,       \* the clock, in seconds
    file,      \* the calls whose lines are read from routing.jsonl, oldest first
    tail,      \* what the next line is written behind: whole lines, a part of one,
               \* or bytes that are no text, for which the file is not read at all
    inbox,     \* Tasks.map: from the keys it has to entries
    boot,      \* the lines load() still has to replay, <<>> once it serves
    place,     \* a call: idle, routed, logged, done, or gone with its client
    line,      \* a call's RouteEntry
    cancel,    \* a cancel: where it is, its key, and the entry it will insert
    excess,    \* history: how often a cancel put a key into a full inbox
    apart,     \* history: keys whose entry may differ from what the log says
    faults, rotations, restarts

counters == <<faults, rotations, restarts>>
vars == <<now, file, tail, inbox, boot, place, line, cancel, excess, apart, counters>>

Times == 0..MaxNow
Line  == [key : Keys, a2a : BOOLEAN, state : States, ts : Times]

\* history holds the states of TaskEntry.history; state is TaskEntry.state.
Entry == [state : States, a2a : BOOLEAN, created : Times, updated : Times,
          history : Seq(States)]

NoLine   == [key |-> None]
NoCancel == [at |-> "idle", key |-> None]

Serving == boot = <<>>

Put(box, k, e) == [j \in DOMAIN box \cup {k} |-> IF j = k THEN e ELSE box[j]]
Without(box, k) == [j \in DOMAIN box \ {k} |-> box[j]]

-----------------------------------------------------------------------------
(* observe_locked.                                                         *)

Fresh(l) == [state |-> l.state, a2a |-> l.a2a, created |-> l.ts, updated |-> l.ts,
             history |-> <<l.state>>]

\* Mutant of Merged: every line is a transition.
MergedAlways(t, l) ==
    [state |-> l.state, a2a |-> t.a2a \/ l.a2a, created |-> t.created, updated |-> l.ts,
     history |-> Append(t.history, l.state)]

\* A line that repeats the last state is no transition.
Merged(t, l) ==
    LET new == Last(t.history) # l.state
    IN  [state   |-> IF new THEN l.state ELSE t.state,
         a2a     |-> t.a2a \/ l.a2a,
         created |-> t.created,
         updated |-> l.ts,
         history |-> IF new THEN Append(t.history, l.state) ELSE t.history]

\* Strictly older, by last update and then by creation.
Older(t, u) ==
    \/ t.updated < u.updated
    \/ t.updated = u.updated /\ t.created < u.created

Oldest(box, ks) == {k \in ks : \A j \in ks : ~Older(box[j], box[k])}

\* Mutant of Victims: the oldest of all goes.
VictimsOfAll(box) == Oldest(box, DOMAIN box)

\* The oldest closed task goes, or the oldest of all when none is closed; the
\* order of a HashMap decides between equals.
Victims(box) ==
    LET closed == {k \in DOMAIN box : box[k].state \in Closed}
    IN  Oldest(box, IF closed # {} THEN closed ELSE DOMAIN box)

\* Mutant of Overfull: the comparison is off by one.
OverfullLate(box) == Cardinality(DOMAIN box) > TaskCap + 1

Overfull(box) == Cardinality(DOMAIN box) > TaskCap

\* Only a new key can make the inbox overfull.
Observed(l) ==
    IF l.key \in DOMAIN inbox
    THEN /\ inbox' = Put(inbox, l.key, Merged(inbox[l.key], l))
         /\ UNCHANGED apart
    ELSE LET box == Put(inbox, l.key, Fresh(l))
         IN  IF Overfull(box)
             THEN \E v \in Victims(box) :
                    inbox' = Without(box, v) /\ apart' = apart \cup {v}
             ELSE inbox' = box /\ UNCHANGED apart

-----------------------------------------------------------------------------
Init ==
    /\ now = 0
    /\ file = <<>>
    /\ tail = "whole"
    /\ inbox = <<>>
    /\ boot = <<>>
    /\ place = [c \in Calls |-> "idle"]
    /\ line = [c \in Calls |-> NoLine]
    /\ cancel = [x \in Cancels |-> NoCancel]
    /\ excess = 0
    /\ apart = {}
    /\ faults = 0 /\ rotations = 0 /\ restarts = 0

Tick ==
    /\ now < MaxNow
    /\ now' = now + 1
    /\ UNCHANGED <<file, tail, inbox, boot, place, line, cancel, excess, apart, counters>>

\* deliver has its answer and makes the entry.  Calls that are no message/send,
\* or whose entry has no state or no key, never reach the inbox.
Route(c) ==
    /\ Serving
    /\ place[c] = "idle"
    /\ \E k \in Keys, a \in BOOLEAN, s \in States :
        line' = [line EXCEPT ![c] = [key |-> k, a2a |-> a, state |-> s, ts |-> now]]
    /\ place' = [place EXCEPT ![c] = "routed"]
    /\ UNCHANGED <<now, file, tail, inbox, boot, cancel, excess, apart, counters>>

\* Calls with a line of the key in the log that the inbox has not seen.
Unseen(k) == {c \in Calls : place[c] = "logged" /\ line[c].key = k}

\* append_routing_log: open, and write_all.
AppendLine(c) ==
    /\ Serving
    /\ place[c] = "routed"
    /\ tail = "whole"
    /\ file' = Append(file, c)
    /\ place' = [place EXCEPT ![c] = "logged"]
    /\ apart' = IF Unseen(line[c].key) = {} THEN apart ELSE apart \cup {line[c].key}
    /\ UNCHANGED <<now, tail, inbox, boot, line, cancel, excess, counters>>

\* The keys that have a line in the log.
Logged == {line[file[i]].key : i \in DOMAIN file}

\* The log does not get the call's line, and the call goes on.
Loses(c, keys) ==
    /\ Serving
    /\ place[c] = "routed"
    /\ place' = [place EXCEPT ![c] = "logged"]
    /\ apart' = apart \cup keys \cup {line[c].key}
    /\ UNCHANGED <<now, inbox, boot, line, cancel, excess, rotations, restarts>>

\* The line is written behind a part of another, and neither parses; or into a
\* file that is no text.
AppendGlued(c) ==
    /\ tail # "whole"
    /\ tail' = IF tail = "part" THEN "whole" ELSE tail
    /\ Loses(c, {})
    /\ UNCHANGED <<file, faults>>

\* open or write_all fails: nothing is written, or a part of the line.
AppendFails(c) ==
    /\ faults < MaxFaults
    /\ faults' = faults + 1
    /\ tail' \in IF tail = "ruined" THEN {tail} ELSE {tail, "part"}
    /\ Loses(c, {})
    /\ UNCHANGED file

\* The part ends inside a character: read_to_string takes nothing of the file.
AppendRuins(c) ==
    /\ faults < MaxFaults
    /\ faults' = faults + 1
    /\ tail' = "ruined"
    /\ file' = <<>>
    /\ Loses(c, Logged)

AppendLoses(c) == AppendGlued(c) \/ AppendFails(c) \/ AppendRuins(c)

\* Tasks::observe, after the ring.
Observe(c) ==
    /\ Serving
    /\ place[c] = "logged"
    /\ Observed(line[c])
    /\ place' = [place EXCEPT ![c] = "done"]
    /\ UNCHANGED <<now, file, tail, boot, line, cancel, excess, counters>>

\* The caller leaves while log_route awaits the lock of the ring.
Abandon(c) ==
    /\ place[c] = "logged"
    /\ place' = [place EXCEPT ![c] = "gone"]
    /\ apart' = apart \cup {line[c].key}
    /\ UNCHANGED <<now, file, tail, inbox, boot, line, cancel, excess, counters>>

\* The log is over its size when a call appends: it starts anew.
Rotate ==
    /\ Serving
    /\ rotations < MaxRotations
    /\ \E c \in Calls : place[c] = "routed"
    /\ file # <<>> \/ tail # "whole"
    /\ file' = <<>>
    /\ tail' = "whole"
    /\ apart' = apart \cup Logged
    /\ rotations' = rotations + 1
    /\ UNCHANGED <<now, inbox, boot, place, line, cancel, excess, faults, restarts>>

-----------------------------------------------------------------------------
(* cancel: read the task, ask the peer, read it again, insert.             *)

CancelRead(x) ==
    /\ Serving
    /\ cancel[x] = NoCancel
    /\ \E k \in DOMAIN inbox :
        /\ inbox[k].state \in Active
        /\ inbox[k].a2a
        /\ cancel' = [cancel EXCEPT ![x] = [at |-> "asked", key |-> k]]
    /\ UNCHANGED <<now, file, tail, inbox, boot, place, line, excess, apart, counters>>

Ended(k) == [at |-> "done", key |-> k]

\* The answer has no state, the call failed, or the task is not there any more;
\* or the operator left.
CancelEnds(x) ==
    /\ cancel[x].at = "asked"
    /\ cancel' = [cancel EXCEPT ![x] = Ended(@.key)]
    /\ UNCHANGED <<now, file, tail, inbox, boot, place, line, excess, apart, counters>>

\* The answer has a state: it goes into a copy of the entry.
CancelCopies(x) ==
    /\ Serving
    /\ cancel[x].at = "asked"
    /\ cancel[x].key \in DOMAIN inbox
    /\ \E s \in States :
        LET t == inbox[cancel[x].key]
        IN  cancel' = [cancel EXCEPT ![x] =
                [at |-> "copied", key |-> @.key,
                 copy |-> [state |-> s, a2a |-> t.a2a, created |-> t.created,
                           updated |-> now, history |-> Append(t.history, s)]]]
    /\ UNCHANGED <<now, file, tail, inbox, boot, place, line, excess, apart, counters>>

\* Tasks::insert, which evicts nothing.
CancelInserts(x) ==
    /\ Serving
    /\ cancel[x].at = "copied"
    /\ LET k == cancel[x].key
       IN  /\ inbox' = Put(inbox, k, cancel[x].copy)
           /\ excess' = IF k \notin DOMAIN inbox /\ Cardinality(DOMAIN inbox) >= TaskCap
                        THEN excess + 1 ELSE excess
           /\ apart' = apart \cup {k}
           /\ cancel' = [cancel EXCEPT ![x] = Ended(k)]
    /\ UNCHANGED <<now, file, tail, boot, place, line, counters>>

-----------------------------------------------------------------------------
(* The process is killed; load() replays the log before it serves.         *)

Restart ==
    /\ restarts < MaxRestarts
    /\ restarts' = restarts + 1
    /\ inbox' = <<>>
    /\ boot' = file
    /\ place' = [c \in Calls |-> IF place[c] = "idle" THEN "idle" ELSE "gone"]
    /\ cancel' = [x \in Cancels |->
                    IF cancel[x] = NoCancel THEN NoCancel ELSE Ended(cancel[x].key)]
    /\ excess' = 0
    /\ apart' = {}
    /\ UNCHANGED <<now, file, tail, line, faults, rotations>>

Replay ==
    /\ ~Serving
    /\ Observed(line[Head(boot)])
    /\ boot' = Tail(boot)
    /\ UNCHANGED <<now, file, tail, place, line, cancel, excess, counters>>

-----------------------------------------------------------------------------
CallStep(c) ==
    Route(c) \/ AppendLine(c) \/ AppendLoses(c) \/ Observe(c) \/ Abandon(c)

CancelStep(x) == CancelRead(x) \/ CancelEnds(x) \/ CancelCopies(x) \/ CancelInserts(x)

Next ==
    \/ \E c \in Calls : CallStep(c)
    \/ \E x \in Cancels : CancelStep(x)
    \/ Tick \/ Rotate \/ Restart \/ Replay

Spec == Init /\ [][Next]_vars

-----------------------------------------------------------------------------
(* Properties.                                                             *)

Cancelling == {x \in [at : {"copied"}, key : Keys, copy : Entry] : x.copy.history # <<>>}
Places == {"idle", "routed", "logged", "done", "gone"}

LinesOK == \A c \in Calls : line[c] \in Line \/ (line[c] = NoLine /\ place[c] = "idle")

InboxOK ==
    /\ DOMAIN inbox \subseteq Keys
    /\ \A k \in DOMAIN inbox : inbox[k] \in Entry /\ inbox[k].history # <<>>

CancelsOK ==
    cancel \in [Cancels -> {NoCancel} \cup [at : {"asked", "done"}, key : Keys] \cup Cancelling]

\* The values of the variables; an entry has a history.
TypeOK ==
    /\ now \in Times
    /\ file \in Seq(Calls) /\ boot \in Seq(Calls)
    /\ tail \in {"whole", "part", "ruined"}
    /\ InboxOK
    /\ place \in [Calls -> Places]
    /\ DOMAIN line = Calls
    /\ LinesOK
    /\ CancelsOK
    /\ excess \in Nat
    /\ apart \in SUBSET Keys
    /\ faults \in 0..MaxFaults /\ rotations \in 0..MaxRotations /\ restarts \in 0..MaxRestarts

Log == [i \in DOMAIN file |-> line[file[i]]]

\* The lines of a key among the first n of a log, oldest first.
LinesIn(log, k, n) == Picked(log, {i \in 1..n : log[i].key = k})

LinesOf(k) == LinesIn(Log, k, Len(file))

\* States without repetitions.
Transitions(ss) == Picked(ss, {i \in DOMAIN ss : i = 1 \/ ss[i] # ss[i - 1]})

\* What lines say of their task.
Summary(ls) ==
    [state   |-> Last(ls).state,
     a2a     |-> \E i \in DOMAIN ls : ls[i].a2a,
     created |-> ls[1].ts,
     updated |-> Last(ls).ts,
     history |-> Transitions([i \in DOMAIN ls |-> ls[i].state])]

\* The entry of a key in an inbox is what these lines say.
Reflects(box, k, ls) ==
    IF ls = <<>> THEN k \notin DOMAIN box
    ELSE k \in DOMAIN box /\ box[k] = Summary(ls)

\* The entry of a task is at all times what the routing log says of it, however
\* the calls of different tasks interleave and through every restart: unless two
\* lines of the task were logged before the first was observed, a caller left
\* between the two, the log was rotated, the task was evicted or cancelled, or a
\* line of it was not written, was torn, stands behind a torn one or in a file
\* that is no text.
InboxReflectsLog ==
    Serving => \A k \in Keys \ apart : Unseen(k) = {} => Reflects(inbox, k, LinesOf(k))

\* The inbox has no more than TASK_CAP entries, but for one for each cancel that
\* put a task back after it was evicted: insert evicts nothing, and a later
\* observation evicts no more than it adds.
BoundedInbox == Cardinality(DOMAIN inbox) <= TaskCap + excess

\* As long as a closed task is there, no active one leaves the inbox, whoever
\* fills it: an observation, a cancel, or a line that is replayed.
ActiveStays ==
    [][\A k \in DOMAIN inbox \ DOMAIN inbox' :
        restarts' = restarts /\ inbox[k].state \in Active =>
            \A j \in DOMAIN inbox' : inbox'[j].state \in Active]_vars

\* A call whose line is in the log, or is to be replayed, has its line.
LogHasLines ==
    /\ \A i \in DOMAIN file : place[file[i]] # "idle"
    /\ \A i \in DOMAIN boot : place[boot[i]] # "idle"

\* The inductive invariant of the bound.
Inv == TypeOK /\ LogHasLines /\ BoundedInbox

-----------------------------------------------------------------------------
(* The inductive invariant of what the inbox reflects.                     *)

\* How many lines of the log have been replayed, or were written since.
Read == Len(file) - Len(boot)

\* What is to be replayed is the rest of the log, and nobody calls before it is.
BootIsRest ==
    /\ Len(boot) <= Len(file)
    /\ \A i \in 1..Len(boot) : boot[i] = file[Read + i]
    /\ ~Serving => \A c \in Calls : place[c] \in {"idle", "gone"}

\* The lines of a key that were read.
LinesRead(k) == LinesIn(Log, k, Read)

\* The lines that the inbox was told of: the last one may be on its way.
Told(k) == IF Unseen(k) = {} THEN LinesRead(k) ELSE Front(LinesRead(k))

OneOnItsWay ==
    \A k \in Keys \ apart : \A c \in Unseen(k) :
        /\ Unseen(k) = {c}
        /\ LinesRead(k) # <<>> /\ Last(LinesRead(k)) = line[c]

\* A history ends in the state of its task, also the one a cancel will insert.
HistoriesEnd ==
    /\ \A k \in DOMAIN inbox : Last(inbox[k].history) = inbox[k].state
    /\ \A x \in Cancels : cancel[x].at = "copied" =>
        Last(cancel[x].copy.history) = cancel[x].copy.state

\* Nobody but those apart has an entry that differs from what it was told.
ToldIsShown == \A k \in Keys \ apart : Reflects(inbox, k, Told(k))

InboxInv == BootIsRest /\ OneOnItsWay /\ HistoriesEnd /\ ToldIsShown
=============================================================================
