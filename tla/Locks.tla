------------------------------- MODULE Locks -------------------------------
(***************************************************************************)
(* The locks that handlers await: Inner, the ring of routed calls and the  *)
(* ring of chat messages, each a tokio RwLock.                             *)
(*                                                                         *)
(* A handler takes one section after another, from holding no lock to      *)
(* holding none.  A task of the model runs sections one after the other in *)
(* any order, which has the handlers of the code among its runs.  The      *)
(* locks of the standard library are left out: they are never held across  *)
(* an await, and only one of them, that of the pending calls, is ever      *)
(* taken under another, that of the channels.                              *)
(***************************************************************************)
EXTENDS Naturals, Sequences, SequencesExt

CONSTANTS Tasks,     \* requests, streams and the prober
          Sections   \* those that run: a subset of DOMAIN Section

VARIABLES
    run,     \* a task: its section and the place it is at
    queue    \* a lock: who waits for it, in order

locksVars == <<run, queue>>

LockNames == {"inner", "log_ring", "chat_ring"}
Modes     == {"read", "write"}
Grip      == [lock : LockNames, mode : Modes]

Read(l)  == [lock |-> l, mode |-> "read"]
Write(l) == [lock |-> l, mode |-> "write"]
NoGrip     == [lock |-> "none", mode |-> "none"]

-----------------------------------------------------------------------------
(* A section takes a lock and, while it holds that, perhaps another one.   *)

Takes(g)        == [first |-> g, second |-> NoGrip]
TakesBoth(g, h) == [first |-> g, second |-> h]

\* resolve_caller, deliver, persist and whoever else only looks.
ResolveCaller == Takes(Read("inner"))

\* Mutant of Update: the token is resolved under the write lock.
UpdateResolvesLate == TakesBoth(Write("inner"), Read("inner"))

\* register, PATCH, deregister, rooms and humans: the caller is resolved before.
Update == Takes(Write("inner"))

\* An operator's decision, a mark, a password: saved afterwards, if at all.
SetState == Takes(Write("inner"))

\* topology_data and summary_json: the ring is read while Inner is held.
TopologyPeers == TakesBoth(Read("inner"), Read("log_ring"))

\* settings_json: admin_set reads Inner again.
SettingsJson == TakesBoth(Read("inner"), Read("inner"))

RecentLog   == Takes(Read("log_ring"))
\* Mutant of LogRoute: the metrics of the registry are read under the ring's lock.
LogRouteLooks == TakesBoth(Write("log_ring"), Read("inner"))

LogRoute    == Takes(Write("log_ring"))
ApiMessages == Takes(Read("chat_ring"))
LogChat     == Takes(Write("chat_ring"))

Section ==
    [resolve |-> ResolveCaller, update |-> Update, set_state |-> SetState,
     topology |-> TopologyPeers, settings |-> SettingsJson,
     recent |-> RecentLog, log |-> LogRoute, messages |-> ApiMessages, chat |-> LogChat]

ASSUME SectionsAssumption == Sections \subseteq DOMAIN Section

-----------------------------------------------------------------------------
First(t)  == Section[run[t].section].first
Second(t) == Section[run[t].section].second

Waits(t) == run[t].at \in {"asks", "nests"}
Wanted(t) == IF run[t].at = "asks" THEN First(t) ELSE Second(t)

Holds(t) ==
    CASE run[t].at \in {"idle", "asks"}          -> {}
      [] run[t].at \in {"has", "nests", "last"} -> {First(t)}
      [] run[t].at = "both"                         -> {First(t), Second(t)}

NoSection == [section |-> "none", at |-> "idle"]

LocksInit ==
    /\ run = [t \in Tasks |-> NoSection]
    /\ queue = [l \in LockNames |-> <<>>]

Moves(t, p) == run' = [run EXCEPT ![t].at = p]

Joins(t, l) == queue' = [queue EXCEPT ![l] = Append(@, t)]

\* A task comes to the lock of its next section.
Enter(t) ==
    /\ run[t].at = "idle"
    /\ \E s \in Sections :
        /\ run' = [run EXCEPT ![t] = [section |-> s, at |-> "asks"]]
        /\ Joins(t, Section[s].first.lock)

\* A lock goes to who has waited longest: a reader waits behind a writer that
\* waits, even if other readers hold the lock.
Admits(t) ==
    \A u \in Tasks : \A g \in Holds(u) :
        g.lock = Wanted(t).lock => g.mode = "read" /\ Wanted(t).mode = "read"

Grant(l) ==
    /\ queue[l] # <<>>
    /\ LET t == Head(queue[l])
       IN  /\ Admits(t)
           /\ Moves(t, IF run[t].at = "asks" THEN "has" ELSE "both")
    /\ queue' = [queue EXCEPT ![l] = Tail(@)]

\* The second lock of a section.
Nest(t) ==
    /\ run[t].at = "has"
    /\ Second(t) # NoGrip
    /\ Moves(t, "nests")
    /\ Joins(t, Second(t).lock)

\* It is let go first, and then the first one.
Unnest(t) ==
    /\ run[t].at = "both"
    /\ Moves(t, "last")
    /\ UNCHANGED queue

LeaveSection(t) ==
    /\ \/ run[t].at = "last"
       \/ run[t].at = "has" /\ Second(t) = NoGrip
    /\ run' = [run EXCEPT ![t] = NoSection]
    /\ UNCHANGED queue

\* The client is gone: axum drops the handler, which is at an await.  It leaves
\* the queue and lets go of what it holds.
Dropped(t) ==
    /\ Waits(t)
    /\ \E i \in DOMAIN queue[Wanted(t).lock] :
        /\ queue[Wanted(t).lock][i] = t
        /\ queue' = [queue EXCEPT ![Wanted(t).lock] = RemoveAt(@, i)]
    /\ run' = [run EXCEPT ![t] = NoSection]

-----------------------------------------------------------------------------
TaskStep(t) == Nest(t) \/ Unnest(t) \/ LeaveSection(t)

LocksNext ==
    \/ \E t \in Tasks : Enter(t) \/ TaskStep(t) \/ Dropped(t)
    \/ \E l \in LockNames : Grant(l)

\* Nothing is awaited in a section but the second lock, so a task that is not
\* waiting goes on; and a lock that can be had is given.
LocksFairness ==
    /\ \A t \in Tasks : WF_locksVars(TaskStep(t))
    /\ \A l \in LockNames : WF_locksVars(Grant(l))

LocksSpec == LocksInit /\ [][LocksNext]_locksVars /\ LocksFairness

-----------------------------------------------------------------------------
(* Properties.                                                             *)

Places == {"idle", "asks", "has", "nests", "both", "last"}

\* The values of the variables.
LocksOK ==
    /\ run \in [Tasks -> {NoSection} \cup [section : Sections, at : Places \ {"idle"}]]
    /\ queue \in [LockNames -> Seq(Tasks)]

Busy(t) == run[t].at # "idle"

\* Some task can go on by itself, or some lock can be given to who waits for it.
SomeoneMoves ==
    \/ \E t \in Tasks : Busy(t) /\ ~Waits(t)
    \/ \E l \in LockNames : queue[l] # <<>> /\ Admits(Head(queue[l]))

\* A request for the settings holds Inner and waits for it again, behind a writer
\* that waits for it to let go.
BlocksItself(t) ==
    /\ run[t] = [section |-> "settings", at |-> "nests"]
    /\ \E i, j \in DOMAIN queue["inner"] :
        /\ i < j /\ queue["inner"][j] = t
        /\ Wanted(queue["inner"][i]).mode = "write"

\* The handlers never all wait for each other, but when a request for the
\* settings blocks itself.
OnlySettingsBlock ==
    (\E t \in Tasks : Busy(t)) /\ ~SomeoneMoves => \E t \in Tasks : BlocksItself(t)

\* Whoever comes to a lock gets it and goes on, however many come after, unless
\* its client leaves; for as long as no request for the settings blocks itself.
EverySectionEnds ==
    [](\A t \in Tasks : ~BlocksItself(t)) => \A t \in Tasks : Busy(t) ~> ~Busy(t)

\* What update says of itself, and what its order of locks is for: no handler
\* waits for a lock while it holds what the lock waits for, so that some handler
\* can always go on.
NeverStandsStill == (\E t \in Tasks : Busy(t)) => SomeoneMoves

-----------------------------------------------------------------------------
(* The inductive invariant.                                                *)

\* Who waits for a lock is in its queue, and nobody else is.
QueuedWait ==
    \A l \in LockNames : \A i \in DOMAIN queue[l] :
        Waits(queue[l][i]) /\ Wanted(queue[l][i]).lock = l

WaitersQueued ==
    \A t \in Tasks : Waits(t) => \E i \in DOMAIN queue[Wanted(t).lock] : queue[Wanted(t).lock][i] = t

QueuedOnce ==
    \A l \in LockNames : \A i, j \in DOMAIN queue[l] : queue[l][i] = queue[l][j] => i = j

\* A second lock is waited for only by a section that has one.
NestsKnown ==
    \A t \in Tasks : run[t].at \in {"nests", "both", "last"} => Second(t) # NoGrip

\* Who holds a lock and waits for another holds Inner, for reading, and waits for
\* the ring of calls; but for the settings.
WaitsInOrder ==
    \A t \in Tasks : run[t].at = "nests" =>
        /\ First(t) = Read("inner")
        /\ \/ Second(t) = Read("log_ring")
           \/ run[t].section = "settings" /\ Second(t) = Read("inner")

LocksInv == LocksOK /\ QueuedWait /\ WaitersQueued /\ QueuedOnce /\ NestsKnown /\ WaitsInOrder
=============================================================================
