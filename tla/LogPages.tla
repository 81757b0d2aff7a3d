------------------------------ MODULE LogPages ------------------------------
(***************************************************************************)
(* Who reads the routing log while it is written: logs of src/api.rs, page *)
(* after page, with the time of the last entry as its cursor, and          *)
(* read_routing_log of src/admin.rs.  The log itself is RouteLog.          *)
(*                                                                         *)
(* A time is a second, so several entries have the same one.  A walk with  *)
(* a filter is a walk of a log with fewer lines, and one walk is enough,   *)
(* since nobody reads what a walk leaves behind.                           *)
(***************************************************************************)
EXTENDS RouteLog

CONSTANTS PageSize,  \* n, at most 5000
          MaxSecond  \* bound: how far the clock runs

ASSUME PagesAssumption == PageSize \in Nat \ {0} /\ MaxSecond \in Nat

VARIABLES
    second,   \* the clock
    ts,       \* the time of a call's entry
    stamped,  \* calls that have read the clock and not begun log_route
    apart,    \* history: none of them ever met another, or a log_route
    walk,     \* a walk: idle, at the ring, between two pages, over
    view,     \* the entries it was given
    cursor,   \* next_before_ts of its last page; MaxSecond + 1 before the first
    cuts,     \* history: the cursors it was given
    began     \* history: the lines of the log at its first page

pages == <<walk, view, cursor, cuts, began>>
clock == <<second, ts, stamped, apart>>
logsVars == <<vars, clock, pages>>

-----------------------------------------------------------------------------
LogsInit ==
    /\ Init
    /\ second = 0 /\ ts = [c \in Calls |-> 0]
    /\ stamped = {} /\ apart = TRUE
    /\ walk = "idle" /\ view = <<>> /\ cursor = MaxSecond + 1
    /\ cuts = {} /\ began = {}

Second ==
    /\ second < MaxSecond
    /\ second' = second + 1
    /\ UNCHANGED <<vars, ts, stamped, apart, pages>>

\* deliver makes the entry; log_route comes next, on a thread among others.
Stamp(c) ==
    /\ place[c] = "idle" /\ c \notin stamped
    /\ ts' = [ts EXCEPT ![c] = second]
    /\ stamped' = stamped \cup {c}
    /\ apart' = (apart /\ stamped \cup Appending \cup Written = {})
    /\ UNCHANGED <<vars, second, pages>>

\* A step of the log.  A call begins with its entry made; a kill takes the entries.
Logged ==
    /\ Next
    /\ \A c \in Calls : place[c] = "idle" /\ place'[c] # "idle" => c \in stamped
    /\ stamped' = IF restarts' # restarts THEN {} ELSE {c \in stamped : place'[c] = "idle"}
    /\ UNCHANGED <<second, ts, apart, pages>>

\* Mutant of Given: the cursor is inclusive.
GivenInclusive(log) ==
    LET older == Reverse(Filter(log, {c \in Calls : ts[c] <= cursor}))
        more  == Len(older) > PageSize
        page  == IF more THEN SubSeq(older, 1, PageSize) ELSE older
    IN  /\ view' = view \o page
        /\ IF more THEN /\ walk' = "between"
                        /\ cursor' = ts[Last(page)]
                        /\ cuts' = cuts \cup {cursor'}
                   ELSE walk' = "over" /\ UNCHANGED <<cursor, cuts>>

\* The page that is made of a log: what is older than the cursor, newest first.
Given(log) ==
    LET older == Reverse(Filter(log, {c \in Calls : ts[c] < cursor}))
        more  == Len(older) > PageSize
        page  == IF more THEN SubSeq(older, 1, PageSize) ELSE older
    IN  /\ view' = view \o page
        /\ IF more THEN /\ walk' = "between"
                        /\ cursor' = ts[Last(page)]
                        /\ cuts' = cuts \cup {cursor'}
                   ELSE walk' = "over" /\ UNCHANGED <<cursor, cuts>>

\* read_routing_log.  A file that is empty or not there, as between a rotation and
\* the write that follows, sends the request to the ring.
ReadLog ==
    /\ walk \in {"idle", "between"}
    /\ LET log == Readable(ContentOf(current))
       IN  /\ IF log = <<>> THEN walk' = "atRing" /\ UNCHANGED <<view, cursor, cuts>>
                            ELSE Given(log)
           /\ began' = IF walk = "idle" THEN Range(log) ELSE began
    /\ UNCHANGED <<vars, clock>>

\* Later, under the lock of the ring.
ReadRing ==
    /\ walk = "atRing"
    /\ Given(ring)
    /\ UNCHANGED <<vars, clock, began>>

\* A restart ends no walk: the cursor is the client's.
LogsNext ==
    \/ Logged \/ Second \/ ReadLog \/ ReadRing
    \/ \E c \in Calls : Stamp(c)

LogsSpec == LogsInit /\ [][LogsNext]_logsVars

-----------------------------------------------------------------------------
(* Properties.                                                             *)

\* A walk of the log shows no entry twice, newest first; and once it is over, it
\* has shown each entry that the file gave when it began and would give still,
\* but for those of a second in which a page ended ("strictly older than this
\* ts", api.rs:359).  This holds through rotations, restarts and torn lines, for
\* calls that were apart from the clock to the ring.  A file that ceases to be text
\* gives nothing: the walk then goes on with the ring.
WalkIsWhole ==
    [][walk # "over" /\ walk' = "over" /\ apart =>
        /\ \A i, j \in DOMAIN view' : i < j => view'[i] # view'[j] /\ ts[view'[i]] >= ts[view'[j]]
        /\ \A c \in began' \cap Range(Readable(ContentOf(current))) :
            c \in Range(view') \/ ts[c] \in cuts]_logsVars

-----------------------------------------------------------------------------
(* The inductive invariant of a walk.                                      *)

ClockOK ==
    /\ second \in 0..MaxSecond /\ ts \in [Calls -> Nat]
    /\ \A c \in Calls : ts[c] <= second
    /\ stamped \subseteq {c \in Calls : place[c] = "idle"} /\ apart \in BOOLEAN

\* Calls that came to their write.
Past == {c \in Calls : place[c] \in {"written", "done", "gone"}}

LinesArePast ==
    /\ \A f \in Calls : \A i \in DOMAIN data[f] : data[f][i] \in Calls => data[f][i] \in Past
    /\ \A i \in DOMAIN ring : ring[i] \in Past \ Written

\* Each line that parses once, in the order of these times.
InOrder(t, s) ==
    \A i, j \in DOMAIN s :
        i < j /\ s[i] \in Calls /\ s[j] \in Calls => s[i] # s[j] /\ t[s[i]] <= t[s[j]]

Busy == stamped \cup Appending \cup Written

OneIsBusy == apart => serial /\ \A c, d \in Busy : c = d

\* As long as calls are apart, whoever has yet to write has the last time.
LogInOrder ==
    apart =>
        /\ InOrder(ts, ContentOf(current)) /\ InOrder(ts, ring)
        /\ \A c \in Busy, d \in Calls : place[d] # "idle" => ts[d] <= ts[c]

\* A walk is sent to the ring when the lines it began with are gone.
WalkOK ==
    apart =>
        /\ view \in Seq(Calls) /\ Range(view) \cup began \subseteq Past
        /\ cursor \in Nat
        /\ walk = "idle" => cursor = MaxSecond + 1 /\ view = <<>> /\ began = {}
        /\ walk = "atRing" => began \cap Range(Readable(ContentOf(current))) = {}

NewestFirst(t, s) == \A i, j \in DOMAIN s : i < j => s[i] # s[j] /\ t[s[i]] >= t[s[j]]

\* Behind the cursor all was shown but a second in which a page ended.
ViewIsWhole ==
    apart /\ walk # "over" =>
        /\ NewestFirst(ts, view) /\ \A i \in DOMAIN view : ts[view[i]] >= cursor
        /\ \A c \in began \cap Range(Readable(ContentOf(current))) :
            c \in Range(view) \/ ts[c] \in cuts \/ ts[c] < cursor

PagesInv ==
    /\ RingOK /\ OneAtATime /\ OneIsBusy
    /\ ClockOK /\ LinesArePast /\ LogInOrder /\ WalkOK /\ ViewIsWhole
=============================================================================
