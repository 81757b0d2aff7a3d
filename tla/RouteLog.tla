------------------------------ MODULE RouteLog ------------------------------
(***************************************************************************)
(* The routing log (append_routing_log and log_route of src/state.rs): a   *)
(* file that is rotated when it is full, and a ring of the last lines in   *)
(* memory.  An append is four system calls under no lock, and other calls  *)
(* run between them.  chat.jsonl is written by the same steps.             *)
(*                                                                         *)
(* Each line has length 1.  A file is named by the call that created it,   *)
(* so an open descriptor keeps its file when the file is renamed.  A file  *)
(* that is not UTF-8 is not read at all: previews are cut with an ellipsis *)
(* and hold what people wrote, so a write may end inside a character.      *)
(***************************************************************************)
EXTENDS Naturals, Sequences, FiniteSets, SequencesExt, Subsequences

CONSTANTS Calls,       \* routed calls, each with its line
          None,
          Torn,        \* the beginning of a line, without its newline
          Cut,         \* the same, but it ends inside a character
          Bad,         \* a line that does not parse
          Ruin,        \* a line that is not text
          Cap,         \* ROUTING_LOG_MAX_BYTES, in lines
          RingCap,     \* RING_CAP, 1000
          MaxFaults,   \* bound: writes that fail or are torn
          MaxRestarts  \* bound

ASSUME ConstantsAssumption ==
    /\ {None, Torn, Cut, Bad, Ruin} \cap Calls = {}
    /\ None \notin {Torn, Cut, Bad, Ruin}
    /\ Torn \notin {Cut, Bad, Ruin} /\ Cut \notin {Bad, Ruin} /\ Bad # Ruin
    /\ {Cap, RingCap} \subseteq Nat \ {0}
    /\ {MaxFaults, MaxRestarts} \subseteq Nat

VARIABLES
    current,     \* the file named routing.jsonl, None if there is none
    rotated,     \* the file named routing.jsonl.1
    data,        \* what is in a file, one line after the other
    place,       \* a call's place in log_route, or how it ended
    handle,      \* the file a call has opened
    ring,        \* App.log_ring
    overlapped,  \* history: calls whose append ran together with another's
    serial,      \* history: no log_route ever ran together with another
    faults, restarts

files == <<current, rotated, data, handle>>
vars == <<files, place, ring, overlapped, serial, faults, restarts>>

Appending == {c \in Calls : place[c] \in {"full", "fits", "open"}}

ContentOf(f) == IF f = None THEN <<>> ELSE data[f]

\* read_to_string takes a file as a whole or not at all.
Text(s) == \A i \in DOMAIN s : s[i] \notin {Cut, Ruin}

\* The lines that parse, of a file that is text.
Readable(s) == IF Text(s) THEN Filter(s, Calls) ELSE <<>>

\* The last n of them.
Newest(s, n) ==
    LET lines == Readable(s)
        from  == IF Len(lines) > n THEN Len(lines) - n + 1 ELSE 1
    IN  SubSeq(lines, from, Len(lines))

\* The history that a call adds to when it begins.
Starts(c) ==
    /\ overlapped' = IF Appending = {} THEN overlapped ELSE overlapped \cup Appending \cup {c}
    /\ serial' = (serial /\ Appending \cup {d \in Calls : place[d] = "written"} = {})

Moves(c, p) == place' = [place EXCEPT ![c] = p]

-----------------------------------------------------------------------------
Init ==
    /\ current = None
    /\ rotated = None
    /\ data = [f \in Calls |-> <<>>]
    /\ place = [c \in Calls |-> "idle"]
    /\ handle = [c \in Calls |-> None]
    /\ ring = <<>>
    /\ overlapped = {}
    /\ serial = TRUE
    /\ faults = 0 /\ restarts = 0

\* Mutant of Stat: the length of the new line is left out of the comparison.
StatWithoutLine(c) ==
    /\ place[c] = "idle"
    /\ Moves(c, IF Len(ContentOf(current)) > Cap THEN "full" ELSE "fits")
    /\ Starts(c)
    /\ UNCHANGED <<files, ring, faults, restarts>>

\* Mutant of Stat: the comparison is off by one the other way.
StatEarly(c) ==
    /\ place[c] = "idle"
    /\ Moves(c, IF Len(ContentOf(current)) + 1 >= Cap THEN "full" ELSE "fits")
    /\ Starts(c)
    /\ UNCHANGED <<files, ring, faults, restarts>>

\* fs::metadata, and the comparison with the cap.
Stat(c) ==
    /\ place[c] = "idle"
    /\ Moves(c, IF Len(ContentOf(current)) + 1 > Cap THEN "full" ELSE "fits")
    /\ Starts(c)
    /\ UNCHANGED <<files, ring, faults, restarts>>

\* Mutant of Rename: the full file is removed.
RenameRemoves(c) ==
    /\ place[c] = "full"
    /\ Moves(c, "fits")
    /\ current' = None
    /\ UNCHANGED <<rotated, data, handle, ring, overlapped, serial, faults, restarts>>

\* fs::rename; it fails if another call has renamed the file already.
Rename(c) ==
    /\ place[c] = "full"
    /\ Moves(c, "fits")
    /\ IF current = None THEN UNCHANGED <<current, rotated>>
       ELSE rotated' = current /\ current' = None
    /\ UNCHANGED <<data, handle, ring, overlapped, serial, faults, restarts>>

\* Mutant of Open: the file is truncated.
OpenTruncates(c) ==
    /\ place[c] = "fits"
    /\ Moves(c, "open")
    /\ current' = IF current = None THEN c ELSE current
    /\ handle' = [handle EXCEPT ![c] = current']
    /\ data' = [data EXCEPT ![current'] = <<>>]
    /\ UNCHANGED <<rotated, ring, overlapped, serial, faults, restarts>>

\* OpenOptions with create and append.
Open(c) ==
    /\ place[c] = "fits"
    /\ Moves(c, "open")
    /\ current' = IF current = None THEN c ELSE current
    /\ handle' = [handle EXCEPT ![c] = current']
    /\ UNCHANGED <<rotated, data, ring, overlapped, serial, faults, restarts>>

Parts == {Torn, Cut}

EndsTorn(s) == s # <<>> /\ Last(s) \in Parts

\* What is written behind a part of a line makes one line with it, which does
\* not parse; half a character stays one.
Joined(part, l) ==
    IF l \in Parts THEN IF part = Cut THEN Cut ELSE l
    ELSE IF part = Cut THEN Ruin ELSE Bad

\* What a file has after l was written to its end.
Extended(s, l) ==
    IF EndsTorn(s) THEN Append(Front(s), Joined(Last(s), l)) ELSE Append(s, l)

\* write_all.
Write(c) ==
    /\ place[c] = "open"
    /\ Moves(c, "written")
    /\ data' = [data EXCEPT ![handle[c]] = Extended(@, c)]
    /\ UNCHANGED <<current, rotated, handle, ring, overlapped, serial, faults, restarts>>

\* The disk takes a part of the line; the error is ignored.  A part that lacks
\* only the newline counts as Torn: it costs less.
WriteTears(c) ==
    /\ place[c] = "open"
    /\ faults < MaxFaults
    /\ faults' = faults + 1
    /\ Moves(c, "written")
    /\ \E part \in Parts : data' = [data EXCEPT ![handle[c]] = Extended(@, part)]
    /\ UNCHANGED <<current, rotated, handle, ring, overlapped, serial, restarts>>

\* The file does not open, or takes nothing.
WriteFails(c) ==
    /\ place[c] = "open"
    /\ faults < MaxFaults
    /\ faults' = faults + 1
    /\ Moves(c, "written")
    /\ UNCHANGED <<files, ring, overlapped, serial, restarts>>

\* Mutant of Push: the newest line goes when the ring is full.
PushDropsNewest(c) ==
    /\ place[c] = "written"
    /\ Moves(c, "done")
    /\ ring' = Append(IF Len(ring) >= RingCap THEN Front(ring) ELSE ring, c)
    /\ UNCHANGED <<files, overlapped, serial, faults, restarts>>

\* Under the lock of the ring.
Push(c) ==
    /\ place[c] = "written"
    /\ Moves(c, "done")
    /\ ring' = Append(IF Len(ring) >= RingCap THEN Tail(ring) ELSE ring, c)
    /\ UNCHANGED <<files, overlapped, serial, faults, restarts>>

\* The caller leaves while log_route awaits that lock.
Abandon(c) ==
    /\ place[c] = "written"
    /\ Moves(c, "gone")
    /\ UNCHANGED <<files, ring, overlapped, serial, faults, restarts>>

\* Kill and start: load() seeds the ring from the file, not from the rotated one.
Restart ==
    /\ restarts < MaxRestarts
    /\ restarts' = restarts + 1
    /\ place' = [c \in Calls |-> IF place[c] \in {"idle", "done"} THEN place[c] ELSE "gone"]
    /\ ring' = Newest(ContentOf(current), RingCap)
    /\ UNCHANGED <<files, overlapped, serial, faults>>

CallStep(c) ==
    \/ Stat(c) \/ Rename(c) \/ Open(c)
    \/ Write(c) \/ WriteTears(c) \/ WriteFails(c)
    \/ Push(c) \/ Abandon(c)

Next == Restart \/ \E c \in Calls : CallStep(c)

Spec == Init /\ [][Next]_vars

-----------------------------------------------------------------------------
(* Properties.                                                             *)

Places == {"idle", "full", "fits", "open", "written", "done", "gone"}

\* The values of the variables but the ring; a descriptor is open from Open on.
FilesOK ==
    /\ current \in Calls \cup {None}
    /\ rotated \in Calls \cup {None}
    /\ data \in [Calls -> Seq(Calls \cup {Torn, Cut, Bad, Ruin})]
    /\ place \in [Calls -> Places]
    /\ handle \in [Calls -> Calls \cup {None}]
    /\ \A c \in Calls : place[c] \in {"open", "written", "done"} => handle[c] # None
    /\ overlapped \in SUBSET Calls /\ serial \in BOOLEAN
    /\ faults \in 0..MaxFaults /\ restarts \in 0..MaxRestarts

\* A file grows over its cap only by lines whose append overlapped with another:
\* whoever appends alone sees the length of the file it will append to.
OnlyOverlapsExceed ==
    \A f, c \in Calls : \A i \in DOMAIN data[f] :
        data[f][i] = c /\ i > Cap => c \in overlapped

\* The file a call renames has reached its cap, unless its append overlapped with
\* another: then it may rename what the other has just begun, and the full file
\* is gone.
RotatesFullOnly ==
    [][\A c \in Calls \ overlapped : place[c] = "full" /\ place'[c] = "fits" =>
        current # None /\ Len(data[current]) >= Cap]_vars

\* The lines that are missing in a file that is still there and is read.
Missing ==
    {c \in Calls : /\ place[c] \in {"written", "done"}
                   /\ handle[c] \in {current, rotated} /\ Text(data[handle[c]])
                   /\ \A i \in DOMAIN data[handle[c]] : data[handle[c]][i] # c}

\* The files that are still there and are not read.
NotText == {f \in Calls : f \in {current, rotated} /\ ~Text(data[f])}

\* A write that fails costs its own line and at most the next one, or, when it
\* ends inside a character, the file it went to: through rotations and restarts
\* no other line is missing and no other file unreadable (state.rs:811-816,
\* admin.rs:480).
FaultCosts == Cardinality(Missing) + 2 * Cardinality(NotText) <= 2 * faults

Whole == ContentOf(rotated) \o ContentOf(current)

\* The ring keeps to its capacity, and shows the newest lines of the log, in its
\* order, as long as calls do not overlap, the disk takes every line and every
\* caller stays.
RingIsLog ==
    /\ Len(ring) <= RingCap
    /\ (serial /\ faults = 0 /\ \A c \in Calls : place[c] \in {"idle", "done"}) =>
         /\ ring = Newest(Whole, Len(ring))
         /\ restarts = 0 => ring = Newest(Whole, RingCap)

Log == INSTANCE AppendLog
            WITH Lines <- Calls, Keep <- Cap, log <- Whole,
                 calm  <- (overlapped = {} /\ faults = 0)

\* The two files are together one log that grows at its end and forgets from its
\* beginning, a full file's worth of lines always staying, through restarts and
\* callers that leave: as long as no two appends overlap and the disk takes every
\* line (state.rs:799-833).
LogSpec == Log!Spec

-----------------------------------------------------------------------------
(* The inductive invariant of the file.                                    *)

\* A file has its name from the call that created it, and is empty before.
Created ==
    /\ \A f \in Calls : place[f] \in {"idle", "full", "fits"} =>
        /\ f \notin {current, rotated}
        /\ data[f] = <<>>
        /\ \A c \in Calls : handle[c] # f

Alone == \A c \in Appending \ overlapped : Appending = {c}

\* What a call that appends alone has seen of the file is still so.
SeesFile ==
    \A c \in Appending \ overlapped :
        /\ place[c] = "full" => current # None /\ Len(ContentOf(current)) >= Cap
        /\ place[c] = "fits" => Len(ContentOf(current)) < Cap
        /\ place[c] = "open" => handle[c] = current /\ Len(ContentOf(current)) < Cap

Inv == FilesOK /\ Created /\ Alone /\ SeesFile /\ OnlyOverlapsExceed

\* The missing lines and the files that are not text, those of removed files
\* included, and the files whose end will spoil the next line.
Lost == {c \in Calls : /\ place[c] \in {"written", "done"} /\ Text(data[handle[c]])
                       /\ \A i \in DOMAIN data[handle[c]] : data[handle[c]][i] # c}
Spoiled == {f \in Calls : Text(data[f]) /\ EndsTorn(data[f])}
Ruined == {f \in Calls : ~Text(data[f])}

\* A fault pays for one of each of the first two or for a file, and a line that is
\* spoiled mends its file.
FaultsPay ==
    /\ IsFiniteSet(Lost) /\ IsFiniteSet(Spoiled) /\ IsFiniteSet(Ruined)
    /\ Cardinality(Lost) + Cardinality(Spoiled) + 2 * Cardinality(Ruined) <= 2 * faults

-----------------------------------------------------------------------------
(* The inductive invariant of the ring.                                    *)

\* r is the end of the first k elements of s.
UpTo(r, s, k) ==
    /\ Len(r) <= k /\ k <= Len(s)
    /\ \A i \in 1..Len(r) : r[i] = s[k - Len(r) + i]

Written == {c \in Calls : place[c] = "written"}

\* How many lines of the log the ring was told of: the last one is on its way.
Told == IF Written = {} THEN Len(Whole) ELSE Len(Whole) - 1

Undisturbed == serial /\ faults = 0 /\ \A c \in Calls : place[c] # "gone"

RingOK == ring \in Seq(Calls) /\ Len(ring) <= RingCap

FilesApart == current = None \/ current # rotated

LinesAreWhole == faults = 0 => \A f \in Calls : data[f] \in Seq(Calls)

OneAtATime == serial => overlapped = {} /\ \A c, d \in Appending \cup Written : c = d

\* The ring ends where it was told of the log, and until a restart it begins with
\* the first line or is full.
RingFollows ==
    Undisturbed =>
        /\ \A c \in Written : Whole # <<>> /\ Last(Whole) = c
        /\ UpTo(ring, Whole, Told)
        /\ restarts = 0 => Len(ring) = RingCap \/ Len(ring) = Told

RingInv == RingOK /\ FilesApart /\ LinesAreWhole /\ OneAtATime /\ RingFollows
=============================================================================
