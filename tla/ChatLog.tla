------------------------------ MODULE ChatLog ------------------------------
(***************************************************************************)
(* The messenger's history: log_chat and App::load of src/state.rs, and    *)
(* what a client can learn of it from api_messages and api_history of      *)
(* src/chat.rs and from the chat events of sse_events in src/admin.rs.     *)
(*                                                                         *)
(* log_chat takes an id, appends to chat.jsonl, pushes to the ring and     *)
(* broadcasts, and other messages come between any two of these, and       *)
(* between any two system calls of the append.  A torn line costs what it  *)
(* costs in RouteLog: itself, the next line, or the file, which is not     *)
(* read when it is no text.                                                *)
(***************************************************************************)
EXTENDS Naturals, Sequences, FiniteSets, SequencesExt, Subsequences

CONSTANTS Msgs,        \* messages, each one call of log_chat
          Convs,       \* conversations
          Thread,      \* the one that is read
          Readers,     \* clients with an event stream
          FileCap,     \* CHAT_LOG_MAX_BYTES, in lines
          RingCap,     \* CHAT_RING_CAP, 2000
          PageCap,     \* what api_messages returns at most, 200
          HistoryCap,  \* what api_history returns at most, the n of the request
          BusCap,      \* the buffer of the broadcast, 64
          MaxFaults,   \* bound: writes that fail or are torn
          MaxRestarts  \* bound

ASSUME ChatAssumption ==
    /\ Thread \in Convs
    /\ {FileCap, RingCap, PageCap, HistoryCap, BusCap} \subseteq Nat \ {0}
    /\ {MaxFaults, MaxRestarts} \subseteq Nat

VARIABLES
    conv,     \* the conversation of a message
    seq,      \* App.chat_seq
    id,       \* the id of a message
    place,    \* how far a message has come in log_chat, or how it ended
    lines,    \* what read_chat_records finds in chat.jsonl
    size,     \* how many lines were written to it, also such as do not parse
    tail,     \* what the next line is written behind: whole lines, a part of one,
              \* or bytes that are no text
    ring,     \* App.chat_ring
    bus,      \* what was broadcast since the start; the last BusCap are in the buffer
    at,       \* a reader: away, open (subscribed), reading, ready
    shown,    \* the messages a reader was given, in the order of its view
    older,    \* has_older of the last answer
    next,     \* the position on the bus that a reader receives next
    heard,    \* the messages a reader received as events
    lagged,   \* history: readers that fell behind the buffer
    left,     \* history: what the ring had taken before a reader read it, and the answer left out
    gap,      \* history: readers that polled too late or got too much for one answer
    serial,   \* history: no two messages were ever in log_chat together
    shaken,   \* history: a rotation took a higher id away, or a kill came before its write
    faults, restarts

file    == <<lines, size, tail>>
log     == <<seq, id, place, file, ring, bus>>
reader  == <<at, shown, older, next, heard, lagged, left, gap>>
past == <<serial, shaken, faults, restarts>>
chatVars == <<conv, log, reader, past>>

InThread(m) == conv[m] = Thread

Newest(s, n) == IF Len(s) > n THEN SubSeq(s, Len(s) - n + 1, Len(s)) ELSE s

Moves(m, p) == place' = [place EXCEPT ![m] = p]

\* The places of a message that a client may have seen.
Finished == {"written", "pushed", "sent", "alone", "loaded", "gone"}

\* With a descriptor of the file that is chat.jsonl; reopened after a rotation.
Holding == {"opened", "reopened"}

Appending == {"numbered", "full", "ready", "cleared", "stray"} \cup Holding

-----------------------------------------------------------------------------
ChatInit ==
    /\ conv \in [Msgs -> Convs]
    /\ seq = 0 /\ id = [m \in Msgs |-> 0]
    /\ place = [m \in Msgs |-> "idle"]
    /\ lines = <<>> /\ size = 0 /\ tail = "whole"
    /\ ring = <<>> /\ bus = <<>>
    /\ at = [r \in Readers |-> "away"]
    /\ shown = [r \in Readers |-> <<>>]
    /\ older = [r \in Readers |-> FALSE]
    /\ next = [r \in Readers |-> 1]
    /\ heard = [r \in Readers |-> {}]
    /\ left = [r \in Readers |-> {}]
    /\ lagged = {} /\ gap = {}
    /\ serial = TRUE /\ shaken = FALSE
    /\ faults = 0 /\ restarts = 0

-----------------------------------------------------------------------------
(* log_chat.                                                               *)

\* fetch_add.
TakeId(m) ==
    /\ place[m] = "idle"
    /\ Moves(m, "numbered")
    /\ id' = [id EXCEPT ![m] = seq]
    /\ seq' = seq + 1
    /\ serial' = (serial /\ ~\E x \in Msgs : place[x] \in Appending \cup {"written"})
    /\ UNCHANGED <<conv, file, ring, bus, reader, shaken, faults, restarts>>

\* fs::metadata.
Measure(m) ==
    /\ place[m] = "numbered"
    /\ Moves(m, IF size + 1 > FileCap THEN "full" ELSE "ready")
    /\ UNCHANGED <<conv, seq, id, file, ring, bus, reader, past>>

\* Whatever is chat.jsonl by now is renamed to chat.jsonl.1, which nobody reads,
\* also under those who hold it.
Rotate(m) ==
    /\ place[m] = "full"
    /\ place' = [x \in Msgs |-> IF x = m THEN "cleared"
                               ELSE IF place[x] \in Holding THEN "stray" ELSE place[x]]
    /\ lines' = <<>> /\ size' = 0 /\ tail' = "whole"
    /\ shaken' = (shaken \/ \E x \in Msgs : id[x] > id[m] /\ (x \in Range(lines) \/ place[x] \in Holding))
    /\ UNCHANGED <<conv, seq, id, ring, bus, reader, serial, faults, restarts>>

OpenLines(m) ==
    /\ \/ place[m] = "ready"   /\ Moves(m, "opened")
       \/ place[m] = "cleared" /\ Moves(m, "reopened")
    /\ UNCHANGED <<conv, seq, id, file, ring, bus, reader, past>>

\* A line behind a part of another does not parse, nor does that one.
Lands(m) ==
    /\ lines' = IF tail = "whole" THEN Append(lines, m) ELSE lines
    /\ tail' = IF tail = "part" THEN "whole" ELSE tail
    /\ size' = size + 1

Write(m) ==
    /\ place[m] \in Holding \cup {"stray"}
    /\ Moves(m, "written")
    /\ IF place[m] = "stray" THEN UNCHANGED file ELSE Lands(m)
    /\ UNCHANGED <<conv, seq, id, ring, bus, reader, past>>

\* The open or the write fails; the error is ignored.
LineFails(m) ==
    /\ place[m] \in Holding \cup {"ready", "cleared"}
    /\ faults < MaxFaults
    /\ faults' = faults + 1
    /\ Moves(m, "written")
    /\ UNCHANGED <<conv, seq, id, file, ring, bus, reader, serial, shaken, restarts>>

\* A part of the line is written.  It may end inside a character, and then the
\* file is no text any more.
LineTorn(m) ==
    /\ place[m] \in Holding
    /\ faults < MaxFaults
    /\ faults' = faults + 1
    /\ Moves(m, "written")
    /\ \/ tail # "ruined" /\ tail' = "part" /\ UNCHANGED lines
       \/ tail' = "ruined" /\ lines' = <<>>
    /\ UNCHANGED <<conv, seq, id, size, ring, bus, reader, serial, shaken, restarts>>

\* Under the lock of the ring.
Push(m) ==
    /\ place[m] = "written"
    /\ Moves(m, "pushed")
    /\ ring' = Append(IF Len(ring) >= RingCap THEN Tail(ring) ELSE ring, m)
    /\ UNCHANGED <<conv, seq, id, file, bus, reader, past>>

\* Mutant of Send: what finds the buffer full for a reader is not sent.
SendDrops(m) ==
    /\ place[m] = "pushed"
    /\ Moves(m, "sent")
    /\ bus' = IF \E r \in Readers : at[r] # "away" /\ Len(bus) - next[r] + 1 >= BusCap
              THEN bus ELSE Append(bus, m)
    /\ UNCHANGED <<conv, seq, id, file, ring, reader, past>>

\* broadcast::Sender::send.
Send(m) ==
    /\ place[m] = "pushed"
    /\ Moves(m, "sent")
    /\ bus' = Append(bus, m)
    /\ UNCHANGED <<conv, seq, id, file, ring, reader, past>>

\* The sender leaves while log_chat awaits the ring: only the file has the message.
SenderLeaves(m) ==
    /\ place[m] = "written"
    /\ Moves(m, "alone")
    /\ UNCHANGED <<conv, seq, id, file, ring, bus, reader, past>>

-----------------------------------------------------------------------------
(* A kill, and load().                                                     *)

Fallen ==
    [m \in Msgs |-> IF m \in Range(lines) THEN "loaded"
                   ELSE IF place[m] \in Appending THEN "dropped"
                   ELSE IF place[m] \in Finished THEN "gone" ELSE place[m]]

ReadersReset ==
    /\ at' = [r \in Readers |-> "away"]
    /\ shown' = [r \in Readers |-> <<>>]
    /\ older' = [r \in Readers |-> FALSE]
    /\ next' = [r \in Readers |-> 1]
    /\ heard' = [r \in Readers |-> {}]
    /\ left' = [r \in Readers |-> {}]
    /\ lagged' = {} /\ gap' = {}

\* Mutant of NextId: the id of the last line, plus one.
NextIdOfLast == IF lines = <<>> THEN 0 ELSE id[Last(lines)] + 1

\* The highest id of the file, plus one.
NextId == IF lines = <<>> THEN 0 ELSE Max({id[m] : m \in Range(lines)}) + 1

Restart ==
    /\ restarts < MaxRestarts
    /\ restarts' = restarts + 1
    /\ place' = Fallen
    /\ seq' = NextId
    /\ ring' = Newest(lines, RingCap)
    /\ bus' = <<>>
    /\ ReadersReset
    /\ shaken' = (shaken \/ \E m \in Msgs : place[m] \in {"cleared", "reopened"})
    /\ UNCHANGED <<conv, id, file, serial, faults>>

-----------------------------------------------------------------------------
(* A reader: it subscribes, asks for the thread, pages back, and may ask   *)
(* again for what is newer.                                                *)

\* sse_events.
Subscribe(r) ==
    /\ at[r] = "away"
    /\ at' = [at EXCEPT ![r] = "open"]
    /\ next' = [next EXCEPT ![r] = Len(bus) + 1]
    /\ UNCHANGED <<conv, log, shown, older, heard, lagged, left, gap, past>>

\* The messages of the ring that an api_messages with this since_id is about.
Matching(since) == Filter(ring, {m \in Msgs : InThread(m) /\ id[m] > since})

Before(s, first) == \E m \in Range(s) : InThread(m) /\ id[m] < first

\* api_messages without since_id, under the lock of the ring.
ReadRing(r) ==
    /\ at[r] = "open"
    /\ LET msgs      == Newest(Matching(0), PageCap)
           ringOlder == msgs # <<>> /\ ( \/ Len(Matching(0)) > PageCap
                                         \/ Before(ring, id[msgs[1]]) )
       IN  /\ shown' = [shown EXCEPT ![r] = msgs]
           /\ older' = [older EXCEPT ![r] = ringOlder]
           /\ at' = [at EXCEPT ![r] = IF msgs = <<>> \/ ringOlder THEN "ready" ELSE "reading"]
           /\ left' = [left EXCEPT ![r] =
                          {m \in Msgs : place[m] \in {"pushed", "sent"}} \ Range(msgs)]
    /\ UNCHANGED <<conv, log, next, heard, lagged, gap, past>>

\* Its second half: has_older from the file.
ReadFile(r) ==
    /\ at[r] = "reading"
    /\ at' = [at EXCEPT ![r] = "ready"]
    /\ older' = [older EXCEPT ![r] = Before(lines, id[shown[r][1]])]
    /\ UNCHANGED <<conv, log, shown, next, heard, lagged, left, gap, past>>

\* sort_by_key, which is stable: where the i-th line comes to stand.
SortedPlace(s, i) ==
    Cardinality({j \in DOMAIN s : id[s[j]] < id[s[i]] \/ (id[s[j]] = id[s[i]] /\ j <= i)})

ById(s) == [k \in 1..Len(s) |-> s[CHOOSE i \in DOMAIN s : SortedPlace(s, i) = k]]

LinesBefore(first) == Filter(lines, {m \in Msgs : InThread(m) /\ id[m] < first})

\* Mutant of Page: the first message of the view is in the page.
PageInclusive(r) ==
    /\ at[r] = "ready" /\ older[r]
    /\ LET first == id[shown[r][1]]
           all   == ById(LinesBefore(first + 1))
       IN  /\ shown' = [shown EXCEPT ![r] = Newest(all, HistoryCap) \o @]
           /\ older' = [older EXCEPT ![r] = Len(all) > HistoryCap]
    /\ UNCHANGED <<conv, log, at, next, heard, lagged, left, gap, past>>

\* api_history with the first id of the view.
Page(r) ==
    /\ at[r] = "ready" /\ older[r]
    /\ LET first == id[shown[r][1]]
           all   == ById(LinesBefore(first))
       IN  /\ shown' = [shown EXCEPT ![r] = Newest(all, HistoryCap) \o @]
           /\ older' = [older EXCEPT ![r] = Len(all) > HistoryCap]
    /\ UNCHANGED <<conv, log, at, next, heard, lagged, left, gap, past>>

\* api_messages with the last id of the view as since_id; 0 would ask for all.
Poll(r) ==
    /\ at[r] = "ready" /\ shown[r] # <<>>
    /\ LET since == id[Last(shown[r])]
           new   == Matching(since)
       IN  /\ since > 0 /\ new # <<>>
           /\ shown' = [shown EXCEPT ![r] = @ \o Newest(new, PageCap)]
           /\ gap' = IF \/ Len(new) > PageCap
                        \/ \E m \in Range(lines) \ Range(ring) :
                               place[m] \in {"pushed", "sent"} /\ InThread(m) /\ id[m] > since
                     THEN gap \cup {r} ELSE gap
    /\ UNCHANGED <<conv, log, at, older, next, heard, lagged, left, past>>

\* The chat branch of sse_events: the next event, or Lagged, which tells nobody.
Receive(r) ==
    /\ at[r] # "away" /\ next[r] <= Len(bus)
    /\ IF Len(bus) - next[r] + 1 > BusCap
       THEN /\ next' = [next EXCEPT ![r] = Len(bus) - BusCap + 1]
            /\ lagged' = lagged \cup {r}
            /\ UNCHANGED heard
       ELSE /\ next' = [next EXCEPT ![r] = @ + 1]
            /\ heard' = [heard EXCEPT ![r] = @ \cup {bus[next[r]]}]
            /\ UNCHANGED lagged
    /\ UNCHANGED <<conv, log, at, shown, older, left, gap, past>>

-----------------------------------------------------------------------------
MsgStep(m) ==
    \/ TakeId(m) \/ Measure(m) \/ Rotate(m) \/ OpenLines(m) \/ Write(m)
    \/ LineFails(m) \/ LineTorn(m) \/ Push(m) \/ Send(m) \/ SenderLeaves(m)

ReaderStep(r) ==
    \/ Subscribe(r) \/ ReadRing(r) \/ ReadFile(r)
    \/ Page(r) \/ Poll(r) \/ Receive(r)

ChatNext ==
    \/ Restart
    \/ \E m \in Msgs : MsgStep(m)
    \/ \E r \in Readers : ReaderStep(r)

ChatSpec == ChatInit /\ [][ChatNext]_chatVars

-----------------------------------------------------------------------------
(* Properties.                                                             *)

\* The values of the variables of the log.
LogOK ==
    /\ seq \in Nat /\ id \in [Msgs -> Nat]
    /\ place \in [Msgs -> Appending \cup Finished \cup {"idle", "dropped"}]
    /\ lines \in Seq(Msgs) /\ size \in Nat
    /\ tail \in {"whole", "part", "ruined"} /\ (tail # "whole" => faults > 0)
    /\ faults \in Nat /\ shaken \in BOOLEAN

\* The messages that anyone may have seen.
Seen == {m \in Msgs : place[m] \in Finished}

\* No two messages that were seen have the same id, over any restart, also when
\* messages overlapped and the last line has not the highest id (state.rs:705).
\* Three things break it: a line that was not written, or a torn one, for which the
\* file may not be read at all; a message that rotates the file when a higher id is
\* in it or about to be; a kill between a rotation and the write that follows.
IdsSurvive ==
    faults = 0 /\ ~shaken => \A m, x \in Seen : id[m] = id[x] => m = x

\* What the file has of the messages that were sent, or loaded at the start.
Known == {m \in Range(lines) : place[m] \in {"pushed", "sent", "loaded"}}

Ascending(s) == \A i, j \in DOMAIN s : i < j => id[s[i]] < id[s[j]]

ViewIsWhole(r) ==
    LET first == id[shown[r][1]]
        last  == id[Last(shown[r])]
    IN  /\ Ascending(shown[r])
        /\ \A m \in Known : InThread(m) /\ id[m] \in first..last => m \in Range(shown[r])
        /\ at[r] = "ready" /\ ~older[r] => ~\E m \in Known : InThread(m) /\ id[m] < first

\* What a reader has been shown is in order, each message once, and nothing is
\* missing in it; and when has_older says that there is no more, chat.jsonl has no
\* more, through rotations and evictions from the ring.  This is so for messages
\* that did not overlap, and that were sent; a view of nothing says nothing, since
\* id 0 is never in the answer of api_messages (chat.rs:572), nor is a thread that
\* has left the ring.
ReaderIsWhole == serial => \A r \in Readers \ gap : shown[r] # <<>> => ViewIsWhole(r)

\* A reader that subscribed before it asked for the thread, and never fell behind,
\* has every message that was sent, or will receive it: unless the ring had it
\* when it was asked.
NothingMissed ==
    \A r \in Readers \ lagged : at[r] \in {"reading", "ready"} =>
        {m \in Msgs : place[m] = "sent"} \subseteq
            Range(shown[r]) \cup heard[r] \cup left[r]
            \cup {bus[i] : i \in next[r]..Len(bus)}

-----------------------------------------------------------------------------
(* The inductive invariant of the ids.                                     *)

\* The file has lines of messages that came that far, each once its id was taken.
LinesAreWritten ==
    /\ \A m \in Range(lines) : place[m] \in Finished
    /\ \A m \in Msgs : m \in Range(lines) \/ place[m] \in Appending => id[m] < seq

\* The messages whose id may still be met.
Numbered == {m \in Msgs : place[m] \in Appending \cup Finished}

IdsAreApart == \A m, x \in Numbered : id[m] < seq /\ (id[m] = id[x] => m = x)

\* In the file, or sure to get there.
Stays(y) == y \in Range(lines) \/ place[y] \in {"cleared", "reopened"}

\* What a rotation took away has a smaller id than a line that is there, or will be.
TakenIsCovered ==
    \A m \in Msgs : place[m] \in Finished \cup {"stray"} /\ m \notin Range(lines) =>
        \E y \in Msgs : Stays(y) /\ id[m] < id[y]

ChatInv ==
    /\ LogOK /\ LinesAreWritten
    /\ faults = 0 /\ ~shaken => IdsAreApart /\ TakenIsCovered

-----------------------------------------------------------------------------
(* The inductive invariant of what readers are shown.                      *)

\* In log_chat, and not in the ring yet.
Busy == {m \in Msgs : place[m] \in Appending \cup {"written"}}

\* The values of the variables of the readers; has_older is about a first message.
ReadersOK ==
    /\ ring \in Seq(Msgs) /\ bus \in Seq(Msgs)
    /\ at \in [Readers -> {"away", "open", "reading", "ready"}]
    /\ shown \in [Readers -> Seq(Msgs)]
    /\ older \in [Readers -> BOOLEAN]
    /\ \A r \in Readers : older[r] \/ at[r] = "reading" => shown[r] # <<>>
    /\ next \in [Readers -> Nat] /\ \A r \in Readers : next[r] \in 1..(Len(bus) + 1)
    /\ heard \in [Readers -> SUBSET Msgs] /\ left \in [Readers -> SUBSET Msgs]

\* Whatever ring and readers have was given an id in this run, or was read from
\* the file when it began.
AllHaveIds ==
    /\ \A m \in Busy : id[m] < seq
    /\ \A m \in Range(ring) : place[m] \in {"pushed", "sent", "loaded"} /\ id[m] < seq
    /\ \A r \in Readers : \A m \in Range(shown[r]) : place[m] # "idle" /\ id[m] < seq

\* Messages that do not overlap come into file and ring in the order of their ids,
OnesTurn ==
    /\ \A m, x \in Busy : m = x
    /\ Ascending(lines) /\ Ascending(ring)
    /\ \A m \in Busy :
        /\ \A x \in Range(lines) \ {m} : id[x] < id[m]
        /\ \A x \in Range(ring) : id[x] < id[m]
        /\ \A r \in Readers : \A x \in Range(shown[r]) : id[x] < id[m]

\* the ring has whatever the file has from the ring's oldest message on,
RingReachesBack ==
    ring # <<>> => \A m \in Known : id[m] >= id[ring[1]] => m \in Range(ring)

\* and no reader that has a view has yet to see what the ring was seeded with.
SeedIsShown ==
    \A r \in Readers : shown[r] # <<>> =>
        \A m \in Range(lines) : InThread(m) /\ place[m] = "loaded" => id[m] <= id[Last(shown[r])]

ReadInv ==
    /\ ChatInv /\ ReadersOK /\ AllHaveIds /\ NothingMissed
    /\ serial => OnesTurn /\ RingReachesBack /\ SeedIsShown /\ ReaderIsWhole
=============================================================================
