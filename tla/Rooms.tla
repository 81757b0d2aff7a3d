------------------------------- MODULE Rooms -------------------------------
(***************************************************************************)
(* Chat rooms and what humans send (src/chat.rs): rosters that the console *)
(* and the registry change, messages that fan out to the agents of a room, *)
(* and the bubbles that tell the human what became of them.                *)
(*                                                                         *)
(* A handler reads the sender, the members and the room under a lock each, *)
(* and works on copies while others go on.  A name is all a roster keeps:  *)
(* the registration a member had when it was invited is history.  deliver  *)
(* is one step here, Delivery has its parts; the order of bubbles and the  *)
(* text of messages are left out.                                          *)
(***************************************************************************)
EXTENDS Naturals, FiniteSets

CONSTANTS Names,
          Rooms,    \* room ids, random and never used twice
          Edits,    \* requests that make or change a room
          Sends,    \* messages of humans
          None,
          Cap,      \* ROOM_MEMBER_CAP, 32
          MaxChanges \* bound: changes of the registry, and deletions of rooms

Regs  == 0..MaxChanges
Entry == [kind : {"agent", "human"}, accepted : BOOLEAN, reg : Regs]

ASSUME ConstantsAssumption ==
    /\ IsFiniteSet(Names)
    /\ {Cap, MaxChanges} \subseteq Nat
    /\ Edits \cap Sends = {}
    /\ None \notin Names \cup Rooms \cup Entry

VARIABLES
    peers,    \* Inner.peers: kind, admission and registration of a name's entry, or None
    changes,  \* how many changes there were; a registration has the number of its change
    live,     \* the rooms of Inner.rooms
    used,     \* the ids that were given out
    roster,   \* Room.members of a room
    half,     \* the humans whose deletion is between its two locks
    req,      \* a request: where it is, what it does, who speaks, its room, and the
              \* names it works on: what it adds, or the roster it has copied
    out,      \* what became of each call a request makes
    sender,   \* the status of the bubble with the message itself
    noted,    \* the members a request has recorded a bubble for
    invited,  \* history: the registration a member had when it was invited
    copied,   \* history: the registrations behind the names of a request
    loose     \* history: the names that were removed while a roster or a request kept them

Reqs == Edits \cup Sends

registry == <<peers, half, changes>>
rosters == <<live, used, roster, invited>>
work == <<req, out, sender, noted, copied>>
vars == <<registry, rosters, work, loose>>

IsAgent(n)    == peers[n] # None /\ peers[n].kind = "agent"
IsHuman(n)    == peers[n] # None /\ peers[n].kind = "human"
IsAccepted(n) == peers[n] # None /\ peers[n].accepted

NoReq  == [at |-> "idle", op |-> "none", from |-> None, room |-> None, names |-> {}]
NoCalls == [n \in Names |-> "none"]
Zero   == [n \in Names |-> 0]

\* A request may still use the names it holds.
Holds(n)  == \E q \in Reqs : /\ req[q].at \in {"validated", "read", "fan"}
                             /\ n \in req[q].names
Listed(n) == \E r \in Rooms : n \in roster[r]

Changes ==
    /\ changes < MaxChanges
    /\ changes' = changes + 1

Goes(q, p) ==
    req' = [req EXCEPT ![q] = [at |-> p, op |-> req[q].op, from |-> req[q].from,
                               room |-> req[q].room, names |-> req[q].names]]

-----------------------------------------------------------------------------
Init ==
    /\ peers \in [Names -> {e \in Entry : e.accepted /\ e.reg = 0}]
    /\ changes = 0
    /\ live \in SUBSET Rooms
    /\ used = live
    /\ roster \in {f \in [Rooms -> SUBSET Names] :
                      \A r \in Rooms : /\ Cardinality(f[r]) <= Cap
                                       /\ r \notin live => f[r] = {}}
    /\ half = {}
    /\ req = [q \in Reqs |-> NoReq]
    /\ out = [q \in Reqs |-> NoCalls]
    /\ sender = [q \in Reqs |-> "none"]
    /\ noted = [q \in Reqs |-> {}]
    /\ invited = [r \in Rooms |-> Zero]
    /\ copied = [q \in Reqs |-> Zero]
    /\ loose = {}

-----------------------------------------------------------------------------
(* The registry.                                                           *)

\* An agent registers, with the bootstrap token accepted at once; or an operator
\* makes a human.
Register(n) ==
    /\ Changes
    /\ peers[n] = None
    /\ \E k \in {"agent", "human"}, a \in BOOLEAN :
        /\ k = "human" => a
        /\ peers' = [peers EXCEPT ![n] = [kind |-> k, accepted |-> a, reg |-> changes + 1]]
    /\ UNCHANGED <<half, rosters, work, loose>>

\* Accept and revoke.
SetState(n) ==
    /\ Changes
    /\ peers[n] # None
    /\ \E a \in BOOLEAN :
        peers' = [peers EXCEPT ![n] = [kind |-> peers[n].kind, accepted |-> a, reg |-> peers[n].reg]]
    /\ UNCHANGED <<half, rosters, work, loose>>

\* deregister, and reject_peer: the rosters stay as they are.
Deregister(n) ==
    /\ Changes
    /\ peers[n] # None
    /\ peers' = [peers EXCEPT ![n] = None]
    /\ loose' = IF Listed(n) \/ Holds(n) THEN loose \cup {n} ELSE loose
    /\ UNCHANGED <<half, rosters, work>>

\* Every room forgets a name.
Unlist(n) ==
    /\ roster' = [r \in Rooms |-> roster[r] \ {n}]
    /\ invited' = [r \in Rooms |-> [invited[r] EXCEPT ![n] = 0]]

\* Mutant of Delete: the rosters stay as they are.
DeleteEntryOnly(n) ==
    /\ Changes
    /\ peers' = [peers EXCEPT ![n] = None]
    /\ loose' = IF Holds(n) THEN loose \cup {n} ELSE loose
    /\ UNCHANGED <<half, rosters, work>>

\* delete_peer, and delete_human of the form: entry and rosters under one lock.
Delete(n) ==
    /\ Changes
    /\ peers[n] # None
    /\ peers' = [peers EXCEPT ![n] = None]
    /\ Unlist(n)
    /\ loose' = IF Holds(n) THEN loose \cup {n} ELSE loose
    /\ UNCHANGED <<half, live, used, work>>

\* delete_human of the form, for a name that is no human: the rosters only.
UnlistAgent(n) ==
    /\ Changes
    /\ ~IsHuman(n)
    /\ Listed(n)
    /\ Unlist(n)
    /\ UNCHANGED <<peers, half, live, used, work, loose>>

\* delete_human_json, one at a time for a name: the entry under one lock ...
DeleteHuman(n) ==
    /\ Changes
    /\ IsHuman(n)
    /\ n \notin half
    /\ peers' = [peers EXCEPT ![n] = None]
    /\ half' = half \cup {n}
    /\ loose' = IF Holds(n) THEN loose \cup {n} ELSE loose
    /\ UNCHANGED <<rosters, work>>

\* ... the rosters under the next.
UnlistHuman(n) ==
    /\ n \in half
    /\ half' = half \ {n}
    /\ Unlist(n)
    /\ loose' = IF Holds(n) THEN loose \cup {n} ELSE loose
    /\ UNCHANGED <<peers, changes, live, used, work>>

\* The operator leaves before the second.
LeaveHalf(n) ==
    /\ n \in half
    /\ half' = half \ {n}
    /\ loose' = loose \cup {n}
    /\ UNCHANGED <<peers, changes, rosters, work>>

-----------------------------------------------------------------------------
(* The heads of the handlers.                                              *)

\* resolve_human, of a human or, for a change without one, the "admin".  The id of
\* a new room is random: it is set aside here.
EditBegins(e) ==
    /\ req[e].at = "idle"
    /\ \E f \in {None} \cup {n \in Names : IsHuman(n) /\ IsAccepted(n)}, r \in Rooms :
        /\ used' = used \cup {r}
        /\ req' = [req EXCEPT ![e] = [at |-> "resolved", from |-> f, room |-> r, names |-> {},
                                      op |-> IF r \in used THEN "edit" ELSE "create"]]
    /\ UNCHANGED <<registry, live, roster, invited, out, sender, noted, copied, loose>>

\* A message to a room or, with no room, to one peer, always of a human.
SendBegins(s) ==
    /\ req[s].at = "idle"
    /\ \E f \in {n \in Names : IsHuman(n) /\ IsAccepted(n)}, r \in used \cup {None} :
        req' = [req EXCEPT ![s] = [at |-> "resolved", from |-> f, room |-> r, names |-> {},
                                   op |-> IF r = None THEN "dm" ELSE "send"]]
    /\ UNCHANGED <<registry, rosters, out, sender, noted, copied, loose>>

\* A handler is over, and what it had is gone.
Ends(q, p) ==
    /\ req' = [req EXCEPT ![q] = [at |-> p, op |-> "none", from |-> None, room |-> None, names |-> {}]]
    /\ out' = [out EXCEPT ![q] = NoCalls]
    /\ sender' = [sender EXCEPT ![q] = "none"]
    /\ noted' = [noted EXCEPT ![q] = {}]
    /\ copied' = [copied EXCEPT ![q] = Zero]
    /\ UNCHANGED <<registry, rosters, loose>>

\* 404, 413 and 422: an unknown member, a conversation without the sender.
Refuse(q) ==
    /\ \/ req[q].at = "resolved" /\ req[q].op \in {"create", "edit", "dm"}
       \/ /\ req[q].at = "resolved" /\ req[q].op = "send"
          /\ req[q].room \in live => req[q].from \notin roster[req[q].room]
       \/ /\ req[q].at = "validated" /\ req[q].op = "edit"
          /\ req[q].room \in live =>
                Cardinality(roster[req[q].room] \cup req[q].names) > Cap
    /\ Ends(q, "gone")

\* The client leaves, its handler is dropped, and with it the calls it waits for.
Leave(q) ==
    /\ req[q].at \in {"resolved", "validated", "read", "fan", "recording"}
    /\ Ends(q, "gone")

-----------------------------------------------------------------------------
(* Roster changes: api_rooms_create, api_rooms_members, api_room_delete.   *)

\* validated_members, under a read lock; a human who makes a room is in it.
Validate(q) ==
    /\ req[q].at = "resolved"
    /\ req[q].op \in {"create", "edit"}
    /\ \E add \in SUBSET {n \in Names : IsAccepted(n)} :
        /\ req[q].op = "create" /\ req[q].from # None => req[q].from \in add
        /\ Cardinality(add) <= Cap
        /\ req' = [req EXCEPT ![q] = [at |-> "validated", op |-> req[q].op, from |-> None,
                                      room |-> req[q].room, names |-> add]]
        /\ copied' = [copied EXCEPT ![q] =
                         [n \in Names |-> IF n \in add THEN peers[n].reg ELSE 0]]
    /\ UNCHANGED <<registry, rosters, out, sender, noted, loose>>

\* The new members of a room have the registrations that were validated; once the
\* change is saved and its bubbles are recorded, notify_members turns to them.
Invites(q, r, members, new) ==
    /\ roster' = [roster EXCEPT ![r] = members]
    /\ invited' = [invited EXCEPT ![r] =
                      [n \in Names |-> IF n \notin members THEN 0
                                       ELSE IF n \in new THEN copied[q][n] ELSE invited[r][n]]]
    /\ req' = [req EXCEPT ![q] = [at |-> "fan", op |-> req[q].op, from |-> None,
                                  room |-> None, names |-> new]]
    /\ out' = [out EXCEPT ![q] = [n \in Names |-> IF n \in new THEN "unasked" ELSE "none"]]
    /\ UNCHANGED <<registry, sender, noted, copied, loose>>

Create(q) ==
    /\ req[q].at = "validated"
    /\ req[q].op = "create"
    /\ LET r == req[q].room
       IN  /\ live' = live \cup {r}
           /\ Invites(q, r, req[q].names, req[q].names)
    /\ UNCHANGED used

\* Under the write lock: the cap, the additions, then the removals.
Change(q) ==
    /\ req[q].at = "validated"
    /\ req[q].op = "edit"
    /\ req[q].room \in live
    /\ LET r   == req[q].room
           add == req[q].names
       IN  /\ Cardinality(roster[r] \cup add) <= Cap
           /\ \E del \in SUBSET Names :
                Invites(q, r, (roster[r] \cup add) \ del, add \ roster[r])
    /\ UNCHANGED <<live, used>>

\* The outcome of a call a request makes.
Becomes(q, n, o) ==
    /\ req[q].at = "fan"
    /\ out' = [out EXCEPT ![q] = [out[q] EXCEPT ![n] = o]]
    /\ UNCHANGED <<registry, rosters, req, sender, noted, copied, loose>>

\* Is a new member an agent?  One read lock each.
Ask(q, n) ==
    /\ out[q][n] = "unasked"
    /\ Becomes(q, n, IF IsAgent(n) THEN "queued" ELSE "none")

DeleteRoom(r) ==
    /\ Changes
    /\ r \in live
    /\ live' = live \ {r}
    /\ roster' = [roster EXCEPT ![r] = {}]
    /\ invited' = [invited EXCEPT ![r] = Zero]
    /\ UNCHANGED <<peers, half, used, work, loose>>

-----------------------------------------------------------------------------
(* Messages: api_send and send_room.                                       *)

\* The room is copied under a read lock.
ReadRoom(q) ==
    /\ req[q].at = "resolved"
    /\ req[q].op = "send"
    /\ req[q].room \in live
    /\ LET r == req[q].room
       IN  /\ req[q].from \in roster[r]
           /\ req' = [req EXCEPT ![q] = [at |-> "read", op |-> "send", from |-> None,
                                         room |-> None, names |-> roster[r]]]
           /\ copied' = [copied EXCEPT ![q] =
                            [n \in Names |-> IF n \in roster[r] THEN invited[r][n] ELSE 0]]
    /\ UNCHANGED <<registry, rosters, out, sender, noted, loose>>

\* Mutant of PickAgents: every accepted agent hears it.
PickAll(q) ==
    /\ req[q].at = "read"
    /\ Goes(q, "fan")
    /\ out' = [out EXCEPT ![q] =
                  [n \in Names |-> IF IsAgent(n) /\ IsAccepted(n) THEN "queued" ELSE "none"]]
    /\ UNCHANGED <<registry, rosters, sender, noted, copied, loose>>

\* The accepted agents of the copy, under the next.
PickAgents(q) ==
    /\ req[q].at = "read"
    /\ Goes(q, "fan")
    /\ out' = [out EXCEPT ![q] =
                  [n \in Names |-> IF n \in req[q].names /\ IsAgent(n) /\ IsAccepted(n)
                                   THEN "queued" ELSE "none"]]
    /\ UNCHANGED <<registry, rosters, sender, noted, copied, loose>>

DmGoes(q) == req' = [req EXCEPT ![q] = [at |-> "fan", op |-> "dm", from |-> None,
                                        room |-> None, names |-> {}]]

\* To the gateway or a human: a bubble, and no call.
DmLocal(q) ==
    /\ req[q].at = "resolved"
    /\ req[q].op = "dm"
    /\ DmGoes(q)
    /\ UNCHANGED <<registry, rosters, out, sender, noted, copied, loose>>

DmPeer(q) ==
    /\ req[q].at = "resolved"
    /\ req[q].op = "dm"
    /\ DmGoes(q)
    /\ \E n \in Names \ {req[q].from} :
        /\ ~IsHuman(n)
        /\ out' = [out EXCEPT ![q] = [out[q] EXCEPT ![n] = "queued"]]
    /\ UNCHANGED <<registry, rosters, sender, noted, copied, loose>>

-----------------------------------------------------------------------------
(* The calls a request makes, all at once, and what it records of them.    *)

\* deliver refuses a name without an accepted entry, and no call to a human comes back well.
Deliver(q, n) ==
    /\ out[q][n] = "queued"
    /\ \A m \in Names : out[q][m] # "unasked"
    /\ Becomes(q, n, IF IsAccepted(n) /\ IsAgent(n) THEN "sent" ELSE "missed")

\* The peer answers; or it does not, or not well.
Answer(q, n) ==
    /\ out[q][n] = "sent"
    /\ Becomes(q, n, "reached")

Fail(q, n) ==
    /\ out[q][n] = "sent"
    /\ Becomes(q, n, "missed")

\* FANOUT_TIMEOUT, or in a DM the 600 s of deliver.
Expire(q, n) ==
    /\ out[q][n] \in {"queued", "sent"}
    /\ \A m \in Names : out[q][m] # "unasked"
    /\ Becomes(q, n, "missed")

\* join_all: every call has its outcome.
Join(q) ==
    /\ req[q].at = "fan"
    /\ \A n \in Names : out[q][n] \notin {"unasked", "queued", "sent"}
    /\ req' = [req EXCEPT ![q] = [at |-> "recording", op |-> req[q].op, from |-> None,
                                  room |-> None, names |-> {}]]
    /\ copied' = [copied EXCEPT ![q] = Zero]
    /\ UNCHANGED <<registry, rosters, out, sender, noted, loose>>

Speaks(q)  == req[q].op \in {"send", "dm"}
Called(q)  == {n \in Names : out[q][n] # "none"}
Reached(q) == {n \in Names : out[q][n] = "reached"}
Missed(q)  == {n \in Names : out[q][n] = "missed"}

\* The bubble with the message itself: an error if there were calls and none arrived.
RecordMessage(q) ==
    /\ req[q].at = "recording"
    /\ Speaks(q)
    /\ sender[q] = "none"
    /\ sender' = [sender EXCEPT ![q] = IF Called(q) # {} /\ Reached(q) = {} THEN "err" ELSE "ok"]
    /\ UNCHANGED <<registry, rosters, req, out, noted, copied, loose>>

\* The members a bubble of failure is due for; in a DM the message itself has it.
Due(q) == IF req[q].op # "dm" THEN Missed(q) ELSE {}

RecordOutcome(q, n) ==
    /\ req[q].at = "recording"
    /\ Speaks(q) => sender[q] # "none"
    /\ n \in Due(q) \ noted[q]
    /\ noted' = [noted EXCEPT ![q] = noted[q] \cup {n}]
    /\ UNCHANGED <<registry, rosters, req, out, sender, copied, loose>>

Respond(q) ==
    /\ req[q].at = "recording"
    /\ Speaks(q) => sender[q] # "none"
    /\ Due(q) \subseteq noted[q]
    /\ Ends(q, "done")

-----------------------------------------------------------------------------
EntryStep(n) ==
    \/ Register(n) \/ SetState(n) \/ Deregister(n) \/ Delete(n) \/ UnlistAgent(n)
    \/ DeleteHuman(n) \/ UnlistHuman(n) \/ LeaveHalf(n)

EditStep(e) == EditBegins(e) \/ Validate(e) \/ Create(e) \/ Change(e)

SendStep(s) ==
    \/ SendBegins(s) \/ ReadRoom(s) \/ PickAgents(s) \/ DmLocal(s) \/ DmPeer(s)
    \/ RecordMessage(s)

CallStep(q, n) ==
    Ask(q, n) \/ Deliver(q, n) \/ Answer(q, n) \/ Fail(q, n) \/ Expire(q, n) \/ RecordOutcome(q, n)

Next ==
    \/ \E n \in Names : EntryStep(n)
    \/ \E r \in Rooms : DeleteRoom(r)
    \/ \E e \in Edits : EditStep(e)
    \/ \E s \in Sends : SendStep(s)
    \/ \E q \in Reqs : \/ Refuse(q) \/ Leave(q) \/ Join(q) \/ Respond(q)
                       \/ \E n \in Names : CallStep(q, n)

Spec == Init /\ [][Next]_vars

-----------------------------------------------------------------------------
(* Properties.                                                             *)

Places   == {"idle", "resolved", "validated", "read", "fan", "recording",
             "done", "gone"}
Outcomes == {"none", "unasked", "queued", "sent", "reached", "missed"}

TypeOK ==
    /\ peers \in [Names -> Entry \cup {None}]
    /\ changes \in Regs
    /\ live \subseteq used
    /\ used \subseteq Rooms
    /\ roster \in [Rooms -> SUBSET Names]
    /\ half \subseteq Names
    /\ req \in [Reqs -> [at : Places, op : {"none", "create", "edit", "send", "dm"},
                         from : Names \cup {None}, room : Rooms \cup {None}, names : SUBSET Names]]
    /\ out \in [Reqs -> [Names -> Outcomes]]
    /\ sender \in [Reqs -> {"none", "ok", "err"}]
    /\ noted \in [Reqs -> SUBSET Names]
    /\ invited \in [Rooms -> [Names -> Regs]]
    /\ copied \in [Reqs -> [Names -> Regs]]
    /\ loose \subseteq Names

\* Whoever a roster or a request has by name is who was invited, unless the name
\* is between the two locks of a deletion, or was removed while it was held.
IsCurrent(n, reg) ==
    n \notin half \cup loose => peers[n] # None /\ peers[n].reg = reg

\* A member is the peer that was invited: a peer that registers a name anew is in
\* no room of the one before, unless that one was deregistered or rejected while
\* a roster had it, or removed while a request went on with a copy of it.
MembersWereInvited == \A r \in Rooms : \A n \in roster[r] : IsCurrent(n, invited[r][n])

\* A message to a room reaches the agents that were invited to it, with the
\* registration they were invited with, and nobody else; the same exceptions.
OnlyGuestsHear ==
    [][\A q \in Reqs : \A n \in Names :
        req[q].op = "send" /\ out[q][n] = "queued" /\ out'[q][n] = "sent" =>
            n \in req[q].names /\ IsCurrent(n, copied[q][n])]_vars

-----------------------------------------------------------------------------
(* The inductive invariant.                                                *)

\* No room is larger than its cap, and no request adds more than that: two checks
\* under two locks (chat.rs:28).
RosterBounded ==
    /\ \A r \in Rooms : Cardinality(roster[r]) <= Cap
    /\ \A q \in Reqs : req[q].at = "validated" => Cardinality(req[q].names) <= Cap

\* What a request has copied is current too.
CopiesAreCurrent ==
    \A q \in Reqs : req[q].at \in {"validated", "read", "fan"} =>
        \A n \in req[q].names : IsCurrent(n, copied[q][n])

\* The calls of a request are to the names it holds, a DM apart, and it has none
\* before it makes them.
CallsAreOfCopy ==
    \A q \in Reqs : \A n \in Names : out[q][n] # "none" =>
        /\ req[q].at \in {"fan", "recording"}
        /\ req[q].at = "fan" /\ req[q].op # "dm" => n \in req[q].names

\* The room of a change has been given out.
RoomsAreGivenOut ==
    \A q \in Reqs : req[q].op \in {"create", "edit"} /\ req[q].at \in {"resolved", "validated"} =>
        req[q].room \in used

Inv == /\ TypeOK /\ RoomsAreGivenOut /\ RosterBounded /\ MembersWereInvited
       /\ CopiesAreCurrent /\ CallsAreOfCopy
=============================================================================
