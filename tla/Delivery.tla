------------------------------ MODULE Delivery ------------------------------
(***************************************************************************)
(* How a call reaches a peer, and how the switchboard knows whether it     *)
(* would: deliver and direct_exchange of src/peers.rs, the prober of       *)
(* src/health.rs, and the registry that changes under both.                *)
(*                                                                         *)
(* deliver reads the peer's url, then its admission, then whether it has a *)
(* channel, each under a lock of its own, and marks the peer by name when  *)
(* the exchange is over.  A url stands for what is read together with it,  *)
(* the upstream token.  Registry has the handlers that change entries,     *)
(* ReverseChannel what happens in a channel.  Humans, who have no url and  *)
(* are not probed, are left out.                                           *)
(***************************************************************************)
EXTENDS Naturals, FiniteSets

CONSTANTS Names,
          Calls,
          Urls,
          None,
          MaxChanges   \* bound: changes of the registry, the channels and the urls

ASSUME ConstantsAssumption == MaxChanges \in Nat /\ None \notin Urls /\ None \notin Names

VARIABLES
    peers,    \* Inner.peers: the url and the admission of a name's entry, or None
    healthy,  \* Peer.healthy of that entry
    open,     \* Channels.peers: the names has() is true of
    answers,  \* what is outside: the urls that answer a probe
    call,     \* a call: where it is, its name, and the url it has read
    since,    \* history: the entries its name has had since a call began
    todo,     \* what the prober still has to probe, as it was read
    probe,    \* the probe it is at
    changes

world == <<peers, open, answers>>
calls == <<call, since>>
prober == <<todo, probe>>
vars == <<world, healthy, calls, prober, changes>>

States == {"pending", "accepted", "revoked"}
Marks  == {"unknown", "up", "down"}
Entry  == [url : Urls, state : States]

IsAccepted(e) == e # None /\ e.state = "accepted"

NoCall  == [at |-> "idle", name |-> None, url |-> None]
NoProbe == [at |-> "none"]

InFlight == {c \in Calls : call[c].at \notin {"idle", "refused", "done", "gone"}}

Moves(c, p) == call' = [call EXCEPT ![c].at = p]

-----------------------------------------------------------------------------
(* The state file may hold any registry, with marks from before.           *)

Init ==
    /\ peers \in [Names -> Entry \cup {None}]
    /\ healthy \in {m \in [Names -> Marks] : \A n \in Names : peers[n] = None => m[n] = "unknown"}
    /\ open = {}
    /\ answers \in SUBSET Urls
    /\ call = [c \in Calls |-> NoCall]
    /\ since = [c \in Calls |-> {}]
    /\ todo = {}
    /\ probe = NoProbe
    /\ changes = 0

-----------------------------------------------------------------------------
(* The registry, one step for each write lock.                             *)

Becomes(n, e) ==
    /\ peers' = [peers EXCEPT ![n] = e]
    /\ since' = [c \in Calls |-> IF c \in InFlight /\ call[c].name = n
                                 THEN since[c] \cup {e} ELSE since[c]]
    /\ UNCHANGED <<open, answers, call, prober>>

Changes ==
    /\ changes < MaxChanges
    /\ changes' = changes + 1

\* With a bootstrap token the entry is accepted at once, with the gateway token
\* it is pending.
Register(n) ==
    /\ Changes
    /\ peers[n] = None
    /\ \E u \in Urls, s \in {"pending", "accepted"} : Becomes(n, [url |-> u, state |-> s])
    /\ UNCHANGED healthy

\* PATCH, and the second registration of a legacy entry: admission and mark stay.
ChangeUrl(n) ==
    /\ Changes
    /\ peers[n] # None
    /\ \E u \in Urls : Becomes(n, [url |-> u, state |-> peers[n].state])
    /\ UNCHANGED healthy

\* Accept and revoke.
SetState(n) ==
    /\ Changes
    /\ peers[n] # None
    /\ \E s \in {"accepted", "revoked"} : Becomes(n, [url |-> peers[n].url, state |-> s])
    /\ UNCHANGED healthy

\* Delete, deregister and reject; the channel stays.
Remove(n) ==
    /\ Changes
    /\ peers[n] # None
    /\ Becomes(n, None)
    /\ healthy' = [healthy EXCEPT ![n] = "unknown"]

\* channel_open and the end of a stream.
ChannelOpens(n) ==
    /\ Changes
    /\ IsAccepted(peers[n])
    /\ open' = open \cup {n}
    /\ UNCHANGED <<peers, answers, healthy, calls, prober>>

ChannelEnds(n) ==
    /\ Changes
    /\ n \in open
    /\ open' = open \ {n}
    /\ UNCHANGED <<peers, answers, healthy, calls, prober>>

\* What listens at a url comes or goes.
UrlChanges(u) ==
    /\ Changes
    /\ answers' = IF u \in answers THEN answers \ {u} ELSE answers \cup {u}
    /\ UNCHANGED <<peers, open, healthy, calls, prober>>

-----------------------------------------------------------------------------
(* deliver.                                                                *)

\* A call gets in deliver with the name of its path.
Begin(c) ==
    /\ call[c].at = "idle"
    /\ \E n \in Names :
        /\ call' = [call EXCEPT ![c] = [at |-> "called", name |-> n, url |-> None]]
        /\ since' = [since EXCEPT ![c] = {peers[n]}]
    /\ UNCHANGED <<world, healthy, prober, changes>>

ReadUrl(c) ==
    /\ call[c].at = "called"
    /\ LET n == call[c].name
       IN  call' = [call EXCEPT ![c] =
                IF peers[n] = None THEN [at |-> "404", name |-> n, url |-> None]
                ELSE [at |-> "read", name |-> n, url |-> peers[n].url]]
    /\ UNCHANGED <<world, healthy, since, prober, changes>>

\* Mutant of ReadState: any entry will do.
ReadStateOfAny(c) ==
    /\ call[c].at = "read"
    /\ Moves(c, IF peers[call[c].name] # None THEN "admitted" ELSE "403")
    /\ UNCHANGED <<world, healthy, since, prober, changes>>

\* Mutant of ReadState: a peer that is marked down is refused.
ReadStateHealthy(c) ==
    /\ call[c].at = "read"
    /\ LET n == call[c].name
       IN  Moves(c, IF IsAccepted(peers[n]) /\ healthy[n] # "down" THEN "admitted" ELSE "403")
    /\ UNCHANGED <<world, healthy, since, prober, changes>>

\* The entry of the name may be another one by now.
ReadState(c) ==
    /\ call[c].at = "read"
    /\ Moves(c, IF IsAccepted(peers[call[c].name]) THEN "admitted" ELSE "403")
    /\ UNCHANGED <<world, healthy, since, prober, changes>>

\* The answer to a refused call.
Refuse(c) ==
    /\ call[c].at \in {"404", "403"}
    /\ Moves(c, "refused")
    /\ UNCHANGED <<world, healthy, since, prober, changes>>

\* has().
Choose(c) ==
    /\ call[c].at = "admitted"
    /\ Moves(c, IF call[c].name \in open THEN "channel" ELSE "direct")
    /\ UNCHANGED <<world, healthy, since, prober, changes>>

\* channel_exchange: the slot may be gone; else the outcome comes from the channel.
SendChannel(c) ==
    /\ call[c].at = "channel"
    /\ Moves(c, IF call[c].name \in open THEN "sent" ELSE "over")
    /\ UNCHANGED <<world, healthy, since, prober, changes>>

EndChannel(c) ==
    /\ call[c].at = "sent"
    /\ Moves(c, "over")
    /\ UNCHANGED <<world, healthy, since, prober, changes>>

\* direct_exchange, to the url that was read.
SendDirect(c) ==
    /\ call[c].at = "direct"
    /\ Moves(c, "requested")
    /\ UNCHANGED <<world, healthy, since, prober, changes>>

\* An answer, whatever its status, or a failure; a url that answers no probe may
\* answer a call, and one that does may fail one.
EndDirect(c) ==
    /\ call[c].at = "requested"
    /\ \E p \in {"answered", "failed"} : Moves(c, p)
    /\ UNCHANGED <<world, healthy, since, prober, changes>>

Mark(n, ok) ==
    healthy' = IF peers[n] = None THEN healthy
               ELSE [healthy EXCEPT ![n] = IF ok THEN "up" ELSE "down"]

\* Under the write lock, by name.
MarkPeer(c) ==
    /\ call[c].at \in {"answered", "failed"}
    /\ Mark(call[c].name, call[c].at = "answered")
    /\ Moves(c, "over")
    /\ UNCHANGED <<world, since, prober, changes>>

\* log_route, the messenger, and the answer.
Return(c) ==
    /\ call[c].at = "over"
    /\ Moves(c, "done")
    /\ UNCHANGED <<world, healthy, since, prober, changes>>

\* The client leaves, wherever deliver awaits.
Abandon(c) ==
    /\ c \in InFlight
    /\ Moves(c, "gone")
    /\ UNCHANGED <<world, healthy, since, prober, changes>>

-----------------------------------------------------------------------------
(* The prober: one task, one peer after the other.                         *)

\* Mutant of Tick: peers that have a mark are not probed again.
TickUnmarked ==
    /\ probe = NoProbe /\ todo = {}
    /\ todo' = {[name |-> n, url |-> peers[n].url] :
                    n \in {m \in Names : IsAccepted(peers[m]) /\ healthy[m] = "unknown"}}
    /\ UNCHANGED <<world, healthy, calls, probe, changes>>

Tick ==
    /\ probe = NoProbe /\ todo = {}
    /\ todo' = {[name |-> n, url |-> peers[n].url] : n \in {m \in Names : IsAccepted(peers[m])}}
    /\ UNCHANGED <<world, healthy, calls, probe, changes>>

\* A channel is a sign of health; else the url is asked for the agent card.
Probe ==
    /\ probe = NoProbe
    /\ \E t \in todo :
        /\ todo' = todo \ {t}
        /\ probe' = [at |-> IF t.name \in open THEN "up" ELSE "asked", name |-> t.name, url |-> t.url]
    /\ UNCHANGED <<world, healthy, calls, changes>>

\* An answer, or five seconds without one.
ProbeAnswers ==
    /\ probe.at = "asked"
    /\ probe' = [probe EXCEPT !.at = IF probe.url \in answers THEN "up" ELSE "down"]
    /\ UNCHANGED <<world, healthy, calls, todo, changes>>

\* apply_health, by name.
ApplyHealth ==
    /\ probe.at \in {"up", "down"}
    /\ Mark(probe.name, probe.at = "up")
    /\ probe' = NoProbe
    /\ UNCHANGED <<world, calls, todo, changes>>

-----------------------------------------------------------------------------
WorldStep ==
    \/ \E n \in Names : \/ Register(n) \/ ChangeUrl(n) \/ SetState(n) \/ Remove(n)
                        \/ ChannelOpens(n) \/ ChannelEnds(n)
    \/ \E u \in Urls : UrlChanges(u)

CallStep(c) ==
    \/ Begin(c) \/ ReadUrl(c) \/ ReadState(c) \/ Refuse(c) \/ Choose(c)
    \/ SendChannel(c) \/ EndChannel(c)
    \/ SendDirect(c) \/ EndDirect(c) \/ MarkPeer(c)
    \/ Return(c) \/ Abandon(c)

ProberStep == Tick \/ Probe \/ ProbeAnswers \/ ApplyHealth

Next == WorldStep \/ ProberStep \/ \E c \in Calls : CallStep(c)

\* The prober is a task of its own: its interval ticks for ever, its request
\* ends after five seconds at the latest, and it waits for nothing else but a lock.
Spec == Init /\ [][Next]_vars /\ WF_vars(ProberStep)

-----------------------------------------------------------------------------
(* Properties.                                                             *)

Places ==
    {"idle", "called", "404", "read", "403", "refused", "admitted", "channel", "direct",
     "sent", "requested", "answered", "failed", "over", "done", "gone"}

Target == [name : Names, url : Urls]

CallsOK ==
    \A c \in Calls :
        /\ call[c] \in [at : Places, name : Names \cup {None}, url : Urls \cup {None}]
        /\ call[c].at # "idle" => call[c].name # None

\* The values of the variables.
TypeOK ==
    /\ peers \in [Names -> Entry \cup {None}]
    /\ healthy \in [Names -> Marks]
    /\ open \in SUBSET Names /\ answers \in SUBSET Urls
    /\ DOMAIN call = Calls /\ CallsOK
    /\ since \in [Calls -> SUBSET (Entry \cup {None})]
    /\ todo \in SUBSET Target
    /\ probe \in {NoProbe} \cup [at : {"asked", "up", "down"}, name : Names, url : Urls]
    /\ changes \in 0..MaxChanges

HasUrl(c, u)   == \E e \in since[c] : e # None /\ e.url = u
HadAccepted(c) == \E e \in since[c] : IsAccepted(e)

AfterAdmission == {"admitted", "channel", "direct", "sent", "requested", "answered", "failed",
                   "over", "done"}

\* A call goes only to a url, with the token registered with it, that was its
\* name's at some time since the call began, and only if the name was accepted at
\* some time since then: a revocation, a deletion or a new url holds for every
\* call that begins after it, however the separate reads of deliver interleave
\* with the changes.
ContactIsRegistered ==
    \A c \in Calls : call[c].at \in AfterAdmission => HasUrl(c, call[c].url) /\ HadAccepted(c)

\* A call is told that a peer is unknown or refused only if it was, since the
\* call began.
RefusalIsRight ==
    \A c \in Calls :
        /\ call[c].at = "404" => None \in since[c]
        /\ call[c].at = "403" => \E e \in since[c] : ~IsAccepted(e)

\* Once the world stands still and the calls have ended, every accepted peer is
\* shown, and goes on to be shown, as healthy exactly if it has a channel or its
\* url answers: whatever a probe or a call that was under way has marked, under a
\* name that has another entry by now, is corrected.
HealthIsRight ==
    \A n \in Names : IsAccepted(peers[n]) =>
        healthy[n] = IF n \in open \/ peers[n].url \in answers THEN "up" ELSE "down"

HealthConverges == <>[][UNCHANGED <<world, calls>>]_vars => <>[]HealthIsRight

-----------------------------------------------------------------------------
(* The inductive invariant.                                                *)

\* The history of a call has the entry that its name has now.
SinceHasNow == \A c \in InFlight : peers[call[c].name] \in since[c]

\* What a call has read of the url is in its history.
UrlWasRead ==
    \A c \in Calls : call[c].at \in AfterAdmission \cup {"read", "403"} =>
        call[c].name # None /\ HasUrl(c, call[c].url)

Inv == TypeOK /\ SinceHasNow /\ UrlWasRead /\ ContactIsRegistered /\ RefusalIsRight
=============================================================================
