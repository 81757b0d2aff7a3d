--------------------------- MODULE ReverseChannel ---------------------------
(***************************************************************************)
(* The reverse channel of the switchboard: a firewalled peer holds an SSE  *)
(* stream open, the proxy pushes requests down it and awaits the answers   *)
(* the peer posts back (src/channel.rs, channel_exchange of src/peers.rs). *)
(*                                                                         *)
(* Handlers run in parallel on a multi-threaded runtime.  A step below is  *)
(* what happens under one lock, or between two awaits.  A connection of    *)
(* Conns stands for one GET /channel and for the random secret minted for  *)
(* it, a request of Reqs for one proxied call and its oneshot sender.      *)
(***************************************************************************)
EXTENDS Naturals, Sequences, FiniteSets

CONSTANTS Peers,        \* registered peer names
          Conns,        \* channel connections, each used once (the secret is random)
          Reqs,         \* proxied calls
          None,         \* no connection, no request, no peer
          Cap,          \* CHANNEL_CAP, the depth of a channel's queue
          MaxRestarts   \* bound: how often the process restarts

ASSUME ConstantsAssumption ==
    /\ None \notin Peers \cup Conns \cup Reqs
    /\ Cap \in Nat \ {0}
    /\ MaxRestarts \in Nat

VARIABLES
    slot,      \* Channels.peers: the connection whose sender is bound to the name
    pending,   \* Channels.pending: the correlation entries
    nextId,    \* Channels.next_id
    conn,      \* the life of each channel_open call and of its stream
    connPeer,  \* the name the stream was opened for
    captured,  \* the secret a finished stream's cleanup took out of the map
    queue,     \* the envelopes in the mpsc queue of a connection
    held,      \* the envelopes the peers have received
    caller,    \* what became of each proxied call
    target,    \* the peer a call is for
    via,       \* the connection whose slot deliver() read
    reqId,     \* the correlation id deliver() took
    answer,    \* the answer put in a call's oneshot: the call it was written for
    accepted,  \* the envelopes whose answer was acknowledged with 200
    restarts   \* how often the process has restarted

chanVars   == <<slot, conn, connPeer, captured>>
callVars   == <<target, via, reqId>>
replyVars  == <<answer, accepted>>
vars == <<slot, pending, nextId, conn, connPeer, captured, queue, held, caller,
          target, via, reqId, answer, accepted, restarts>>

\* Awaiting its oneshot, which is empty, holds an answer or holds a 502.
Awaiting   == {"waiting", "replied", "failed"}
Unfinished == {"sent", "lagging", "waiting", "replied", "failed"}
Final      == {"answered", "502", "503", "504", "gone"}
Alive      == {"binding", "open", "closing"}    \* the receiver still exists

Envelope == [id : Nat, req : Reqs, chan : Conns]
Pending  == [id : Nat, peer : Peers, chan : Conns, req : Reqs]

EnvelopeOf(r) == [id |-> reqId[r], req |-> r, chan |-> via[r]]
EntryOf(r)    == [id |-> reqId[r], peer |-> target[r], chan |-> via[r], req |-> r]

\* A call inside deliver() holds the read lock on the map from its lookup to
\* its return, so nobody can bind or remove a slot meanwhile.
MapUnlocked == \A r \in Reqs : caller[r] \notin {"sent", "lagging"}

-----------------------------------------------------------------------------
Init ==
    /\ slot = [p \in Peers |-> None]
    /\ pending = {}
    /\ nextId = 0
    /\ conn = [c \in Conns |-> "unused"]
    /\ connPeer = [c \in Conns |-> None]
    /\ captured = [c \in Conns |-> None]
    /\ queue = [c \in Conns |-> <<>>]
    /\ held = {}
    /\ caller = [r \in Reqs |-> "idle"]
    /\ target = [r \in Reqs |-> None]
    /\ via = [r \in Reqs |-> None]
    /\ reqId = [r \in Reqs |-> 0]
    /\ answer = [r \in Reqs |-> None]
    /\ accepted = {}
    /\ restarts = 0

-----------------------------------------------------------------------------
\* GET /channel after its checks: bind() inserts or replaces the peer's slot.
\* The stream of a replaced slot lives on: it holds a sender of its own queue.
Bind(p, c) ==
    /\ conn[c] = "unused"
    /\ MapUnlocked
    /\ conn' = [conn EXCEPT ![c] = "binding"]
    /\ connPeer' = [connPeer EXCEPT ![c] = p]
    /\ slot' = [slot EXCEPT ![p] = c]
    /\ UNCHANGED <<captured, pending, nextId, queue, held, caller, callVars, replyVars, restarts>>

\* The handler got the registry's write lock, noted the peer's address and
\* returned the stream wrapped in CleanupStream.
StartStream(c) ==
    /\ conn[c] = "binding"
    /\ conn' = [conn EXCEPT ![c] = "open"]
    /\ UNCHANGED <<slot, connPeer, captured, pending, nextId, queue, held, caller,
                   callVars, replyVars, restarts>>

\* The client left while the handler awaited that lock: the future is dropped
\* with the receiver in it, before a CleanupStream exists to clear the slot.
AbandonOpen(c) ==
    /\ conn[c] = "binding"
    /\ conn' = [conn EXCEPT ![c] = "abandoned"]
    /\ queue' = [queue EXCEPT ![c] = <<>>]
    /\ UNCHANGED <<slot, connPeer, captured, pending, nextId, held, caller,
                   callVars, replyVars, restarts>>

\* Mutant of PushEvent: a lagging stream skips an envelope.
PushEventSkips(c) ==
    /\ conn[c] = "open"
    /\ queue[c] # <<>>
    /\ queue' = [queue EXCEPT ![c] = Tail(@)]
    /\ UNCHANGED <<chanVars, held, pending, nextId, caller, callVars, replyVars, restarts>>

\* The stream yields the next queued envelope as a request event.
PushEvent(c) ==
    /\ conn[c] = "open"
    /\ queue[c] # <<>>
    /\ held' = held \cup {Head(queue[c])}
    /\ queue' = [queue EXCEPT ![c] = Tail(@)]
    /\ UNCHANGED <<chanVars, pending, nextId, caller, callVars, replyVars, restarts>>

\* Mutant of RemoveSlot: deliver() would not hold the map's lock to its end.
RemoveSlotUnlocked(c) ==
    /\ conn[c] = "open"
    /\ conn' = [conn EXCEPT ![c] = "closing"]
    /\ captured' = [captured EXCEPT ![c] = slot[connPeer[c]]]
    /\ slot' = [slot EXCEPT ![connPeer[c]] = None]
    /\ UNCHANGED <<connPeer, pending, nextId, queue, held, caller, callVars, replyVars, restarts>>

\* The stream ends and CleanupStream::drop calls drop(name): first half, under
\* the write lock.  It removes whatever the NAME is bound to at this moment.
RemoveSlot(c) ==
    /\ conn[c] = "open"
    /\ MapUnlocked
    /\ conn' = [conn EXCEPT ![c] = "closing"]
    /\ captured' = [captured EXCEPT ![c] = slot[connPeer[c]]]
    /\ slot' = [slot EXCEPT ![connPeer[c]] = None]
    /\ UNCHANGED <<connPeer, pending, nextId, queue, held, caller, callVars, replyVars, restarts>>

\* Mutant of Doomed: fail the entries of the stream that ended, not of the
\* secret that was taken out of the map.
DoomedOfStream(c) == {q \in pending : q.peer = connPeer[c] /\ q.chan = c}

\* The entries fail_peer fails.
Doomed(c) == {q \in pending : q.peer = connPeer[c] /\ q.chan = captured[c]}

\* Second half: fail_peer sends 502 to every entry of the removed secret (to
\* none when the name was unbound), then the fields drop, the receiver with them.
FailPeer(c) ==
    /\ conn[c] = "closing"
    /\ pending' = pending \ Doomed(c)
    /\ caller' = [r \in Reqs |->
                    IF caller[r] = "waiting" /\ \E q \in Doomed(c) : q.req = r
                    THEN "failed" ELSE caller[r]]
    /\ conn' = [conn EXCEPT ![c] = "ended"]
    /\ queue' = [queue EXCEPT ![c] = <<>>]
    /\ UNCHANGED <<slot, connPeer, captured, nextId, held, callVars, replyVars, restarts>>

-----------------------------------------------------------------------------
\* deliver() finds no slot: the caller gets 502 at once.
DeliverUnbound(r, p) ==
    /\ caller[r] = "idle"
    /\ slot[p] = None
    /\ caller' = [caller EXCEPT ![r] = "502"]
    /\ UNCHANGED <<chanVars, pending, nextId, queue, held, callVars, replyVars, restarts>>

\* What the three outcomes of try_send have in common.
TakeId(r, p) ==
    /\ caller[r] = "idle"
    /\ slot[p] # None
    /\ target' = [target EXCEPT ![r] = p]
    /\ via' = [via EXCEPT ![r] = slot[p]]
    /\ reqId' = [reqId EXCEPT ![r] = nextId]
    /\ nextId' = nextId + 1
    /\ UNCHANGED <<chanVars, held, replyVars, restarts>>

\* The slot's receiver is gone (Closed): 502 at once.
DeliverClosed(r, p) ==
    /\ TakeId(r, p)
    /\ conn[slot[p]] \notin Alive
    /\ caller' = [caller EXCEPT ![r] = "502"]
    /\ UNCHANGED <<pending, queue>>

\* try_send succeeds.  From here the peer can see the envelope.
DeliverSend(r, p) ==
    /\ TakeId(r, p)
    /\ conn[slot[p]] \in Alive
    /\ Len(queue[slot[p]]) < Cap
    /\ queue' = [queue EXCEPT ![slot[p]] =
                    Append(@, [id |-> nextId, req |-> r, chan |-> slot[p]])]
    /\ caller' = [caller EXCEPT ![r] = "sent"]
    /\ UNCHANGED pending

\* The queue is full: the entry is inserted only to be resolved with 503.
DeliverFull(r, p) ==
    /\ TakeId(r, p)
    /\ conn[slot[p]] \in Alive
    /\ Len(queue[slot[p]]) >= Cap
    /\ pending' = {q \in pending : q.id # nextId} \cup
                  {[id |-> nextId, peer |-> p, chan |-> slot[p], req |-> r]}
    /\ caller' = [caller EXCEPT ![r] = "lagging"]
    /\ UNCHANGED queue

\* After the envelope is queued, deliver() inserts the correlation entry.
InsertPending(r) ==
    /\ caller[r] = "sent"
    /\ pending' = {q \in pending : q.id # reqId[r]} \cup {EntryOf(r)}
    /\ caller' = [caller EXCEPT ![r] = "waiting"]
    /\ UNCHANGED <<chanVars, nextId, queue, held, callVars, replyVars, restarts>>

\* resolve_err(id, 503) for a full queue.
ResolveLag(r) ==
    /\ caller[r] = "lagging"
    /\ pending' = {q \in pending : q.id # reqId[r]}
    /\ caller' = [caller EXCEPT ![r] = "503"]
    /\ UNCHANGED <<chanVars, nextId, queue, held, callVars, replyVars, restarts>>

\* The caller's task runs again and takes what lies in its oneshot.
Receive(r) ==
    /\ caller[r] \in {"replied", "failed"}
    /\ caller' = [caller EXCEPT ![r] = IF @ = "replied" THEN "answered" ELSE "502"]
    /\ UNCHANGED <<chanVars, pending, nextId, queue, held, callVars, replyVars, restarts>>

\* Mutant of Timeout: the timer lives in the stream and ends with it.
TimeoutOfStream(r) ==
    /\ caller[r] \in Awaiting
    /\ conn[via[r]] \in Alive
    /\ caller' = [caller EXCEPT ![r] = "504"]
    /\ UNCHANGED <<chanVars, pending, nextId, queue, held, callVars, replyVars, restarts>>

\* PROXY_TIMEOUT: the task found its oneshot empty and its deadline passed.  The
\* caller gets 504; what came after the look is dropped with the oneshot.
\* Nobody removes the correlation entry.
Timeout(r) ==
    /\ caller[r] \in Awaiting
    /\ caller' = [caller EXCEPT ![r] = "504"]
    /\ UNCHANGED <<chanVars, pending, nextId, queue, held, callVars, replyVars, restarts>>

\* The caller disconnects and its handler is dropped where it awaits, with
\* whatever its oneshot holds.
Abandon(r) ==
    /\ caller[r] \in Awaiting
    /\ caller' = [caller EXCEPT ![r] = "gone"]
    /\ UNCHANGED <<chanVars, pending, nextId, queue, held, callVars, replyVars, restarts>>

-----------------------------------------------------------------------------
\* Mutant of Matches: the answer's secret is not compared.
MatchesAnySecret(env) ==
    {q \in pending : q.id = env.id /\ q.peer = connPeer[env.chan]}

\* respond(): the entry an answer to this envelope resolves.
Matches(env) ==
    {q \in pending : /\ q.id = env.id
                     /\ q.peer = connPeer[env.chan]
                     /\ q.chan = env.chan}

\* Mutant of RespondMatched: 200 whether or not the caller still listens.
RespondMatchedBlind(env) ==
    \E q \in Matches(env) :
        /\ pending' = {e \in pending : e.id # q.id}
        /\ accepted' = accepted \cup {env}
        /\ IF caller[q.req] = "waiting"
           THEN /\ caller' = [caller EXCEPT ![q.req] = "replied"]
                /\ answer' = [answer EXCEPT ![q.req] = env.req]
           ELSE UNCHANGED <<caller, answer>>
        /\ UNCHANGED <<chanVars, nextId, queue, held, callVars, restarts>>

\* Mutant of RespondMatched: a late answer replaces the outcome already given.
RespondMatchedLate(env) ==
    \E q \in Matches(env) :
        /\ pending' = {e \in pending : e.id # q.id}
        /\ caller' = [caller EXCEPT ![q.req] = "replied"]
        /\ answer' = [answer EXCEPT ![q.req] = env.req]
        /\ accepted' = accepted \cup {env}
        /\ UNCHANGED <<chanVars, nextId, queue, held, callVars, restarts>>

\* POST /channel/response/{id}, by the peer that received the envelope, for the
\* first time or again.  200 if the answer went into the caller's oneshot.
RespondMatched(env) ==
    \E q \in Matches(env) :
        /\ pending' = {e \in pending : e.id # q.id}
        /\ IF caller[q.req] = "waiting"
           THEN /\ caller' = [caller EXCEPT ![q.req] = "replied"]
                /\ answer' = [answer EXCEPT ![q.req] = env.req]
                /\ accepted' = accepted \cup {env}
           ELSE UNCHANGED <<caller, answer, accepted>>
        /\ UNCHANGED <<chanVars, nextId, queue, held, callVars, restarts>>

\* No entry, or one of another peer or connection: 404.
RespondUnmatched(env) ==
    /\ Matches(env) = {}
    /\ UNCHANGED vars

Respond(env) == RespondMatched(env) \/ RespondUnmatched(env)

-----------------------------------------------------------------------------
\* The process restarts: Channels is rebuilt empty, ids start again at 0 and
\* every connection breaks.  What the peers hold survives.
Restart ==
    /\ restarts < MaxRestarts
    /\ restarts' = restarts + 1
    /\ slot' = [p \in Peers |-> None]
    /\ pending' = {}
    /\ nextId' = 0
    /\ conn' = [c \in Conns |-> IF conn[c] = "unused" THEN "unused" ELSE "ended"]
    /\ queue' = [c \in Conns |-> <<>>]
    /\ caller' = [r \in Reqs |-> IF caller[r] \in Unfinished THEN "gone" ELSE caller[r]]
    /\ UNCHANGED <<connPeer, captured, held, callVars, replyVars>>

-----------------------------------------------------------------------------
Next ==
    \/ \E p \in Peers, c \in Conns : Bind(p, c)
    \/ \E c \in Conns : StartStream(c)
    \/ \E c \in Conns : AbandonOpen(c)
    \/ \E c \in Conns : PushEvent(c)
    \/ \E c \in Conns : RemoveSlot(c)
    \/ \E c \in Conns : FailPeer(c)
    \/ \E r \in Reqs, p \in Peers : DeliverUnbound(r, p)
    \/ \E r \in Reqs, p \in Peers : DeliverClosed(r, p)
    \/ \E r \in Reqs, p \in Peers : DeliverSend(r, p)
    \/ \E r \in Reqs, p \in Peers : DeliverFull(r, p)
    \/ \E r \in Reqs : InsertPending(r)
    \/ \E r \in Reqs : ResolveLag(r)
    \/ \E r \in Reqs : Receive(r)
    \/ \E r \in Reqs : Timeout(r)
    \/ \E r \in Reqs : Abandon(r)
    \/ \E env \in held : Respond(env)
    \/ Restart

Spec == Init /\ [][Next]_vars

\* Code that runs to its end once started: a call inside deliver() and the
\* cleanup of a stream contain no await.  A task whose oneshot is filled is woken.
CodeFairness ==
    /\ \A r \in Reqs : WF_vars(InsertPending(r) \/ ResolveLag(r) \/ Receive(r))
    /\ \A c \in Conns : WF_vars(FailPeer(c))

\* The 600 s timer of a waiting call always fires in the end.
TimerFairness(r) == WF_vars(Timeout(r))

CodeSpec  == Spec /\ CodeFairness

-----------------------------------------------------------------------------
\* The types, with the bound on every queue.
TypeOK ==
    /\ slot \in [Peers -> Conns \cup {None}]
    /\ pending \in SUBSET Pending
    /\ nextId \in Nat
    /\ conn \in [Conns -> {"unused", "binding", "open", "closing", "ended", "abandoned"}]
    /\ connPeer \in [Conns -> Peers \cup {None}]
    /\ captured \in [Conns -> Conns \cup {None}]
    /\ queue \in [Conns -> Seq(Envelope)]
    /\ \A c \in Conns : Len(queue[c]) <= Cap
    /\ held \in SUBSET Envelope
    /\ caller \in [Reqs -> {"idle"} \cup Unfinished \cup Final]
    /\ target \in [Reqs -> Peers \cup {None}]
    /\ via \in [Reqs -> Conns \cup {None}]
    /\ reqId \in [Reqs -> Nat]
    /\ answer \in [Reqs -> Reqs \cup {None}]
    /\ accepted \in SUBSET Envelope
    /\ restarts \in 0..MaxRestarts

\* What a caller is handed was written for its own request, although ids start
\* again at 0 after a restart while peers still hold envelopes from before it:
\* the connection secret keeps the two apart (channel.rs:211-223).
AnswerIsOwn == \A r \in Reqs : caller[r] \in {"replied", "answered"} => answer[r] = r

\* A waiting caller can always be resolved: its correlation entry is there,
\* under the peer and the connection its envelope went to.
WaitingIsPending == \A r \in Reqs : caller[r] = "waiting" => EntryOf(r) \in pending

\* Once a cleanup that took a secret out of the map has finished, no call is
\* left waiting on that secret with an empty oneshot, and no entry of it is left
\* behind, not even of a call that timed out or was abandoned; and none can
\* come: deliver() keeps the map locked until its entry is in (channel.rs:112-121
\* against 146-175).
CleanupIsComplete ==
    \A c \in Conns, r \in Reqs :
        conn[c] = "ended" /\ captured[c] # None /\ via[r] = captured[c]
            => caller[r] \notin {"sent", "lagging", "waiting"} /\ EntryOf(r) \notin pending

\* A call that is refused with 503 never reached the peer, so the caller may
\* send it again (channel.rs:17-18, "Retryable 503" at 177).
LaggedIsUnsent ==
    \A r \in Reqs : caller[r] = "503" =>
        /\ \A env \in held : env.req # r
        /\ \A c \in Conns : \A i \in DOMAIN queue[c] : queue[c][i].req # r

\* The queue never loses an envelope: while its connection is up, the request
\* of a waiting caller is queued or has reached the peer (channel.rs:17-18).
NoSilentDrop ==
    \A r \in Reqs :
        caller[r] = "waiting" /\ conn[via[r]] \in Alive =>
            \/ EnvelopeOf(r) \in held
            \/ \E i \in DOMAIN queue[via[r]] : queue[via[r]][i] = EnvelopeOf(r)

\* An answer went into the oneshot of a caller that met its deadline, left, or
\* was lost with the process without looking again.
Missed(r) == answer[r] # None /\ caller[r] \in {"504", "gone"}

\* 200 to the peer means that its answer went into the oneshot of a call that
\* was still there, where the caller reads it or has read it.  Only a caller
\* that met its deadline, left or was lost with the process in between misses
\* it, never one that is told 502 or 503, and never because of a second answer
\* (channel.rs:218-219 against peers.rs:809-833).
AcceptedIsDelivered ==
    \A env \in accepted : caller[env.req] \in {"replied", "answered"} \/ Missed(env.req)

\* If its own timer fires, a proxied call comes back to its caller, with an
\* answer or an error, whatever the streams and the other calls do.
EveryCallReturns ==
    \A r \in Reqs : TimerFairness(r) => (caller[r] \in Unfinished ~> caller[r] \in Final)

\* A cleanup took the secret that the call waits on.
CutOff(r) ==
    /\ caller[r] \in Unfinished
    /\ \E c \in Conns : conn[c] = "closing" /\ captured[c] # None /\ captured[c] = via[r]

\* Without waiting for the timer: a call that is cut off returns (channel.rs:123-124).
DisconnectReturns == \A r \in Reqs : CutOff(r) ~> caller[r] \in Final

\* Every step of the channel is a step of ProxiedCall for the caller, or none.
callStatus == [r \in Reqs |->
    CASE caller[r] = "idle"        -> "idle"
      [] caller[r] \in Unfinished  -> "busy"
      [] caller[r] = "answered"    -> "answered"
      [] OTHER                     -> "failed"]

\* What the callers have read.
handed == [r \in Reqs |-> IF caller[r] = "answered" THEN answer[r] ELSE None]

Call == INSTANCE ProxiedCall WITH status <- callStatus, answer <- handed

\* The caller's view of the channel is that of ProxiedCall (channel.rs:146-223
\* and channel_exchange, peers.rs:809-833).
CallSpec == Call!Spec

-----------------------------------------------------------------------------
(* The inductive invariant: what relates map, streams, envelopes and entries. *)

\* A connection that is in use was opened for a name.
StreamNamed == \A c \in Conns : conn[c] # "unused" => connPeer[c] \in Peers

\* A bound connection was opened for that name and no cleanup of it has run.
SlotOwned ==
    \A p \in Peers : slot[p] # None =>
        /\ connPeer[slot[p]] = p
        /\ conn[slot[p]] \in {"binding", "open", "abandoned"}

\* A secret taken out of the map is bound nowhere any more.
CapturedUnbound ==
    \A c \in Conns : captured[c] # None =>
        /\ conn[c] \in {"closing", "ended"}
        /\ connPeer[captured[c]] = connPeer[c]
        /\ conn[captured[c]] # "unused"
        /\ \A p \in Peers : slot[p] # captured[c]

\* deliver() has noted where the call went, and it holds the slot it read.
CallPlaced ==
    \A r \in Reqs :
        /\ via[r] # None => /\ caller[r] # "idle"
                            /\ target[r] \in Peers
                            /\ target[r] = connPeer[via[r]]
                            /\ conn[via[r]] # "unused"
        /\ caller[r] \in Unfinished => via[r] # None
        /\ caller[r] \in {"sent", "lagging"} => slot[target[r]] = via[r]

\* Envelopes and entries are those deliver() made, for calls it queued.
SentEnvelope(env) ==
    /\ env = EnvelopeOf(env.req)
    /\ caller[env.req] \notin {"idle", "lagging", "503"}

EnvelopesSent ==
    /\ \A env \in held : SentEnvelope(env)
    /\ \A c \in Conns : \A i \in DOMAIN queue[c] :
           queue[c][i].chan = c /\ SentEnvelope(queue[c][i])

EntriesMade ==
    \A q \in pending : q = EntryOf(q.req) /\ caller[q.req] \notin {"idle", "sent"}

\* A connection never carries an id twice, and ids of the running process are
\* unique among its outstanding calls and entries.
IdsOfConnDistinct ==
    \A r, s \in Reqs :
        via[r] # None /\ via[r] = via[s] /\ reqId[r] = reqId[s] => r = s

Current(r) == caller[r] \in Unfinished \/ EntryOf(r) \in pending

IdsTaken ==
    \A r \in Reqs :
        Current(r) \/ (via[r] # None /\ conn[via[r]] # "ended") => reqId[r] < nextId

CurrentIdsDistinct ==
    \A r, s \in Reqs : Current(r) /\ Current(s) /\ reqId[r] = reqId[s] => r = s

EntryPending == \A r \in Reqs : caller[r] \in {"waiting", "lagging"} => EntryOf(r) \in pending

EnvelopeKept ==
    \A r \in Reqs :
        caller[r] \in {"sent", "waiting"} /\ conn[via[r]] \in Alive =>
            \/ EnvelopeOf(r) \in held
            \/ \E i \in DOMAIN queue[via[r]] : queue[via[r]][i] = EnvelopeOf(r)

\* The parts together.  They carry the safety properties above through every step.
Inv ==
    /\ TypeOK
    /\ StreamNamed
    /\ SlotOwned
    /\ CapturedUnbound
    /\ CallPlaced
    /\ EnvelopesSent
    /\ EntriesMade
    /\ IdsOfConnDistinct
    /\ IdsTaken
    /\ CurrentIdsDistinct
    /\ EntryPending
    /\ EnvelopeKept
    /\ CleanupIsComplete
    /\ AnswerIsOwn
    /\ AcceptedIsDelivered

=============================================================================
