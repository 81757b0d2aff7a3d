----------------------- MODULE ReverseChannelProofs -----------------------
EXTENDS ReverseChannel, SequenceTheorems, TLAPS

\* The elements of a queue after an envelope is appended.
LEMMA AppendElements ==
    ASSUME NEW S, NEW s \in Seq(S), NEW e \in S
    PROVE  /\ Append(s, e) \in Seq(S)
           /\ Len(Append(s, e)) = Len(s) + 1
           /\ \A i \in DOMAIN s : i \in DOMAIN Append(s, e) /\ Append(s, e)[i] = s[i]
           /\ Len(s) + 1 \in DOMAIN Append(s, e) /\ Append(s, e)[Len(s) + 1] = e
           /\ \A i \in DOMAIN Append(s, e) :
                  (i \in DOMAIN s /\ Append(s, e)[i] = s[i]) \/ Append(s, e)[i] = e
<1>1. /\ Append(s, e) \in Seq(S)
      /\ Len(Append(s, e)) = Len(s) + 1
      /\ \A i \in 1..Len(s) : Append(s, e)[i] = s[i]
      /\ Append(s, e)[Len(s) + 1] = e
  BY AppendProperties
<1>2. Len(s) \in Nat /\ DOMAIN s = 1..Len(s)
  BY LenProperties
<1>3. DOMAIN Append(s, e) = 1..(Len(s) + 1)
  BY <1>1, LenProperties
<1> QED BY <1>1, <1>2, <1>3

\* The elements of a queue after its head is taken.
LEMMA TailElements ==
    ASSUME NEW S, NEW s \in Seq(S), s # <<>>
    PROVE  /\ Tail(s) \in Seq(S)
           /\ Len(Tail(s)) < Len(s)
           /\ 1 \in DOMAIN s /\ Head(s) = s[1]
           /\ \A i \in DOMAIN Tail(s) : i + 1 \in DOMAIN s /\ Tail(s)[i] = s[i + 1]
           /\ \A i \in DOMAIN s :
                  i = 1 \/ (i - 1 \in DOMAIN Tail(s) /\ Tail(s)[i - 1] = s[i])
<1>1. /\ Tail(s) \in Seq(S)
      /\ Len(Tail(s)) = Len(s) - 1
      /\ \A i \in 1..Len(Tail(s)) : Tail(s)[i] = s[i + 1]
  BY HeadTailProperties
<1>2. Len(s) \in Nat \ {0} /\ DOMAIN s = 1..Len(s)
  BY EmptySeq, LenProperties
<1>3. DOMAIN Tail(s) = 1..(Len(s) - 1)
  BY <1>1, LenProperties
<1>4. Head(s) = s[1]
  OBVIOUS
<1>5. ASSUME NEW i \in DOMAIN s, i # 1
      PROVE  i - 1 \in DOMAIN Tail(s) /\ Tail(s)[i - 1] = s[i]
  <2>1. i - 1 \in 1..(Len(s) - 1) /\ (i - 1) + 1 = i
    BY <1>2, <1>5
  <2> QED BY <2>1, <1>1, <1>3
<1> QED BY <1>1, <1>2, <1>3, <1>4, <1>5

\* Bind keeps the invariant.
LEMMA BindInv ==
    ASSUME Inv, NEW p \in Peers, NEW c \in Conns, Bind(p, c)
    PROVE  Inv'
<1> USE ConstantsAssumption
<1>u. UNCHANGED <<pending, nextId, captured, queue, held, caller, target, via, reqId,
     answer, accepted, restarts>>
  BY DEF Bind, callVars, replyVars
<1>k. EnvelopesSent' /\ EntriesMade' /\ IdsOfConnDistinct' /\ CurrentIdsDistinct' /\
     EntryPending' /\ AnswerIsOwn' /\ AcceptedIsDelivered'
  BY <1>u DEF Inv, EnvelopesSent, EntriesMade, IdsOfConnDistinct, CurrentIdsDistinct,
       EntryPending, AnswerIsOwn, AcceptedIsDelivered, Missed, Current, EntryOf, EnvelopeOf,
       SentEnvelope
<1>1. TypeOK'
  BY DEF Inv, Bind, TypeOK, MapUnlocked, callVars, replyVars
<1>2. StreamNamed'
  BY DEF Inv, Bind, StreamNamed, TypeOK, MapUnlocked, callVars, replyVars
<1>3. SlotOwned'
  BY DEF Inv, Bind, SlotOwned, TypeOK, MapUnlocked, callVars, replyVars
<1>4. CapturedUnbound'
  BY DEF Inv, Bind, CapturedUnbound, TypeOK, MapUnlocked, callVars, replyVars
<1>5. CallPlaced'
  BY DEF Inv, Bind, CallPlaced, TypeOK, MapUnlocked, Unfinished, callVars, replyVars
<1>6. IdsTaken'
  BY DEF Inv, Bind, IdsTaken, TypeOK, Current, EntryOf, MapUnlocked, Unfinished, callVars,
       replyVars
<1>7. EnvelopeKept'
  <2>0. /\ UNCHANGED <<held, queue, caller, via, reqId>>
        /\ conn[c] = "unused" /\ conn' = [conn EXCEPT ![c] = "binding"]
    BY DEF Bind, callVars
  <2>1. \A r \in Reqs : caller[r] \in {"sent", "waiting"} =>
            via[r] \in Conns /\ conn[via[r]] # "unused"
    BY DEF Inv, CallPlaced, TypeOK, Unfinished
  <2>2. \A r \in Reqs : caller[r] \in {"sent", "waiting"} => conn'[via[r]] = conn[via[r]]
    BY <2>0, <2>1 DEF Inv, TypeOK
  <2>3. \A r \in Reqs : EnvelopeOf(r)' = EnvelopeOf(r)
    BY <2>0 DEF EnvelopeOf
  <2> QED BY <2>0, <2>2, <2>3 DEF Inv, EnvelopeKept
<1>8. CleanupIsComplete'
  BY DEF Inv, Bind, CleanupIsComplete, EntryOf, TypeOK, MapUnlocked, Unfinished, callVars, replyVars
<1> QED BY <1>k, <1>1, <1>2, <1>3, <1>4, <1>5, <1>6, <1>7, <1>8 DEF Inv

\* StartStream keeps the invariant.
LEMMA StartStreamInv ==
    ASSUME Inv, NEW c \in Conns, StartStream(c)
    PROVE  Inv'
<1> USE ConstantsAssumption
<1>u. UNCHANGED <<slot, pending, nextId, connPeer, captured, queue, held, caller, target,
     via, reqId, answer, accepted, restarts>>
  BY DEF StartStream, callVars, replyVars
<1>k. EnvelopesSent' /\ EntriesMade' /\ IdsOfConnDistinct' /\ CurrentIdsDistinct' /\
     EntryPending' /\ AnswerIsOwn' /\ AcceptedIsDelivered'
  BY <1>u DEF Inv, EnvelopesSent, EntriesMade, IdsOfConnDistinct, CurrentIdsDistinct,
       EntryPending, AnswerIsOwn, AcceptedIsDelivered, Missed, Current, EntryOf, EnvelopeOf,
       SentEnvelope
<1>1. TypeOK'
  BY DEF Inv, StartStream, TypeOK, callVars, replyVars
<1>2. StreamNamed'
  BY DEF Inv, StartStream, StreamNamed, TypeOK, callVars, replyVars
<1>3. SlotOwned'
  BY DEF Inv, StartStream, SlotOwned, TypeOK, callVars, replyVars
<1>4. CapturedUnbound'
  BY DEF Inv, StartStream, CapturedUnbound, TypeOK, callVars, replyVars
<1>5. CallPlaced'
  BY DEF Inv, StartStream, CallPlaced, TypeOK, Unfinished, callVars, replyVars
<1>6. IdsTaken'
  BY DEF Inv, StartStream, IdsTaken, TypeOK, Current, EntryOf, Unfinished, callVars,
       replyVars
<1>7. EnvelopeKept'
  BY DEF Inv, StartStream, EnvelopeKept, TypeOK, Alive, EnvelopeOf, callVars, replyVars
<1>8. CleanupIsComplete'
  BY DEF Inv, StartStream, CleanupIsComplete, EntryOf, TypeOK, Unfinished, callVars, replyVars
<1> QED BY <1>k, <1>1, <1>2, <1>3, <1>4, <1>5, <1>6, <1>7, <1>8 DEF Inv

\* AbandonOpen keeps the invariant.
LEMMA AbandonOpenInv ==
    ASSUME Inv, NEW c \in Conns, AbandonOpen(c)
    PROVE  Inv'
<1> USE ConstantsAssumption
<1>u. UNCHANGED <<slot, pending, nextId, connPeer, captured, held, caller, target, via,
     reqId, answer, accepted, restarts>>
  BY DEF AbandonOpen, callVars, replyVars
<1>k. EntriesMade' /\ IdsOfConnDistinct' /\ CurrentIdsDistinct' /\ EntryPending' /\
     AnswerIsOwn' /\ AcceptedIsDelivered'
  BY <1>u DEF Inv, EntriesMade, IdsOfConnDistinct, CurrentIdsDistinct, EntryPending,
       AnswerIsOwn, AcceptedIsDelivered, Missed, Current, EntryOf
<1>1. TypeOK'
  BY DEF Inv, AbandonOpen, TypeOK, callVars, replyVars
<1>2. StreamNamed'
  BY DEF Inv, AbandonOpen, StreamNamed, TypeOK, callVars, replyVars
<1>3. SlotOwned'
  BY DEF Inv, AbandonOpen, SlotOwned, TypeOK, callVars, replyVars
<1>4. CapturedUnbound'
  BY DEF Inv, AbandonOpen, CapturedUnbound, TypeOK, callVars, replyVars
<1>5. CallPlaced'
  BY DEF Inv, AbandonOpen, CallPlaced, TypeOK, Unfinished, callVars, replyVars
<1>6. EnvelopesSent'
  BY DEF Inv, AbandonOpen, EnvelopesSent, TypeOK, EnvelopeOf, SentEnvelope, callVars,
       replyVars
<1>7. IdsTaken'
  BY DEF Inv, AbandonOpen, IdsTaken, TypeOK, Current, EntryOf, Unfinished, callVars,
       replyVars
<1>8. EnvelopeKept'
  BY DEF Inv, AbandonOpen, EnvelopeKept, TypeOK, Alive, EnvelopeOf, callVars, replyVars
<1>9. CleanupIsComplete'
  BY DEF Inv, AbandonOpen, CleanupIsComplete, EntryOf, TypeOK, Unfinished, callVars, replyVars
<1> QED BY <1>k, <1>1, <1>2, <1>3, <1>4, <1>5, <1>6, <1>7, <1>8, <1>9 DEF Inv

\* PushEvent keeps the invariant.
LEMMA PushEventInv ==
    ASSUME Inv, NEW c \in Conns, PushEvent(c)
    PROVE  Inv'
<1> USE ConstantsAssumption
<1>u. UNCHANGED <<slot, pending, nextId, conn, connPeer, captured, caller, target, via,
     reqId, answer, accepted, restarts>>
  BY DEF PushEvent, callVars, chanVars, replyVars
<1>k. StreamNamed' /\ SlotOwned' /\ CapturedUnbound' /\ CallPlaced' /\ IdsOfConnDistinct'
     /\ IdsTaken' /\ CurrentIdsDistinct' /\ EntryPending' /\ CleanupIsComplete' /\
     AnswerIsOwn' /\ AcceptedIsDelivered'
  BY <1>u DEF Inv, StreamNamed, SlotOwned, CapturedUnbound, CallPlaced, IdsOfConnDistinct,
       IdsTaken, CurrentIdsDistinct, EntryPending, CleanupIsComplete, AnswerIsOwn,
       AcceptedIsDelivered, Missed, Current, EntryOf
<1>0. /\ UNCHANGED <<slot, conn, connPeer, captured, pending, nextId, caller,
                    target, via, reqId, answer, accepted, restarts>>
      /\ c \in Conns /\ conn[c] = "open" /\ queue[c] # <<>>
      /\ held' = held \cup {Head(queue[c])}
      /\ queue' = [queue EXCEPT ![c] = Tail(queue[c])]
  BY DEF PushEvent, chanVars, callVars, replyVars
<1>q. /\ queue[c] \in Seq(Envelope)
      /\ Head(queue[c]) = queue[c][1] /\ 1 \in DOMAIN queue[c]
      /\ \A i \in DOMAIN Tail(queue[c]) :
             i + 1 \in DOMAIN queue[c] /\ Tail(queue[c])[i] = queue[c][i + 1]
      /\ \A i \in DOMAIN queue[c] :
             i = 1 \/ (i - 1 \in DOMAIN Tail(queue[c]) /\ Tail(queue[c])[i - 1] = queue[c][i])
  BY <1>0, TailElements DEF Inv, TypeOK
<1>w. \A d \in Conns : queue'[d] = IF d = c THEN Tail(queue[c]) ELSE queue[d]
  BY <1>0 DEF Inv, TypeOK
<1>1. TypeOK'
  BY DEF Inv, PushEvent, TypeOK, callVars, chanVars, replyVars
<1>2. EnvelopesSent'
  <2>1. SentEnvelope(Head(queue[c]))
    BY <1>0, <1>q DEF Inv, EnvelopesSent
  <2>2. \A e : SentEnvelope(e)' <=> SentEnvelope(e)
    BY <1>0 DEF SentEnvelope, EnvelopeOf
  <2>3. \A e \in held' : SentEnvelope(e)
    BY <1>0, <2>1 DEF Inv, EnvelopesSent
  <2>4. ASSUME NEW d \in Conns, NEW i \in DOMAIN queue'[d]
        PROVE  queue'[d][i].chan = d /\ SentEnvelope(queue'[d][i])
    <3>1. CASE d = c
      <4>1. i + 1 \in DOMAIN queue[c] /\ queue'[d][i] = queue[c][i + 1]
        BY <3>1, <1>w, <1>q
      <4> QED BY <4>1, <3>1, <1>0 DEF Inv, EnvelopesSent
    <3>2. CASE d # c
      BY <3>2, <1>w DEF Inv, EnvelopesSent
    <3> QED BY <3>1, <3>2
  <2>5. \A e \in held' : SentEnvelope(e)'
    BY <2>2, <2>3
  <2>6. \A d \in Conns : \A i \in DOMAIN queue'[d] : \A e :
           e = queue'[d][i] => e.chan = d /\ SentEnvelope(e)'
    BY <2>2, <2>4
  <2> QED BY <2>5, <2>6 DEF EnvelopesSent, SentEnvelope
<1>3. EntriesMade'
  BY <1>0 DEF Inv, EntriesMade, EntryOf
<1>4. EnvelopeKept'
  <2> SUFFICES ASSUME NEW r \in Reqs, caller[r] \in {"sent", "waiting"}, conn[via[r]] \in Alive
               PROVE  \/ EnvelopeOf(r) \in held'
                      \/ \E i \in DOMAIN queue'[via[r]] : queue'[via[r]][i] = EnvelopeOf(r)
    BY <1>0 DEF EnvelopeKept, EnvelopeOf
  <2>1. CASE EnvelopeOf(r) \in held
    BY <2>1, <1>0
  <2>2. CASE EnvelopeOf(r) \notin held
    <3>1. via[r] \in Conns
      BY DEF Inv, CallPlaced, TypeOK, Unfinished
    <3>2. PICK i \in DOMAIN queue[via[r]] : queue[via[r]][i] = EnvelopeOf(r)
      BY <2>2 DEF Inv, EnvelopeKept
    <3>3. CASE via[r] = c /\ i = 1
      BY <3>2, <3>3, <1>q, <1>0
    <3>4. CASE via[r] = c /\ i # 1
      <4>1. i - 1 \in DOMAIN queue'[via[r]] /\ queue'[via[r]][i - 1] = queue[via[r]][i]
        BY <3>2, <3>4, <1>q, <1>w
      <4> QED BY <4>1, <3>2
    <3>5. CASE via[r] # c
      BY <3>1, <3>2, <3>5, <1>w
    <3> QED BY <3>3, <3>4, <3>5
  <2> QED BY <2>1, <2>2
<1> QED BY <1>k, <1>1, <1>2, <1>3, <1>4 DEF Inv

\* RemoveSlot keeps the invariant.
LEMMA RemoveSlotInv ==
    ASSUME Inv, NEW c \in Conns, RemoveSlot(c)
    PROVE  Inv'
<1> USE ConstantsAssumption
<1>u. UNCHANGED <<pending, nextId, connPeer, queue, held, caller, target, via, reqId,
     answer, accepted, restarts>>
  BY DEF RemoveSlot, callVars, replyVars
<1>k. EnvelopesSent' /\ EntriesMade' /\ IdsOfConnDistinct' /\ CurrentIdsDistinct' /\
     EntryPending' /\ AnswerIsOwn' /\ AcceptedIsDelivered'
  BY <1>u DEF Inv, EnvelopesSent, EntriesMade, IdsOfConnDistinct, CurrentIdsDistinct,
       EntryPending, AnswerIsOwn, AcceptedIsDelivered, Missed, Current, EntryOf, EnvelopeOf,
       SentEnvelope
<1>1. TypeOK'
  BY DEF Inv, RemoveSlot, TypeOK, StreamNamed, MapUnlocked, callVars, replyVars
<1>2. StreamNamed'
  BY DEF Inv, RemoveSlot, StreamNamed, TypeOK, MapUnlocked, callVars, replyVars
<1>3. SlotOwned'
  BY DEF Inv, RemoveSlot, SlotOwned, TypeOK, MapUnlocked, callVars, replyVars
<1>4. CapturedUnbound'
  <2>0. /\ UNCHANGED connPeer
        /\ conn[c] = "open" /\ conn' = [conn EXCEPT ![c] = "closing"]
        /\ captured' = [captured EXCEPT ![c] = slot[connPeer[c]]]
        /\ slot' = [slot EXCEPT ![connPeer[c]] = None]
    BY DEF RemoveSlot
  <2>1. connPeer[c] \in Peers /\ connPeer[c] # None
    BY <2>0 DEF Inv, StreamNamed, TypeOK
  <2>2. \A q \in Peers : slot'[q] = IF q = connPeer[c] THEN None ELSE slot[q]
    BY <2>0, <2>1 DEF Inv, TypeOK
  <2>3. \A d \in Conns : /\ conn'[d] = IF d = c THEN "closing" ELSE conn[d]
                         /\ captured'[d] = IF d = c THEN slot[connPeer[c]] ELSE captured[d]
    BY <2>0 DEF Inv, TypeOK
  <2> SUFFICES ASSUME NEW d \in Conns, captured'[d] # None
               PROVE  /\ conn'[d] \in {"closing", "ended"}
                      /\ connPeer[captured'[d]] = connPeer[d]
                      /\ conn'[captured'[d]] # "unused"
                      /\ \A q \in Peers : slot'[q] # captured'[d]
    BY <2>0 DEF CapturedUnbound
  <2>4. CASE d = c
    <3>1. captured'[d] = slot[connPeer[c]] /\ slot[connPeer[c]] \in Conns
      BY <2>4, <2>3, <2>1 DEF Inv, TypeOK
    <3>2. connPeer[slot[connPeer[c]]] = connPeer[c] /\ conn[slot[connPeer[c]]] # "unused"
      BY <3>1, <2>1 DEF Inv, SlotOwned
    <3>3. \A q \in Peers : q # connPeer[c] => slot[q] # slot[connPeer[c]]
      BY <3>1, <3>2 DEF Inv, SlotOwned
    <3> QED BY <2>4, <3>1, <3>2, <3>3, <2>2, <2>3
  <2>5. CASE d # c
    <3>1. captured'[d] = captured[d] /\ captured[d] \in Conns
      BY <2>5, <2>3 DEF Inv, TypeOK
    <3> QED BY <2>5, <3>1, <2>2, <2>3 DEF Inv, CapturedUnbound
  <2> QED BY <2>4, <2>5
<1>5. CallPlaced'
  BY DEF Inv, RemoveSlot, CallPlaced, TypeOK, MapUnlocked, Unfinished, callVars, replyVars
<1>6. IdsTaken'
  BY DEF Inv, RemoveSlot, IdsTaken, TypeOK, Current, EntryOf, MapUnlocked, Unfinished,
       callVars, replyVars
<1>7. EnvelopeKept'
  BY DEF Inv, RemoveSlot, EnvelopeKept, TypeOK, Alive, EnvelopeOf, MapUnlocked, callVars,
       replyVars
<1>8. CleanupIsComplete'
  BY DEF Inv, RemoveSlot, CleanupIsComplete, EntryOf, TypeOK, MapUnlocked, Unfinished, callVars,
       replyVars
<1> QED BY <1>k, <1>1, <1>2, <1>3, <1>4, <1>5, <1>6, <1>7, <1>8 DEF Inv

\* FailPeer keeps the invariant.
LEMMA FailPeerInv ==
    ASSUME Inv, NEW c \in Conns, FailPeer(c)
    PROVE  Inv'
<1> USE ConstantsAssumption
<1>u. UNCHANGED <<slot, nextId, connPeer, captured, held, target, via, reqId, answer,
     accepted, restarts>>
  BY DEF FailPeer, callVars, replyVars
<1>k. IdsOfConnDistinct'
  BY <1>u DEF Inv, IdsOfConnDistinct
<1>0. /\ UNCHANGED <<slot, connPeer, captured, nextId, held, target, via, reqId,
                    answer, accepted, restarts>>
      /\ conn[c] = "closing" /\ conn' = [conn EXCEPT ![c] = "ended"]
      /\ pending' = pending \ Doomed(c)
  BY DEF FailPeer, callVars, replyVars
<1>c. \A r \in Reqs : /\ caller'[r] # caller[r] => caller[r] = "waiting" /\ caller'[r] = "failed"
                      /\ EntryOf(r) \in Doomed(c) => caller'[r] # "waiting"
  BY DEF FailPeer, EntryOf
<1>e. \A r : EntryOf(r)' = EntryOf(r)
  BY <1>0 DEF EntryOf
<1>1. TypeOK'
  BY DEF Inv, FailPeer, TypeOK, Doomed, callVars, replyVars, Unfinished, Final
<1>2. StreamNamed'
  BY DEF Inv, FailPeer, StreamNamed, TypeOK, Doomed, callVars, replyVars
<1>3. SlotOwned'
  BY DEF Inv, FailPeer, SlotOwned, TypeOK, Doomed, callVars, replyVars
<1>4. CapturedUnbound'
  BY DEF Inv, FailPeer, CapturedUnbound, TypeOK, Doomed, callVars, replyVars
<1>5. CallPlaced'
  BY DEF Inv, FailPeer, CallPlaced, TypeOK, Doomed, Unfinished, callVars, replyVars
<1>6. EnvelopesSent'
  BY DEF Inv, FailPeer, EnvelopesSent, Envelope, TypeOK, Doomed, EnvelopeOf, SentEnvelope,
       callVars, replyVars
<1>7. EntriesMade'
  BY DEF Inv, FailPeer, EntriesMade, Pending, TypeOK, Doomed, EntryOf, callVars, replyVars
<1>8. IdsTaken'
  BY DEF Inv, FailPeer, IdsTaken, TypeOK, Current, Doomed, EntryOf, Unfinished, callVars,
       replyVars
<1>9. CurrentIdsDistinct'
  BY DEF Inv, FailPeer, CurrentIdsDistinct, TypeOK, Current, Doomed, EntryOf, Unfinished,
       callVars, replyVars
<1>10. EntryPending'
  <2> SUFFICES ASSUME NEW r \in Reqs, caller'[r] \in {"waiting", "lagging"}
               PROVE  EntryOf(r) \in pending \ Doomed(c)
    BY <1>0, <1>e DEF EntryPending
  <2>1. caller[r] = caller'[r]
    BY <1>c
  <2>2. EntryOf(r) \in pending
    BY <2>1 DEF Inv, EntryPending
  <2>3. CASE caller[r] = "waiting"
    BY <2>1, <2>2, <2>3, <1>c
  <2>4. CASE caller[r] = "lagging"
    <3>1. slot[target[r]] = via[r] /\ target[r] \in Peers /\ via[r] # None
      BY <2>4 DEF Inv, CallPlaced, Unfinished
    <3>2. captured[c] # via[r]
      BY <3>1 DEF Inv, CapturedUnbound
    <3> QED BY <2>2, <3>2 DEF Doomed, EntryOf
  <2> QED BY <2>1, <2>3, <2>4
<1>11. EnvelopeKept'
  BY DEF Inv, FailPeer, EnvelopeKept, TypeOK, Alive, Doomed, EnvelopeOf, callVars,
       replyVars
<1>12. CleanupIsComplete'
  <2> SUFFICES ASSUME NEW d \in Conns, NEW r \in Reqs, conn'[d] = "ended",
                      captured[d] # None, via[r] = captured[d]
               PROVE  /\ caller'[r] \notin {"sent", "lagging", "waiting"}
                      /\ EntryOf(r) \notin pending'
    BY <1>0, <1>e DEF CleanupIsComplete
  <2>1. CASE d # c
    BY <2>1, <1>0, <1>c DEF Inv, CleanupIsComplete, TypeOK, Unfinished
  <2>2. CASE d = c
    <3>1. /\ \A p \in Peers : slot[p] # via[r]
          /\ connPeer[via[r]] = connPeer[c]
      BY <2>2 DEF Inv, CapturedUnbound
    <3>2. target[r] \in Peers /\ target[r] = connPeer[c] /\ caller[r] \notin {"sent", "lagging"}
      BY <3>1, <2>2 DEF Inv, CallPlaced
    <3>3. EntryOf(r) \in pending => EntryOf(r) \in Doomed(c)
      BY <2>2, <3>2 DEF Doomed, EntryOf
    <3>4. caller[r] = "waiting" => EntryOf(r) \in pending
      BY DEF Inv, EntryPending
    <3>5. caller'[r] \notin {"sent", "lagging", "waiting"}
      BY <3>2, <3>3, <3>4, <1>c
    <3> QED BY <3>3, <3>5, <1>0
  <2> QED BY <2>1, <2>2
<1>13. AnswerIsOwn'
  BY DEF Inv, FailPeer, AnswerIsOwn, TypeOK, Doomed, callVars, replyVars
<1>14. AcceptedIsDelivered'
  BY DEF Inv, FailPeer, AcceptedIsDelivered, Missed, Envelope, TypeOK, Doomed, callVars, replyVars
<1> QED BY <1>k, <1>1, <1>2, <1>3, <1>4, <1>5, <1>6, <1>7, <1>8, <1>9, <1>10, <1>11, <1>12,
     <1>13, <1>14 DEF Inv

\* DeliverUnbound keeps the invariant.
LEMMA DeliverUnboundInv ==
    ASSUME Inv, NEW r \in Reqs, NEW p \in Peers, DeliverUnbound(r, p)
    PROVE  Inv'
<1> USE ConstantsAssumption
<1>u. UNCHANGED <<slot, pending, nextId, conn, connPeer, captured, queue, held, via, reqId,
     answer, accepted, restarts>>
  BY DEF DeliverUnbound, chanVars, callVars, replyVars
<1>k. StreamNamed' /\ SlotOwned' /\ CapturedUnbound' /\ IdsOfConnDistinct'
  BY <1>u DEF Inv, StreamNamed, SlotOwned, CapturedUnbound, IdsOfConnDistinct
<1>1. TypeOK'
  BY DEF Inv, DeliverUnbound, TypeOK, chanVars, callVars, replyVars, Unfinished, Final
<1>2. CallPlaced'
  BY DEF Inv, DeliverUnbound, CallPlaced, TypeOK, Unfinished, chanVars, callVars, replyVars
<1>3. EnvelopesSent'
  BY DEF Inv, DeliverUnbound, EnvelopesSent, TypeOK, EnvelopeOf, SentEnvelope, chanVars,
       callVars, replyVars
<1>4. EntriesMade'
  BY DEF Inv, DeliverUnbound, EntriesMade, TypeOK, EntryOf, chanVars, callVars, replyVars
<1>5. IdsTaken'
  BY DEF Inv, DeliverUnbound, IdsTaken, CallPlaced, Pending, TypeOK, Current, EntryOf,
       Unfinished, chanVars, callVars, replyVars
<1>6. CurrentIdsDistinct'
  BY DEF Inv, DeliverUnbound, CurrentIdsDistinct, CallPlaced, Pending, TypeOK, Current,
       EntryOf, Unfinished, chanVars, callVars, replyVars
<1>7. EntryPending'
  BY DEF Inv, DeliverUnbound, EntryPending, TypeOK, EntryOf, chanVars, callVars, replyVars
<1>8. EnvelopeKept'
  BY DEF Inv, DeliverUnbound, EnvelopeKept, TypeOK, Alive, EnvelopeOf, chanVars, callVars, replyVars
<1>9. CleanupIsComplete'
  BY DEF Inv, DeliverUnbound, CleanupIsComplete, CallPlaced, EntryOf, TypeOK, Unfinished, chanVars,
     callVars, replyVars
<1>10. AnswerIsOwn'
  BY DEF Inv, DeliverUnbound, AnswerIsOwn, TypeOK, chanVars, callVars, replyVars
<1>11. AcceptedIsDelivered'
  BY DEF Inv, DeliverUnbound, AcceptedIsDelivered, Missed, TypeOK, chanVars, callVars, replyVars
<1> QED BY <1>k, <1>1, <1>2, <1>3, <1>4, <1>5, <1>6, <1>7, <1>8, <1>9, <1>10, <1>11 DEF Inv

\* DeliverClosed keeps the invariant.
LEMMA DeliverClosedInv ==
    ASSUME Inv, NEW r \in Reqs, NEW p \in Peers, DeliverClosed(r, p)
    PROVE  Inv'
<1> USE ConstantsAssumption
<1>u. UNCHANGED <<slot, pending, conn, connPeer, captured, queue, held, answer, accepted, restarts>>
  BY DEF DeliverClosed, TakeId, chanVars, replyVars
<1>k. StreamNamed' /\ SlotOwned' /\ CapturedUnbound'
  BY <1>u DEF Inv, StreamNamed, SlotOwned, CapturedUnbound
<1>0. /\ caller[r] = "idle" /\ slot[p] # None
      /\ target' = [target EXCEPT ![r] = p]
      /\ via' = [via EXCEPT ![r] = slot[p]]
      /\ reqId' = [reqId EXCEPT ![r] = nextId]
      /\ nextId' = nextId + 1
      /\ UNCHANGED <<slot, conn, connPeer, captured, held, answer, accepted, restarts>>
  BY DEF DeliverClosed, TakeId, chanVars, replyVars
<1>s. slot[p] \in Conns /\ connPeer[slot[p]] = p /\ conn[slot[p]] \notin {"unused", "ended", "closing"}
  BY <1>0 DEF Inv, TypeOK, SlotOwned
<1>v. via[r] = None /\ r \in Reqs
  BY <1>0 DEF Inv, TypeOK, CallPlaced
<1>n. \A s \in Reqs : /\ via'[s] = IF s = r THEN slot[p] ELSE via[s]
                      /\ reqId'[s] = IF s = r THEN nextId ELSE reqId[s]
                      /\ target'[s] = IF s = r THEN p ELSE target[s]
  BY <1>0 DEF Inv, TypeOK
<1>1. TypeOK'
  BY DEF Inv, DeliverClosed, TypeOK, Alive, TakeId, chanVars, replyVars, Unfinished, Final
<1>2. CallPlaced'
  BY DEF Inv, DeliverClosed, CallPlaced, SlotOwned, TypeOK, Alive, TakeId, Unfinished,
       chanVars, replyVars
<1>3. EnvelopesSent'
  BY DEF Inv, DeliverClosed, EnvelopesSent, TypeOK, Alive, EnvelopeOf, SentEnvelope,
       TakeId, chanVars, replyVars
<1>4. EntriesMade'
  BY DEF Inv, DeliverClosed, EntriesMade, CallPlaced, TypeOK, Alive, EntryOf, TakeId,
       Unfinished, chanVars, replyVars
<1>5. IdsOfConnDistinct'
  <2>1. \A s \in Reqs : via[s] = slot[p] => reqId[s] # nextId
    BY <1>0, <1>s DEF Inv, IdsTaken, TypeOK
  <2> QED BY <2>1, <1>n DEF Inv, IdsOfConnDistinct
<1>6. IdsTaken'
  BY DEF Inv, DeliverClosed, IdsTaken, TypeOK, Alive, Current, EntryOf, TakeId, Unfinished,
       chanVars, replyVars
<1>7. CurrentIdsDistinct'
  <2>1. \A s \in Reqs : s # r => EntryOf(s)' = EntryOf(s)
    BY <1>n DEF EntryOf
  <2>2. \A s \in Reqs : s # r /\ Current(s)' => Current(s)
    BY <2>1, <1>0 DEF DeliverClosed, Current, Inv, TypeOK
  <2>3. \A s \in Reqs : s # r /\ Current(s)' => reqId'[s] < nextId
    BY <2>2, <1>n DEF Inv, IdsTaken
  <2>4. nextId \in Nat /\ \A s \in Reqs : reqId[s] \in Nat
    BY DEF Inv, TypeOK
  <2>5. ~ Current(r)'
    BY <1>0, <1>v DEF DeliverClosed, Current, Inv, EntriesMade, EntryOf, TypeOK, Unfinished
  <2> QED BY <2>5, <2>2, <2>3, <2>4, <1>n DEF Inv, CurrentIdsDistinct
<1>8. EntryPending'
  BY DEF Inv, DeliverClosed, EntryPending, TypeOK, Alive, EntryOf, TakeId, chanVars,
       replyVars
<1>9. EnvelopeKept'
  BY DEF Inv, DeliverClosed, EnvelopeKept, TypeOK, Alive, EnvelopeOf, TakeId, chanVars,
       replyVars
<1>10. CleanupIsComplete'
  BY DEF Inv, DeliverClosed, CleanupIsComplete, CapturedUnbound, EntryOf, TypeOK, Alive, TakeId,
     Unfinished,
       chanVars, replyVars
<1>11. AnswerIsOwn'
  BY DEF Inv, DeliverClosed, AnswerIsOwn, TypeOK, Alive, TakeId, chanVars, replyVars
<1>12. AcceptedIsDelivered'
  BY DEF Inv, DeliverClosed, AcceptedIsDelivered, Missed, TypeOK, Alive, TakeId, chanVars,
       replyVars
<1> QED BY <1>k, <1>1, <1>2, <1>3, <1>4, <1>5, <1>6, <1>7, <1>8, <1>9, <1>10, <1>11, <1>12
     DEF Inv

\* DeliverSend keeps the invariant.
LEMMA DeliverSendInv ==
    ASSUME Inv, NEW r \in Reqs, NEW p \in Peers, DeliverSend(r, p)
    PROVE  Inv'
<1> USE ConstantsAssumption
<1>u. UNCHANGED <<slot, pending, conn, connPeer, captured, held, answer, accepted,
     restarts>>
  BY DEF DeliverSend, TakeId, chanVars, replyVars
<1>k. StreamNamed' /\ SlotOwned' /\ CapturedUnbound'
  BY <1>u DEF Inv, StreamNamed, SlotOwned, CapturedUnbound
<1>0. /\ caller[r] = "idle" /\ slot[p] # None
      /\ target' = [target EXCEPT ![r] = p]
      /\ via' = [via EXCEPT ![r] = slot[p]]
      /\ reqId' = [reqId EXCEPT ![r] = nextId]
      /\ nextId' = nextId + 1
      /\ UNCHANGED <<slot, conn, connPeer, captured, held, answer, accepted, restarts>>
  BY DEF DeliverSend, TakeId, chanVars, replyVars
<1>s. slot[p] \in Conns /\ connPeer[slot[p]] = p /\ conn[slot[p]] \notin {"unused", "ended", "closing"}
  BY <1>0 DEF Inv, TypeOK, SlotOwned
<1>v. via[r] = None /\ r \in Reqs
  BY <1>0 DEF Inv, TypeOK, CallPlaced
<1>n. \A s \in Reqs : /\ via'[s] = IF s = r THEN slot[p] ELSE via[s]
                      /\ reqId'[s] = IF s = r THEN nextId ELSE reqId[s]
                      /\ target'[s] = IF s = r THEN p ELSE target[s]
  BY <1>0 DEF Inv, TypeOK
<1>e. PICK env \in Envelope : env = [id |-> nextId, req |-> r, chan |-> slot[p]]
  BY <1>s DEF Envelope, Inv, TypeOK
<1>t. EnvelopeOf(r)' = env /\ queue[slot[p]] \in Seq(Envelope)
  BY <1>e, <1>s, <1>n, <1>v DEF EnvelopeOf, Inv, TypeOK
<1>q. /\ Len(queue[slot[p]]) < Cap
      /\ queue' = [queue EXCEPT ![slot[p]] = Append(queue[slot[p]], env)]
      /\ caller' = [caller EXCEPT ![r] = "sent"]
      /\ UNCHANGED pending
  BY <1>e DEF DeliverSend
<1>w. \A d \in Conns : queue'[d] = IF d = slot[p] THEN Append(queue[d], env) ELSE queue[d]
  BY <1>q DEF Inv, TypeOK
<1>a. /\ Append(queue[slot[p]], env) \in Seq(Envelope)
      /\ Len(Append(queue[slot[p]], env)) = Len(queue[slot[p]]) + 1
      /\ \A i \in DOMAIN queue[slot[p]] :
             /\ i \in DOMAIN Append(queue[slot[p]], env)
             /\ Append(queue[slot[p]], env)[i] = queue[slot[p]][i]
      /\ Len(queue[slot[p]]) + 1 \in DOMAIN Append(queue[slot[p]], env)
      /\ Append(queue[slot[p]], env)[Len(queue[slot[p]]) + 1] = env
      /\ \A i \in DOMAIN Append(queue[slot[p]], env) :
             \/ i \in DOMAIN queue[slot[p]] /\ Append(queue[slot[p]], env)[i] = queue[slot[p]][i]
             \/ Append(queue[slot[p]], env)[i] = env
  BY <1>t, AppendElements
<1>1. TypeOK'
  <2>2. Len(queue[slot[p]]) \in Nat
    BY <1>t, LenProperties
  <2>3. queue' \in [Conns -> Seq(Envelope)]
    BY <1>a, <1>q DEF Inv, TypeOK
  <2>4. \A d \in Conns : Len(queue'[d]) <= Cap
    BY <1>a, <2>2, <1>q, <1>w DEF Inv, TypeOK
  <2> QED BY <2>3, <2>4, <1>0, <1>q, <1>s DEF Inv, TypeOK, Unfinished
<1>2. CallPlaced'
  BY DEF Inv, DeliverSend, CallPlaced, SlotOwned, TypeOK, Alive, TakeId, Unfinished,
       chanVars, replyVars
<1>3. EnvelopesSent'
  <2>1. caller' = [caller EXCEPT ![r] = "sent"]
    BY <1>q
  <2>2. ASSUME NEW e, e.req \in Reqs, SentEnvelope(e)
        PROVE  SentEnvelope(e)'
    BY <2>2, <2>1, <1>0, <1>n DEF SentEnvelope, EnvelopeOf, Inv, TypeOK
  <2>3. \A e \in held : e.req \in Reqs /\ SentEnvelope(e)
    BY DEF Inv, EnvelopesSent, TypeOK, Envelope
  <2>4. \A d \in Conns : \A i \in DOMAIN queue[d] :
            queue[d][i].chan = d /\ queue[d][i].req \in Reqs /\ SentEnvelope(queue[d][i])
    BY DEF Inv, EnvelopesSent, SentEnvelope, EnvelopeOf, TypeOK, Envelope
  <2>5. env.chan = slot[p] /\ SentEnvelope(env)'
    BY <1>e, <1>q, <1>n, <1>v, <1>t DEF SentEnvelope, EnvelopeOf, Inv, TypeOK
  <2>6. ASSUME NEW d \in Conns, NEW i \in DOMAIN queue'[d], NEW e, e = queue'[d][i]
        PROVE  e.chan = d /\ SentEnvelope(e)'
    <3>1. CASE d = slot[p]
      <4>1. (i \in DOMAIN queue[d] /\ e = queue[d][i]) \/ e = env
        BY <3>1, <2>6, <1>w, <1>a
      <4> QED BY <4>1, <3>1, <2>2, <2>4, <2>5
    <3>2. CASE d # slot[p]
      BY <3>2, <2>6, <1>w, <2>2, <2>4
    <3> QED BY <3>1, <3>2
  <2>7. \A e \in held' : SentEnvelope(e)'
    BY <2>2, <2>3, <1>0
  <2>8. \A d \in Conns : \A i \in DOMAIN queue'[d] : \A e :
           e = queue'[d][i] => e.chan = d /\ SentEnvelope(e)'
    BY <2>6
  <2> QED BY <2>7, <2>8 DEF EnvelopesSent, SentEnvelope
<1>4. EntriesMade'
  BY DEF Inv, DeliverSend, EntriesMade, TypeOK, Alive, EntryOf, TakeId, chanVars, replyVars
<1>5. IdsOfConnDistinct'
  <2>1. \A s \in Reqs : via[s] = slot[p] => reqId[s] # nextId
    BY <1>0, <1>s DEF Inv, IdsTaken, TypeOK
  <2> QED BY <2>1, <1>n DEF Inv, IdsOfConnDistinct
<1>6. IdsTaken'
  BY DEF Inv, DeliverSend, IdsTaken, TypeOK, Alive, Current, EntryOf, TakeId, Unfinished,
       chanVars, replyVars
<1>7. CurrentIdsDistinct'
  <2>1. \A s \in Reqs : s # r => EntryOf(s)' = EntryOf(s)
    BY <1>n DEF EntryOf
  <2>2. \A s \in Reqs : s # r /\ Current(s)' => Current(s)
    BY <2>1, <1>n DEF DeliverSend, TakeId, Current, EntryOf, Unfinished
  <2>3. \A s \in Reqs : s # r /\ Current(s)' => reqId'[s] < nextId
    BY <2>2, <1>n DEF Inv, IdsTaken
  <2>4. nextId \in Nat /\ \A s \in Reqs : reqId[s] \in Nat
    BY DEF Inv, TypeOK
  <2> QED BY <2>2, <2>3, <2>4, <1>n DEF Inv, CurrentIdsDistinct
<1>8. EntryPending'
  BY DEF Inv, DeliverSend, EntryPending, TypeOK, Alive, EntryOf, TakeId, chanVars,
       replyVars
<1>9. EnvelopeKept'
  <2> SUFFICES ASSUME NEW s \in Reqs, caller'[s] \in {"sent", "waiting"}, conn'[via'[s]] \in Alive
               PROVE  \/ EnvelopeOf(s)' \in held'
                      \/ \E i \in DOMAIN queue'[via'[s]] : queue'[via'[s]][i] = EnvelopeOf(s)'
    BY DEF EnvelopeKept
  <2>1. CASE s = r
    <3>1. Len(queue[slot[p]]) + 1 \in DOMAIN queue'[slot[p]]
          /\ queue'[slot[p]][Len(queue[slot[p]]) + 1] = env
      BY <1>w, <1>s, <1>a
    <3> QED BY <2>1, <3>1, <1>n, <1>v, <1>t
  <2>2. CASE s # r
    <3>1. caller[s] \in {"sent", "waiting"} /\ via'[s] = via[s] /\ EnvelopeOf(s)' = EnvelopeOf(s)
      BY <2>2, <1>q, <1>n DEF EnvelopeOf, Inv, TypeOK
    <3>2. via[s] \in Conns
      BY <3>1 DEF Inv, CallPlaced, TypeOK, Unfinished
    <3>3. CASE EnvelopeOf(s) \in held
      BY <3>1, <3>3, <1>0
    <3>4. CASE EnvelopeOf(s) \notin held
      <4>1. PICK i \in DOMAIN queue[via[s]] : queue[via[s]][i] = EnvelopeOf(s)
        BY <3>1, <3>4, <1>0 DEF Inv, EnvelopeKept
      <4>2. i \in DOMAIN queue'[via[s]] /\ queue'[via[s]][i] = queue[via[s]][i]
        BY <4>1, <3>2, <1>w, <1>a
      <4> QED BY <4>1, <4>2, <3>1
    <3> QED BY <3>3, <3>4
  <2> QED BY <2>1, <2>2
<1>10. CleanupIsComplete'
  BY DEF Inv, DeliverSend, CleanupIsComplete, EntryOf, CapturedUnbound, TypeOK, Alive, TakeId,
       Unfinished, chanVars, replyVars
<1>11. AnswerIsOwn'
  BY DEF Inv, DeliverSend, AnswerIsOwn, TypeOK, Alive, TakeId, chanVars, replyVars
<1>12. AcceptedIsDelivered'
  BY DEF Inv, DeliverSend, AcceptedIsDelivered, Missed, TypeOK, Alive, TakeId, chanVars, replyVars
<1> QED BY <1>k, <1>1, <1>2, <1>3, <1>4, <1>5, <1>6, <1>7, <1>8, <1>9, <1>10, <1>11, <1>12
     DEF Inv

\* DeliverFull keeps the invariant.
LEMMA DeliverFullInv ==
    ASSUME Inv, NEW r \in Reqs, NEW p \in Peers, DeliverFull(r, p)
    PROVE  Inv'
<1> USE ConstantsAssumption
<1>u. UNCHANGED <<slot, conn, connPeer, captured, queue, held, answer, accepted,
     restarts>>
  BY DEF DeliverFull, TakeId, chanVars, replyVars
<1>k. StreamNamed' /\ SlotOwned' /\ CapturedUnbound'
  BY <1>u DEF Inv, StreamNamed, SlotOwned, CapturedUnbound
<1>0. /\ caller[r] = "idle" /\ slot[p] # None
      /\ target' = [target EXCEPT ![r] = p]
      /\ via' = [via EXCEPT ![r] = slot[p]]
      /\ reqId' = [reqId EXCEPT ![r] = nextId]
      /\ nextId' = nextId + 1
      /\ UNCHANGED <<slot, conn, connPeer, captured, held, answer, accepted, restarts>>
  BY DEF DeliverFull, TakeId, chanVars, replyVars
<1>s. slot[p] \in Conns /\ connPeer[slot[p]] = p /\ conn[slot[p]] \notin {"unused", "ended", "closing"}
  BY <1>0 DEF Inv, TypeOK, SlotOwned
<1>v. via[r] = None /\ r \in Reqs
  BY <1>0 DEF Inv, TypeOK, CallPlaced
<1>n. \A s \in Reqs : /\ via'[s] = IF s = r THEN slot[p] ELSE via[s]
                      /\ reqId'[s] = IF s = r THEN nextId ELSE reqId[s]
                      /\ target'[s] = IF s = r THEN p ELSE target[s]
  BY <1>0 DEF Inv, TypeOK
<1>e. PICK entry \in Pending : entry = [id |-> nextId, peer |-> p, chan |-> slot[p], req |-> r]
  BY <1>s DEF Pending, Inv, TypeOK
<1>p. pending' = {q \in pending : q.id # nextId} \cup {entry} /\ EntryOf(r)' = entry
  BY <1>e, <1>n, <1>v DEF DeliverFull, EntryOf
<1>1. TypeOK'
  <2>2. pending' \in SUBSET Pending
    BY <1>p DEF Inv, TypeOK
  <2>3. UNCHANGED queue /\ caller' = [caller EXCEPT ![r] = "lagging"]
    BY DEF DeliverFull
  <2> QED BY <1>0, <1>s, <2>2, <2>3 DEF Inv, TypeOK, Unfinished
<1>2. CallPlaced'
  BY DEF Inv, DeliverFull, CallPlaced, SlotOwned, TypeOK, Alive, TakeId, Unfinished,
       chanVars, replyVars
<1>3. EnvelopesSent'
  <2>1. caller' = [caller EXCEPT ![r] = "lagging"] /\ UNCHANGED queue
    BY DEF DeliverFull
  <2>2. ASSUME NEW e, e.req \in Reqs, SentEnvelope(e)
        PROVE  SentEnvelope(e)'
    BY <2>2, <2>1, <1>0, <1>n DEF SentEnvelope, EnvelopeOf, Inv, TypeOK
  <2>3. \A e \in held : e.req \in Reqs /\ SentEnvelope(e)
    BY DEF Inv, EnvelopesSent, TypeOK, Envelope
  <2>4. \A d \in Conns : \A i \in DOMAIN queue[d] :
            queue[d][i].chan = d /\ queue[d][i].req \in Reqs /\ SentEnvelope(queue[d][i])
    BY DEF Inv, EnvelopesSent, SentEnvelope, EnvelopeOf, TypeOK, Envelope
  <2>7. \A e \in held' : SentEnvelope(e)'
    BY <2>2, <2>3, <1>0
  <2>8. \A d \in Conns : \A i \in DOMAIN queue'[d] : \A e :
           e = queue'[d][i] => e.chan = d /\ SentEnvelope(e)'
    BY <2>1, <2>2, <2>4
  <2> QED BY <2>7, <2>8 DEF EnvelopesSent, SentEnvelope
<1>4. EntriesMade'
  BY DEF Inv, DeliverFull, EntriesMade, TypeOK, Alive, EntryOf, TakeId, chanVars, replyVars
<1>5. IdsOfConnDistinct'
  <2>1. \A s \in Reqs : via[s] = slot[p] => reqId[s] # nextId
    BY <1>0, <1>s DEF Inv, IdsTaken, TypeOK
  <2> QED BY <2>1, <1>n DEF Inv, IdsOfConnDistinct
<1>6. IdsTaken'
  BY DEF Inv, DeliverFull, IdsTaken, TypeOK, Alive, Current, EntryOf, TakeId, Unfinished,
       chanVars, replyVars
<1>7. CurrentIdsDistinct'
  <2>1. \A s \in Reqs : s # r => EntryOf(s)' = EntryOf(s) /\ EntryOf(s) # entry
    BY <1>n, <1>e DEF EntryOf
  <2>2. caller' = [caller EXCEPT ![r] = "lagging"]
    BY DEF DeliverFull
  <2>3. \A s \in Reqs : s # r /\ Current(s)' => Current(s)
    BY <2>1, <2>2, <1>p DEF Current, Inv, TypeOK
  <2>4. \A s \in Reqs : s # r /\ Current(s)' => reqId'[s] < nextId
    BY <2>3, <1>n DEF Inv, IdsTaken
  <2>5. nextId \in Nat /\ \A s \in Reqs : reqId[s] \in Nat
    BY DEF Inv, TypeOK
  <2> QED BY <2>3, <2>4, <2>5, <1>n DEF Inv, CurrentIdsDistinct
<1>8. EntryPending'
  BY DEF Inv, DeliverFull, EntryPending, IdsTaken, TypeOK, Alive, Current, EntryOf, TakeId,
       Unfinished, chanVars, replyVars
<1>9. EnvelopeKept'
  BY DEF Inv, DeliverFull, EnvelopeKept, TypeOK, Alive, EnvelopeOf, TakeId, chanVars,
       replyVars
<1>10. CleanupIsComplete'
  BY DEF Inv, DeliverFull, CleanupIsComplete, EntryOf, CapturedUnbound, TypeOK, Alive, TakeId,
       Unfinished, chanVars, replyVars
<1>11. AnswerIsOwn'
  BY DEF Inv, DeliverFull, AnswerIsOwn, TypeOK, Alive, TakeId, chanVars, replyVars
<1>12. AcceptedIsDelivered'
  BY DEF Inv, DeliverFull, AcceptedIsDelivered, Missed, TypeOK, Alive, TakeId, chanVars, replyVars
<1> QED BY <1>k, <1>1, <1>2, <1>3, <1>4, <1>5, <1>6, <1>7, <1>8, <1>9, <1>10, <1>11, <1>12
     DEF Inv

\* InsertPending keeps the invariant.
LEMMA InsertPendingInv ==
    ASSUME Inv, NEW r \in Reqs, InsertPending(r)
    PROVE  Inv'
<1> USE ConstantsAssumption
<1>u. UNCHANGED <<slot, nextId, conn, connPeer, captured, queue, held, target, via, reqId,
     answer, accepted, restarts>>
  BY DEF InsertPending, callVars, chanVars, replyVars
<1>k. StreamNamed' /\ SlotOwned' /\ CapturedUnbound' /\ IdsOfConnDistinct'
  BY <1>u DEF Inv, StreamNamed, SlotOwned, CapturedUnbound, IdsOfConnDistinct
<1>1. TypeOK'
  BY DEF Inv, InsertPending, TypeOK, CallPlaced, Pending, EntryOf, Unfinished, callVars,
       chanVars, replyVars, Final
<1>2. CallPlaced'
  BY DEF Inv, InsertPending, CallPlaced, TypeOK, EntryOf, Unfinished, callVars, chanVars,
       replyVars
<1>3. EnvelopesSent'
  BY DEF Inv, InsertPending, EnvelopesSent, TypeOK, EntryOf, EnvelopeOf, SentEnvelope,
       callVars, chanVars, replyVars
<1>4. EntriesMade'
  BY DEF Inv, InsertPending, EntriesMade, TypeOK, EntryOf, callVars, chanVars, replyVars
<1>5. IdsTaken'
  BY DEF Inv, InsertPending, IdsTaken, TypeOK, Current, EntryOf, Unfinished, callVars,
       chanVars, replyVars
<1>6. CurrentIdsDistinct'
  BY DEF Inv, InsertPending, CurrentIdsDistinct, TypeOK, Current, EntryOf, Unfinished,
       callVars, chanVars, replyVars
<1>7. EntryPending'
  BY DEF Inv, InsertPending, EntryPending, CurrentIdsDistinct, TypeOK, Current, EntryOf,
       Unfinished, callVars, chanVars, replyVars
<1>8. EnvelopeKept'
  BY DEF Inv, InsertPending, EnvelopeKept, TypeOK, Alive, EntryOf, EnvelopeOf, callVars,
       chanVars, replyVars
<1>9. CleanupIsComplete'
  BY DEF Inv, InsertPending, CleanupIsComplete, EntryOf, TypeOK, EntryOf, Unfinished, callVars,
       chanVars, replyVars
<1>10. AnswerIsOwn'
  BY DEF Inv, InsertPending, AnswerIsOwn, TypeOK, EntryOf, callVars, chanVars, replyVars
<1>11. AcceptedIsDelivered'
  BY DEF Inv, InsertPending, AcceptedIsDelivered, Missed, TypeOK, EntryOf, callVars, chanVars,
       replyVars
<1> QED BY <1>k, <1>1, <1>2, <1>3, <1>4, <1>5, <1>6, <1>7, <1>8, <1>9, <1>10, <1>11 DEF Inv

\* ResolveLag keeps the invariant.
LEMMA ResolveLagInv ==
    ASSUME Inv, NEW r \in Reqs, ResolveLag(r)
    PROVE  Inv'
<1> USE ConstantsAssumption
<1>u. UNCHANGED <<slot, nextId, conn, connPeer, captured, queue, held, target, via, reqId,
     answer, accepted, restarts>>
  BY DEF ResolveLag, callVars, chanVars, replyVars
<1>k. StreamNamed' /\ SlotOwned' /\ CapturedUnbound' /\ IdsOfConnDistinct'
  BY <1>u DEF Inv, StreamNamed, SlotOwned, CapturedUnbound, IdsOfConnDistinct
<1>1. TypeOK'
  BY DEF Inv, ResolveLag, TypeOK, callVars, chanVars, replyVars, Unfinished, Final
<1>2. CallPlaced'
  BY DEF Inv, ResolveLag, CallPlaced, TypeOK, Unfinished, callVars, chanVars, replyVars
<1>3. EnvelopesSent'
  BY DEF Inv, ResolveLag, EnvelopesSent, TypeOK, EnvelopeOf, SentEnvelope, callVars,
       chanVars, replyVars
<1>4. EntriesMade'
  BY DEF Inv, ResolveLag, EntriesMade, TypeOK, EntryOf, callVars, chanVars, replyVars
<1>5. IdsTaken'
  BY DEF Inv, ResolveLag, IdsTaken, TypeOK, Current, EntryOf, Unfinished, callVars,
       chanVars, replyVars
<1>6. CurrentIdsDistinct'
  BY DEF Inv, ResolveLag, CurrentIdsDistinct, TypeOK, Current, EntryOf, Unfinished,
       callVars, chanVars, replyVars
<1>7. EntryPending'
  BY DEF Inv, ResolveLag, EntryPending, CurrentIdsDistinct, TypeOK, Current, EntryOf,
       Unfinished, callVars, chanVars, replyVars
<1>8. EnvelopeKept'
  BY DEF Inv, ResolveLag, EnvelopeKept, TypeOK, Alive, EnvelopeOf, callVars, chanVars,
       replyVars
<1>9. CleanupIsComplete'
  BY DEF Inv, ResolveLag, CleanupIsComplete, EntryOf, TypeOK, Unfinished, callVars, chanVars,
       replyVars
<1>10. AnswerIsOwn'
  BY DEF Inv, ResolveLag, AnswerIsOwn, TypeOK, callVars, chanVars, replyVars
<1>11. AcceptedIsDelivered'
  BY DEF Inv, ResolveLag, AcceptedIsDelivered, Missed, TypeOK, callVars, chanVars, replyVars
<1> QED BY <1>k, <1>1, <1>2, <1>3, <1>4, <1>5, <1>6, <1>7, <1>8, <1>9, <1>10, <1>11 DEF Inv

\* Receive keeps the invariant.
LEMMA ReceiveInv ==
    ASSUME Inv, NEW r \in Reqs, Receive(r)
    PROVE  Inv'
<1> USE ConstantsAssumption
<1>u. UNCHANGED <<slot, pending, nextId, conn, connPeer, captured, queue, held, target,
     via, reqId, answer, accepted, restarts>>
  BY DEF Receive, callVars, chanVars, replyVars
<1>k. StreamNamed' /\ SlotOwned' /\ CapturedUnbound' /\ IdsOfConnDistinct'
  BY <1>u DEF Inv, StreamNamed, SlotOwned, CapturedUnbound, IdsOfConnDistinct
<1>1. TypeOK'
  BY DEF Inv, Receive, TypeOK, callVars, chanVars, replyVars, Unfinished, Final
<1>2. CallPlaced'
  BY DEF Inv, Receive, CallPlaced, TypeOK, Unfinished, callVars, chanVars, replyVars
<1>3. EnvelopesSent'
  BY DEF Inv, Receive, EnvelopesSent, TypeOK, EnvelopeOf, SentEnvelope, callVars, chanVars,
       replyVars
<1>4. EntriesMade'
  BY DEF Inv, Receive, EntriesMade, TypeOK, EntryOf, callVars, chanVars, replyVars
<1>5. IdsTaken'
  BY DEF Inv, Receive, IdsTaken, TypeOK, Current, EntryOf, Unfinished, callVars, chanVars,
       replyVars
<1>6. CurrentIdsDistinct'
  BY DEF Inv, Receive, CurrentIdsDistinct, TypeOK, Current, EntryOf, Unfinished, callVars,
       chanVars, replyVars
<1>7. EntryPending'
  BY DEF Inv, Receive, EntryPending, TypeOK, EntryOf, callVars, chanVars, replyVars
<1>8. EnvelopeKept'
  BY DEF Inv, Receive, EnvelopeKept, TypeOK, Alive, EnvelopeOf, callVars, chanVars,
       replyVars
<1>9. CleanupIsComplete'
  BY DEF Inv, Receive, CleanupIsComplete, EntryOf, TypeOK, Unfinished, callVars, chanVars, replyVars
<1>10. AnswerIsOwn'
  BY DEF Inv, Receive, AnswerIsOwn, TypeOK, callVars, chanVars, replyVars
<1>11. AcceptedIsDelivered'
  BY DEF Inv, Receive, AcceptedIsDelivered, Missed, TypeOK, callVars, chanVars, replyVars
<1> QED BY <1>k, <1>1, <1>2, <1>3, <1>4, <1>5, <1>6, <1>7, <1>8, <1>9, <1>10, <1>11 DEF Inv

\* Timeout keeps the invariant.
LEMMA TimeoutInv ==
    ASSUME Inv, NEW r \in Reqs, Timeout(r)
    PROVE  Inv'
<1> USE ConstantsAssumption
<1>u. UNCHANGED <<slot, pending, nextId, conn, connPeer, captured, queue, held, target,
     via, reqId, answer, accepted, restarts>>
  BY DEF Timeout, callVars, chanVars, replyVars
<1>k. StreamNamed' /\ SlotOwned' /\ CapturedUnbound' /\ IdsOfConnDistinct'
  BY <1>u DEF Inv, StreamNamed, SlotOwned, CapturedUnbound, IdsOfConnDistinct
<1>1. TypeOK'
  BY DEF Inv, Timeout, Awaiting, TypeOK, callVars, chanVars, replyVars, Unfinished, Final
<1>2. CallPlaced'
  BY DEF Inv, Timeout, Awaiting, CallPlaced, TypeOK, Unfinished, callVars, chanVars, replyVars
<1>3. EnvelopesSent'
  BY DEF Inv, Timeout, Awaiting, EnvelopesSent, TypeOK, EnvelopeOf, SentEnvelope, callVars,
     chanVars,
       replyVars
<1>4. EntriesMade'
  BY DEF Inv, Timeout, Awaiting, EntriesMade, TypeOK, EntryOf, callVars, chanVars, replyVars
<1>5. IdsTaken'
  BY DEF Inv, Timeout, Awaiting, IdsTaken, TypeOK, Current, EntryOf, Unfinished, callVars, chanVars,
       replyVars
<1>6. CurrentIdsDistinct'
  BY DEF Inv, Timeout, Awaiting, CurrentIdsDistinct, TypeOK, Current, EntryOf, Unfinished, callVars,
       chanVars, replyVars
<1>7. EntryPending'
  BY DEF Inv, Timeout, Awaiting, EntryPending, TypeOK, EntryOf, callVars, chanVars, replyVars
<1>8. EnvelopeKept'
  BY DEF Inv, Timeout, Awaiting, EnvelopeKept, TypeOK, Alive, EnvelopeOf, callVars, chanVars,
       replyVars
<1>9. CleanupIsComplete'
  BY DEF Inv, Timeout, Awaiting, CleanupIsComplete, EntryOf, TypeOK, Unfinished, callVars,
     chanVars, replyVars
<1>10. AnswerIsOwn'
  BY DEF Inv, Timeout, Awaiting, AnswerIsOwn, TypeOK, callVars, chanVars, replyVars
<1>11. AcceptedIsDelivered'
  <2>1. \A s \in Reqs : caller[s] = "replied" => answer[s] # None
    BY DEF Inv, AnswerIsOwn
  <2>2. \A e \in accepted : e.req \in Reqs
    BY DEF Inv, TypeOK, Envelope
  <2> QED BY <2>1, <2>2
          DEF Inv, Timeout, Awaiting, AcceptedIsDelivered, Missed, TypeOK, callVars, replyVars
<1> QED BY <1>k, <1>1, <1>2, <1>3, <1>4, <1>5, <1>6, <1>7, <1>8, <1>9, <1>10, <1>11 DEF Inv

\* Abandon keeps the invariant.
LEMMA AbandonInv ==
    ASSUME Inv, NEW r \in Reqs, Abandon(r)
    PROVE  Inv'
<1> USE ConstantsAssumption
<1>u. UNCHANGED <<slot, pending, nextId, conn, connPeer, captured, queue, held, target,
     via, reqId, answer, accepted, restarts>>
  BY DEF Abandon, callVars, chanVars, replyVars
<1>k. StreamNamed' /\ SlotOwned' /\ CapturedUnbound' /\ IdsOfConnDistinct'
  BY <1>u DEF Inv, StreamNamed, SlotOwned, CapturedUnbound, IdsOfConnDistinct
<1>1. TypeOK'
  BY DEF Inv, Abandon, Awaiting, TypeOK, callVars, chanVars, replyVars, Unfinished, Final
<1>2. CallPlaced'
  BY DEF Inv, Abandon, Awaiting, CallPlaced, TypeOK, Unfinished, callVars, chanVars, replyVars
<1>3. EnvelopesSent'
  BY DEF Inv, Abandon, Awaiting, EnvelopesSent, TypeOK, EnvelopeOf, SentEnvelope, callVars,
     chanVars,
       replyVars
<1>4. EntriesMade'
  BY DEF Inv, Abandon, Awaiting, EntriesMade, TypeOK, EntryOf, callVars, chanVars, replyVars
<1>5. IdsTaken'
  BY DEF Inv, Abandon, Awaiting, IdsTaken, TypeOK, Current, EntryOf, Unfinished, callVars, chanVars,
       replyVars
<1>6. CurrentIdsDistinct'
  BY DEF Inv, Abandon, Awaiting, CurrentIdsDistinct, TypeOK, Current, EntryOf, Unfinished, callVars,
       chanVars, replyVars
<1>7. EntryPending'
  BY DEF Inv, Abandon, Awaiting, EntryPending, TypeOK, EntryOf, callVars, chanVars, replyVars
<1>8. EnvelopeKept'
  BY DEF Inv, Abandon, Awaiting, EnvelopeKept, TypeOK, Alive, EnvelopeOf, callVars, chanVars,
       replyVars
<1>9. CleanupIsComplete'
  BY DEF Inv, Abandon, Awaiting, CleanupIsComplete, EntryOf, TypeOK, Unfinished, callVars,
     chanVars, replyVars
<1>10. AnswerIsOwn'
  BY DEF Inv, Abandon, Awaiting, AnswerIsOwn, TypeOK, callVars, chanVars, replyVars
<1>11. AcceptedIsDelivered'
  <2>1. \A s \in Reqs : caller[s] = "replied" => answer[s] # None
    BY DEF Inv, AnswerIsOwn
  <2>2. \A e \in accepted : e.req \in Reqs
    BY DEF Inv, TypeOK, Envelope
  <2> QED BY <2>1, <2>2
          DEF Inv, Abandon, Awaiting, AcceptedIsDelivered, Missed, TypeOK, callVars, replyVars
<1> QED BY <1>k, <1>1, <1>2, <1>3, <1>4, <1>5, <1>6, <1>7, <1>8, <1>9, <1>10, <1>11 DEF Inv

\* RespondMatched keeps the invariant.
LEMMA RespondMatchedInv ==
    ASSUME Inv, NEW env \in held, RespondMatched(env)
    PROVE  Inv'
<1> USE ConstantsAssumption
<1>u. UNCHANGED <<slot, nextId, conn, connPeer, captured, queue, held, target, via, reqId,
     restarts>>
  BY DEF RespondMatched, callVars, chanVars
<1>k. StreamNamed' /\ SlotOwned' /\ CapturedUnbound' /\ IdsOfConnDistinct'
  BY <1>u DEF Inv, StreamNamed, SlotOwned, CapturedUnbound, IdsOfConnDistinct
<1>0. /\ env \in Envelope /\ SentEnvelope(env)
      /\ UNCHANGED <<slot, conn, connPeer, captured, nextId, queue, held, target, via,
                    reqId, restarts>>
  BY DEF RespondMatched, chanVars, callVars, Inv, TypeOK, EnvelopesSent
<1>m. PICK q \in Matches(env) :
        /\ pending' = {e \in pending : e.id # q.id}
        /\ \/ /\ caller[q.req] = "waiting"
              /\ caller' = [caller EXCEPT ![q.req] = "replied"]
              /\ answer' = [answer EXCEPT ![q.req] = env.req]
              /\ accepted' = accepted \cup {env}
           \/ /\ caller[q.req] # "waiting"
              /\ UNCHANGED <<caller, answer, accepted>>
  BY DEF RespondMatched
<1>q. q \in pending /\ q = EntryOf(q.req) /\ q.req \in Reqs /\ q.id = env.id /\ q.chan = env.chan
  BY DEF Matches, Inv, EntriesMade, TypeOK, Pending
<1>r. q.req = env.req
  <2>1. env.req \in Reqs /\ env.chan = via[env.req] /\ env.id = reqId[env.req]
    BY <1>0 DEF SentEnvelope, EnvelopeOf, Envelope
  <2>2. q.chan = via[q.req] /\ q.id = reqId[q.req] /\ via[q.req] # None
    BY <1>q, ConstantsAssumption DEF EntryOf, Inv, TypeOK, Pending
  <2> QED BY <2>1, <2>2, <1>q DEF Inv, IdsOfConnDistinct
<1>c. /\ \A r \in Reqs : caller'[r] = IF r = q.req /\ caller[r] = "waiting"
                                  THEN "replied" ELSE caller[r]
      /\ caller' \in [Reqs -> {"idle"} \cup Unfinished \cup Final]
  BY <1>m, <1>q, ZenonT(60) DEF Inv, TypeOK, Unfinished, Final
<1>e. \A r : EntryOf(r)' = EntryOf(r)
  BY <1>0 DEF EntryOf
<1>1. TypeOK'
  <2>1. env.req \in Reqs
    BY <1>q, <1>r
  <2>2. answer' \in [Reqs -> Reqs \cup {None}]
    BY <1>m, <2>1 DEF Inv, TypeOK
  <2>3. pending' \in SUBSET Pending /\ accepted' \in SUBSET Envelope
    BY <1>m, <1>0 DEF Inv, TypeOK
  <2> QED BY <2>2, <2>3, <1>c, <1>0 DEF Inv, TypeOK
<1>2. CallPlaced'
  BY DEF Inv, RespondMatched, CallPlaced, TypeOK, Matches, Unfinished, callVars, chanVars
<1>3. EnvelopesSent'
  BY SMTT(30) DEF Inv, RespondMatched, EnvelopesSent, Envelope, TypeOK, EnvelopeOf, Matches,
       SentEnvelope, callVars, chanVars
<1>4. EntriesMade'
  BY DEF Inv, RespondMatched, EntriesMade, Pending, TypeOK, EntryOf, Matches, callVars,
       chanVars
<1>5. IdsTaken'
  BY DEF Inv, RespondMatched, IdsTaken, TypeOK, Current, EntryOf, Matches, Unfinished,
       callVars, chanVars
<1>6. CurrentIdsDistinct'
  <2>1. \A r \in Reqs : Current(r)' => Current(r)
    BY <1>m, <1>e, <1>q DEF Current, Unfinished, Inv, TypeOK
  <2> QED BY <2>1, <1>0 DEF Inv, CurrentIdsDistinct
<1>7. EntryPending'
  <2> SUFFICES ASSUME NEW r \in Reqs, caller'[r] \in {"waiting", "lagging"}
               PROVE  EntryOf(r) \in pending'
    BY <1>e DEF EntryPending
  <2>1. caller[r] \in {"waiting", "lagging"} /\ (r = q.req => caller[r] # "waiting")
    BY <1>c
  <2>2. EntryOf(r) \in pending /\ Current(r) /\ Current(q.req)
    BY <2>1, <1>q DEF Inv, EntryPending, Current
  <2>3. r # q.req
    <3>1. SUFFICES ASSUME r = q.req PROVE FALSE
      OBVIOUS
    <3>2. caller[env.req] = "lagging"
      BY <2>1, <3>1, <1>r
    <3> QED BY <3>2, <1>0 DEF SentEnvelope
  <2>4. reqId[r] # reqId[q.req]
    BY <2>2, <2>3, <1>q DEF Inv, CurrentIdsDistinct
  <2>5. EntryOf(r).id = reqId[r] /\ q.id = reqId[q.req]
    BY <1>q DEF EntryOf
  <2> QED BY <2>2, <2>4, <2>5, <1>m
<1>8. EnvelopeKept'
  <2>1. \A r \in Reqs : caller'[r] \in {"sent", "waiting"} => caller[r] \in {"sent", "waiting"}
    BY <1>c
  <2>2. \A r : EnvelopeOf(r)' = EnvelopeOf(r)
    BY <1>0 DEF EnvelopeOf
  <2> QED BY <2>1, <2>2, <1>0 DEF Inv, EnvelopeKept
<1>9. CleanupIsComplete'
  BY DEF Inv, RespondMatched, CleanupIsComplete, EntryOf, TypeOK, Matches, Unfinished, callVars,
       chanVars
<1>10. AnswerIsOwn'
  BY <1>m, <1>q, <1>r DEF Inv, AnswerIsOwn, TypeOK
<1>11. AcceptedIsDelivered'
  <2>1. \A e \in accepted :
            /\ e.req \in Reqs
            /\ caller'[e.req] \in {"replied", "answered"} \/ Missed(e.req)'
    <3> SUFFICES ASSUME NEW e \in accepted
                 PROVE  /\ e.req \in Reqs
                        /\ caller'[e.req] \in {"replied", "answered"} \/ Missed(e.req)'
      OBVIOUS
    <3>1. e.req \in Reqs /\ caller[e.req] \in {"replied", "answered", "504", "gone"}
      BY DEF Inv, AcceptedIsDelivered, Missed, TypeOK, Envelope
    <3>2. caller'[e.req] = caller[e.req] /\ answer'[e.req] = answer[e.req]
      BY <3>1, <1>c, <1>m, <1>q DEF Inv, TypeOK
    <3> QED BY <3>1, <3>2 DEF Inv, AcceptedIsDelivered, Missed
  <2>2. accepted' # accepted => accepted' = accepted \cup {env} /\ caller'[env.req] = "replied"
    BY <1>m, <1>q, <1>r, <1>c
  <2> QED BY <2>1, <2>2 DEF AcceptedIsDelivered, Missed
<1> QED BY <1>k, <1>1, <1>2, <1>3, <1>4, <1>5, <1>6, <1>7, <1>8, <1>9, <1>10, <1>11 DEF Inv

\* RespondUnmatched keeps the invariant.
LEMMA RespondUnmatchedInv ==
    ASSUME Inv, NEW env \in held, RespondUnmatched(env)
    PROVE  Inv'
<1> USE ConstantsAssumption
<1>u. UNCHANGED <<slot, pending, nextId, conn, connPeer, captured, queue, held, caller,
     target, via, reqId, answer, accepted, restarts>>
  BY DEF RespondUnmatched, vars, callVars, chanVars
<1>k. StreamNamed' /\ SlotOwned' /\ CapturedUnbound' /\ CallPlaced' /\ EnvelopesSent' /\
     EntriesMade' /\ IdsOfConnDistinct' /\ IdsTaken' /\ CurrentIdsDistinct' /\
     EntryPending' /\ EnvelopeKept' /\ CleanupIsComplete' /\ AnswerIsOwn' /\
     AcceptedIsDelivered'
  BY <1>u DEF Inv, StreamNamed, SlotOwned, CapturedUnbound, CallPlaced, EnvelopesSent,
       EntriesMade, IdsOfConnDistinct, IdsTaken, CurrentIdsDistinct, EntryPending,
       EnvelopeKept, CleanupIsComplete, AnswerIsOwn, AcceptedIsDelivered, Missed, Current, EntryOf,
       EnvelopeOf, SentEnvelope
<1>1. TypeOK'
  BY DEF Inv, RespondUnmatched, TypeOK, Matches, vars, callVars, chanVars
<1> QED BY <1>k, <1>1 DEF Inv

\* Restart keeps the invariant.
LEMMA RestartInv ==
    ASSUME Inv, Restart
    PROVE  Inv'
<1> USE ConstantsAssumption
<1>u. UNCHANGED <<connPeer, captured, held, target, via, reqId, answer, accepted>>
  BY DEF Restart, callVars, replyVars
<1>k. IdsOfConnDistinct'
  BY <1>u DEF Inv, IdsOfConnDistinct
<1>1. TypeOK'
  BY DEF Inv, Restart, TypeOK, Unfinished, callVars, replyVars, Final
<1>2. StreamNamed'
  BY DEF Inv, Restart, StreamNamed, TypeOK, Unfinished, callVars, replyVars
<1>3. SlotOwned'
  BY DEF Inv, Restart, SlotOwned, TypeOK, Unfinished, callVars, replyVars
<1>4. CapturedUnbound'
  <2>0. /\ UNCHANGED <<connPeer, captured>>
        /\ slot' = [p \in Peers |-> None]
        /\ conn' = [c \in Conns |-> IF conn[c] = "unused" THEN "unused" ELSE "ended"]
    BY DEF Restart
  <2>1. \A c \in Conns : captured[c] # None => captured[c] \in Conns
    BY DEF Inv, TypeOK
  <2> QED BY <2>0, <2>1 DEF Inv, CapturedUnbound
<1>5. CallPlaced'
  BY DEF Inv, Restart, CallPlaced, TypeOK, Unfinished, callVars, replyVars
<1>6. EnvelopesSent'
  BY DEF Inv, Restart, EnvelopesSent, Envelope, TypeOK, EnvelopeOf, SentEnvelope,
       Unfinished, callVars, replyVars
<1>7. EntriesMade'
  BY DEF Inv, Restart, EntriesMade, Pending, TypeOK, EntryOf, Unfinished, callVars,
       replyVars
<1>8. IdsTaken'
  BY DEF Inv, Restart, IdsTaken, CallPlaced, TypeOK, Current, EntryOf, Unfinished,
       callVars, replyVars
<1>9. CurrentIdsDistinct'
  BY DEF Inv, Restart, CurrentIdsDistinct, TypeOK, Current, EntryOf, Unfinished, callVars,
       replyVars
<1>10. EntryPending'
  BY DEF Inv, Restart, EntryPending, TypeOK, EntryOf, Unfinished, callVars, replyVars
<1>11. EnvelopeKept'
  BY DEF Inv, Restart, EnvelopeKept, TypeOK, Alive, EnvelopeOf, Unfinished, callVars,
       replyVars
<1>12. CleanupIsComplete'
  BY DEF Inv, Restart, CleanupIsComplete, EntryOf, TypeOK, Unfinished, callVars, replyVars
<1>13. AnswerIsOwn'
  BY DEF Inv, Restart, AnswerIsOwn, TypeOK, Unfinished, callVars, replyVars
<1>14. AcceptedIsDelivered'
  <2>1. \A s \in Reqs : caller[s] = "replied" => answer[s] # None
    BY DEF Inv, AnswerIsOwn
  <2>2. \A e \in accepted : e.req \in Reqs
    BY DEF Inv, TypeOK, Envelope
  <2> QED BY <2>1, <2>2
          DEF Inv, Restart, AcceptedIsDelivered, Missed, TypeOK, Unfinished, replyVars
<1> QED BY <1>k, <1>1, <1>2, <1>3, <1>4, <1>5, <1>6, <1>7, <1>8, <1>9, <1>10, <1>11, <1>12,
     <1>13, <1>14 DEF Inv

-----------------------------------------------------------------------------
LEMMA InitInv == Init => Inv
<1> SUFFICES ASSUME Init PROVE Inv
  OBVIOUS
<1> USE ConstantsAssumption
<1>1. \A r \in Reqs : caller[r] = "idle" /\ via[r] = None
  BY DEF Init
<1>2. \A c \in Conns : queue[c] = <<>> /\ conn[c] = "unused" /\ captured[c] = None
  BY DEF Init
<1>3. TypeOK
  BY EmptySeq DEF Init, TypeOK
<1>4. SlotOwned /\ CapturedUnbound /\ StreamNamed
  BY <1>2 DEF Init, SlotOwned, CapturedUnbound, StreamNamed
<1>5. CallPlaced /\ EntryPending /\ EnvelopeKept /\ CleanupIsComplete
  BY <1>1, <1>2 DEF CallPlaced, EntryPending, EnvelopeKept, CleanupIsComplete, Unfinished
<1>6. EnvelopesSent
  BY <1>2 DEF Init, EnvelopesSent
<1>7. EntriesMade /\ IdsOfConnDistinct
  BY <1>1 DEF Init, EntriesMade, IdsOfConnDistinct
<1>8. IdsTaken /\ CurrentIdsDistinct
  BY <1>1 DEF Init, IdsTaken, CurrentIdsDistinct, Current, Unfinished
<1>9. AnswerIsOwn /\ AcceptedIsDelivered
  BY <1>1 DEF Init, AnswerIsOwn, AcceptedIsDelivered, Missed
<1> QED BY <1>3, <1>4, <1>5, <1>6, <1>7, <1>8, <1>9 DEF Inv

\* Every step keeps the invariant, one lemma above per action.
LEMMA NextInv == Inv /\ [Next]_vars => Inv'
<1> SUFFICES ASSUME Inv, [Next]_vars PROVE Inv'
  OBVIOUS
<1>1. CASE \E p \in Peers, c \in Conns : Bind(p, c)
  BY <1>1, BindInv
<1>2. CASE \E c \in Conns : \/ StartStream(c) \/ AbandonOpen(c) \/ PushEvent(c)
                            \/ RemoveSlot(c) \/ FailPeer(c)
  BY <1>2, StartStreamInv, AbandonOpenInv, PushEventInv, RemoveSlotInv, FailPeerInv
<1>3. CASE \E r \in Reqs, p \in Peers : \/ DeliverUnbound(r, p) \/ DeliverClosed(r, p)
                                        \/ DeliverSend(r, p) \/ DeliverFull(r, p)
  BY <1>3, DeliverUnboundInv, DeliverClosedInv, DeliverSendInv, DeliverFullInv
<1>4. CASE \E r \in Reqs : \/ InsertPending(r) \/ ResolveLag(r) \/ Receive(r) \/ Timeout(r)
                            \/ Abandon(r)
  BY <1>4, InsertPendingInv, ResolveLagInv, ReceiveInv, TimeoutInv, AbandonInv
<1>5. CASE \E env \in held : Respond(env)
  BY <1>5, RespondMatchedInv, RespondUnmatchedInv DEF Respond
<1>6. CASE Restart
  BY <1>6, RestartInv
<1>7. CASE UNCHANGED vars
  BY <1>7 DEF vars, Inv, TypeOK, StreamNamed, SlotOwned, CapturedUnbound, CallPlaced,
              EnvelopesSent, SentEnvelope, EntriesMade, IdsOfConnDistinct, IdsTaken, Current,
              CurrentIdsDistinct, EntryPending, EnvelopeKept, CleanupIsComplete, AnswerIsOwn,
              AcceptedIsDelivered, Missed, EnvelopeOf, EntryOf
<1> QED BY <1>1, <1>2, <1>3, <1>4, <1>5, <1>6, <1>7 DEF Next

\* The inductive invariant holds in every reachable state, for any number of
\* peers, connections, calls and restarts and any queue depth.
THEOREM Invariant == Spec => []Inv
<1> QED BY InitInv, NextInv, PTL DEF Spec

\* Type correctness, with the bound of every queue.
THEOREM TypeCorrect == Spec => []TypeOK
<1>1. Inv => TypeOK
  BY DEF Inv
<1> QED BY <1>1, Invariant, PTL

\* A caller is only handed the answer to its own request, across reconnections
\* and across restarts that start the correlation ids again (channel.rs:211-223).
THEOREM AnswersAreOwn == Spec => []AnswerIsOwn
<1>1. Inv => AnswerIsOwn
  BY DEF Inv
<1> QED BY <1>1, Invariant, PTL

\* A waiting caller always has the entry that an answer, a closing channel or
\* nobody at all will find (channel.rs:165-174).
THEOREM WaitersArePending == Spec => []WaitingIsPending
<1>1. Inv => WaitingIsPending
  BY DEF Inv, EntryPending, WaitingIsPending
<1> QED BY <1>1, Invariant, PTL

\* No caller is left behind on a secret that a finished cleanup took out of
\* the map (channel.rs:112-143).
THEOREM CleanupsAreComplete == Spec => []CleanupIsComplete
<1>1. Inv => CleanupIsComplete
  BY DEF Inv
<1> QED BY <1>1, Invariant, PTL

\* A call refused with 503 never left the switchboard (channel.rs:176-188).
THEOREM LaggedAreUnsent == Spec => []LaggedIsUnsent
<1>1. Inv => LaggedIsUnsent
  BY DEF Inv, EnvelopesSent, SentEnvelope, LaggedIsUnsent
<1> QED BY <1>1, Invariant, PTL

\* The queue of a live connection loses no envelope (channel.rs:299-319).
THEOREM NothingDropped == Spec => []NoSilentDrop
<1>1. Inv => NoSilentDrop
  BY DEF Inv, EnvelopeKept, NoSilentDrop
<1> QED BY <1>1, Invariant, PTL

\* 200 to the peer means that the answer lies in the caller's oneshot or was
\* read from it, unless the caller met its deadline or left before it looked
\* (channel.rs:214-223, peers.rs:809-833).
THEOREM AcceptedAreDelivered == Spec => []AcceptedIsDelivered
<1>1. Inv => AcceptedIsDelivered
  BY DEF Inv
<1> QED BY <1>1, Invariant, PTL

-----------------------------------------------------------------------------
\* One step of the channel is one step of ProxiedCall, or none.
LEMMA StepRefines == Inv /\ Inv' /\ [Next]_vars => [Call!Next]_<<callStatus, handed>>
<1> SUFFICES ASSUME Inv, Inv', [Next]_vars
             PROVE  Call!Next \/ UNCHANGED <<callStatus, handed>>
  OBVIOUS
<1>t. /\ caller \in [Reqs -> {"idle"} \cup Unfinished \cup Final]
      /\ caller' \in [Reqs -> {"idle"} \cup Unfinished \cup Final]
      /\ answer \in [Reqs -> Reqs \cup {None}]
  BY DEF Inv, TypeOK
<1> DEFINE Status(v) == IF v = "idle" THEN "idle" ELSE
                        IF v \in Unfinished THEN "busy" ELSE
                        IF v = "answered" THEN "answered" ELSE "failed"
<1>s. /\ \A r \in Reqs : callStatus[r] = Status(caller[r])
      /\ \A r \in Reqs : callStatus'[r] = Status(caller'[r])
      /\ callStatus = [r \in Reqs |-> callStatus[r]]
      /\ callStatus' = [r \in Reqs |-> callStatus'[r]]
  BY <1>t DEF callStatus, Unfinished, Final
<1>u. (\A r \in Reqs : Status(caller'[r]) = Status(caller[r])) => UNCHANGED callStatus
  BY <1>s
<1> HIDE DEF Status
\* A step that moves one call.
<1>o. ASSUME NEW r \in Reqs, NEW v, caller' = [caller EXCEPT ![r] = v]
      PROVE  callStatus' = [callStatus EXCEPT ![r] = Status(v)]
  <2>1. \A s \in Reqs : caller'[s] = IF s = r THEN v ELSE caller[s]
    BY <1>o, <1>t
  <2>2. \A s \in Reqs : callStatus'[s] = IF s = r THEN Status(v) ELSE callStatus[s]
    BY <2>1, <1>s
  <2> QED BY <2>2, <1>s
<1>st. Status("idle") = "idle" /\ Status("answered") = "answered"
       /\ (\A v \in Unfinished : Status(v) = "busy")
       /\ (\A v \in {"502", "503", "504", "gone"} : Status(v) = "failed")
  BY DEF Status, Unfinished
\* A step after which the same calls have the same answers.
<1>h. ASSUME \A r \in Reqs : caller'[r] = "answered" <=> caller[r] = "answered",
             \A r \in Reqs : caller[r] = "answered" => answer'[r] = answer[r]
      PROVE  UNCHANGED handed
  <2>1. \A r \in Reqs : (IF caller'[r] = "answered" THEN answer'[r] ELSE None)
                       = (IF caller[r] = "answered" THEN answer[r] ELSE None)
    BY <1>h
  <2> QED BY <2>1 DEF handed
\* A step that fails the calls of S.
<1>f. ASSUME NEW S \in SUBSET Reqs, UNCHANGED handed,
             \A r \in S : Status(caller[r]) = "busy" /\ Status(caller'[r]) = "failed",
             \A r \in Reqs \ S : caller'[r] = caller[r]
      PROVE  Call!Next
  <2>1. \A r \in S : callStatus[r] = "busy"
    BY <1>f, <1>s
  <2>2. \A r \in Reqs : callStatus'[r] = IF r \in S THEN "failed" ELSE callStatus[r]
    BY <1>f, <1>s
  <2>3. callStatus' = [r \in Reqs |-> IF r \in S THEN "failed" ELSE callStatus[r]]
    BY <2>2, <1>s
  <2>4. Call!Fail(S)
    BY <2>1, <2>3, <1>f DEF Call!Fail
  <2> QED BY <2>4 DEF Call!Next
<1>1. CASE \E p \in Peers, c \in Conns : Bind(p, c)
  BY <1>1 DEF Bind, replyVars, callStatus, handed
<1>2. CASE \E c \in Conns : StartStream(c) \/ AbandonOpen(c) \/ PushEvent(c) \/ RemoveSlot(c)
  BY <1>2 DEF StartStream, AbandonOpen, PushEvent, RemoveSlot, replyVars, callStatus, handed
<1>3. ASSUME NEW c \in Conns, FailPeer(c)
      PROVE  UNCHANGED <<callStatus, handed>>
  <2>1. UNCHANGED answer /\ \A r \in Reqs :
            caller'[r] = caller[r] \/ (caller[r] = "waiting" /\ caller'[r] = "failed")
    BY <1>3 DEF FailPeer, replyVars
  <2>2. \A r \in Reqs : Status(caller'[r]) = Status(caller[r])
    BY <2>1, <1>st DEF Unfinished
  <2> QED BY <2>1, <2>2, <1>u, <1>h
<1>4. ASSUME NEW r \in Reqs, NEW p \in Peers, DeliverUnbound(r, p) \/ DeliverClosed(r, p)
      PROVE  Call!Next
  <2>1. caller[r] = "idle" /\ caller' = [caller EXCEPT ![r] = "502"] /\ UNCHANGED answer
    BY <1>4 DEF DeliverUnbound, DeliverClosed, TakeId, replyVars
  <2>2. callStatus[r] = "idle" /\ callStatus' = [callStatus EXCEPT ![r] = Status("502")]
    BY <2>1, <1>o, <1>s, <1>st
  <2>3. Status("502") = "failed"
    BY <1>st
  <2>4. UNCHANGED handed
    BY <2>1, <1>t, <1>h
  <2>5. Call!Reject(r)
    BY <2>2, <2>3, <2>4 DEF Call!Reject
  <2> QED BY <2>5 DEF Call!Next
<1>5. ASSUME NEW r \in Reqs, NEW p \in Peers, DeliverSend(r, p) \/ DeliverFull(r, p)
      PROVE  Call!Next
  <2>1. PICK v \in Unfinished : caller' = [caller EXCEPT ![r] = v]
    BY <1>5 DEF DeliverSend, DeliverFull, Unfinished
  <2>2. caller[r] = "idle" /\ UNCHANGED answer
    BY <1>5 DEF DeliverSend, DeliverFull, TakeId, replyVars
  <2>3. callStatus[r] = "idle" /\ callStatus' = [callStatus EXCEPT ![r] = Status(v)]
    BY <2>1, <2>2, <1>o, <1>s, <1>st
  <2>4. Status(v) = "busy"
    BY <1>st
  <2>5. UNCHANGED handed
    BY <2>1, <2>2, <1>t, <1>h DEF Unfinished
  <2>6. Call!Start(r)
    BY <2>3, <2>4, <2>5 DEF Call!Start
  <2> QED BY <2>6 DEF Call!Next
<1>6. ASSUME NEW r \in Reqs, InsertPending(r)
      PROVE  UNCHANGED <<callStatus, handed>>
  <2>1. caller[r] = "sent" /\ caller' = [caller EXCEPT ![r] = "waiting"] /\ UNCHANGED answer
    BY <1>6 DEF InsertPending, replyVars
  <2>2. \A s \in Reqs : Status(caller'[s]) = Status(caller[s])
    BY <2>1, <1>t, <1>st DEF Unfinished
  <2> QED BY <2>1, <2>2, <1>u, <1>t, <1>h
\* A call that ends without an answer.
<1>e. ASSUME NEW r \in Reqs, NEW v \in {"502", "503", "504", "gone"}, UNCHANGED answer,
             caller[r] \in Unfinished, caller' = [caller EXCEPT ![r] = v]
      PROVE  Call!Next
  <2>1. caller'[r] = v /\ \A s \in Reqs \ {r} : caller'[s] = caller[s]
    BY <1>e, <1>t
  <2>2. UNCHANGED handed
    BY <1>e, <2>1, <1>h DEF Unfinished
  <2>3. Status(caller[r]) = "busy" /\ Status(caller'[r]) = "failed"
    BY <1>e, <2>1, <1>st
  <2> QED BY <2>1, <2>2, <2>3, <1>f
<1>7. ASSUME NEW r \in Reqs, ResolveLag(r) \/ Timeout(r) \/ Abandon(r)
      PROVE  Call!Next
  <2>1. PICK v \in {"502", "503", "504", "gone"} : caller' = [caller EXCEPT ![r] = v]
    BY <1>7 DEF ResolveLag, Timeout, Abandon
  <2>2. caller[r] \in Unfinished /\ UNCHANGED answer
    BY <1>7 DEF ResolveLag, Timeout, Abandon, replyVars, Unfinished, Awaiting
  <2> QED BY <2>1, <2>2, <1>e
<1>8. ASSUME NEW r \in Reqs, Receive(r)
      PROVE  Call!Next
  <2>1. UNCHANGED answer
    BY <1>8 DEF Receive, replyVars
  <2>2. CASE caller[r] = "failed"
    <3>1. caller' = [caller EXCEPT ![r] = "502"]
      BY <2>2, <1>8 DEF Receive
    <3> QED BY <2>1, <2>2, <3>1, <1>e DEF Unfinished
  <2>3. CASE caller[r] = "replied"
    <3>1. caller' = [caller EXCEPT ![r] = "answered"]
      BY <2>3, <1>8 DEF Receive
    <3>2. \A s \in Reqs : caller'[s] = IF s = r THEN "answered" ELSE caller[s]
      BY <3>1, <1>t
    <3>3. answer[r] = r
      BY <2>3 DEF Inv, AnswerIsOwn
    <3>4. \A s \in Reqs : handed'[s] = IF s = r THEN r ELSE handed[s]
      BY <2>1, <3>2, <3>3 DEF handed
    <3>5. handed' = [handed EXCEPT ![r] = r]
      BY <3>4 DEF handed
    <3>6. callStatus' = [callStatus EXCEPT ![r] = Status("answered")]
      BY <3>1, <1>o
    <3>7. callStatus[r] = "busy" /\ Status("answered") = "answered"
      BY <2>3, <1>s, <1>st DEF Unfinished
    <3>8. Call!Answer(r)
      BY <3>5, <3>6, <3>7 DEF Call!Answer
    <3> QED BY <3>8 DEF Call!Next
  <2> QED BY <2>2, <2>3, <1>8 DEF Receive
<1>9. ASSUME NEW env \in held, RespondMatched(env)
      PROVE  UNCHANGED <<callStatus, handed>>
  <2>1. CASE UNCHANGED <<caller, answer>>
    BY <2>1 DEF callStatus, handed, Unfinished
  <2>2. CASE ~ UNCHANGED <<caller, answer>>
    <3>1. PICK r \in Reqs : /\ caller[r] = "waiting"
                            /\ caller' = [caller EXCEPT ![r] = "replied"]
                            /\ answer' = [answer EXCEPT ![r] = env.req]
      BY <1>9, <2>2 DEF RespondMatched, Matches, Inv, TypeOK, Pending
    <3>2. \A s \in Reqs : /\ caller'[s] = IF s = r THEN "replied" ELSE caller[s]
                          /\ s # r => answer'[s] = answer[s]
      BY <3>1, <1>t
    <3>3. \A s \in Reqs : Status(caller'[s]) = Status(caller[s])
      BY <3>1, <3>2, <1>st DEF Unfinished
    <3> QED BY <3>1, <3>2, <3>3, <1>u, <1>h
  <2> QED BY <2>1, <2>2
<1>10. ASSUME NEW env \in held, RespondUnmatched(env)
       PROVE  UNCHANGED <<callStatus, handed>>
  BY <1>10 DEF RespondUnmatched, vars, callStatus, handed
<1>11. CASE Restart
  <2> DEFINE S == {r \in Reqs : caller[r] \in Unfinished}
  <2>1. UNCHANGED answer /\ \A r \in Reqs : caller'[r] = IF r \in S THEN "gone" ELSE caller[r]
    BY <1>11 DEF Restart, replyVars
  <2>2. \A r \in S : Status(caller[r]) = "busy" /\ Status(caller'[r]) = "failed"
    BY <2>1, <1>st
  <2>3. UNCHANGED handed
    BY <2>1, <1>h DEF Unfinished
  <2> QED BY <2>1, <2>2, <2>3, <1>f
<1>12. CASE UNCHANGED vars
  BY <1>12 DEF vars, callStatus, handed
<1> QED BY <1>1, <1>2, <1>3, <1>4, <1>5, <1>6, <1>7, <1>8, <1>9, <1>10, <1>11, <1>12
     DEF Next, Respond

\* The channel implements ProxiedCall: whatever the streams do, a caller sees a
\* call that starts once and ends once, with its own answer or with an error.
THEOREM Refinement == Spec => CallSpec
<1>1. ASSUME Init PROVE Call!Init
  <2>1. \A r \in Reqs : caller[r] = "idle"
    BY <1>1 DEF Init
  <2>2. callStatus = [r \in Reqs |-> "idle"]
    BY <2>1 DEF callStatus, Unfinished
  <2>3. handed = [r \in Reqs |-> None]
    BY <2>1 DEF handed
  <2> QED BY <2>2, <2>3 DEF Call!Init
<1> QED BY <1>1, InitInv, NextInv, StepRefines, PTL DEF Spec, CallSpec, Call!Spec
=============================================================================
