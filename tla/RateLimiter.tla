---------------------------- MODULE RateLimiter ----------------------------
(***************************************************************************)
(* The rate limiter (RateLimiter::allow of src/state.rs): per key the      *)
(* times of the requests granted in the last minute, under one mutex.  The *)
(* clock is read before the mutex is taken, so threads may come to the     *)
(* mutex with times out of order.                                          *)
(***************************************************************************)
EXTENDS Naturals, Sequences, FiniteSets, SequencesExt

CONSTANTS Keys,      \* client addresses
          Limits,    \* the limits of the endpoints that share a key
          Calls,     \* requests, each decided once
          Window,    \* 60 s
          MaxKeys,   \* how many keys are kept before a cleanup, 10,000
          Skew,      \* bound: how long a thread waits for the mutex
          LastSecond     \* bound: how far the clock runs

ASSUME LimiterAssumption ==
    /\ Limits \subseteq Nat \ {0}
    /\ {Window, MaxKeys, Skew, LastSecond} \subseteq Nat
    /\ Skew <= Window

VARIABLES
    clock,    \* a time t stands for Window + t, so that clock - Window is in Nat
    hits,     \* RateLimiter.hits: from the keys in the map to times
    call,     \* what a call asks, with the time it read
    granted,  \* history: per key the requests that were granted, and when
    late      \* history: a call was decided after the second in which it read the clock

limiterVars == <<clock, hits, call, granted, late>>

Times == Window..(Window + LastSecond)
Idle    == [place |-> "idle"]
Waiting == [place : {"waiting", "granted", "refused"}, key : Keys, limit : Limits, stamp : Times]

\* Mutant of Pruned: a time exactly at the cutoff is popped too.
PrunedTooFar(q, cutoff) ==
    LET first == SelectInSeq(q, LAMBDA t : t > cutoff)
    IN  IF first = 0 THEN <<>> ELSE SubSeq(q, first, Len(q))

\* Times before the cutoff are popped from the front.
Pruned(q, cutoff) ==
    LET first == SelectInSeq(q, LAMBDA t : t >= cutoff)
    IN  IF first = 0 THEN <<>> ELSE SubSeq(q, first, Len(q))

\* Mutant of Cleaned: a key goes when its oldest time is over.
CleanedByFront(cutoff) ==
    IF Cardinality(DOMAIN hits) > MaxKeys
    THEN {k \in DOMAIN hits : hits[k] # <<>> /\ Head(hits[k]) >= cutoff}
    ELSE DOMAIN hits

\* The keys that survive the cleanup, which only happens above MaxKeys.
Cleaned(cutoff) ==
    IF Cardinality(DOMAIN hits) > MaxKeys
    THEN {k \in DOMAIN hits : hits[k] # <<>> /\ Last(hits[k]) >= cutoff}
    ELSE DOMAIN hits

-----------------------------------------------------------------------------
LimiterInit ==
    /\ clock = Window
    /\ hits = <<>>
    /\ call = [c \in Calls |-> Idle]
    /\ granted = [k \in Keys |-> <<>>]
    /\ late = FALSE

\* allow() up to the mutex: the clock is read.
ReadClock(c, k, limit) ==
    /\ call[c] = Idle
    /\ call' = [call EXCEPT ![c] =
                   [place |-> "waiting", key |-> k, limit |-> limit, stamp |-> clock]]
    /\ UNCHANGED <<clock, hits, granted, late>>

\* Under the mutex: cleanup, pruning, decision.
Decide(c) ==
    /\ call[c].place = "waiting"
    /\ LET k      == call[c].key
           cutoff == call[c].stamp - Window
           kept   == Cleaned(cutoff)
           q      == IF k \in kept THEN Pruned(hits[k], cutoff) ELSE <<>>
           ok     == Len(q) < call[c].limit
       IN  /\ hits' = [j \in kept \cup {k} |->
                          IF j # k THEN hits[j]
                          ELSE IF ok THEN Append(q, call[c].stamp) ELSE q]
           /\ granted' = IF ok THEN [granted EXCEPT ![k] =
                                        Append(@, [at |-> clock, limit |-> call[c].limit])]
                         ELSE granted
           /\ call' = [call EXCEPT ![c].place = IF ok THEN "granted" ELSE "refused"]
    /\ late' = (late \/ clock > call[c].stamp)
    /\ UNCHANGED clock

\* No thread waits for the mutex longer than Skew.
ClockTicks ==
    /\ clock < Window + LastSecond
    /\ \A c \in Calls : call[c].place = "waiting" => clock < call[c].stamp + Skew
    /\ clock' = clock + 1
    /\ UNCHANGED <<hits, call, granted, late>>

LimiterNext ==
    \/ ClockTicks
    \/ \E c \in Calls : \/ \E k \in Keys, limit \in Limits : ReadClock(c, k, limit)
                        \/ Decide(c)

LimiterSpec == LimiterInit /\ [][LimiterNext]_limiterVars

-----------------------------------------------------------------------------
(* Properties.                                                             *)

\* The values of the variables; a key never has more times than the largest limit.
LimiterOK ==
    /\ clock \in Times
    /\ DOMAIN hits \subseteq Keys
    /\ \A k \in DOMAIN hits : /\ hits[k] \in Seq(Times)
                              /\ \E limit \in Limits : Len(hits[k]) <= limit
    /\ call \in [Calls -> {Idle} \cup Waiting]
    /\ granted \in [Keys -> Seq([at : Times, limit : Limits])]
    /\ late \in BOOLEAN

\* The requests of a key granted in the last w seconds, the present one included.
Recent(k, w) == {i \in DOMAIN granted[k] : granted[k][i].at >= clock - w}

Decided(c) == call[c].place = "waiting" /\ call'[c].place # "waiting"

\* The reference definition: as long as the mutex is taken in the second in
\* which the clock was read, a request is granted if and only if fewer than its
\* limit were granted in the last Window seconds, through every cleanup.
RollingWindow ==
    [][\A c \in Calls : Decided(c) /\ ~late' =>
        (call'[c].place = "granted"
            <=> Cardinality(Recent(call[c].key, Window)) < call[c].limit)]_limiterVars

\* With threads that wait up to Skew seconds the limit still holds, over a window
\* that is shorter by as much.
LimitWithinSkew ==
    [][\A c \in Calls : Decided(c) /\ call'[c].place = "granted" =>
        Cardinality(Recent(call[c].key, Window - Skew)) < call[c].limit]_limiterVars

-----------------------------------------------------------------------------
(* The inductive invariant of the limiter.                                 *)

\* Who waits for the mutex has read the clock at most Skew seconds ago.
StampsAreRecent ==
    \A c \in Calls : call[c].place = "waiting" =>
        call[c].stamp <= clock /\ clock <= call[c].stamp + Skew

\* Requests are granted as time goes.
GrantsInOrder ==
    \A k \in Keys : \A i \in DOMAIN granted[k] :
        /\ granted[k][i].at <= clock
        /\ \A j \in 1..i : granted[k][j].at <= granted[k][i].at

\* h is the end of what was granted, each time up to slack seconds early, and what
\* is before it was granted too long ago to count.
IsTail(h, g, t, slack) ==
    /\ Len(h) <= Len(g)
    /\ \A i \in 1..(Len(g) - Len(h)) : g[i].at + Window < t + slack
    /\ \A i \in 1..Len(h) : LET j == i + (Len(g) - Len(h)) IN
          h[i] <= g[j].at /\ g[j].at <= h[i] + slack

Held(k) == IF k \in DOMAIN hits THEN hits[k] ELSE <<>>

Slack == IF late THEN Skew ELSE 0

\* What the limiter holds of a key, through prunings and cleanups.
HeldIsTail == \A k \in Keys : IsTail(Held(k), granted[k], clock, Slack)

LimiterInv == LimiterOK /\ StampsAreRecent /\ GrantsInOrder /\ HeldIsTail
=============================================================================
