----------------------------- MODULE ProxiedCall -----------------------------
(***************************************************************************)
(* What the switchboard promises the caller of a proxied call: the call is *)
(* started at most once, it comes back with exactly one outcome, and an    *)
(* answer is the one that was written for it.  Channel, queue, secrets and *)
(* correlation ids do not appear; ReverseChannel implements this.          *)
(***************************************************************************)
CONSTANTS Reqs, None

VARIABLES status,   \* "idle", "busy", "answered" or "failed"
          answer    \* the call an answer was written for

Init ==
    /\ status = [r \in Reqs |-> "idle"]
    /\ answer = [r \in Reqs |-> None]

Start(r) ==
    /\ status[r] = "idle"
    /\ status' = [status EXCEPT ![r] = "busy"]
    /\ UNCHANGED answer

\* The call can be rejected outright, when there is nowhere to send it.
Reject(r) ==
    /\ status[r] = "idle"
    /\ status' = [status EXCEPT ![r] = "failed"]
    /\ UNCHANGED answer

Answer(r) ==
    /\ status[r] = "busy"
    /\ status' = [status EXCEPT ![r] = "answered"]
    /\ answer' = [answer EXCEPT ![r] = r]

\* Several calls fail together when a connection or the process ends.
Fail(S) ==
    /\ \A r \in S : status[r] = "busy"
    /\ status' = [r \in Reqs |-> IF r \in S THEN "failed" ELSE status[r]]
    /\ UNCHANGED answer

Next ==
    \/ \E r \in Reqs : Start(r) \/ Reject(r) \/ Answer(r)
    \/ \E S \in SUBSET Reqs : Fail(S)

Spec == Init /\ [][Next]_<<status, answer>>

LiveSpec == Spec /\ \A r \in Reqs :
                WF_<<status, answer>>(Answer(r) \/ Fail({r}))
=============================================================================
