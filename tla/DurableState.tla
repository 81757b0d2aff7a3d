---------------------------- MODULE DurableState ----------------------------
(***************************************************************************)
(* What the switchboard promises about its state, without the files: what  *)
(* is durable changes at one moment and never loses a change, a client is  *)
(* answered when its change is durable, and a restart begins with what is  *)
(* durable, neither more nor less.  StatePersist implements this.          *)
(***************************************************************************)
CONSTANTS Clients, Main   \* whose changes there are

VARIABLES memory,    \* the changes in memory, and after a kill those it will start with
          durable,   \* the changes that survive a kill
          answered,  \* clients that were answered
          orderly,   \* no two saves ever ran at the same time
          willing    \* the disk never refused

vars == <<memory, durable, answered, orderly, willing>>

Init ==
    /\ memory = {} /\ durable = {} /\ answered = {}
    /\ orderly = TRUE /\ willing = TRUE

Change(x) ==
    /\ memory' = memory \cup {x}
    /\ UNCHANGED <<durable, answered, orderly, willing>>

\* A save takes what memory had at some moment; of A, at most one client, it is the answer.
Save(A) ==
    /\ \E s \in SUBSET memory : durable \cup A \subseteq s /\ durable' = s
    /\ answered' = answered \cup A
    /\ UNCHANGED <<memory, orderly, willing>>

\* A disk that refuses changes nothing, and later clients may be misled.
Refuse ==
    /\ willing' = FALSE
    /\ UNCHANGED <<memory, durable, answered, orderly>>

Mislead(x) ==
    /\ ~willing
    /\ answered' = answered \cup {x}
    /\ UNCHANGED <<memory, durable, orderly, willing>>

Kill ==
    /\ memory' = durable
    /\ UNCHANGED <<durable, answered, orderly, willing>>

\* Nothing is promised any more once two saves overlap.
Tangle == orderly' = FALSE

Next ==
    \/ \E x \in Clients \cup {Main} : Change(x)
    \/ \E A \in {{}} \cup {{x} : x \in Clients} : Save(A)
    \/ Refuse
    \/ \E x \in Clients : Mislead(x)
    \/ Kill
    \/ Tangle

Spec == Init /\ [][Next]_vars
=============================================================================
