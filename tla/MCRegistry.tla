----------------------------- MODULE MCRegistry -----------------------------
(* Registry on a small instance: one name with every operation, one that   *)
(* only humans hold, whose tokens then try the first.  Calls and bootstrap *)
(* tokens are each interchangeable.                                        *)
EXTENDS Registry, TLC

CONSTANT Visitor   \* the second name

Symmetric == Permutations(Calls) \cup Permutations(Bootstraps)

VisitorIsHuman ==
    /\ \A c \in Calls : req[c].name = Visitor => req[c].op = "human"
    /\ \A p \in peers : p.name = Visitor => p.kind = "Human" /\ p.state = "Accepted"

\* A call that has ended takes no step any more and no step looks at what it
\* asked for; nor does one look at the url of an entry.
Essence ==
    <<{Refreshed(p, None, p.token, p.state) : p \in peers}, bootstrap, spent, channel,
      [c \in Calls |-> IF pc[c] \in Ended \ {"open"}
                       THEN <<IF pc[c] = "gone" THEN "gone" ELSE "done", told[c]>>
                       ELSE <<pc[c], req[c], who[c], seen[c], told[c]>>]>>
=============================================================================
