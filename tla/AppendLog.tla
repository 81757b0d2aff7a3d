------------------------------ MODULE AppendLog ------------------------------
(***************************************************************************)
(* What the routing log promises its readers, without files, rotations and *)
(* descriptors: it grows at its end, it forgets from its beginning, and    *)
(* never so much that less than a full file is left.  RouteLog implements  *)
(* this.                                                                   *)
(***************************************************************************)
EXTENDS Naturals, Sequences

CONSTANTS Lines,
          Keep    \* how many lines it remembers at least

VARIABLES log,
          calm    \* no two appends ever overlapped, and no write failed

Init == log = <<>> /\ calm = TRUE

\* A line is added once.
Add(l) ==
    /\ \A i \in DOMAIN log : log[i] # l
    /\ log' = Append(log, l)
    /\ UNCHANGED calm

\* The oldest n lines.
Forget(n) ==
    /\ Keep <= Len(log) - n
    /\ log' = SubSeq(log, n + 1, Len(log))
    /\ UNCHANGED calm

\* What files hold after overlaps and faults is not promised here.
Disturb == calm' = FALSE

Next ==
    \/ \E l \in Lines : Add(l)
    \/ \E n \in 0..Len(log) : Forget(n)
    \/ Disturb

Spec == Init /\ [][Next]_<<log, calm>>
=============================================================================
