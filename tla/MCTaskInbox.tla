---------------------------- MODULE MCTaskInbox ----------------------------
(* Model values for TLC; calls, cancels and keys are interchangeable.       *)
EXTENDS TaskInbox, TLC

Symmetry == Permutations(Calls) \cup Permutations(Cancels) \cup Permutations(Keys)

Ending(c) == place[c] \in {"done", "gone"}

\* What the steps and the properties depend on: not on how a call or a cancel
\* ended, nor on a line that is neither in the log nor on its way.
Essence ==
    <<now, file, tail, inbox, boot, excess, apart, counters,
      [c \in Calls |-> IF Ending(c) THEN "ended" ELSE place[c]],
      [c \in Calls |-> IF Ending(c) /\ ~Contains(file \o boot, c) THEN NoLine ELSE line[c]],
      [x \in Cancels |-> IF cancel[x].at = "done" THEN Ended(None) ELSE cancel[x]]>>
=============================================================================
