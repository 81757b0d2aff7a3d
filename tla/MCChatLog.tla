------------------------------ MODULE MCChatLog ------------------------------
(* Model values for TLC; messages are interchangeable.                      *)
EXTENDS ChatLog, TLC

Symmetry == Permutations(Msgs)

\* A fault costs one of the restarts: there is one after it.
Troubles == faults + restarts <= MaxRestarts

\* A message that was never sent, and is not in the file.
Lost(m) == place[m] = "dropped" /\ m \notin Range(lines)

\* What a reader has yet to receive, and what it has heard and was not shown.
Coming(r) == IF at[r] = "away" THEN <<>> ELSE SubSeq(bus, next[r], Len(bus))
OnlyHeard(r) == IF r \in lagged THEN {} ELSE (heard[r] \cup left[r]) \ Range(shown[r])

\* What the steps and the properties depend on: not on a lost message, nor on what
\* everybody has received, nor on a history that excuses what is excused already.
Essence ==
    <<[m \in Msgs |-> IF Lost(m) THEN <<Thread, 0>> ELSE <<conv[m], id[m]>>],
      seq, place, file, ring, at, shown, older, lagged, serial, faults, restarts,
      [r \in Readers |-> <<Coming(r), OnlyHeard(r)>>],
      IF serial THEN gap ELSE {},
      shaken \/ faults > 0>>
=============================================================================
