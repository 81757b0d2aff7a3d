----------------------------- MODULE MCAdminAuth -----------------------------
(* Model values for TLC; passwords, logins and changes are interchangeable. *)
EXTENDS AdminAuth, TLC

Symmetry == Permutations(Passwords) \cup Permutations(Logins) \cup Permutations(Edits)
=============================================================================
