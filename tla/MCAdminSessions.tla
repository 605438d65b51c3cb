-------------------------- MODULE MCAdminSessions ---------------------------
(* Constants of AdminSessions for TLC.                                     *)
EXTENDS AdminSessions, TLC

\* No run of this module checks liveness.
Symmetry == 
  Permutations(Requests) \cup Permutations(Tokens) \cup Permutations(AdminIds) \cup
  Permutations(Passwords) \cup Permutations(Emails)
=============================================================================
