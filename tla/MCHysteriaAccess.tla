-------------------------- MODULE MCHysteriaAccess --------------------------
(* Constants of HysteriaAccess for TLC.                                    *)
EXTENDS HysteriaAccess, TLC

CONSTANTS u1, u2, n1, n2, w1, w2, s1, s2, broken, boot, r1, r2

MCBootstrap == <<"__bootstrap__", "token">>

\* Auth taken out, an unknown user put in, and a file without a TLS section.
MCHandEdits == 
  {[auth |-> {}, settings |-> s1],
   [auth |-> {<<n1, w1>>}, settings |-> s1],
   [auth |-> {MCBootstrap}, settings |-> broken]}

NoEdits == {}


\* Requests, identifiers and names are interchangeable in every property.
Symmetry ==
  Permutations(Requests) \cup Permutations(UserIds) \cup Permutations(Names)
=============================================================================
