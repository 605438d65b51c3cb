---------------------------- MODULE MCClientExport ----------------------------
(* Constants of ClientExport for TLC: each domain, setting and override is  *)
(* there for a layer it adds or a check it fails.                           *)
EXTENDS ClientExport, TLC

CONSTANTS a1, a2, Hosted, Fronted, Certified, Owned, Pinned, P1, P2, P3   \* model values

MCHashes == {Owned, Certified, Pinned}
MCNoOverrides == NoQuery

MCDomains == {
  [uri |-> FALSE, host |-> None, query |-> NoQuery],
  [uri |-> FALSE, host |-> Hosted, query |-> NoQuery],
  [uri |-> TRUE, host |-> Hosted, query |-> NoQuery],
  [uri |-> TRUE, host |-> Hosted,
   query |-> Options(Fronted, FALSE, [hash |-> Owned, colons |-> TRUE], Salamander, P1)]}

Server(tls, acme, listen, ports, insecure, pin, password) ==
  [tls |-> tls, acme |-> acme, listen |-> listen, ports |-> ports, insecure |-> insecure,
   pin |-> pin, obfs |-> IF password = None THEN None ELSE Salamander, password |-> password]

MCSettings == {
  Server(TRUE, None, None, <<443>>, TRUE, [hash |-> Certified, colons |-> FALSE], None),
  Server(TRUE, Certified, None, <<443>>, FALSE, None, P2),
  Server(FALSE, None, Hosted, <<443, 444>>, TRUE, None, P2)}

MCOverrides == {
  MCNoOverrides,
  Options(Owned, FALSE, [hash |-> Pinned, colons |-> TRUE], None, None),
  Options(None, TRUE, None, None, P3),
  Options(None, None, None, Salamander, None),
  Options(Dot, None, None, None, None),
  Options(None, None, BadPin, None, None)}

Symmetry == Permutations({a1, a2})
=============================================================================
