------------------------ MODULE HysteriaConfigProofs ------------------------
(***************************************************************************)
(* Proofs, for any users, passwords and number of edits, that a settings   *)
(* form survives its way into the server's configuration file and back,    *)
(* and that the file stays what the panel and its operator made of it.     *)
(***************************************************************************)
EXTENDS HysteriaConfig, TLAPS

-----------------------------------------------------------------------------
(* Paths.                                                                  *)

Certificate == TLS \cup ACME

\* Leaves that normalizing copies as they are, but for their form.
Copied == QUIC \cup (Plain \ {"listen"})

LEMMA KnownIs == Known = TLS \cup ACME \cup Auth \cup Obfs \cup Masquerade \cup QUIC \cup Plain
BY DEF Known

LEMMA UnknownIsNot == Unknown \cap Known = {} /\ Known \subseteq Paths /\ Unknown \subseteq Paths
BY DEF Known, Unknown, Paths, TLS, ACME, Auth, Obfs, Salamander, Masquerade, File, Proxy, String,
       QUIC, Plain

LEMMA TLSPaths ==
  ASSUME NEW p \in TLS
  PROVE  /\ p \in Known /\ p \notin ACME \cup Auth \cup Obfs \cup Masquerade \cup Copied
         /\ p # "listen" /\ p # "bandwidth.up" /\ p # "speedTest"
BY DEF Known, TLS, ACME, Auth, Obfs, Salamander, Masquerade, File, Proxy, String, QUIC, Plain,
       Copied

LEMMA ACMEPaths ==
  ASSUME NEW p \in ACME
  PROVE  /\ p \in Known /\ p \notin TLS \cup Auth \cup Obfs \cup Masquerade \cup Copied
         /\ p # "listen" /\ p # "bandwidth.up" /\ p # "speedTest"
BY DEF Known, TLS, ACME, Auth, Obfs, Salamander, Masquerade, File, Proxy, String, QUIC, Plain,
       Copied

LEMMA ObfsPaths ==
  ASSUME NEW p \in Obfs
  PROVE  /\ p \in Known /\ p \notin TLS \cup ACME \cup Auth \cup Masquerade \cup Copied
         /\ p # "listen" /\ p # "bandwidth.up" /\ p # "speedTest"
         /\ p # "obfs.type" => p \in Salamander
BY DEF Known, TLS, ACME, Auth, Obfs, Salamander, Masquerade, File, Proxy, String, QUIC, Plain,
       Copied

LEMMA SalamanderPaths ==
  ASSUME NEW p \in Salamander PROVE p \in Obfs /\ p # "obfs.type"
BY DEF Obfs, Salamander

LEMMA MasqueradePaths ==
  ASSUME NEW p \in Masquerade
  PROVE  /\ p \in Known /\ p \notin TLS \cup ACME \cup Auth \cup Obfs \cup Copied
         /\ p # "listen" /\ p # "bandwidth.up" /\ p # "speedTest"
BY DEF Known, TLS, ACME, Auth, Obfs, Salamander, Masquerade, File, Proxy, String, QUIC, Plain,
       Copied

LEMMA MasqueradeParts ==
  ASSUME NEW p \in File \cup Proxy \cup String
  PROVE  p \in Masquerade /\ p # "masquerade.type"
BY DEF Masquerade, File, Proxy, String

LEMMA AuthPaths ==
  ASSUME NEW p \in Auth
  PROVE  /\ p \in Known /\ p \notin TLS \cup ACME \cup Obfs \cup Masquerade \cup Copied
         /\ p # "listen" /\ p # "bandwidth.up" /\ p # "speedTest"
BY DEF Known, TLS, ACME, Auth, Obfs, Salamander, Masquerade, File, Proxy, String, QUIC, Plain,
       Copied

LEMMA CopiedPaths ==
  ASSUME NEW p \in Copied
  PROVE  p \in Known /\ p \notin TLS \cup ACME \cup Auth \cup Obfs \cup Masquerade /\ p # "listen"
BY DEF Known, TLS, ACME, Auth, Obfs, Salamander, Masquerade, File, Proxy, String, QUIC, Plain,
       Copied

\* A known path is in one of these groups.
LEMMA PathGroups ==
  ASSUME NEW p \in Known
  PROVE  p \in TLS \cup ACME \cup Auth \cup Obfs \cup Masquerade \cup Copied \cup {"listen"}
BY DEF Known, Copied
-----------------------------------------------------------------------------
(* Normalizing.                                                            *)

\* The form's leaves in canonical spelling, and what normalizing reads off
\* them.
Spelled(s) == [p \in Known |-> Canonical(p, s.leaf[p])]
On(s) == s.tlsEnabled \/ Any(Spelled(s), TLS \cup ACME)
Asked(s) == OrElse(s.tlsMode, ModeOf(Spelled(s)))
Mode(s) == IF Asked(s) \in Modes THEN Asked(s) ELSE "acme"
ObfsType(s) ==
  OrElse(Spelled(s)["obfs.type"], IF Any(Spelled(s), Salamander) THEN "salamander" ELSE None)
MasqueradeType(s) ==
  OrElse(Spelled(s)["masquerade.type"],
         InferredType(Any(Spelled(s), Proxy), Any(Spelled(s), File), Any(Spelled(s), String)))
AuthType(s) == IF Spelled(s)["auth.type"] = "password" THEN "password" ELSE "userpass"

Dropped(s) ==
  UNION {IF On(s) /\ Mode(s) # "acme" THEN {} ELSE TLS,
         IF On(s) /\ Mode(s) # "tls" THEN {} ELSE ACME,
         IF ObfsType(s) = None THEN Obfs ELSE {},
         IF MasqueradeType(s) = None THEN Masquerade ELSE {},
         IF AuthType(s) = "userpass" THEN {"auth.password"} ELSE {"auth.userpass"}}

NamedLeaf(s) ==
  [Spelled(s) EXCEPT !["listen"] = OrElse(@, ":443"), !["auth.type"] = AuthType(s),
                     !["obfs.type"] = ObfsType(s), !["masquerade.type"] = MasqueradeType(s)]

LEMMA NormalizeIs ==
  ASSUME NEW s
  PROVE  Normalize(s) = [leaf |-> [p \in Known |-> IF p \in Dropped(s) THEN None ELSE NamedLeaf(s)[p]],
                         tlsEnabled |-> On(s), tlsMode |-> Mode(s),
                         quicEnabled |-> s.quicEnabled \/ Any(Spelled(s), QUIC)]
BY Zenon DEF Normalize, Dropped, NamedLeaf, On, Asked, Mode, ObfsType, MasqueradeType, AuthType, Spelled

LEMMA DroppedIs ==
  ASSUME NEW s, NEW p
  PROVE  p \in Dropped(s) <=>
           \/ p \in TLS /\ ~(On(s) /\ Mode(s) # "acme")
           \/ p \in ACME /\ ~(On(s) /\ Mode(s) # "tls")
           \/ p \in Obfs /\ ObfsType(s) = None
           \/ p \in Masquerade /\ MasqueradeType(s) = None
           \/ p = "auth.password" /\ AuthType(s) = "userpass"
           \/ p = "auth.userpass" /\ AuthType(s) # "userpass"
BY DEF Dropped

LEMMA NamedIs ==
  ASSUME NEW s, NEW p \in Known
  PROVE  NamedLeaf(s)[p] = CASE p = "listen" -> OrElse(Spelled(s)[p], ":443")
                             [] p = "auth.type" -> AuthType(s)
                             [] p = "obfs.type" -> ObfsType(s)
                             [] p = "masquerade.type" -> MasqueradeType(s)
                             [] OTHER -> Spelled(s)[p]
<1>1. /\ "listen" \in Known /\ "auth.type" \in Known
      /\ "obfs.type" \in Known /\ "masquerade.type" \in Known
  BY DEF Known, Plain, Auth, Obfs, Masquerade
<1>2. Spelled(s) = [q \in Known |-> Spelled(s)[q]]
  BY DEF Spelled
<1> QED
  BY <1>1, <1>2 DEF NamedLeaf

\* A form that normalizing leaves as it is.
Normal(n) ==
  /\ n = [leaf |-> [p \in Known |-> n.leaf[p]], tlsEnabled |-> n.tlsEnabled,
          tlsMode |-> n.tlsMode, quicEnabled |-> n.quicEnabled]
  /\ n.tlsEnabled \in BOOLEAN /\ n.quicEnabled \in BOOLEAN
  /\ n.tlsMode \in Modes
  /\ \A p \in Known : Canonical(p, n.leaf[p]) = n.leaf[p]
  /\ Any(n.leaf, TLS \cup ACME) => n.tlsEnabled
  /\ Any(n.leaf, TLS) => n.tlsEnabled /\ n.tlsMode # "acme"
  /\ Any(n.leaf, ACME) => n.tlsEnabled /\ n.tlsMode # "tls"
  /\ Any(n.leaf, Obfs) => n.leaf["obfs.type"] # None
  /\ Any(n.leaf, Masquerade) => n.leaf["masquerade.type"] # None
  /\ n.leaf["auth.type"] \in {"password", "userpass"}
  /\ n.leaf["auth.type"] = "password" => n.leaf["auth.userpass"] = None
  /\ n.leaf["auth.type"] = "userpass" => n.leaf["auth.password"] = None
  /\ n.leaf["listen"] # None
  /\ Any(n.leaf, QUIC) => n.quicEnabled

LEMMA NormalFixed ==
  ASSUME NEW n, Normal(n) PROVE Normalize(n) = n
<1>1. /\ n.tlsEnabled \in BOOLEAN /\ n.quicEnabled \in BOOLEAN
      /\ n.tlsMode \in Modes
      /\ Any(n.leaf, TLS \cup ACME) => n.tlsEnabled
      /\ Any(n.leaf, TLS) => n.tlsEnabled /\ n.tlsMode # "acme"
      /\ Any(n.leaf, ACME) => n.tlsEnabled /\ n.tlsMode # "tls"
      /\ Any(n.leaf, Obfs) => n.leaf["obfs.type"] # None
      /\ Any(n.leaf, Masquerade) => n.leaf["masquerade.type"] # None
      /\ Any(n.leaf, QUIC) => n.quicEnabled
  BY DEF Normal
<1>2. /\ n.leaf["auth.type"] \in {"password", "userpass"}
      /\ n.leaf["auth.type"] = "password" => n.leaf["auth.userpass"] = None
      /\ n.leaf["auth.type"] = "userpass" => n.leaf["auth.password"] = None
      /\ n.leaf["listen"] # None
  BY DEF Normal
<1>3. Spelled(n) = [p \in Known |-> n.leaf[p]]
  BY DEF Normal, Spelled
<1>4. \A p \in Known : Spelled(n)[p] = n.leaf[p]
  BY <1>3
<1>5. ASSUME NEW fields, fields \subseteq Known PROVE Any(Spelled(n), fields) = Any(n.leaf, fields)
  BY <1>4, <1>5 DEF Any
<1>6. /\ TLS \subseteq Known /\ ACME \subseteq Known /\ TLS \cup ACME \subseteq Known
      /\ Salamander \subseteq Known /\ Proxy \subseteq Known /\ File \subseteq Known
      /\ String \subseteq Known /\ QUIC \subseteq Known
  BY DEF Known, Obfs, Masquerade
<1>7. On(n) = n.tlsEnabled
  BY <1>1, <1>5, <1>6 DEF On
<1>8. Mode(n) = n.tlsMode
  BY <1>1 DEF Mode, Asked, OrElse, Modes, None
<1>9. /\ "listen" \in Known /\ "auth.type" \in Known
      /\ "obfs.type" \in Known /\ "masquerade.type" \in Known
      /\ "obfs.type" \in Obfs /\ "masquerade.type" \in Masquerade
  BY DEF Known, Plain, Auth, Obfs, Masquerade
<1>10. ObfsType(n) = n.leaf["obfs.type"]
  <2>1. Any(n.leaf, Salamander) => Any(n.leaf, Obfs)
    BY SalamanderPaths DEF Any
  <2>2. Spelled(n)["obfs.type"] = n.leaf["obfs.type"]
    BY <1>4, <1>9
  <2> QED
    BY <1>1, <1>5, <1>6, <2>1, <2>2 DEF ObfsType, OrElse
<1>11. MasqueradeType(n) = n.leaf["masquerade.type"]
  <2>1. Any(n.leaf, File) \/ Any(n.leaf, Proxy) \/ Any(n.leaf, String) => Any(n.leaf, Masquerade)
    BY MasqueradeParts DEF Any
  <2>2. Spelled(n)["masquerade.type"] = n.leaf["masquerade.type"]
    BY <1>4, <1>9
  <2>3. ~Any(n.leaf, File) /\ ~Any(n.leaf, Proxy) /\ ~Any(n.leaf, String) =>
          InferredType(Any(Spelled(n), Proxy), Any(Spelled(n), File), Any(Spelled(n), String)) = None
    BY <1>5, <1>6 DEF InferredType
  <2> QED
    BY <1>1, <2>1, <2>2, <2>3 DEF MasqueradeType, OrElse
<1>12. AuthType(n) = n.leaf["auth.type"]
  BY <1>2, <1>4, <1>9 DEF AuthType
<1>13. ASSUME NEW p \in Known
       PROVE  (IF p \in Dropped(n) THEN None ELSE NamedLeaf(n)[p]) = n.leaf[p]
  <2>1. p \in Dropped(n) => n.leaf[p] = None
    BY <1>1, <1>2, <1>7, <1>8, <1>10, <1>11, <1>12, DroppedIs DEF Any
  <2>2. NamedLeaf(n)[p] = n.leaf[p]
    BY <1>2, <1>4, <1>10, <1>11, <1>12, NamedIs DEF OrElse
  <2> QED
    BY <2>1, <2>2
<1>14. (n.quicEnabled \/ Any(Spelled(n), QUIC)) = n.quicEnabled
  BY <1>1, <1>5, <1>6
<1>15. [p \in Known |-> IF p \in Dropped(n) THEN None ELSE NamedLeaf(n)[p]] = [p \in Known |-> n.leaf[p]]
  BY <1>13
<1>16. n = [leaf |-> [p \in Known |-> n.leaf[p]], tlsEnabled |-> n.tlsEnabled,
          tlsMode |-> n.tlsMode, quicEnabled |-> n.quicEnabled]
  BY DEF Normal
<1> QED
  BY <1>7, <1>8, <1>14, <1>15, <1>16, NormalizeIs, Zenon
LEMMA CanonicalOnce ==
  ASSUME NEW p, NEW v PROVE Canonical(p, Canonical(p, v)) = Canonical(p, v)
BY DEF Canonical

LEMMA CanonicalElsewhere ==
  ASSUME NEW p, p # "listen", p # "bandwidth.up", NEW v PROVE Canonical(p, v) = v
BY DEF Canonical

LEMMA NormalizeNormal ==
  ASSUME NEW s, s.tlsEnabled \in BOOLEAN, s.quicEnabled \in BOOLEAN
  PROVE  Normal(Normalize(s))
<1> DEFINE n == Normalize(s)
           leaf == [p \in Known |-> IF p \in Dropped(s) THEN None ELSE NamedLeaf(s)[p]]
           quic == s.quicEnabled \/ Any(Spelled(s), QUIC)
<1>1. n = [leaf |-> leaf, tlsEnabled |-> On(s), tlsMode |-> Mode(s), quicEnabled |-> quic]
  BY NormalizeIs
<1>2. \A p \in Known : leaf[p] = IF p \in Dropped(s) THEN None ELSE NamedLeaf(s)[p]
  OBVIOUS
<1>3. leaf = [p \in Known |-> leaf[p]]
  OBVIOUS
<1>4. On(s) \in BOOLEAN /\ quic \in BOOLEAN
  BY DEF On
<1> HIDE DEF n, leaf, quic
<1>5. Mode(s) \in Modes
  BY DEF Mode, Modes
<1>6. /\ "listen" \in Known /\ "auth.type" \in Known /\ "auth.password" \in Known
      /\ "auth.userpass" \in Known /\ "obfs.type" \in Known /\ "masquerade.type" \in Known
      /\ "obfs.type" \in Obfs /\ "masquerade.type" \in Masquerade /\ "auth.type" \in Auth
      /\ "auth.password" \in Auth /\ "auth.userpass" \in Auth
  BY DEF Known, Plain, Auth, Obfs, Masquerade
<1>7. \A p \in Known : Canonical(p, leaf[p]) = leaf[p]
  <2> TAKE p \in Known
  <2>1. Canonical(p, None) = None
    BY DEF Canonical, None
  <2>2. Spelled(s)[p] = Canonical(p, s.leaf[p])
    BY DEF Spelled
  <2>3. Canonical("listen", ":443") = ":443"
    BY DEF Canonical
  <2>4. Canonical(p, NamedLeaf(s)[p]) = NamedLeaf(s)[p]
    <3>1. CASE p = "listen"
      <4>1. NamedLeaf(s)[p] = Spelled(s)[p] \/ NamedLeaf(s)[p] = ":443"
        BY <3>1, NamedIs DEF OrElse
      <4> QED
        BY <2>2, <2>3, <3>1, <4>1, CanonicalOnce
    <3>2. CASE p \in {"auth.type", "obfs.type", "masquerade.type"}
      BY <3>2, CanonicalElsewhere
    <3>3. CASE p \notin {"listen", "auth.type", "obfs.type", "masquerade.type"}
      <4>1. NamedLeaf(s)[p] = Spelled(s)[p]
        BY <3>3, NamedIs
      <4> QED
        BY <2>2, <4>1, CanonicalOnce
    <3> QED
      BY <3>1, <3>2, <3>3
  <2> QED
    BY <1>2, <2>1, <2>4
<1>8. Any(leaf, TLS) => On(s) /\ Mode(s) # "acme"
  BY <1>2, TLSPaths, DroppedIs DEF Any
<1>9. Any(leaf, ACME) => On(s) /\ Mode(s) # "tls"
  BY <1>2, ACMEPaths, DroppedIs DEF Any
<1>10. Any(leaf, TLS \cup ACME) => On(s)
  BY <1>8, <1>9 DEF Any
<1>11. Any(leaf, Obfs) => leaf["obfs.type"] # None
  <2> SUFFICES ASSUME NEW p \in Obfs, leaf[p] # None PROVE leaf["obfs.type"] # None
    BY DEF Any
  <2>1. p \in Known /\ p \notin Dropped(s)
    BY <1>2, ObfsPaths
  <2>2. ObfsType(s) # None
    BY <2>1, DroppedIs
  <2>3. "obfs.type" \notin Dropped(s)
    BY <1>6, <2>2, DroppedIs, ObfsPaths
  <2>4. NamedLeaf(s)["obfs.type"] = ObfsType(s)
    BY <1>6, NamedIs
  <2> QED
    BY <1>2, <1>6, <2>2, <2>3, <2>4
<1>12. Any(leaf, Masquerade) => leaf["masquerade.type"] # None
  <2> SUFFICES ASSUME NEW p \in Masquerade, leaf[p] # None PROVE leaf["masquerade.type"] # None
    BY DEF Any
  <2>1. p \in Known /\ p \notin Dropped(s)
    BY <1>2, MasqueradePaths
  <2>2. MasqueradeType(s) # None
    BY <2>1, DroppedIs
  <2>3. "masquerade.type" \notin Dropped(s)
    BY <1>6, <2>2, DroppedIs, MasqueradePaths
  <2>4. NamedLeaf(s)["masquerade.type"] = MasqueradeType(s)
    BY <1>6, NamedIs
  <2> QED
    BY <1>2, <1>6, <2>2, <2>3, <2>4
<1>13. leaf["auth.type"] = AuthType(s)
  <2>1. "auth.type" \notin Dropped(s)
    BY <1>6, AuthPaths, DroppedIs
  <2>2. NamedLeaf(s)["auth.type"] = AuthType(s)
    BY <1>6, NamedIs
  <2> QED
    BY <1>2, <1>6, <2>1, <2>2
<1>14. AuthType(s) \in {"password", "userpass"}
  BY DEF AuthType
<1>15. /\ AuthType(s) = "password" => leaf["auth.userpass"] = None
       /\ AuthType(s) = "userpass" => leaf["auth.password"] = None
  BY <1>2, <1>6, DroppedIs
<1>16. leaf["listen"] # None
  <2>1. "listen" \notin Dropped(s)
    <3>1. "listen" \notin TLS \cup ACME \cup Obfs \cup Masquerade
      BY TLSPaths, ACMEPaths, ObfsPaths, MasqueradePaths
    <3> QED
      BY <3>1, DroppedIs
  <2>2. NamedLeaf(s)["listen"] = OrElse(Spelled(s)["listen"], ":443")
    BY <1>6, NamedIs
  <2>3. OrElse(Spelled(s)["listen"], ":443") # None
    BY DEF OrElse, None
  <2> QED
    BY <1>2, <1>6, <2>1, <2>2, <2>3
<1>17. Any(leaf, QUIC) => quic
  <2> SUFFICES ASSUME NEW p \in QUIC, leaf[p] # None PROVE Any(Spelled(s), QUIC)
    BY DEF Any, quic
  <2>1. p \in Known /\ p \notin {"listen", "auth.type", "obfs.type", "masquerade.type"}
    BY DEF QUIC, Known
  <2>2. leaf[p] = Spelled(s)[p]
    BY <1>2, <2>1, NamedIs
  <2> QED
    BY <2>2 DEF Any
<1>18. /\ n.leaf = leaf /\ n.tlsEnabled = On(s) /\ n.tlsMode = Mode(s) /\ n.quicEnabled = quic
       /\ n = [leaf |-> [p \in Known |-> n.leaf[p]], tlsEnabled |-> n.tlsEnabled,
               tlsMode |-> n.tlsMode, quicEnabled |-> n.quicEnabled]
  BY <1>1, <1>3
<1>19. Normal(n)
  BY <1>4, <1>5, <1>7, <1>8, <1>9, <1>10, <1>11, <1>12, <1>13, <1>14, <1>15, <1>16, <1>17, <1>18
     DEF Normal
<1> QED
  BY <1>19 DEF n

\* A generated password keeps a form normal.
LEMMA GenerateNormal ==
  ASSUME NEW n, Normal(n), NEW secret \in Secrets PROVE Normal(Generate(n, secret))
<1> DEFINE hole == n.leaf["obfs.type"] = "salamander" /\ ~Any(n.leaf, Salamander)
           path == "obfs.salamander.password"
           g == [n EXCEPT !.leaf[path] = secret]
<1>1. CASE ~hole
  BY <1>1 DEF Generate
<1>2. CASE hole
  <2>1. Generate(n, secret) = g
    BY <1>2 DEF Generate
  <2>2. path \in Known /\ path \in Salamander /\ path \in Obfs
    BY DEF Salamander, Obfs, Known
  <2>3. n = [leaf |-> [p \in Known |-> n.leaf[p]], tlsEnabled |-> n.tlsEnabled,
             tlsMode |-> n.tlsMode, quicEnabled |-> n.quicEnabled]
    BY DEF Normal
  <2>4. /\ g = [leaf |-> [p \in Known |-> g.leaf[p]], tlsEnabled |-> g.tlsEnabled,
                tlsMode |-> g.tlsMode, quicEnabled |-> g.quicEnabled]
        /\ g.tlsEnabled = n.tlsEnabled /\ g.tlsMode = n.tlsMode /\ g.quicEnabled = n.quicEnabled
    BY <2>3
  <2>5. \A p \in Known : g.leaf[p] = IF p = path THEN secret ELSE n.leaf[p]
    BY <2>3
  <2> HIDE DEF g
  <2>6. \A p \in TLS \cup ACME \cup Masquerade \cup QUIC \cup Auth :
          g.leaf[p] = n.leaf[p]
    BY <2>5, TLSPaths, ACMEPaths, MasqueradePaths, AuthPaths, <2>2
       DEF QUIC, Known
  <2>7. \A p \in Known : Canonical(p, g.leaf[p]) = g.leaf[p]
    BY <2>5, CanonicalElsewhere DEF Normal
  <2>8. g.leaf["obfs.type"] = "salamander" /\ g.leaf["listen"] = n.leaf["listen"]
    BY <1>2, <2>5 DEF Known, Obfs, Plain
  <2>9. g.leaf["obfs.type"] # None
    BY <2>8 DEF None
  <2>10. /\ Any(g.leaf, TLS) = Any(n.leaf, TLS) /\ Any(g.leaf, ACME) = Any(n.leaf, ACME)
         /\ Any(g.leaf, TLS \cup ACME) = Any(n.leaf, TLS \cup ACME)
         /\ Any(g.leaf, Masquerade) = Any(n.leaf, Masquerade)
         /\ Any(g.leaf, QUIC) = Any(n.leaf, QUIC)
    BY <2>6 DEF Any
  <2>11. /\ g.leaf["masquerade.type"] = n.leaf["masquerade.type"]
         /\ g.leaf["auth.type"] = n.leaf["auth.type"]
         /\ g.leaf["auth.userpass"] = n.leaf["auth.userpass"]
         /\ g.leaf["auth.password"] = n.leaf["auth.password"]
    BY <2>6 DEF Masquerade, Auth
  <2> QED
    BY <2>1, <2>4, <2>7, <2>8, <2>9, <2>10, <2>11 DEF Normal
<1> QED
  BY <1>1, <1>2
-----------------------------------------------------------------------------
(* Writing a form to a file.                                               *)

\* The handlers leave the users to the synchronisation.
Bare(n) ==
  /\ n.leaf["auth.type"] = "userpass"
  /\ n.leaf["auth.userpass"] = None
  /\ n.leaf["auth.password"] = None

\* A form ready to be written.
Sound(g) ==
  /\ Normal(g)
  /\ Bare(g)
  /\ g.leaf["obfs.type"] = "salamander" => Any(g.leaf, Salamander)
  /\ \A p \in Known : g.leaf[p] # Blank
  /\ ValidSettings(g)

Ready(s, secret) == Generate(Normalize(Managed(s)), secret)

\* What a save writes of the form g.
Drawn(f, g, us) == Inject(Merge(f, Build(g)), us)

LEMMA ManagedNormal ==
  ASSUME NEW s, s.tlsEnabled \in BOOLEAN, s.quicEnabled \in BOOLEAN,
         NEW m, m = Managed(s), m.tlsEnabled = s.tlsEnabled, m.quicEnabled = s.quicEnabled,
         m.leaf["auth.type"] = "userpass", m.leaf["auth.userpass"] = None,
         m.leaf["auth.password"] = None
  PROVE  Normal(Normalize(m)) /\ Bare(Normalize(m))
<1>1. Normal(Normalize(m))
  BY NormalizeNormal
<1>2. /\ "auth.type" \in Known /\ "auth.password" \in Known /\ "auth.userpass" \in Known
      /\ "auth.type" \in Auth /\ "auth.password" \in Auth /\ "auth.userpass" \in Auth
  BY DEF Known, Auth
<1>3. AuthType(m) = "userpass"
  <2>1. Spelled(m)["auth.type"] = "userpass"
    BY <1>2, AuthPaths, CanonicalElsewhere DEF Spelled
  <2> QED
    BY <2>1 DEF AuthType
<1>4. /\ Spelled(m)["auth.userpass"] = None /\ Spelled(m)["auth.password"] = None
  BY <1>2, AuthPaths, CanonicalElsewhere DEF Spelled
<1>5. \A p \in Known :
        Normalize(m).leaf[p] = IF p \in Dropped(m) THEN None ELSE NamedLeaf(m)[p]
  BY NormalizeIs
<1>6. NamedLeaf(m)["auth.type"] = "userpass" /\ "auth.type" \notin Dropped(m)
  BY <1>2, <1>3, NamedIs, DroppedIs, AuthPaths
<1>7. NamedLeaf(m)["auth.userpass"] = None /\ NamedLeaf(m)["auth.password"] = None
  BY <1>2, <1>4, NamedIs
<1> QED
  BY <1>1, <1>2, <1>5, <1>6, <1>7 DEF Bare

LEMMA ManagedIs ==
  ASSUME NEW s \in Settings
  PROVE  /\ Managed(s) \in [leaf: [Known -> Values \cup {"userpass"}], tlsEnabled: BOOLEAN,
                            tlsMode: AskedModes, quicEnabled: BOOLEAN]
         /\ Managed(s).tlsEnabled = s.tlsEnabled
         /\ Managed(s).tlsMode = s.tlsMode
         /\ Managed(s).quicEnabled = s.quicEnabled
         /\ Managed(s).leaf["auth.type"] = "userpass"
         /\ Managed(s).leaf["auth.userpass"] = None
         /\ Managed(s).leaf["auth.password"] = None
<1> DEFINE l == [p \in Known |-> CASE p = "auth.type"            -> "userpass"
                                   [] p \in Auth \ {"auth.type"} -> None
                                   [] OTHER                      -> s.leaf[p]]
<1>1. /\ "auth.type" \in Known /\ "auth.password" \in Known /\ "auth.userpass" \in Known
      /\ "auth.type" \in Auth /\ "auth.password" \in Auth /\ "auth.userpass" \in Auth
  BY DEF Known, Auth
<1>2. /\ l["auth.type"] = "userpass" /\ l["auth.userpass"] = None /\ l["auth.password"] = None
  BY <1>1
<1>3. l \in [Known -> Values \cup {"userpass"}]
  BY DEF Settings, Values
<1>4. Managed(s) = [s EXCEPT !.leaf = l]
  BY DEF Managed
<1> HIDE DEF l
<1>5. /\ Managed(s).leaf = l /\ Managed(s).tlsEnabled = s.tlsEnabled
      /\ Managed(s).tlsMode = s.tlsMode /\ Managed(s).quicEnabled = s.quicEnabled
  BY <1>4 DEF Settings
<1>6. Managed(s) \in [leaf: [Known -> Values \cup {"userpass"}], tlsEnabled: BOOLEAN,
                      tlsMode: AskedModes, quicEnabled: BOOLEAN]
  BY <1>3, <1>4 DEF Settings
<1> QED
  BY <1>2, <1>5, <1>6

LEMMA ReadyIs ==
  ASSUME NEW s \in Settings, NEW secret \in Secrets, NEW g, g = Ready(s, secret)
  PROVE  Normal(g) /\ Bare(g) /\ (g.leaf["obfs.type"] = "salamander" => Any(g.leaf, Salamander))
<1> DEFINE n == Normalize(Managed(s))
           path == "obfs.salamander.password"
<1>1. s.tlsEnabled \in BOOLEAN /\ s.quicEnabled \in BOOLEAN
  BY DEF Settings
<1>2. Normal(n) /\ Bare(n)
  BY <1>1, ManagedIs, ManagedNormal
<1> HIDE DEF n
<1>3. Normal(g)
  BY <1>2, GenerateNormal DEF Ready, n
<1>4. /\ n = [leaf |-> [p \in Known |-> n.leaf[p]], tlsEnabled |-> n.tlsEnabled,
             tlsMode |-> n.tlsMode, quicEnabled |-> n.quicEnabled]
      /\ path \in Known /\ path \in Salamander
      /\ path \notin {"auth.type", "auth.password", "auth.userpass", "obfs.type"}
  BY <1>2 DEF Normal, Salamander, Obfs, Known
<1>5. CASE n.leaf["obfs.type"] = "salamander" /\ ~Any(n.leaf, Salamander)
  <2>1. g = [n EXCEPT !.leaf[path] = secret]
    BY <1>5 DEF Ready, Generate, n
  <2>2. g.leaf[path] = secret
    BY <1>4, <2>1
  <2>3. \A p : p # path => g.leaf[p] = n.leaf[p]
    BY <1>4, <2>1
  <2>4. secret # None
    BY SecretsAssumption
  <2> QED
    BY <1>2, <1>3, <1>4, <2>2, <2>3, <2>4 DEF Bare, Any
<1>6. CASE ~(n.leaf["obfs.type"] = "salamander" /\ ~Any(n.leaf, Salamander))
  <2>1. g = n
    BY <1>6 DEF Ready, Generate, n
  <2> QED
    BY <1>2, <1>6, <2>1
<1> QED
  BY <1>5, <1>6

\* A valid form is written out in full.
LEMMA BuildIs ==
  ASSUME NEW g, Sound(g)
  PROVE  /\ \A p \in Known : Build(g)[p] = g.leaf[p]
         /\ \A p \in Unknown : Build(g)[p] = None
<1>1. Normalize(g) = g
  BY NormalFixed DEF Sound
<1>2. \A p \in Paths : Build(g)[p] = IF p \in Written(g) THEN g.leaf[p] ELSE None
  BY <1>1 DEF Build
<1>3. \A p \in Unknown : Build(g)[p] = None
  BY <1>2, UnknownIsNot DEF Written
<1>4. /\ ValidCertificate(g)
      /\ Any(g.leaf, Obfs) => g.leaf["obfs.type"] = "salamander"
      /\ Any(g.leaf, TLS) => g.tlsEnabled /\ g.tlsMode # "acme"
      /\ Any(g.leaf, ACME) => g.tlsEnabled /\ g.tlsMode # "tls"
  BY <1>1 DEF Sound, Normal, ValidSettings
<1>5. ASSUME NEW p \in Known, p \notin Written(g) PROVE g.leaf[p] = None
  <2>1. \/ p \in TLS /\ ~(g.tlsEnabled /\ g.tlsMode = "tls")
        \/ p \in ACME /\ ~(g.tlsEnabled /\ g.tlsMode = "acme")
        \/ p \in Obfs /\ g.leaf["obfs.type"] # "salamander"
    BY <1>5 DEF Written
  <2> QED
    BY <1>4, <2>1 DEF ValidCertificate, Any
<1> QED
  BY <1>2, <1>3, <1>5, UnknownIsNot
LEMMA UnderPaths == \A s \in Sections : Under[s] \subseteq Paths
BY DEF Under, Sections, Paths, Known, Unknown, TLS, ACME, Auth, Obfs, Salamander, Masquerade, File,
       Proxy, String, QUIC, Plain

LEMMA UnderAuth ==
  /\ "auth" \in Sections /\ Auth \subseteq Under["auth"]
  /\ Under["auth"] \cap Known = Auth
  /\ \A s \in Sections \ {"auth"} : Under[s] \cap Under["auth"] = {}
BY DEF Under, Sections, Paths, Known, Unknown, TLS, ACME, Auth, Obfs, Salamander, Masquerade, File,
       Proxy, String, QUIC, Plain

LEMMA InjectIs ==
  ASSUME NEW d, NEW us, NEW p \in Paths
  PROVE  Inject(d, us)[p] = CASE p = "auth.type" -> "userpass"
                              [] p = "auth.userpass" -> us
                              [] p \in Under["auth"] \ {"auth.type", "auth.userpass"} -> None
                              [] OTHER -> d[p]
BY DEF Inject

LEMMA MergeIs ==
  ASSUME NEW f, NEW b, NEW p \in Paths
  PROVE  Merge(f, b)[p] = IF p \in Known THEN b[p]
                          ELSE IF \A s \in Sections : p \in Under[s] => Present(b, s)
                                 THEN f[p] ELSE None
BY DEF Merge

\* The section is there if the form leaves something in it.
Filled(g, s) == \E q \in Under[s] \cap Known : g.leaf[q] # None

LEMMA PresentIs ==
  ASSUME NEW g, Sound(g), NEW s \in Sections PROVE Present(Build(g), s) <=> Filled(g, s)
<1>1. \A p \in Under[s] : p \in Known \/ p \in Unknown
  BY UnderPaths DEF Paths
<1> QED
  BY <1>1, BuildIs DEF Present, Filled

LEMMA DrawnKnown ==
  ASSUME NEW g, Sound(g), NEW f, NEW us, NEW p \in Known
  PROVE  Drawn(f, g, us)[p] = IF p = "auth.userpass" THEN us ELSE g.leaf[p]
<1>1. p \in Paths
  BY UnknownIsNot
<1>2. Merge(f, Build(g))[p] = g.leaf[p]
  BY <1>1, BuildIs, MergeIs
<1>3. p \in Under["auth"] => p \in {"auth.type", "auth.password", "auth.userpass"}
  BY UnderAuth DEF Auth
<1> QED
  BY <1>1, <1>2, <1>3, InjectIs DEF Drawn, Sound, Bare

LEMMA DrawnUnknown ==
  ASSUME NEW g, Sound(g), NEW f, NEW us, NEW p \in Unknown
  PROVE  Drawn(f, g, us)[p] =
           IF p \notin Under["auth"] /\ \A s \in Sections : p \in Under[s] => Filled(g, s)
             THEN f[p] ELSE None
<1>1. p \in Paths /\ p \notin Known /\ p # "auth.type" /\ p # "auth.userpass"
  BY UnknownIsNot DEF Known, Auth
<1>2. Merge(f, Build(g))[p] =
        IF \A s \in Sections : p \in Under[s] => Filled(g, s) THEN f[p] ELSE None
  BY <1>1, MergeIs, PresentIs
<1> QED
  BY <1>1, <1>2, InjectIs DEF Drawn

\* A section of the file that was written is there if the form fills it.
LEMMA DrawnSection ==
  ASSUME NEW g, Sound(g), NEW f, NEW us, NEW s \in Sections \ {"auth"}
  PROVE  Present(Drawn(f, g, us), s) <=> Filled(g, s)
<1> DEFINE d == Drawn(f, g, us)
<1>1. ASSUME NEW q \in Under[s] \cap Known PROVE d[q] = g.leaf[q]
  <2>1. q # "auth.userpass"
    BY UnderAuth DEF Auth
  <2> QED
    BY <2>1, DrawnKnown
<1>2. ASSUME NEW q \in Under[s], q \notin Known, d[q] # None PROVE Filled(g, s)
  <2>1. q \in Unknown
    BY <1>2, UnderPaths DEF Paths
  <2> QED
    BY <1>2, <2>1, DrawnUnknown
<1> HIDE DEF d
<1>3. Present(d, s) <=> Filled(g, s)
  BY <1>1, <1>2 DEF Present, Filled
<1> QED
  BY <1>3 DEF d

-----------------------------------------------------------------------------
(* Reading it back.                                                        *)

\* What a file says, before it is normalized.
SpeedTest(d) == OrElse(Read(d["speedTest"]), Read(d["speedtest"]))

RawLeaf(d) ==
  LET obfs == OrElse(Read(d["obfs.type"]),
                     IF Present(d, "obfs.salamander") THEN "salamander" ELSE None)
      masquerade == OrElse(Read(d["masquerade.type"]),
                           InferredType(Present(d, "masquerade.proxy"),
                                        Present(d, "masquerade.file"),
                                        Present(d, "masquerade.string")))
      auth == OrElse(Read(d["auth.type"]), "userpass")
  IN [p \in Known |-> CASE p = "obfs.type"       -> obfs
                        [] p = "masquerade.type" -> masquerade
                        [] p = "speedTest"       -> SpeedTest(d)
                        [] p = "auth.type"       -> auth
                        [] OTHER                 -> Read(d[p])]

Raw(leaf) ==
  [leaf |-> leaf, tlsEnabled |-> Any(leaf, TLS \cup ACME), tlsMode |-> ModeOf(leaf),
   quicEnabled |-> Any(leaf, QUIC)]

LEMMA ParseIs == ASSUME NEW d PROVE Parse(d) = Normalize(Raw(RawLeaf(d)))
BY Zenon DEF Parse, Raw, RawLeaf, SpeedTest

\* The form g with the users us and the speed test flag st.
AfterLeaf(g, us, st) ==
  [p \in Known |-> CASE p = "auth.userpass" -> us [] p = "speedTest" -> st [] OTHER -> g.leaf[p]]

After(g, us, st) ==
  [leaf |-> AfterLeaf(g, us, st), tlsEnabled |-> g.tlsEnabled, tlsMode |-> g.tlsMode,
   quicEnabled |-> g.quicEnabled]

LEMMA AfterAny ==
  ASSUME NEW g, NEW us, NEW st, NEW fields, fields \subseteq Known,
         "auth.userpass" \notin fields, "speedTest" \notin fields
  PROVE  Any(AfterLeaf(g, us, st), fields) = Any(g.leaf, fields)
BY DEF Any, AfterLeaf

LEMMA RawDrawn ==
  ASSUME NEW g, Sound(g), NEW f, NEW us, us # Blank, NEW d, d = Drawn(f, g, us)
  PROVE  RawLeaf(d) = AfterLeaf(g, us, SpeedTest(d))
<1>1. \A p \in Known : d[p] = IF p = "auth.userpass" THEN us ELSE g.leaf[p]
  BY DrawnKnown
<1>8. \A p \in Known : Read(d[p]) = d[p]
  <2>1. \A p \in Known : g.leaf[p] # Blank
    BY DEF Sound
  <2> QED
    BY <1>1, <2>1 DEF Read
<1>2. /\ "obfs.type" \in Known /\ "masquerade.type" \in Known /\ "auth.type" \in Known
      /\ {"obfs.salamander", "masquerade.proxy", "masquerade.file", "masquerade.string"}
           \subseteq Sections \ {"auth"}
  BY DEF Known, Obfs, Masquerade, Auth, Sections
<1>3. Present(d, "obfs.salamander") => d["obfs.type"] # None
  <2>1. Under["obfs.salamander"] \cap Known \subseteq Obfs
    BY DEF Under, Sections, Known, TLS, ACME, Auth, Obfs, Salamander, Masquerade, File,
       Proxy, String, QUIC, Plain
  <2>2. Any(g.leaf, Obfs) => g.leaf["obfs.type"] # None
    BY DEF Sound, Normal
  <2> QED
    BY <1>1, <1>2, <2>1, <2>2, DrawnSection DEF Filled, Any
<1>4. ASSUME NEW s \in {"masquerade.proxy", "masquerade.file", "masquerade.string"}, Present(d, s)
      PROVE  d["masquerade.type"] # None
  <2>1. Under[s] \cap Known \subseteq Masquerade
    BY DEF Under, Sections, Known, TLS, ACME, Auth, Obfs, Salamander, Masquerade, File,
       Proxy, String, QUIC, Plain
  <2>2. Any(g.leaf, Masquerade) => g.leaf["masquerade.type"] # None
    BY DEF Sound, Normal
  <2> QED
    BY <1>1, <1>2, <1>4, <2>1, <2>2, DrawnSection DEF Filled, Any
<1>5. OrElse(Read(d["obfs.type"]), IF Present(d, "obfs.salamander") THEN "salamander" ELSE None)
        = g.leaf["obfs.type"]
  BY <1>1, <1>2, <1>3, <1>8 DEF OrElse
<1>6. OrElse(Read(d["masquerade.type"]),
             InferredType(Present(d, "masquerade.proxy"), Present(d, "masquerade.file"),
                          Present(d, "masquerade.string")))
        = g.leaf["masquerade.type"]
  <2>1. CASE d["masquerade.type"] # None
    BY <1>1, <1>2, <1>8, <2>1 DEF OrElse
  <2>2. CASE d["masquerade.type"] = None
    <3>1. ~Present(d, "masquerade.proxy") /\ ~Present(d, "masquerade.file")
          /\ ~Present(d, "masquerade.string")
      BY <1>4, <2>2
    <3>2. InferredType(Present(d, "masquerade.proxy"), Present(d, "masquerade.file"),
                       Present(d, "masquerade.string")) = None
      BY <3>1 DEF InferredType
    <3> QED
      BY <1>1, <1>2, <1>8, <2>2, <3>2 DEF OrElse
  <2> QED
    BY <2>1, <2>2
<1>7. OrElse(Read(d["auth.type"]), "userpass") = g.leaf["auth.type"]
  BY <1>1, <1>2, <1>8 DEF OrElse, Sound, Bare, None
<1> QED
  BY <1>1, <1>5, <1>6, <1>7, <1>8 DEF RawLeaf, AfterLeaf
LEMMA FieldsOfForms ==
  /\ \A fields \in {TLS, ACME, TLS \cup ACME, Obfs, Salamander, Masquerade, File, Proxy, String, QUIC} :
       fields \subseteq Known /\ "auth.userpass" \notin fields /\ "speedTest" \notin fields
  /\ {"listen", "auth.type", "auth.password", "obfs.type", "masquerade.type", "masquerade.listenHTTP",
      "masquerade.proxy.url", "masquerade.string.statusCode", "bandwidth.up", "udpIdleTimeout",
      "acme.domains", "quic.maxIdleTimeout"} \subseteq Known \ {"auth.userpass", "speedTest"}
BY DEF Known, TLS, ACME, Auth, Obfs, Salamander, Masquerade, File, Proxy, String, QUIC, Plain

LEMMA AfterFields ==
  ASSUME NEW g, NEW us, NEW st, NEW l, l = AfterLeaf(g, us, st)
  PROVE  /\ Any(l, TLS) = Any(g.leaf, TLS) /\ Any(l, ACME) = Any(g.leaf, ACME)
         /\ Any(l, TLS \cup ACME) = Any(g.leaf, TLS \cup ACME)
         /\ Any(l, Obfs) = Any(g.leaf, Obfs) /\ Any(l, Salamander) = Any(g.leaf, Salamander)
         /\ Any(l, Masquerade) = Any(g.leaf, Masquerade) /\ Any(l, File) = Any(g.leaf, File)
         /\ Any(l, Proxy) = Any(g.leaf, Proxy) /\ Any(l, String) = Any(g.leaf, String)
         /\ Any(l, QUIC) = Any(g.leaf, QUIC)
         /\ \A p \in Known \ {"auth.userpass", "speedTest"} : l[p] = g.leaf[p]
<1>1. \A p \in Known \ {"auth.userpass", "speedTest"} : l[p] = g.leaf[p]
  BY DEF AfterLeaf
<1> QED
  BY <1>1, AfterAny, FieldsOfForms

LEMMA AfterNormal ==
  ASSUME NEW g, Sound(g), NEW us, NEW st PROVE Normal(After(g, us, st))
<1> DEFINE n == After(g, us, st)
<1>1. n.leaf = AfterLeaf(g, us, st) /\ n.tlsEnabled = g.tlsEnabled /\ n.tlsMode = g.tlsMode
      /\ n.quicEnabled = g.quicEnabled
  BY DEF After
<1>2. n = [leaf |-> [p \in Known |-> n.leaf[p]], tlsEnabled |-> n.tlsEnabled,
           tlsMode |-> n.tlsMode, quicEnabled |-> n.quicEnabled]
  BY DEF After, AfterLeaf
<1>3. \A p \in Known : Canonical(p, n.leaf[p]) = n.leaf[p]
  <2> TAKE p \in Known
  <2>1. CASE p \in {"auth.userpass", "speedTest"}
    BY <2>1, CanonicalElsewhere
  <2>2. CASE p \notin {"auth.userpass", "speedTest"}
    BY <1>1, <2>2, AfterFields DEF Sound, Normal
  <2> QED
    BY <2>1, <2>2
<1>4. /\ n.leaf["auth.type"] = "userpass" /\ n.leaf["auth.password"] = None
      /\ n.leaf["listen"] = g.leaf["listen"] /\ n.leaf["obfs.type"] = g.leaf["obfs.type"]
      /\ n.leaf["masquerade.type"] = g.leaf["masquerade.type"]
  BY <1>1, AfterFields, FieldsOfForms DEF Sound, Bare
<1> HIDE DEF n
<1>5. /\ Any(n.leaf, TLS) = Any(g.leaf, TLS) /\ Any(n.leaf, ACME) = Any(g.leaf, ACME)
      /\ Any(n.leaf, TLS \cup ACME) = Any(g.leaf, TLS \cup ACME)
      /\ Any(n.leaf, Obfs) = Any(g.leaf, Obfs) /\ Any(n.leaf, QUIC) = Any(g.leaf, QUIC)
      /\ Any(n.leaf, Masquerade) = Any(g.leaf, Masquerade)
  <2>1. PICK l : l = AfterLeaf(g, us, st)
    OBVIOUS
  <2>2. /\ Any(l, TLS) = Any(g.leaf, TLS) /\ Any(l, ACME) = Any(g.leaf, ACME)
        /\ Any(l, TLS \cup ACME) = Any(g.leaf, TLS \cup ACME)
        /\ Any(l, Obfs) = Any(g.leaf, Obfs) /\ Any(l, QUIC) = Any(g.leaf, QUIC)
        /\ Any(l, Masquerade) = Any(g.leaf, Masquerade)
    BY <2>1, AfterFields
  <2> QED
    BY <1>1, <2>1, <2>2
<1>6. Normal(g)
  BY DEF Sound
<1>7. /\ n.tlsEnabled \in BOOLEAN /\ n.quicEnabled \in BOOLEAN
      /\ n.tlsMode \in Modes
      /\ Any(n.leaf, TLS \cup ACME) => n.tlsEnabled
      /\ Any(n.leaf, TLS) => n.tlsEnabled /\ n.tlsMode # "acme"
      /\ Any(n.leaf, ACME) => n.tlsEnabled /\ n.tlsMode # "tls"
      /\ Any(n.leaf, Obfs) => n.leaf["obfs.type"] # None
      /\ Any(n.leaf, Masquerade) => n.leaf["masquerade.type"] # None
      /\ n.leaf["listen"] # None
      /\ Any(n.leaf, QUIC) => n.quicEnabled
  BY <1>1, <1>4, <1>5, <1>6 DEF Normal
<1>8. "userpass" # "password"
  OBVIOUS
<1>9. Normal(n)
  BY <1>2, <1>3, <1>4, <1>7, <1>8 DEF Normal
<1> QED
  BY <1>9 DEF n

\* Validation does not look at the users or at the speed test.
LEMMA AfterValid ==
  ASSUME NEW g, Sound(g), NEW us, NEW st PROVE ValidSettings(After(g, us, st))
<1> DEFINE n == After(g, us, st)
<1>1. Normalize(n) = n /\ Normalize(g) = g
  BY AfterNormal, NormalFixed DEF Sound
<1>2. n.leaf = AfterLeaf(g, us, st) /\ n.tlsEnabled = g.tlsEnabled /\ n.tlsMode = g.tlsMode
      /\ n.quicEnabled = g.quicEnabled
  BY DEF After
<1> HIDE DEF n
<1>3. \A p \in Known \ {"auth.userpass", "speedTest"} : n.leaf[p] = g.leaf[p]
  BY <1>2, AfterFields
<1>4. ValidCertificate(g) => ValidCertificate(n)
  BY <1>2, <1>3, FieldsOfForms DEF ValidCertificate
<1>5. ValidMasquerade(g.leaf) => ValidMasquerade(n.leaf)
  BY <1>2, <1>3, AfterFields, FieldsOfForms DEF ValidMasquerade
<1>6. ValidSettings(g)
  BY DEF Sound
<1>7. ValidSettings(n)
  BY <1>1, <1>2, <1>3, <1>4, <1>5, <1>6, AfterFields, FieldsOfForms DEF ValidSettings
<1> QED
  BY <1>7 DEF n

\* What was written reads back as it was meant, but for the alias of the
\* speed test.
LEMMA ParseDrawn ==
  ASSUME NEW g, Sound(g), g.tlsEnabled, NEW f, NEW us, us # Blank, NEW d, d = Drawn(f, g, us)
  PROVE  Parse(d) = After(g, us, SpeedTest(d))
<1> DEFINE l == AfterLeaf(g, us, SpeedTest(d))
<1>1. RawLeaf(d) = l
  BY RawDrawn
<1>2. Normalize(g) = g
  BY NormalFixed DEF Sound
<1>3. /\ ValidCertificate(g) /\ g.tlsEnabled \in BOOLEAN /\ g.quicEnabled \in BOOLEAN
      /\ Any(g.leaf, TLS) => g.tlsEnabled /\ g.tlsMode # "acme"
      /\ Any(g.leaf, ACME) => g.tlsEnabled /\ g.tlsMode # "tls"
      /\ g.quicEnabled = Any(g.leaf, QUIC)
  <2>1. g.quicEnabled => Any(g.leaf, QUIC)
    BY <1>2 DEF Sound, ValidSettings
  <2>2. Any(g.leaf, QUIC) \in BOOLEAN
    BY DEF Any
  <2>3. ValidCertificate(g)
    BY <1>2 DEF Sound, ValidSettings
  <2> QED
    BY <2>1, <2>2, <2>3 DEF Sound, Normal
<1>4. \/ g.tlsMode = "tls" /\ Any(g.leaf, TLS) /\ ~Any(g.leaf, ACME)
      \/ g.tlsMode = "acme" /\ ~Any(g.leaf, TLS) /\ Any(g.leaf, ACME)
  <2>1. TLS # {} /\ "acme.domains" \in ACME
    BY DEF TLS, ACME
  <2> QED
    BY <1>3, <2>1 DEF ValidCertificate, Any
<1> HIDE DEF l
<1>5. ModeOf(l) = g.tlsMode
  BY <1>4, AfterFields DEF ModeOf, l
<1>6. Any(l, TLS \cup ACME) = g.tlsEnabled
  <2>1. Any(l, TLS \cup ACME) = Any(g.leaf, TLS \cup ACME)
    BY AfterFields DEF l
  <2>2. Any(g.leaf, TLS \cup ACME)
    BY <1>4 DEF Any
  <2>3. Any(l, TLS \cup ACME) \in BOOLEAN
    BY DEF Any
  <2> QED
    BY <1>3, <2>1, <2>2, <2>3
<1>7. Any(l, QUIC) = g.quicEnabled
  BY <1>3, AfterFields DEF l
<1>8. Raw(l) = After(g, us, SpeedTest(d))
  BY <1>5, <1>6, <1>7, Zenon DEF Raw, After, l
<1> QED
  BY <1>1, <1>8, ParseIs, AfterNormal, NormalFixed

\* A file that was written is valid, and one that is valid has a certificate.
LEMMA DrawnValid ==
  ASSUME NEW g, Sound(g), NEW f, NEW us, us # Blank, NEW d, d = Drawn(f, g, us)
  PROVE  ValidConfig(d) <=> g.tlsEnabled
<1>1. (Present(d, "tls") \/ Present(d, "acme")) <=> Any(g.leaf, TLS \cup ACME)
  <2>1. /\ "tls" \in Sections \ {"auth"} /\ "acme" \in Sections \ {"auth"}
        /\ Under["tls"] \cap Known = TLS /\ Under["acme"] \cap Known = ACME
    BY DEF Under, Sections, Known, TLS, ACME, Auth, Obfs, Salamander, Masquerade, File,
       Proxy, String, QUIC, Plain
  <2> QED
    BY <2>1, DrawnSection DEF Filled, Any
<1>2. Any(g.leaf, TLS \cup ACME) => g.tlsEnabled
  BY DEF Sound, Normal
<1>3. g.tlsEnabled => Any(g.leaf, TLS \cup ACME)
  <2>1. Normalize(g) = g
    BY NormalFixed DEF Sound
  <2>2. ValidCertificate(g)
    BY <2>1 DEF Sound, ValidSettings
  <2>3. TLS # {} /\ "acme.domains" \in ACME
    BY DEF TLS, ACME
  <2> QED
    BY <2>2, <2>3 DEF ValidCertificate, Any
<1>4. g.tlsEnabled => ValidSettings(Parse(d))
  BY ParseDrawn, AfterValid
<1> QED
  BY <1>1, <1>2, <1>3, <1>4 DEF ValidConfig
-----------------------------------------------------------------------------
(* Loading what was written, and writing it again.                         *)

LEMMA ManagedLeaf ==
  ASSUME NEW s, NEW l, l = [p \in Known |-> l[p]],
         l["auth.type"] = "userpass", l["auth.userpass"] = None, l["auth.password"] = None,
         \A p \in Known \ Auth : l[p] = s.leaf[p]
  PROVE  Managed(s) = [s EXCEPT !.leaf = l]
<1>1. "auth.type" \in Known /\ "auth.password" \in Known /\ "auth.userpass" \in Known
  BY DEF Known, Auth
<1>2. \A p \in Known :
        l[p] = CASE p = "auth.type" -> "userpass"
                 [] p \in Auth \ {"auth.type"} -> None
                 [] OTHER -> s.leaf[p]
  BY <1>1 DEF Auth
<1>3. l = [p \in Known |-> CASE p = "auth.type" -> "userpass"
                             [] p \in Auth \ {"auth.type"} -> None
                             [] OTHER -> s.leaf[p]]
  BY <1>2
<1> QED
  BY <1>3 DEF Managed

LEMMA ManagedAfter ==
  ASSUME NEW g, Sound(g), NEW us, NEW st PROVE Managed(After(g, us, st)) = After(g, None, st)
<1> DEFINE l == AfterLeaf(g, None, st)
<1>1. l = [p \in Known |-> l[p]]
  BY DEF AfterLeaf
<1>2. l["auth.type"] = "userpass" /\ l["auth.password"] = None /\ l["auth.userpass"] = None
  <2>1. "auth.type" \in Known /\ "auth.password" \in Known /\ "auth.userpass" \in Known
    BY DEF Known, Auth
  <2> QED
    BY <2>1 DEF AfterLeaf, Sound, Bare
<1>3. \A p \in Known \ Auth : l[p] = After(g, us, st).leaf[p]
  BY DEF AfterLeaf, After, Auth
<1>4. After(g, None, st) = [After(g, us, st) EXCEPT !.leaf = l]
  BY DEF After
<1> HIDE DEF l
<1> QED
  BY <1>1, <1>2, <1>3, <1>4, ManagedLeaf

LEMMA ReadyAgain ==
  ASSUME NEW g, Sound(g), NEW secret PROVE Ready(g, secret) = g
<1>1. g = [leaf |-> [p \in Known |-> g.leaf[p]], tlsEnabled |-> g.tlsEnabled,
           tlsMode |-> g.tlsMode, quicEnabled |-> g.quicEnabled]
  BY DEF Sound, Normal
<1>2. Managed(g) = [g EXCEPT !.leaf = g.leaf]
  <2>1. g.leaf = [p \in Known |-> g.leaf[p]]
    BY <1>1
  <2>2. PICK l : l = g.leaf
    OBVIOUS
  <2>3. l = [p \in Known |-> l[p]]
    BY <2>1, <2>2
  <2>4. Managed(g) = [g EXCEPT !.leaf = l]
    BY <2>2, <2>3, ManagedLeaf DEF Sound, Bare
  <2> QED
    BY <2>2, <2>4
<1>3. Managed(g) = g
  BY <1>1, <1>2
<1>4. Normalize(g) = g
  BY NormalFixed DEF Sound
<1> QED
  BY <1>3, <1>4 DEF Ready, Generate, Sound

LEMMA AfterSound ==
  ASSUME NEW g, Sound(g), NEW st, st # Blank PROVE Sound(After(g, None, st))
<1> DEFINE n == After(g, None, st)
<1>1. Normal(n) /\ ValidSettings(n)
  BY AfterNormal, AfterValid
<1>2. PICK l : l = AfterLeaf(g, None, st)
  OBVIOUS
<1>3. n.leaf = l
  BY <1>2 DEF After
<1>4. /\ Any(l, Salamander) = Any(g.leaf, Salamander)
      /\ \A p \in Known \ {"auth.userpass", "speedTest"} : l[p] = g.leaf[p]
  BY <1>2, AfterFields
<1>5. l["auth.userpass"] = None
  <2>1. "auth.userpass" \in Known
    BY DEF Known, Auth
  <2> QED
    BY <1>2, <2>1 DEF AfterLeaf
<1>7. \A p \in Known : l[p] # Blank
  BY <1>2 DEF AfterLeaf, Sound, None, Blank
<1> HIDE DEF n
<1>6. Bare(n) /\ (n.leaf["obfs.type"] = "salamander" => Any(n.leaf, Salamander))
  BY <1>3, <1>4, <1>5, FieldsOfForms DEF Bare, Sound
<1> QED
  BY <1>1, <1>3, <1>6, <1>7 DEF Sound, n

\* A speed test written in the schema's spelling reads back as it was.
LEMMA AfterSame ==
  ASSUME NEW g, Sound(g), NEW st, st = g.leaf["speedTest"] PROVE After(g, None, st) = g
<1>1. g = [leaf |-> [p \in Known |-> g.leaf[p]], tlsEnabled |-> g.tlsEnabled,
           tlsMode |-> g.tlsMode, quicEnabled |-> g.quicEnabled]
  BY DEF Sound, Normal
<1>2. AfterLeaf(g, None, st) = [p \in Known |-> g.leaf[p]]
  BY DEF AfterLeaf, Sound, Bare
<1> QED
  BY <1>1, <1>2, Zenon DEF After

\* Writing the same form again changes nothing.
LEMMA DrawnAgain ==
  ASSUME NEW g, Sound(g), NEW f, NEW us, NEW d, d = Drawn(f, g, us)
  PROVE  Drawn(d, g, us) = d
<1>1. \A p \in Known : Drawn(d, g, us)[p] = d[p]
  BY DrawnKnown
<1>2. \A p \in Unknown : Drawn(d, g, us)[p] = d[p]
  BY DrawnUnknown
<1>3. d = [p \in Paths |-> d[p]]
  BY DEF Drawn, Inject
<1>4. Drawn(d, g, us) = [p \in Paths |-> Drawn(d, g, us)[p]]
  BY DEF Drawn, Inject
<1>5. \A p \in Paths : Drawn(d, g, us)[p] = d[p]
  BY <1>1, <1>2 DEF Paths
<1>6. [p \in Paths |-> Drawn(d, g, us)[p]] = [p \in Paths |-> d[p]]
  BY <1>5
<1> QED
  BY <1>3, <1>4, <1>6

\* What the next load shows of a form that was written.
LEMMA LoadedDrawn ==
  ASSUME NEW g, Sound(g), g.tlsEnabled, NEW f, NEW us, us # Blank,
         NEW d, d = Drawn(f, g, us), d # Broken
  PROVE  Loaded(d) = After(g, None, SpeedTest(d))
BY ParseDrawn, ManagedAfter DEF Loaded

-----------------------------------------------------------------------------
(* Types.                                                                  *)

LEMMA ChoicesAreValues ==
  ASSUME NEW p \in Paths, NEW v \in Choices(p) \cup {None} PROVE v \in Values
BY DEF Values

LEMMA ValuesOf ==
  /\ None \in Values /\ ":443" \in Values /\ "userpass" \in Values /\ "password" \in Values
  /\ "salamander" \in Values /\ "file" \in Values /\ "proxy" \in Values /\ "string" \in Values
  /\ "100 mbps" \in Values /\ "set" \in Values
  /\ ManagedAuth \subseteq Values /\ Secrets \subseteq Values
<1>1. /\ "listen" \in Paths /\ "auth.type" \in Paths /\ "auth.userpass" \in Paths
      /\ "obfs.type" \in Paths /\ "obfs.salamander.password" \in Paths
      /\ "masquerade.type" \in Paths /\ "bandwidth.up" \in Paths /\ "custom" \in Paths
  BY DEF Paths, Known, Unknown, Plain, Auth, Obfs, Salamander, Masquerade
<1>2. /\ ":443" \in Choices("listen") /\ "userpass" \in Choices("auth.type")
      /\ "password" \in Choices("auth.type") /\ "salamander" \in Choices("obfs.type")
      /\ "file" \in Choices("masquerade.type") /\ "proxy" \in Choices("masquerade.type")
      /\ "string" \in Choices("masquerade.type") /\ "100 mbps" \in Choices("bandwidth.up")
      /\ "set" \in Choices("custom")
      /\ Choices("auth.userpass") = ManagedAuth
      /\ Choices("obfs.salamander.password") = Secrets
  BY DEF Choices
<1> QED
  BY <1>1, <1>2 DEF Values

\* Nothing a form holds is a blank key.
LEMMA BlankIsNoValue == Blank \notin Values
<1>1. \A p \in Paths : Blank \notin Choices(p)
  BY SecretsAssumption, ManagedAuthAssumption DEF Choices, Blank
<1> QED
  BY <1>1 DEF Values, None, Blank

LEMMA CanonicalValue ==
  ASSUME NEW p, NEW v \in Values PROVE Canonical(p, v) \in Values
BY ValuesOf DEF Canonical

LEMMA NormalizeType ==
  ASSUME NEW s \in [leaf: [Known -> Values], tlsEnabled: BOOLEAN,
                    tlsMode: AskedModes, quicEnabled: BOOLEAN]
  PROVE  Normalize(s) \in Settings
<1>1. \A p \in Known : Spelled(s)[p] \in Values
  BY CanonicalValue DEF Spelled
<1>2. /\ "obfs.type" \in Known /\ "masquerade.type" \in Known
  BY DEF Known, Obfs, Masquerade
<1>3. ObfsType(s) \in Values
  BY <1>1, <1>2, ValuesOf DEF ObfsType, OrElse
<1>4. MasqueradeType(s) \in Values
  <2>1. \A a, b, c \in BOOLEAN : InferredType(a, b, c) \in Values
    BY ValuesOf DEF InferredType
  <2>2. /\ Any(Spelled(s), Proxy) \in BOOLEAN /\ Any(Spelled(s), File) \in BOOLEAN
        /\ Any(Spelled(s), String) \in BOOLEAN
    BY DEF Any
  <2> QED
    BY <1>1, <1>2, <2>1, <2>2 DEF MasqueradeType, OrElse
<1>5. AuthType(s) \in Values
  BY ValuesOf DEF AuthType
<1>6. \A p \in Known : NamedLeaf(s)[p] \in Values
  <2> TAKE p \in Known
  <2>1. OrElse(Spelled(s)[p], ":443") \in Values
    BY <1>1, ValuesOf DEF OrElse
  <2>2. \/ NamedLeaf(s)[p] = OrElse(Spelled(s)[p], ":443") \/ NamedLeaf(s)[p] = AuthType(s)
        \/ NamedLeaf(s)[p] = ObfsType(s) \/ NamedLeaf(s)[p] = MasqueradeType(s)
        \/ NamedLeaf(s)[p] = Spelled(s)[p]
    BY NamedIs
  <2> QED
    BY <1>1, <1>3, <1>4, <1>5, <2>1, <2>2
<1>7. On(s) \in BOOLEAN /\ (s.quicEnabled \/ Any(Spelled(s), QUIC)) \in BOOLEAN
  BY DEF On, Any
<1>8. Mode(s) \in AskedModes
  BY DEF Mode, AskedModes, Modes
<1>9. [p \in Known |-> IF p \in Dropped(s) THEN None ELSE NamedLeaf(s)[p]] \in [Known -> Values]
  BY <1>6, ValuesOf
<1> QED
  BY <1>7, <1>8, <1>9, NormalizeIs DEF Settings

LEMMA ManagedType ==
  ASSUME NEW s \in Settings PROVE Managed(s) \in Settings
<1>1. Values \cup {"userpass"} = Values
  BY ValuesOf
<1> QED
  BY <1>1, ManagedIs DEF Settings

LEMMA ParseType ==
  ASSUME NEW d \in Document PROVE Parse(d) \in Settings
<1>1. \A p \in Paths : Read(d[p]) \in Values
  BY ValuesOf DEF Document, Read
<1>2. /\ "obfs.type" \in Paths /\ "masquerade.type" \in Paths /\ "speedTest" \in Paths
      /\ "speedtest" \in Paths /\ "auth.type" \in Paths /\ Known \subseteq Paths
  BY DEF Paths, Known, Unknown, Obfs, Masquerade, Plain, Auth
<1>3. \A a, b, c \in BOOLEAN : InferredType(a, b, c) \in Values
  BY ValuesOf DEF InferredType
<1>4. /\ Present(d, "masquerade.proxy") \in BOOLEAN /\ Present(d, "masquerade.file") \in BOOLEAN
      /\ Present(d, "masquerade.string") \in BOOLEAN
  BY DEF Present
<1> DEFINE inferred == InferredType(Present(d, "masquerade.proxy"), Present(d, "masquerade.file"),
                                    Present(d, "masquerade.string"))
<1>5. inferred \in Values
  BY <1>3, <1>4
<1> HIDE DEF inferred
<1>6. RawLeaf(d) \in [Known -> Values]
  <2>1. OrElse(Read(d["masquerade.type"]), inferred) \in Values
    BY <1>1, <1>2, <1>5 DEF OrElse
  <2>2. OrElse(Read(d["obfs.type"]), IF Present(d, "obfs.salamander") THEN "salamander" ELSE None) \in Values
    BY <1>1, <1>2, ValuesOf DEF OrElse
  <2>3. SpeedTest(d) \in Values /\ OrElse(Read(d["auth.type"]), "userpass") \in Values
    BY <1>1, <1>2, ValuesOf DEF SpeedTest, OrElse
  <2> QED
    BY <1>1, <1>2, <2>1, <2>2, <2>3 DEF RawLeaf, inferred
<1>7. Raw(RawLeaf(d)) \in [leaf: [Known -> Values], tlsEnabled: BOOLEAN,
                           tlsMode: AskedModes, quicEnabled: BOOLEAN]
  <2>1. ModeOf(RawLeaf(d)) \in AskedModes
    BY DEF ModeOf, AskedModes, Modes
  <2>2. Any(RawLeaf(d), TLS \cup ACME) \in BOOLEAN /\ Any(RawLeaf(d), QUIC) \in BOOLEAN
    BY DEF Any
  <2> QED
    BY <1>6, <2>1, <2>2 DEF Raw
<1> QED
  BY <1>7, ParseIs, NormalizeType

LEMMA LoadedType ==
  ASSUME NEW f \in Document \cup {Broken} PROVE Loaded(f) \in Settings
<1>1. Empty \in Document
  BY ValuesOf DEF Empty, Document
<1> QED
  BY <1>1, ParseType, ManagedType DEF Loaded

LEMMA InjectType ==
  ASSUME NEW d \in Document, NEW us \in ManagedAuth PROVE Inject(d, us) \in Document
<1>1. \A p \in Paths : d[p] \in Values \cup {Blank}
  BY DEF Document
<1>2. us \in Values
  BY ValuesOf
<1>3. \A p \in Paths : Inject(d, us)[p] \in Values \cup {Blank}
  <2> TAKE p \in Paths
  <2>1. \/ Inject(d, us)[p] = "userpass" \/ Inject(d, us)[p] = us
        \/ Inject(d, us)[p] = None \/ Inject(d, us)[p] = d[p]
    BY InjectIs
  <2> QED
    BY <1>1, <1>2, <2>1, ValuesOf
<1>4. Inject(d, us) = [p \in Paths |-> Inject(d, us)[p]]
  BY DEF Inject
<1> QED
  BY <1>3, <1>4 DEF Document

LEMMA ReadyType ==
  ASSUME NEW s \in Settings, NEW secret \in Secrets PROVE Ready(s, secret) \in Settings
<1>1. Normalize(Managed(s)) \in Settings
  BY ManagedType, NormalizeType DEF Settings
<1>2. secret \in Values
  BY ValuesOf
<1> QED
  BY <1>1, <1>2 DEF Ready, Generate, Settings

\* A form that passes the first validation, and the two validations of a save.
LEMMA AcceptableIs ==
  ASSUME NEW s \in Settings, NEW secret \in Secrets, users \in ManagedAuth,
         NEW f, NEW g, g = Ready(s, secret)
  PROVE  /\ Acceptable(s, secret) <=> Sound(g)
         /\ Rendered(f, s, secret) = Drawn(f, g, users)
         /\ Accepted(f, s, secret) <=> f # Broken /\ Sound(g) /\ g.tlsEnabled
<1>1. Acceptable(s, secret) <=> Sound(g)
  <2>1. \A p \in Known : g.leaf[p] # Blank
    BY ReadyType, BlankIsNoValue DEF Settings
  <2> QED
    BY <2>1, ReadyIs DEF Acceptable, Ready, Sound
<1>2. Rendered(f, s, secret) = Drawn(f, g, users)
  BY DEF Rendered, Drawn, Ready
<1>3. Sound(g) => (ValidConfig(Rendered(f, s, secret)) <=> g.tlsEnabled)
  BY <1>2, ManagedAuthAssumption, DrawnValid
<1> QED
  BY <1>1, <1>2, <1>3 DEF Accepted

LEMMA DrawnType ==
  ASSUME NEW g \in Settings, Sound(g), NEW f \in Document, NEW us \in ManagedAuth
  PROVE  Drawn(f, g, us) \in Document
<1>1. \A p \in Known : Drawn(f, g, us)[p] \in Values
  <2> TAKE p \in Known
  <2>1. g.leaf[p] \in Values /\ us \in Values
    BY ValuesOf DEF Settings
  <2>2. Drawn(f, g, us)[p] = us \/ Drawn(f, g, us)[p] = g.leaf[p]
    BY DrawnKnown
  <2> QED
    BY <2>1, <2>2
<1>2. \A p \in Unknown : Drawn(f, g, us)[p] \in Values \cup {Blank}
  <2>1. \A p \in Unknown : f[p] \in Values \cup {Blank}
    BY UnknownIsNot DEF Document
  <2> QED
    <3> TAKE p \in Unknown
    <3>1. Drawn(f, g, us)[p] = f[p] \/ Drawn(f, g, us)[p] = None
      BY DrawnUnknown
    <3> QED
      BY <2>1, <3>1, ValuesOf
<1>3. Drawn(f, g, us) = [p \in Paths |-> Drawn(f, g, us)[p]]
  BY DEF Drawn, Inject
<1> QED
  BY <1>1, <1>2, <1>3 DEF Document, Paths

-----------------------------------------------------------------------------
(* The invariant.                                                          *)

\* A file that was just saved came from the form.
FromForm ==
  answer = "saved" =>
    /\ file # Broken /\ form # NoForm
    /\ \E f \in Document, secret \in Secrets :
         Accepted(f, form, secret) /\ file = Rendered(f, form, secret)

IInv == TypeOK /\ FromForm

LEMMA InitHolds == Init => IInv
<1> SUFFICES ASSUME Init PROVE IInv
  OBVIOUS
<1> DEFINE d == [Empty EXCEPT !["listen"] = ":443", !["tls.cert"] = "set", !["tls.key"] = "set"]
<1>1. d \in Document
  <2>1. Empty \in Document
    BY ValuesOf DEF Empty, Document
  <2> QED
    BY <2>1, ValuesOf DEF Document
<1>2. file = Inject(d, users) /\ users \in ManagedAuth /\ form = NoForm /\ answer = "none" /\ edits = 0
  BY DEF Init
<1> HIDE DEF d
<1>3. file \in Document /\ 0 \in 0..MaxEdits
  BY <1>1, <1>2, InjectType, MaxEditsAssumption
<1> QED
  BY <1>2, <1>3 DEF IInv, TypeOK, FromForm

LEMMA SaveFormHolds == ASSUME IInv, SaveForm PROVE IInv'
<1>1. PICK secret \in Secrets : Accepted(file, form, secret) /\ file' = Rendered(file, form, secret)
  BY DEF SaveForm
<1>2. form \in Settings /\ file \in Document /\ users \in ManagedAuth
  BY <1>1 DEF SaveForm, IInv, TypeOK, Accepted
<1>3. PICK g \in Settings : g = Ready(form, secret)
  BY <1>2, ReadyType
<1>4. Sound(g) /\ file' = Drawn(file, g, users)
  BY <1>1, <1>2, <1>3, AcceptableIs
<1>5. file' \in Document /\ file' # Broken
  BY <1>2, <1>4, DrawnType, NullAssumption
<1>6. UNCHANGED <<form, users, edits>> /\ answer' = "saved" /\ form # NoForm
  BY DEF SaveForm
<1>7. TypeOK'
  BY <1>5, <1>6 DEF IInv, TypeOK
<1>8. FromForm'
  <2>1. \A f : (Accepted(f, form, secret))' = Accepted(f, form, secret)
    BY <1>6 DEF Accepted, Acceptable, Rendered
  <2>2. \A f : (Rendered(f, form, secret))' = Rendered(f, form, secret)
    BY <1>6 DEF Rendered
  <2> QED
    BY <1>1, <1>2, <1>5, <1>6, <2>1, <2>2 DEF FromForm
<1> QED
  BY <1>7, <1>8 DEF IInv
LEMMA SyncHolds == ASSUME IInv, Sync PROVE IInv'
<1>1. file' = Inject(file, users) /\ UNCHANGED <<form, users, edits>> /\ answer' = "synced"
      /\ file \in Document /\ users \in ManagedAuth
  BY DEF Sync, IInv, TypeOK
<1>2. TypeOK'
  BY <1>1, InjectType DEF IInv, TypeOK
<1>4. FromForm'
  BY <1>1 DEF FromForm
<1> QED
  BY <1>2, <1>4 DEF IInv

\* Every other step forgets that the file was just written.
LEMMA OthersHold ==
  ASSUME IInv, LoadForm \/ EditForm \/ EditFile \/ ChangeUsers PROVE IInv'
<1>1. answer' = "none"
  BY DEF LoadForm, EditForm, EditFile, ChangeUsers, Edit
<1>2. FromForm'
  BY <1>1 DEF FromForm
<1>3. edits' \in 0..MaxEdits
  BY MaxEditsAssumption DEF LoadForm, EditForm, EditFile, ChangeUsers, Edit, IInv, TypeOK
<1>4. form' \in Settings \cup {NoForm}
  <2>1. CASE LoadForm
    BY <2>1, LoadedType DEF LoadForm, IInv, TypeOK
  <2>2. CASE EditFile \/ ChangeUsers
    BY <2>2 DEF EditFile, ChangeUsers, IInv, TypeOK
  <2>3. CASE EditForm
    <3>1. form \in Settings
      BY <2>3 DEF EditForm, IInv, TypeOK
    <3>2. ASSUME NEW p \in Known \ Auth, NEW v \in Choices(p) \cup {None},
                 form' = [form EXCEPT !.leaf[p] = v]
          PROVE  form' \in Settings
      <4>1. v \in Values
        BY ChoicesAreValues, UnknownIsNot
      <4> QED
        BY <3>1, <3>2, <4>1 DEF Settings
    <3>3. ASSUME NEW m \in AskedModes, form' = [form EXCEPT !.tlsMode = m]
          PROVE  form' \in Settings
      BY <3>1, <3>3 DEF Settings
    <3>4. ASSUME NEW b \in BOOLEAN,
                 form' = [form EXCEPT !.tlsEnabled = b] \/ form' = [form EXCEPT !.quicEnabled = b]
          PROVE  form' \in Settings
      BY <3>1, <3>4 DEF Settings
    <3> QED
      BY <2>3, <3>2, <3>3, <3>4 DEF EditForm
  <2> QED
    BY <2>1, <2>2, <2>3
<1>5. file' \in Document \cup {Broken}
  <2>1. CASE EditFile
    <3>1. ASSUME file # Broken, NEW p \in Paths, NEW v \in Choices(p) \cup {None, Blank},
                 file' = [file EXCEPT ![p] = v]
          PROVE  file' \in Document
      <4>1. v \in Values \cup {Blank} /\ file \in Document
        BY <3>1, ChoicesAreValues DEF IInv, TypeOK
      <4> QED
        BY <3>1, <4>1 DEF Document
    <3> QED
      BY <2>1, <3>1 DEF EditFile
  <2>2. CASE LoadForm \/ EditForm \/ ChangeUsers
    BY <2>2 DEF LoadForm, EditForm, ChangeUsers, IInv, TypeOK
  <2> QED
    BY <2>1, <2>2
<1>6. users' \in ManagedAuth
  BY DEF LoadForm, EditForm, EditFile, ChangeUsers, IInv, TypeOK
<1> QED
  BY <1>1, <1>2, <1>3, <1>4, <1>5, <1>6 DEF IInv, TypeOK

LEMMA NextHolds == IInv /\ [Next]_vars => IInv'
<1> SUFFICES ASSUME IInv, [Next]_vars PROVE IInv'
  OBVIOUS
<1>1. CASE UNCHANGED vars
  BY <1>1 DEF vars, IInv, TypeOK, FromForm, Accepted, Acceptable, Rendered
<1> QED
  BY <1>1, SaveFormHolds, SyncHolds, OthersHold DEF Next

\* Types hold, and the file a save has just answered for came from the form.
THEOREM Invariance == Spec => []IInv
BY InitHolds, NextHolds, PTL DEF Spec

LEMMA ReadyKeeps ==
  ASSUME NEW s \in Settings, NEW secret \in Secrets, NEW n, n = Normalize(Managed(s)),
         NEW g, g = Ready(s, secret)
  PROVE  /\ g.tlsEnabled = n.tlsEnabled /\ g.tlsMode = n.tlsMode /\ g.quicEnabled = n.quicEnabled
         /\ \A p \in Known \ Salamander : g.leaf[p] = n.leaf[p]
         /\ \A p \in Salamander :
              g.leaf[p] = IF n.leaf["obfs.type"] = "salamander" /\ n.leaf[p] = None
                            THEN secret ELSE n.leaf[p]
<1>1. n \in Settings
  BY ManagedType, NormalizeType DEF Settings
<1>2. Salamander = {"obfs.salamander.password"} /\ Salamander \subseteq Known
  BY DEF Salamander, Known, Obfs
<1>3. Any(n.leaf, Salamander) <=> n.leaf["obfs.salamander.password"] # None
  BY <1>2 DEF Any
<1>4. g = Generate(n, secret)
  BY DEF Ready
<1>5. CASE n.leaf["obfs.type"] = "salamander" /\ ~Any(n.leaf, Salamander)
  <2>1. g = [n EXCEPT !.leaf["obfs.salamander.password"] = secret]
    BY <1>4, <1>5 DEF Generate
  <2> QED
    BY <1>1, <1>2, <1>3, <1>5, <2>1 DEF Settings
<1>6. CASE ~(n.leaf["obfs.type"] = "salamander" /\ ~Any(n.leaf, Salamander))
  <2>1. g = n
    BY <1>4, <1>6 DEF Generate
  <2> QED
    BY <1>2, <1>3, <1>6, <2>1
<1> QED
  BY <1>5, <1>6

\* A form that passes the first validation and has a certificate passes the
\* second one, on the file it is merged into, whatever that file holds.
THEOREM AcceptableAccepted == Spec => []AcceptableIsAccepted
<1>1. IInv => AcceptableIsAccepted
  <2> SUFFICES ASSUME IInv, form # NoForm, file # Broken, NEW secret \in Secrets,
                      Acceptable(form, secret), Normalize(Managed(form)).tlsEnabled
               PROVE  Accepted(file, form, secret)
    BY DEF AcceptableIsAccepted
  <2>1. form \in Settings /\ users \in ManagedAuth
    BY DEF IInv, TypeOK
  <2>2. PICK g : g = Ready(form, secret)
    OBVIOUS
  <2>3. g.tlsEnabled = Normalize(Managed(form)).tlsEnabled
    BY <2>1, <2>2, ReadyKeeps
  <2> QED
    BY <2>1, <2>2, <2>3, AcceptableIs
<1> QED
  BY <1>1, Invariance, PTL

\* What was saved, loaded and saved again stays what it was, and is never
\* refused: normalizing, generating and merging are idempotent together.
THEOREM SavedStable == Spec => []SavedIsStable
<1>1. IInv => SavedIsStable
  <2> SUFFICES ASSUME IInv, answer = "saved",
                      Read(file["speedtest"]) # None => file["speedTest"] # None,
                      NEW secret \in Secrets
               PROVE  /\ Accepted(file, Loaded(file), secret)
                      /\ Rendered(file, Loaded(file), secret) = file
    BY DEF SavedIsStable
  <2>1. PICK f \in Document, made \in Secrets :
          Accepted(f, form, made) /\ file = Rendered(f, form, made)
    BY DEF IInv, FromForm
  <2>2. file # Broken /\ form \in Settings /\ users \in ManagedAuth /\ users # Blank
    BY ManagedAuthAssumption DEF IInv, FromForm, TypeOK
  <2>3. PICK g \in Settings : g = Ready(form, made)
    BY <2>2, ReadyType
  <2>4. Sound(g) /\ g.tlsEnabled /\ file = Drawn(f, g, users)
    BY <2>1, <2>2, <2>3, AcceptableIs
  <2>5. SpeedTest(file) = g.leaf["speedTest"]
    <3>1. file["speedTest"] = g.leaf["speedTest"] /\ g.leaf["speedTest"] # Blank
      <4>1. "speedTest" \in Known
        BY DEF Known, Plain
      <4> QED
        BY <2>4, <4>1, DrawnKnown DEF Sound
    <3> QED
      BY <3>1 DEF SpeedTest, OrElse, Read
  <2>6. Loaded(file) = g
    BY <2>2, <2>4, <2>5, LoadedDrawn, AfterSame
  <2>7. Ready(g, secret) = g
    BY <2>4, ReadyAgain
  <2>8. Drawn(file, g, users) = file
    BY <2>4, DrawnAgain
  <2> QED
    BY <2>2, <2>3, <2>4, <2>6, <2>7, <2>8, AcceptableIs
<1> QED
  BY <1>1, Invariance, PTL
\* Whatever the file held before, the next load shows the form that was
\* saved, in every field and mode but the alias of the speed test.
THEOREM SavedShown == Spec => SavedAsAsked
<1>1. IInv /\ [Next]_vars =>
        [answer' = "saved" => SameFields(Loaded(file'), Normalize(Managed(form)))]_vars
  <2> SUFFICES ASSUME IInv, Next, answer' = "saved"
               PROVE  SameFields(Loaded(file'), Normalize(Managed(form)))
    OBVIOUS
  <2>1. SaveForm
    BY DEF Next, LoadForm, Sync, EditForm, EditFile, ChangeUsers, Edit
  <2>2. PICK secret \in Secrets :
          Accepted(file, form, secret) /\ file' = Rendered(file, form, secret)
    BY <2>1 DEF SaveForm
  <2>3. form \in Settings /\ file \in Document /\ users \in ManagedAuth
    BY <2>1, <2>2 DEF SaveForm, IInv, TypeOK, Accepted
  <2>4. PICK g \in Settings : g = Ready(form, secret)
    BY <2>3, ReadyType
  <2>5. Sound(g) /\ g.tlsEnabled /\ file' = Drawn(file, g, users)
    BY <2>2, <2>3, <2>4, AcceptableIs
  <2>6. file' # Broken
    BY <2>3, <2>5, DrawnType, NullAssumption
  <2>7. PICK st, got, n : /\ st = SpeedTest(file') /\ got = After(g, None, st)
                          /\ n = Normalize(Managed(form)) /\ Loaded(file') = got
    BY <2>3, <2>5, <2>6, ManagedAuthAssumption, LoadedDrawn
  <2>8. got.leaf = AfterLeaf(g, None, st) /\ got.tlsEnabled = g.tlsEnabled
        /\ got.tlsMode = g.tlsMode /\ got.quicEnabled = g.quicEnabled
    BY <2>7 DEF After
  <2>9. /\ g.tlsEnabled = n.tlsEnabled /\ g.tlsMode = n.tlsMode /\ g.quicEnabled = n.quicEnabled
        /\ \A p \in Known \ Salamander : g.leaf[p] = n.leaf[p]
        /\ \A p \in Salamander :
             g.leaf[p] = IF n.leaf["obfs.type"] = "salamander" /\ n.leaf[p] = None
                           THEN secret ELSE n.leaf[p]
    BY <2>3, <2>4, <2>7, ReadyKeeps
  <2>10. \A p \in Known \ {"auth.userpass", "speedTest"} : got.leaf[p] = g.leaf[p]
    BY <2>8 DEF AfterLeaf
  <2>11. got.leaf["auth.userpass"] = g.leaf["auth.userpass"]
    <3>1. "auth.userpass" \in Known
      BY DEF Known, Auth
    <3> QED
      BY <2>5, <2>8, <3>1 DEF AfterLeaf, Sound, Bare
  <2>12. \A p \in Known \ ({"speedTest"} \cup Salamander) : got.leaf[p] = n.leaf[p]
    BY <2>9, <2>10, <2>11
  <2>13. ASSUME NEW p \in Salamander
         PROVE  IF n.leaf[p] = None /\ n.leaf["obfs.type"] # None
                  THEN got.leaf[p] \in Secrets ELSE got.leaf[p] = n.leaf[p]
    <3>1. p \in Known \ {"auth.userpass", "speedTest"} /\ "obfs.type" \in Known \ Salamander
          /\ "obfs.type" \in Obfs
      BY FieldsOfForms DEF Salamander, Obfs
    <3>2. got.leaf[p] = g.leaf[p] /\ g.leaf["obfs.type"] = n.leaf["obfs.type"]
      BY <2>9, <2>10, <3>1
    <3>3. g.leaf["obfs.type"] # None => g.leaf["obfs.type"] = "salamander"
      <4>1. Normalize(g) = g
        BY <2>5, NormalFixed DEF Sound
      <4>2. Any(g.leaf, Obfs) => g.leaf["obfs.type"] = "salamander"
        BY <2>5, <4>1 DEF Sound, ValidSettings
      <4> QED
        BY <3>1, <4>2 DEF Any
    <3>4. g.leaf[p] = IF n.leaf["obfs.type"] = "salamander" /\ n.leaf[p] = None
                        THEN secret ELSE n.leaf[p]
      BY <2>9
    <3>5. "salamander" # None
      BY DEF None
    <3> QED
      BY <3>2, <3>3, <3>4, <3>5
  <2>14. SameFields(got, n)
    BY <2>8, <2>9, <2>12, <2>13 DEF SameFields
  <2> QED
    BY <2>7, <2>14
<1> QED
  BY <1>1, Invariance, PTL DEF Spec, SavedAsAsked

-----------------------------------------------------------------------------
(* What a save of the loaded form leaves to the operator.                  *)

\* The certificate's sections, the obfuscation's and the file server's: what
\* they say reaches the form.
LEMMA SaidIsLoaded ==
  ASSUME NEW d, NEW q \in TLS \cup ACME \cup Obfs \cup File, Read(d[q]) # None
  PROVE  Parse(d).leaf[q] # None
<1>1. PICK l, s : l = RawLeaf(d) /\ s = Raw(l)
  OBVIOUS
<1>2. /\ q \in Known /\ q \notin Auth
      /\ q \notin {"listen", "bandwidth.up", "speedTest", "auth.type", "masquerade.type"}
  BY DEF Known, TLS, ACME, Auth, Obfs, Salamander, Masquerade, File, Proxy, String, QUIC, Plain
<1>3. l[q] # None
  <2>1. l[q] = Read(d[q]) \/ (q = "obfs.type" /\ l[q] = OrElse(Read(d[q]),
          IF Present(d, "obfs.salamander") THEN "salamander" ELSE None))
    BY <1>1, <1>2 DEF RawLeaf
  <2> QED
    BY <2>1 DEF OrElse
<1>4. Spelled(s)[q] = l[q]
  BY <1>1, <1>2, CanonicalElsewhere DEF Spelled, Raw
<1>5. q \notin Dropped(s)
  <2>1. CASE q \in TLS
    <3>1. On(s)
      BY <1>3, <1>4, <2>1 DEF On, Any
    <3>2. Mode(s) # "acme"
      <4>1. ModeOf(l) \in {"tls", "conflict"}
        BY <1>3, <2>1 DEF ModeOf, Any
      <4>2. s.tlsMode = ModeOf(l)
        BY <1>1 DEF Raw
      <4> QED
        BY <4>1, <4>2 DEF Mode, Asked, OrElse, Modes, None
    <3> QED
      BY <2>1, <3>1, <3>2, DroppedIs, TLSPaths, AuthPaths, <1>2 DEF Auth
  <2>2. CASE q \in ACME
    <3>1. On(s)
      BY <1>3, <1>4, <2>2 DEF On, Any
    <3>2. Mode(s) # "tls"
      <4>1. ModeOf(l) \in {"acme", "conflict"}
        BY <1>3, <2>2 DEF ModeOf, Any
      <4>2. s.tlsMode = ModeOf(l)
        BY <1>1 DEF Raw
      <4> QED
        BY <4>1, <4>2 DEF Mode, Asked, OrElse, Modes, None
    <3> QED
      BY <2>2, <3>1, <3>2, DroppedIs, ACMEPaths, <1>2 DEF Auth
  <2>3. CASE q \in Obfs
    <3>1. ObfsType(s) # None
      BY <1>3, <1>4, <2>3, ObfsPaths DEF ObfsType, OrElse, Any, None
    <3> QED
      BY <2>3, <3>1, DroppedIs, ObfsPaths, <1>2 DEF Auth
  <2>4. CASE q \in File
    <3>1. Any(Spelled(s), File)
      BY <1>3, <1>4, <2>4 DEF Any
    <3>2. MasqueradeType(s) # None
      BY <3>1 DEF MasqueradeType, OrElse, InferredType, None
    <3> QED
      BY <2>4, <3>2, DroppedIs, MasqueradeParts, MasqueradePaths, <1>2 DEF Auth
  <2> QED
    BY <2>1, <2>2, <2>3, <2>4
<1>6. NamedLeaf(s)[q] # None
  <2>1. CASE q = "obfs.type"
    <3>1. ObfsType(s) # None
      BY <1>3, <1>4, <2>1 DEF ObfsType, OrElse
    <3> QED
      BY <1>2, <2>1, <3>1, NamedIs
  <2>2. CASE q # "obfs.type"
    BY <1>2, <1>3, <1>4, <2>2, NamedIs
  <2> QED
    BY <2>1, <2>2
<1>7. Parse(d) = Normalize(s)
  BY <1>1, ParseIs
<1>8. Normalize(s).leaf[q] = NamedLeaf(s)[q]
  BY <1>2, <1>5, NormalizeIs
<1> QED
  BY <1>6, <1>7, <1>8

\* Handing the authentication to the panel keeps a form normal.
LEMMA ManagedKeepsNormal ==
  ASSUME NEW s \in Settings, Normal(s)
  PROVE  Normal(Managed(s)) /\ \A p \in Known \ Auth : Managed(s).leaf[p] = s.leaf[p]
<1>1. PICK m : m = Managed(s)
  OBVIOUS
<1>2. m \in Settings
  BY <1>1, ManagedType
<1>3. /\ m.tlsEnabled = s.tlsEnabled /\ m.tlsMode = s.tlsMode /\ m.quicEnabled = s.quicEnabled
      /\ m.leaf["auth.type"] = "userpass"
      /\ m.leaf["auth.userpass"] = None /\ m.leaf["auth.password"] = None
  BY <1>1, ManagedIs
<1>4. \A p \in Known \ Auth : m.leaf[p] = s.leaf[p]
  <2>1. /\ "auth.type" \in Auth
        /\ s = [leaf |-> s.leaf, tlsEnabled |-> s.tlsEnabled, tlsMode |-> s.tlsMode,
                quicEnabled |-> s.quicEnabled]
    BY DEF Auth, Settings
  <2> QED
    BY <1>1, <2>1 DEF Managed
<1>5. ASSUME NEW fields \in {TLS, ACME, TLS \cup ACME, Obfs, Masquerade, QUIC}
      PROVE  Any(m.leaf, fields) = Any(s.leaf, fields)
  <2>1. \A p \in fields : p \in Known \ Auth
    BY TLSPaths, ACMEPaths, ObfsPaths, MasqueradePaths, CopiedPaths DEF Copied
  <2> QED
    BY <1>4, <2>1 DEF Any
<1>6. \A p \in Known : Canonical(p, m.leaf[p]) = m.leaf[p]
  <2>1. \A p \in Auth : p # "listen" /\ p # "bandwidth.up"
    BY AuthPaths
  <2>2. \A p \in Known \ Auth : Canonical(p, m.leaf[p]) = m.leaf[p]
    BY <1>4 DEF Normal
  <2> QED
    BY <2>1, <2>2, CanonicalElsewhere
<1>7. /\ m.leaf["listen"] = s.leaf["listen"] /\ m.leaf["obfs.type"] = s.leaf["obfs.type"]
      /\ m.leaf["masquerade.type"] = s.leaf["masquerade.type"]
  <2>1. {"listen", "obfs.type", "masquerade.type"} \subseteq Known \ Auth
    BY DEF Known, Plain, Obfs, Masquerade, Auth, Salamander, File, Proxy, String
  <2> QED
    BY <1>4, <2>1
<1>8. m = [leaf |-> [p \in Known |-> m.leaf[p]], tlsEnabled |-> m.tlsEnabled,
           tlsMode |-> m.tlsMode, quicEnabled |-> m.quicEnabled]
  BY <1>2 DEF Settings
<1>9. /\ Any(m.leaf, TLS) = Any(s.leaf, TLS) /\ Any(m.leaf, ACME) = Any(s.leaf, ACME)
      /\ Any(m.leaf, TLS \cup ACME) = Any(s.leaf, TLS \cup ACME)
      /\ Any(m.leaf, Obfs) = Any(s.leaf, Obfs) /\ Any(m.leaf, QUIC) = Any(s.leaf, QUIC)
      /\ Any(m.leaf, Masquerade) = Any(s.leaf, Masquerade)
  BY <1>5
<1>10. Normal(m)
  BY <1>3, <1>6, <1>7, <1>8, <1>9 DEF Normal
<1> QED
  BY <1>1, <1>4, <1>10

\* What was loaded is in the form that is written again.
LEMMA LoadedIsReady ==
  ASSUME NEW d \in Document, NEW secret \in Secrets, NEW g, g = Ready(Managed(Parse(d)), secret),
         NEW q \in Known \ Auth, Parse(d).leaf[q] # None
  PROVE  g.leaf[q] # None
<1>1. PICK s \in Settings : s = Parse(d)
  BY ParseType
<1>2. Normal(s)
  <2>1. Raw(RawLeaf(d)).tlsEnabled \in BOOLEAN /\ Raw(RawLeaf(d)).quicEnabled \in BOOLEAN
    BY DEF Raw, Any
  <2> QED
    BY <1>1, <2>1, ParseIs, NormalizeNormal
<1>3. PICK m \in Settings : m = Managed(s)
  BY ManagedType
<1>4. Normal(m) /\ m.leaf[q] = s.leaf[q]
  BY <1>2, <1>3, ManagedKeepsNormal
<1>5. PICK n : n = Normalize(Managed(m))
  OBVIOUS
<1>6. n.leaf[q] = s.leaf[q]
  BY <1>4, <1>5, ManagedKeepsNormal, NormalFixed
<1>7. g = Ready(m, secret)
  BY <1>1, <1>3
<1>8. /\ \A p \in Known \ Salamander : g.leaf[p] = n.leaf[p]
      /\ \A p \in Salamander : n.leaf[p] # None => g.leaf[p] = n.leaf[p]
  BY <1>5, <1>7, ReadyKeeps
<1> QED
  BY <1>1, <1>6, <1>8

\* Where the keys the panel does not know are.
LEMMA UnknownUnder ==
  ASSUME NEW p \in Unknown \ Under["auth"], NEW s \in Sections, p \in Under[s]
  PROVE  \/ Under[s] \cap Known \subseteq TLS \cup ACME \cup Obfs
         \/ /\ p \in Under["masquerade.file"] /\ Under["masquerade.file"] \cap Known = File
            /\ File \subseteq Under[s]
<1>1. CASE p = "masquerade.file.note"
  <2>1. s \in {"masquerade", "masquerade.file"}
    BY <1>1 DEF Under, Sections, TLS, ACME, Auth, Obfs, Salamander, Masquerade, File, Proxy,
       String, QUIC
  <2> QED
    BY <1>1, <2>1 DEF Under, Sections, Known, TLS, ACME, Auth, Obfs, Salamander, Masquerade, File,
       Proxy, String, QUIC, Plain
<1>2. CASE p # "masquerade.file.note"
  <2>1. s \in {"tls", "acme", "obfs", "obfs.salamander"}
    BY <1>2 DEF Under, Sections, Unknown, TLS, ACME, Auth, Obfs, Salamander, Masquerade, File,
       Proxy, String, QUIC
  <2> QED
    BY <2>1 DEF Under, Sections, Known, TLS, ACME, Auth, Obfs, Salamander, Masquerade, File,
       Proxy, String, QUIC, Plain
<1> QED
  BY <1>1, <1>2

\* A save of the form as it was loaded takes no key from the operator where
\* the file says something that the panel knows.
THEOREM IdleSaveKept == Spec => IdleSaveKeeps
<1> DEFINE Said(p) ==
      \A s \in Sections : p \in Under[s] => \E q \in Under[s] \cap Known : Read(file[q]) # None
<1>1. IInv /\ [Next]_vars =>
        [answer' = "saved" /\ form = Loaded(file) =>
           \A p \in Unknown \ Under["auth"] : Said(p) => file'[p] = file[p]]_vars
  <2> SUFFICES ASSUME IInv, Next, answer' = "saved", form = Loaded(file),
                      NEW p \in Unknown \ Under["auth"], Said(p)
               PROVE  file'[p] = file[p]
    OBVIOUS
  <2>1. SaveForm
    BY DEF Next, LoadForm, Sync, EditForm, EditFile, ChangeUsers, Edit
  <2>2. PICK secret \in Secrets :
          Accepted(file, form, secret) /\ file' = Rendered(file, form, secret)
    BY <2>1 DEF SaveForm
  <2>3. form \in Settings /\ file \in Document /\ users \in ManagedAuth /\ file # Broken
    BY <2>1, <2>2 DEF SaveForm, IInv, TypeOK, Accepted
  <2>4. PICK g : g = Ready(form, secret)
    OBVIOUS
  <2>5. Sound(g) /\ file' = Drawn(file, g, users)
    BY <2>2, <2>3, <2>4, AcceptableIs
  <2>6. g = Ready(Managed(Parse(file)), secret)
    BY <2>3, <2>4 DEF Loaded
  <2>7. ASSUME NEW q \in TLS \cup ACME \cup Obfs \cup File, Read(file[q]) # None
        PROVE  q \in Known /\ g.leaf[q] # None
    <3>1. q \in Known \ Auth
      BY TLSPaths, ACMEPaths, ObfsPaths, MasqueradeParts, MasqueradePaths
    <3> QED
      BY <2>3, <2>6, <2>7, <3>1, SaidIsLoaded, LoadedIsReady
  <2>8. ASSUME NEW s \in Sections, p \in Under[s] PROVE Filled(g, s)
    <3>1. CASE Under[s] \cap Known \subseteq TLS \cup ACME \cup Obfs
      BY <2>7, <2>8, <3>1 DEF Filled
    <3>2. CASE /\ p \in Under["masquerade.file"] /\ Under["masquerade.file"] \cap Known = File
               /\ File \subseteq Under[s]
      <4>1. PICK q \in File : Read(file[q]) # None
        BY <3>2 DEF Sections
      <4> QED
        BY <2>7, <3>2, <4>1 DEF Filled
    <3> QED
      BY <2>8, <3>1, <3>2, UnknownUnder
  <2> QED
    BY <2>5, <2>8, DrawnUnknown
<1> QED
  BY <1>1, Invariance, PTL DEF Spec, IdleSaveKeeps
=============================================================================
