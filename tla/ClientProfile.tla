---------------------------- MODULE ClientProfile ----------------------------
(***************************************************************************)
(* What a user of the Hysteria server is given to connect with: a share    *)
(* URI, a client YAML, a sing-box outbound and a list of parameters.  All  *)
(* are made from one profile: the server's settings, seen from a client,   *)
(* on top of which come HY2_DOMAIN when that is a hysteria2:// URI, and    *)
(* then the overrides kept with the user.                                  *)
(*                                                                         *)
(* A host or a password is one value, ports are a sequence; a certificate  *)
(* pin is a hash and whether it is written with colons.                    *)
(***************************************************************************)
EXTENDS Integers, Sequences

CONSTANTS
  None,        \* an empty or absent field
  Local,       \* 127.0.0.1
  BadHost,     \* no host at all
  Dot,         \* ".": a host to the check of overrides, none once normalized
  Hashes,      \* SHA-256 hashes of certificates
  BadPin,      \* none
  Salamander   \* the obfuscation there is

\* What a connection is made with, besides where and who.
Options(sni, insecure, pin, obfs, password) ==
  [sni |-> sni, insecure |-> insecure, pin |-> pin, obfs |-> obfs, password |-> password]

Pins == [hash : Hashes, colons : BOOLEAN]

IsOptions(o) ==
  /\ o = Options(o.sni, o.insecure, o.pin, o.obfs, o.password)
  /\ o.insecure \in BOOLEAN \cup {None}
  /\ o.pin \in Pins \cup {None, BadPin}

NoOptions == Options(None, FALSE, None, None, None)
NoQuery == Options(None, None, None, None, None)

First(a, b) == IF a # None THEN a ELSE b

\* normalizeCertHash
CertHash(pin) == IF pin \in Pins THEN [hash |-> pin.hash, colons |-> FALSE] ELSE pin

-----------------------------------------------------------------------------
(* The overrides of a user.                                                *)

NormalizeClientOverrides(o) ==
  LET type == IF o.obfs = None /\ o.password # None THEN Salamander ELSE o.obfs
  IN  Options(o.sni, o.insecure, o.pin, type,
              IF type \in {None, Salamander} THEN o.password ELSE None)

\* Variant: the password may be left to the server's settings.
ValidClientOverridesLax(o) ==
  LET n == NormalizeClientOverrides(o)
  IN  n.sni # BadHost /\ n.pin # BadPin /\ n.obfs \in {None, Salamander}

\* ValidateClientOverrides finds no error.
ValidClientOverrides(o) ==
  LET n == NormalizeClientOverrides(o)
  IN  /\ n.sni # BadHost
      /\ n.pin # BadPin
      /\ n.obfs \in {None, Salamander}
      /\ n.obfs = Salamander => n.password # None

-----------------------------------------------------------------------------
(* The profile.  `uri' says that the server is given as a URI: then the    *)
(* credential and the options are in it, as `user' and `query', and those  *)
(* beside it are empty.                                                    *)

Profile(uri, host, ports, user, query, auth, options) ==
  [uri |-> uri, host |-> host, ports |-> ports, user |-> user, query |-> query,
   auth |-> auth, options |-> options]

\* What a client calls the server, without HY2_DOMAIN.
PublicHost(s, domain) == First(domain.host, First(s.acme, First(s.listen, Local)))

\* DefaultClientProfileFromSettings
DefaultProfile(s, domain) ==
  LET host == PublicHost(s, domain)
      options == Options(IF s.tls THEN First(s.acme, host) ELSE None, s.tls /\ s.insecure,
                         IF s.tls THEN s.pin ELSE None, s.obfs, s.password)
  IN  Profile(FALSE, host, s.ports, None, NoQuery, None, options)

\* Variant: the server's settings go before the URI's.
MergedQueryServerFirst(q, d) ==
  LET type == First(q.obfs, d.obfs)
  IN  Options(IF d.sni = Local THEN q.sni ELSE First(d.sni, q.sni),
              First(q.insecure, IF d.insecure THEN TRUE ELSE None),
              First(q.pin, CertHash(d.pin)),
              type,
              IF type = Salamander THEN First(q.password, d.password) ELSE q.password)

\* mergeServerURIWithDefaults: what the URI leaves out comes from the
\* server's settings.
MergedQuery(q, d) ==
  LET type == First(q.obfs, d.obfs)
  IN  Options(First(q.sni, IF d.sni = Local THEN None ELSE d.sni),
              First(q.insecure, IF d.insecure THEN TRUE ELSE None),
              First(q.pin, CertHash(d.pin)),
              type,
              IF type = Salamander THEN First(q.password, d.password) ELSE q.password)

\* baseClientProfileFromContent.  The ports are the server's in any case.
BaseProfile(s, domain) ==
  LET default == DefaultProfile(s, domain)
  IN  IF ~domain.uri THEN default
      ELSE Profile(TRUE, default.host, default.ports, None,
                   MergedQuery(domain.query, default.options), None, NoOptions)

\* defaultClientProfileFromContent
UserProfile(s, domain, credential) ==
  LET base == BaseProfile(s, domain)
  IN  Profile(base.uri, base.host, base.ports, IF base.uri THEN credential ELSE None,
              base.query, IF base.uri THEN None ELSE credential, base.options)

\* The options p after overrides o, where `pin' is how a pin is written.
Overridden(p, o, pin) ==
  Options(First(o.sni, p.sni), First(o.insecure, p.insecure), First(pin, p.pin),
          First(o.obfs, p.obfs),
          IF o.obfs = Salamander THEN First(o.password, p.password) ELSE p.password)

\* applyClientOverrides
ApplyClientOverrides(p, overrides) ==
  LET o == NormalizeClientOverrides(overrides)
  IN  Profile(p.uri, p.host, p.ports, p.user,
              IF p.uri THEN Overridden(p.query, o, CertHash(o.pin)) ELSE p.query, p.auth,
              IF p.uri THEN p.options ELSE Overridden(p.options, o, o.pin))

EffectiveProfile(s, domain, credential, overrides) ==
  ApplyClientOverrides(UserProfile(s, domain, credential), overrides)

-----------------------------------------------------------------------------
(* Reading a profile, or a URI.                                            *)

\* parseClientServerURI: a missing `insecure' is false, and a password goes
\* with an obfuscation.
ParsedQuery(q) ==
  Options(q.sni, First(q.insecure, FALSE), q.pin, q.obfs, IF q.obfs = None THEN None ELSE q.password)

\* A URL has one port: one with a list of them does not parse.
Parses(p) == p.uri => Len(p.ports) = 1

Obfuscates(options) ==
  /\ options.obfs \in {None, Salamander}
  /\ options.obfs = Salamander => options.password # None

\* resolveClientProfile: the credential and the options, wherever they are.
Resolved(p) ==
  [auth    |-> IF p.uri THEN p.user ELSE p.auth,
   options |-> IF p.uri THEN ParsedQuery(p.query) ELSE p.options]

\* ... and whether it finds no error.  After one, nothing is made of the
\* profile, whatever the other operators say.
ValidProfile(p) ==
  LET r == Resolved(p)
  IN  /\ Parses(p)
      /\ p.uri => p.auth = None /\ p.options = NoOptions
      /\ r.auth # None
      /\ r.options.sni \notin {BadHost, Dot}
      /\ r.options.pin # BadPin
      /\ Obfuscates(r.options)

-----------------------------------------------------------------------------
(* The artifacts of a valid profile.                                       *)

\* A password without obfuscation is in no query.
ObfsOf(options) ==
  IF options.obfs = None THEN [obfs |-> None, password |-> None]
  ELSE [obfs |-> options.obfs, password |-> options.password]

\* buildClientURI.  A URI that was given is passed on.
ClientURI(p) ==
  LET r == Resolved(p)
  IN  [host |-> p.host, ports |-> p.ports, user |-> r.auth,
       query |-> IF p.uri THEN p.query
                 ELSE Options(r.options.sni, IF r.options.insecure THEN TRUE ELSE None,
                              CertHash(r.options.pin),
                              r.options.obfs, ObfsOf(r.options).password)]

\* buildClientYAML: with a URI, nothing of what is in it stands beside it.
ClientYAML(p) ==
  LET r == Resolved(p)
  IN  IF p.uri THEN [server |-> ClientURI(p), auth |-> None, tls |-> NoOptions]
      ELSE [server |-> [host |-> p.host, ports |-> p.ports], auth |-> r.auth, tls |-> r.options]

\* clientParamsFromProfile
ClientParams(p) ==
  LET o == IF p.uri /\ Obfuscates(p.query) THEN ParsedQuery(p.query) ELSE p.options
  IN  [server |-> p.host, port |-> Head(p.ports), portUnion |-> p.ports, options |-> o]

\* buildSingBoxOutbound: a single port, or a list of them, and no pin.
SingBoxOutbound(p) ==
  LET params == ClientParams(p)
  IN  [server       |-> params.server,
       server_port  |-> IF Len(params.portUnion) > 1 THEN None ELSE params.port,
       server_ports |-> IF Len(params.portUnion) > 1 THEN params.portUnion ELSE None,
       password     |-> Resolved(p).auth,
       tls          |-> [server_name |-> params.options.sni, insecure |-> params.options.insecure],
       obfs         |-> ObfsOf(params.options)]

-----------------------------------------------------------------------------
(* What a client makes of each.                                            *)

Connection(host, ports, auth, options) ==
  [host |-> host, ports |-> ports, auth |-> auth, sni |-> options.sni,
   insecure |-> options.insecure, pin |-> CertHash(options.pin), obfs |-> ObfsOf(options)]

ByURI(uri) == Connection(uri.host, uri.ports, uri.user, ParsedQuery(uri.query))

ByYAML(yaml) ==
  IF "query" \in DOMAIN yaml.server THEN ByURI(yaml.server)
  ELSE Connection(yaml.server.host, yaml.server.ports, yaml.auth, yaml.tls)

ByParams(params, auth) == Connection(params.server, params.portUnion, auth, params.options)

\* sing-box does without the pin.
BySingBox(out) ==
  Connection(out.server,
             IF out.server_ports = None THEN <<out.server_port>> ELSE out.server_ports,
             out.password,
             Options(out.tls.server_name, out.tls.insecure, None, out.obfs.obfs, out.obfs.password))

\* The connection a user should make, said without the profile: of each
\* option what the user's overrides say, else what HY2_DOMAIN says, else
\* what the server is set to.
Intended(s, domain, credential, overrides) ==
  LET o == NormalizeClientOverrides(overrides)
      q == domain.query
      host == PublicHost(s, domain)
      sni == IF s.tls THEN First(s.acme, host) ELSE None
      obfs == First(o.obfs, First(q.obfs, s.obfs))
  IN  [host     |-> host,
       ports    |-> s.ports,
       auth     |-> credential,
       sni      |-> First(o.sni, First(q.sni, IF domain.uri /\ sni = Local THEN None ELSE sni)),
       insecure |-> First(o.insecure, First(q.insecure, s.tls /\ s.insecure)),
       pin      |-> CertHash(First(o.pin, First(q.pin, IF s.tls THEN s.pin ELSE None))),
       obfs     |-> [obfs |-> obfs,
                     password |-> IF obfs = None THEN None
                                  ELSE First(o.password, First(q.password, s.password))]]
=============================================================================
