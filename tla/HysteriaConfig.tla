--------------------------- MODULE HysteriaConfig ---------------------------
(***************************************************************************)
(* The server's configuration file between the panel's settings form and   *)
(* an operator's editor.  The panel loads the form from the file, and      *)
(* saves it by normalizing, validating and merging it into what the file   *)
(* holds by then; synchronising users replaces the authentication section. *)
(* Each step reads and writes the file as a whole: what happens between a  *)
(* read and its write is the subject of HysteriaAccess.                    *)
(*                                                                         *)
(* Fields the code treats alike are represented by one: bandwidth.up, one  *)
(* of the windows of quic, masquerade.listenHTTP, proxy.rewriteHost, and   *)
(* disableUDP for the other flags.  String values stand for classes:       *)
(* "bad" fails whatever check the field has.                               *)
(***************************************************************************)
EXTENDS Naturals

CONSTANTS
  ManagedAuth,  \* the userpass maps the panel may derive from its users
  Secrets,      \* passwords the panel may generate
  Broken,       \* a file that is no YAML mapping
  NoForm,
  MaxEdits      \* bound: values edited in the form or by hand

None == ""

\* A key that is there with nothing in it: an empty string or mapping, a
\* false flag, a zero.
Blank == "blank"

TLS == {"tls.cert", "tls.key"}
ACME == {"acme.domains", "acme.email"}
Auth == {"auth.type", "auth.userpass", "auth.password"}
Salamander == {"obfs.salamander.password"}
Obfs == {"obfs.type"} \cup Salamander
File == {"masquerade.file.dir"}
Proxy == {"masquerade.proxy.url", "masquerade.proxy.rewriteHost"}
String == {"masquerade.string.content", "masquerade.string.statusCode"}
Masquerade == {"masquerade.type", "masquerade.listenHTTP"} \cup File \cup Proxy \cup String
QUIC == {"quic.window", "quic.maxIdleTimeout"}
Plain == {"listen", "bandwidth.up", "speedTest", "disableUDP", "udpIdleTimeout"}

Known == TLS \cup ACME \cup Auth \cup Obfs \cup Masquerade \cup QUIC \cup Plain

\* Keys the schema does not have; the server, and parseSettingsFromMap,
\* also understand the spelling "speedtest".
Unknown == {"speedtest", "custom", "acme.type", "tls.sniGuard", "auth.note",
            "obfs.salamander.note", "masquerade.file.note"}

Paths == Known \cup Unknown

Sections == {"tls", "acme", "auth", "obfs", "obfs.salamander", "masquerade",
             "masquerade.file", "masquerade.proxy", "masquerade.string",
             "bandwidth", "quic"}

Under == [s \in Sections |->
  CASE s = "tls"               -> TLS \cup {"tls.sniGuard"}
    [] s = "acme"              -> ACME \cup {"acme.type"}
    [] s = "auth"              -> Auth \cup {"auth.note"}
    [] s = "obfs"              -> Obfs \cup {"obfs.salamander.note"}
    [] s = "obfs.salamander"   -> Salamander \cup {"obfs.salamander.note"}
    [] s = "masquerade"        -> Masquerade \cup {"masquerade.file.note"}
    [] s = "masquerade.file"   -> File \cup {"masquerade.file.note"}
    [] s = "masquerade.proxy"  -> Proxy
    [] s = "masquerade.string" -> String
    [] s = "bandwidth"         -> {"bandwidth.up"}
    [] s = "quic"              -> QUIC]

\* The values of a field worth telling apart.
Choices(p) ==
  CASE p = "listen"                     -> {":443", "443", "bad"}
    [] p = "auth.type"                  -> {"userpass", "password"}
    [] p = "auth.userpass"              -> ManagedAuth
    [] p = "obfs.type"                  -> {"salamander", "bad"}
    [] p = "obfs.salamander.password"   -> Secrets
    [] p = "masquerade.type"            -> {"file", "proxy", "string", "bad"}
    [] p = "bandwidth.up"               -> {"100", "100 mbps", "bad"}
    [] p \in {"masquerade.proxy.url", "masquerade.listenHTTP", "quic.maxIdleTimeout",
              "masquerade.string.statusCode", "udpIdleTimeout"} -> {"good", "bad"}
    [] OTHER                            -> {"set"}

Values == {None} \cup UNION {Choices(p) : p \in Paths}

\* A document is its scalar leaves by path; None is a key it does not have.
Document == [Paths -> Values \cup {Blank}]

Empty == [p \in Paths |-> None]

\* What toString, toInt and toBool make of a leaf.
Read(v) == IF v = Blank THEN None ELSE v

\* A section counts as there for its blank keys too: toStringAnyMap.
Present(d, s) == \E p \in Under[s] : d[p] # None

Modes == {"tls", "acme", "conflict"}

\* A client of the handler may ask for a mode there is not.
AskedModes == Modes \cup {None, "other"}

Settings == [leaf: [Known -> Values], tlsEnabled: BOOLEAN,
             tlsMode: AskedModes, quicEnabled: BOOLEAN]

\* A generated password is the hexadecimal form of sixteen bytes, and there is
\* always somebody in the userpass map.
ASSUME SecretsAssumption == None \notin Secrets /\ Blank \notin Secrets
ASSUME ManagedAuthAssumption == Blank \notin ManagedAuth
ASSUME MaxEditsAssumption == MaxEdits \in Nat
ASSUME NullAssumption == Broken \notin Document /\ NoForm \notin Settings

VARIABLES
  file,    \* the configuration file
  form,    \* the settings in the administrator's browser
  users,   \* the userpass map of the enabled users
  answer,  \* "saved" or "synced" if the last step wrote the file
  edits

vars == <<file, form, users, answer, edits>>

-----------------------------------------------------------------------------
(* Normalizing.                                                            *)

Any(leaf, fields) == \E p \in fields : leaf[p] # None

\* normalizeListenInput and normalizeBandwidthInput.
Canonical(p, v) ==
  CASE p = "listen" /\ v = "443"       -> ":443"
    [] p = "bandwidth.up" /\ v = "100" -> "100 mbps"
    [] OTHER                           -> v

\* The mode the certificate sections stand for.
ModeOf(leaf) ==
  CASE Any(leaf, TLS) /\ Any(leaf, ACME)  -> "conflict"
    [] Any(leaf, TLS) /\ ~Any(leaf, ACME) -> "tls"
    [] OTHER                              -> "acme"

\* Variant: a masquerade as a file server is not recognised.
InferredTypeNoFile(proxy, f, string) ==
  CASE proxy             -> "proxy"
    [] ~proxy /\ string  -> "string"
    [] OTHER             -> None

\* The type of a masquerade section that names none.
InferredType(proxy, f, string) ==
  CASE proxy                   -> "proxy"
    [] ~proxy /\ f             -> "file"
    [] ~proxy /\ ~f /\ string  -> "string"
    [] OTHER                   -> None

OrElse(v, w) == IF v # None THEN v ELSE w

\* normalizeSettings.  A section none of whose fields is set is nil.
Normalize(s) ==
  LET l == [p \in Known |-> Canonical(p, s.leaf[p])]
      enabled == s.tlsEnabled \/ Any(l, TLS \cup ACME)
      asked == OrElse(s.tlsMode, ModeOf(l))
      mode == IF asked \in Modes THEN asked ELSE "acme"
      obfs == OrElse(l["obfs.type"], IF Any(l, Salamander) THEN "salamander" ELSE None)
      masquerade == OrElse(l["masquerade.type"],
                           InferredType(Any(l, Proxy), Any(l, File), Any(l, String)))
      auth == IF l["auth.type"] = "password" THEN "password" ELSE "userpass"
      dropped == UNION {
        IF enabled /\ mode # "acme" THEN {} ELSE TLS,
        IF enabled /\ mode # "tls" THEN {} ELSE ACME,
        IF obfs = None THEN Obfs ELSE {},
        IF masquerade = None THEN Masquerade ELSE {},
        IF auth = "userpass" THEN {"auth.password"} ELSE {"auth.userpass"}}
      named == [l EXCEPT !["listen"] = OrElse(@, ":443"), !["auth.type"] = auth,
                         !["obfs.type"] = obfs, !["masquerade.type"] = masquerade]
  IN [leaf |-> [p \in Known |-> IF p \in dropped THEN None ELSE named[p]],
      tlsEnabled |-> enabled, tlsMode |-> mode,
      quicEnabled |-> s.quicEnabled \/ Any(l, QUIC)]

\* Variant: passwords are generated anew.
GenerateAlways(s, secret) ==
  IF s.leaf["obfs.type"] = "salamander"
    THEN [s EXCEPT !.leaf["obfs.salamander.password"] = secret] ELSE s

\* autoGenerateManagedSecrets.
Generate(s, secret) ==
  IF s.leaf["obfs.type"] = "salamander" /\ ~Any(s.leaf, Salamander)
    THEN [s EXCEPT !.leaf["obfs.salamander.password"] = secret] ELSE s

-----------------------------------------------------------------------------
(* Reading and rebuilding the file.                                        *)

\* parseSettingsFromMap.
Parse(d) ==
  LET obfs == OrElse(Read(d["obfs.type"]),
                     IF Present(d, "obfs.salamander") THEN "salamander" ELSE None)
      masquerade == OrElse(Read(d["masquerade.type"]),
                           InferredType(Present(d, "masquerade.proxy"),
                                        Present(d, "masquerade.file"),
                                        Present(d, "masquerade.string")))
      speedTest == OrElse(Read(d["speedTest"]), Read(d["speedtest"]))
      auth == OrElse(Read(d["auth.type"]), "userpass")
      leaf == [p \in Known |-> CASE p = "obfs.type"       -> obfs
                                 [] p = "masquerade.type" -> masquerade
                                 [] p = "speedTest"       -> speedTest
                                 [] p = "auth.type"       -> auth
                                 [] OTHER                 -> Read(d[p])]
  IN Normalize([leaf |-> leaf, tlsEnabled |-> Any(leaf, TLS \cup ACME),
                tlsMode |-> ModeOf(leaf), quicEnabled |-> Any(leaf, QUIC)])

\* The sections buildSettingsMap asks its helpers for: of the certificate's
\* only the one the mode selects, of obfuscations only the known one.
Written(n) ==
  Known \ UNION {
    IF n.tlsEnabled /\ n.tlsMode = "tls" THEN {} ELSE TLS,
    IF n.tlsEnabled /\ n.tlsMode = "acme" THEN {} ELSE ACME,
    IF n.leaf["obfs.type"] = "salamander" THEN {} ELSE Obfs}

\* Variant: one field is forgotten.
BuildForgetting(s) ==
  LET n == Normalize(s)
  IN [p \in Paths |-> IF p \in Written(n) \ {"disableUDP"} THEN n.leaf[p] ELSE None]

\* buildSettingsMap.
Build(s) ==
  LET n == Normalize(s)
  IN [p \in Paths |-> IF p \in Written(n) THEN n.leaf[p] ELSE None]

\* Variant: a known key that is not desired keeps its old value.
MergeOver(current, desired) ==
  [p \in Paths |-> IF p \in Known /\ desired[p] # None THEN desired[p] ELSE current[p]]

\* mergeKnownValues: known keys become what is desired, unknown ones stay
\* where they are, and a section that is not desired goes with all it holds.
Merge(current, desired) ==
  LET Stays(p) == \A s \in Sections : p \in Under[s] => Present(desired, s)
  IN [p \in Paths |-> IF p \in Known THEN desired[p]
                      ELSE IF Stays(p) THEN current[p] ELSE None]

-----------------------------------------------------------------------------
(* Validating.                                                             *)

ValidCertificate(n) ==
  n.tlsEnabled =>
    \/ n.tlsMode = "tls" /\ \A p \in TLS : n.leaf[p] # None
    \/ n.tlsMode = "acme" /\ n.leaf["acme.domains"] # None

ValidMasquerade(l) ==
  /\ l["masquerade.listenHTTP"] # "bad"
  /\ \/ l["masquerade.type"] = "file" /\ Any(l, File)
     \/ l["masquerade.type"] = "proxy" /\ l["masquerade.proxy.url"] = "good"
     \/ /\ l["masquerade.type"] = "string"
        /\ Any(l, String)
        /\ l["masquerade.string.statusCode"] # "bad"

\* validateSettings.
ValidSettings(s) ==
  LET n == Normalize(s)
      l == n.leaf
  IN /\ l["listen"] # "bad"
     /\ ValidCertificate(n)
     /\ l["auth.type"] = "password" => l["auth.password"] # None
     /\ Any(l, Obfs) => l["obfs.type"] = "salamander" /\ ~Any(l, Masquerade)
     /\ Any(l, Masquerade) => ValidMasquerade(l)
     /\ l["bandwidth.up"] # "bad"
     /\ l["udpIdleTimeout"] # "bad"
     /\ n.quicEnabled => Any(l, QUIC) /\ l["quic.maxIdleTimeout"] # "bad"

\* Validate, of a file.
ValidConfig(d) ==
  /\ ValidSettings(Parse(d))
  /\ Present(d, "tls") \/ Present(d, "acme")

-----------------------------------------------------------------------------
(* The handlers.                                                           *)

\* InjectManagedAuth replaces the section as a whole.
Inject(d, auth) ==
  [p \in Paths |-> CASE p = "auth.type"     -> "userpass"
                     [] p = "auth.userpass" -> auth
                     [] p \in Under["auth"] \ {"auth.type", "auth.userpass"} -> None
                     [] OTHER               -> d[p]]

\* The handlers replace the form's authentication by an empty managed one.
Managed(s) ==
  [s EXCEPT !.leaf = [p \in Known |-> CASE p = "auth.type"            -> "userpass"
                                        [] p \in Auth \ {"auth.type"} -> None
                                        [] OTHER                      -> s.leaf[p]]]

\* GetHysteriaSettings: a file that is no YAML shows as an empty one.
Loaded(f) == Managed(Parse(IF f = Broken THEN Empty ELSE f))

\* ApplySettings and InjectManagedAuth: what a save would write.
Rendered(f, s, secret) ==
  Inject(Merge(f, Build(Generate(Normalize(Managed(s)), secret))), users)

\* ApplySettings rejects a form, whatever the file holds.
Acceptable(s, secret) == ValidSettings(Generate(Normalize(Managed(s)), secret))

Accepted(f, s, secret) ==
  f # Broken /\ Acceptable(s, secret) /\ ValidConfig(Rendered(f, s, secret))

LoadForm ==
  /\ form' = Loaded(file)
  /\ answer' = "none"
  /\ UNCHANGED <<file, users, edits>>

\* SaveHysteriaSettings; a save that is refused changes nothing.
SaveForm ==
  /\ form # NoForm
  /\ \E secret \in Secrets :
       /\ Accepted(file, form, secret)
       /\ file' = Rendered(file, form, secret)
  /\ answer' = "saved"
  /\ UNCHANGED <<form, users, edits>>

\* HysteriaAccessManager.Sync, by any change of a user and by start-up.
Sync ==
  /\ file # Broken
  /\ ValidConfig(Inject(file, users))
  /\ file' = Inject(file, users)
  /\ answer' = "synced"
  /\ UNCHANGED <<form, users, edits>>

Edit ==
  /\ edits < MaxEdits
  /\ edits' = edits + 1
  /\ answer' = "none"

\* The administrator changes the form.
EditForm ==
  /\ form # NoForm
  /\ Edit
  /\ \/ \E p \in Known \ Auth : \E v \in Choices(p) \cup {None} :
          form' = [form EXCEPT !.leaf[p] = v]
     \/ \E m \in AskedModes : form' = [form EXCEPT !.tlsMode = m]
     \/ \E b \in BOOLEAN : form' = [form EXCEPT !.tlsEnabled = b]
     \/ \E b \in BOOLEAN : form' = [form EXCEPT !.quicEnabled = b]
  /\ UNCHANGED <<file, users>>

\* An operator edits the file; other handlers change the users.
EditFile ==
  /\ Edit
  /\ \/ file' = Broken
     \/ /\ file # Broken
        /\ \E p \in Paths : \E v \in Choices(p) \cup {None, Blank} :
             file' = [file EXCEPT ![p] = v]
  /\ UNCHANGED <<form, users>>

ChangeUsers ==
  /\ Edit
  /\ users' \in ManagedAuth
  /\ UNCHANGED <<file, form>>

\* The file the installer writes, after the panel's first start.
Init ==
  /\ users \in ManagedAuth
  /\ file = Inject([Empty EXCEPT !["listen"] = ":443", !["tls.cert"] = "set",
                                 !["tls.key"] = "set"], users)
  /\ form = NoForm
  /\ answer = "none"
  /\ edits = 0

Next ==
  \/ LoadForm
  \/ SaveForm
  \/ Sync
  \/ EditForm
  \/ EditFile
  \/ ChangeUsers

Spec == Init /\ [][Next]_vars

-----------------------------------------------------------------------------
(* Properties.                                                             *)

TypeOK ==
  /\ file \in Document \cup {Broken}
  /\ form \in Settings \cup {NoForm}
  /\ users \in ManagedAuth
  /\ answer \in {"none", "saved", "synced"}
  /\ edits \in 0..MaxEdits

SameFields(got, want) ==
  /\ \A p \in Known \ ({"speedTest"} \cup Salamander) : got.leaf[p] = want.leaf[p]
  /\ \A p \in Salamander :
       IF want.leaf[p] = None /\ want.leaf["obfs.type"] # None
         THEN got.leaf[p] \in Secrets ELSE got.leaf[p] = want.leaf[p]
  /\ got.tlsEnabled = want.tlsEnabled
  /\ got.tlsMode = want.tlsMode
  /\ got.quicEnabled = want.quicEnabled

\* A form that was saved is what the next load shows, in every field and
\* mode, whatever the file held before: old values of fields left empty do
\* not shine through.  Only a missing password of the obfuscation is made up.
\* SpeedTestOff is about the flag left out here.
SavedAsAsked ==
  [][answer' = "saved" => SameFields(Loaded(file'), Normalize(Managed(form)))]_vars

\* Saving the form as it was loaded takes nothing from an operator: a key the
\* panel does not know survives parsing, normalizing, building and merging in
\* every section of which the file says something the panel does know.
IdleSaveKeeps ==
  [][answer' = "saved" /\ form = Loaded(file) =>
       \A p \in Unknown \ Under["auth"] :
         (\A s \in Sections :
            p \in Under[s] => \E q \in Under[s] \cap Known : Read(file[q]) # None)
           => file'[p] = file[p]]_vars

\* Loading what was saved and saving it again changes nothing: values are
\* normalized once, and a generated password is not generated anew.
SavedIsStable ==
  answer = "saved" /\ (Read(file["speedtest"]) # None => file["speedTest"] # None) =>
    \A secret \in Secrets :
      /\ Accepted(file, Loaded(file), secret)
      /\ Rendered(file, Loaded(file), secret) = file

\* The two validations of a save agree: a form with a certificate that
\* passes the first one is saved, however invalid the file was before.
AcceptableIsAccepted ==
  form # NoForm /\ file # Broken =>
    \A secret \in Secrets :
      Acceptable(form, secret) /\ Normalize(Managed(form)).tlsEnabled =>
        Accepted(file, form, secret)

\* A speed test switched off in the form is off in the file that was saved.
SpeedTestOff ==
  [][answer' = "saved" /\ form.leaf["speedTest"] = None =>
       Parse(file').leaf["speedTest"] = None]_vars
=============================================================================
