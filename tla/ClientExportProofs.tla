-------------------------- MODULE ClientExportProofs --------------------------
(***************************************************************************)
(* Proofs about ClientExport: a user who was accepted stays exportable, a  *)
(* link dies with the update of its user, and all a user is given makes    *)
(* the connection that is meant, for any administrators, domains, settings *)
(* and overrides.                                                          *)
(***************************************************************************)
EXTENDS ClientExport, SequenceTheorems, TLAPS

\* What makes a profile of the server given by host and port valid.
LEMMA ValidPlain ==
  ASSUME NEW s, NEW d, NEW o, d.uri = FALSE
  PROVE  LET n == NormalizeClientOverrides(o)
             def == DefaultProfile(s, d)
         IN  ValidProfile(EffectiveProfile(s, d, Credential, o)) <=>
               /\ First(n.sni, def.options.sni) \notin {BadHost, Dot}
               /\ First(n.pin, def.options.pin) # BadPin
               /\ Obfuscates(Overridden(def.options, n, n.pin))
<1> DEFINE n == NormalizeClientOverrides(o)
           def == DefaultProfile(s, d)
           base == BaseProfile(s, d)
           p == EffectiveProfile(s, d, Credential, o)
<1>1. base = def
  BY DEF BaseProfile
<1>2. def.uri = FALSE
  BY DEF DefaultProfile, Profile
<1>3. UserProfile(s, d, Credential) =
        Profile(FALSE, def.host, def.ports, None, def.query, Credential, def.options)
  BY <1>1, <1>2 DEF UserProfile
<1>4. p = Profile(FALSE, def.host, def.ports, None, def.query, Credential,
                  Overridden(def.options, n, n.pin))
  BY <1>3 DEF EffectiveProfile, ApplyClientOverrides, Profile
<1>5. /\ p.uri = FALSE
      /\ p.auth = Credential
      /\ p.options = Overridden(def.options, n, n.pin)
  BY <1>4 DEF Profile
<1>6. /\ p.options.sni = First(n.sni, def.options.sni)
      /\ p.options.pin = First(n.pin, def.options.pin)
  BY <1>5 DEF Overridden, Options
<1> QED
  BY <1>5, <1>6, NamesAssumption DEF ValidProfile, Resolved, Parses

\* ... and when HY2_DOMAIN is a URI.
LEMMA ValidURI ==
  ASSUME NEW s, NEW d, NEW o, d.uri = TRUE
  PROVE  LET n == NormalizeClientOverrides(o)
             q == MergedQuery(d.query, DefaultProfile(s, d).options)
         IN  ValidProfile(EffectiveProfile(s, d, Credential, o)) <=>
               /\ Len(s.ports) = 1
               /\ First(n.sni, q.sni) \notin {BadHost, Dot}
               /\ First(CertHash(n.pin), q.pin) # BadPin
               /\ Obfuscates(ParsedQuery(Overridden(q, n, CertHash(n.pin))))
<1> DEFINE n == NormalizeClientOverrides(o)
           def == DefaultProfile(s, d)
           q == MergedQuery(d.query, def.options)
           over == Overridden(q, n, CertHash(n.pin))
           p == EffectiveProfile(s, d, Credential, o)
<1>1. def.ports = s.ports
  BY DEF DefaultProfile, Profile
<1>2. BaseProfile(s, d) = Profile(TRUE, def.host, def.ports, None, q, None, NoOptions)
  BY DEF BaseProfile
<1>3. UserProfile(s, d, Credential) =
        Profile(TRUE, def.host, def.ports, Credential, q, None, NoOptions)
  BY <1>2 DEF UserProfile, Profile
<1>4. p = Profile(TRUE, def.host, def.ports, Credential, over, None, NoOptions)
  BY <1>3 DEF EffectiveProfile, ApplyClientOverrides, Profile
<1>5. /\ p.uri = TRUE
      /\ p.ports = s.ports
      /\ p.user = Credential
      /\ p.query = over
      /\ p.auth = None
      /\ p.options = NoOptions
  BY <1>1, <1>4 DEF Profile
<1>6. /\ Resolved(p).auth = Credential
      /\ Resolved(p).options = ParsedQuery(over)
  BY <1>5 DEF Resolved
<1>7. /\ ParsedQuery(over).sni = First(n.sni, q.sni)
      /\ ParsedQuery(over).pin = First(CertHash(n.pin), q.pin)
  BY DEF ParsedQuery, Overridden, Options
<1> HIDE DEF p, over, q
<1>8. ValidProfile(p) <=> /\ Len(s.ports) = 1
                          /\ ParsedQuery(over).sni \notin {BadHost, Dot}
                          /\ ParsedQuery(over).pin # BadPin
                          /\ Obfuscates(ParsedQuery(over))
  BY <1>5, <1>6, NamesAssumption DEF ValidProfile, Parses
<1> QED
  BY <1>7, <1>8 DEF p, over, q

\* Overrides are normalized once.
LEMMA NormalizedOnce ==
  ASSUME NEW o, IsOptions(o)
  PROVE  LET n == NormalizeClientOverrides(o)
         IN  IsOptions(n) /\ NormalizeClientOverrides(n) = n
  BY NamesAssumption DEF NormalizeClientOverrides, IsOptions, Options

\* Overrides accepted under some settings are good under all settings.
LEMMA AcceptedForGood ==
  ASSUME NEW d \in Domains, NEW s \in AllSettings, NEW t \in AllSettings, NEW o,
         IsOptions(o),
         ValidClientOverrides(o),
         ValidProfile(EffectiveProfile(s, d, Credential, o)),
         d.uri => Len(t.ports) = 1
  PROVE  ValidProfile(EffectiveProfile(t, d, Credential, o))
<1> DEFINE n == NormalizeClientOverrides(o)
<1>1. CASE d.uri = FALSE
  <2> DEFINE def == DefaultProfile(t, d).options
  <2>1. /\ def.sni \notin {BadHost, Dot}
        /\ def.pin # BadPin
        /\ def.obfs = t.obfs
        /\ def.password = t.password
    BY NamesAssumption, DomainAssumption, SettingsAssumption
    DEF DefaultProfile, Profile, PublicHost, First, Options
  <2>2. First(n.sni, def.sni) \notin {BadHost, Dot}
    <3>1. n.sni = None \/ n.sni \notin {BadHost, Dot}
      BY <1>1, ValidPlain DEF First
    <3> QED BY <2>1, <3>1 DEF First
  <2>3. First(n.pin, def.pin) # BadPin
    BY <2>1 DEF ValidClientOverrides, First
  <2>4. Obfuscates(Overridden(def, n, n.pin))
    BY <2>1, SettingsAssumption, NamesAssumption
    DEF ValidClientOverrides, Obfuscates, Overridden, First, Options
  <2> QED BY <1>1, <2>2, <2>3, <2>4, ValidPlain
<1>2. CASE d.uri = TRUE
  <2> DEFINE def == DefaultProfile(t, d).options
             q == MergedQuery(d.query, def)
             r == MergedQuery(d.query, DefaultProfile(s, d).options)
  <2>1. /\ def.sni \notin {BadHost, Dot}
        /\ def.pin \in Pins \cup {None}
        /\ def.obfs = t.obfs
        /\ def.password = t.password
    BY NamesAssumption, DomainAssumption, SettingsAssumption
    DEF DefaultProfile, Profile, PublicHost, First, Options
  <2>2. First(n.sni, r.sni) \notin {BadHost, Dot}
    BY <1>2, ValidURI
  <2>3. First(n.sni, q.sni) \notin {BadHost, Dot}
    BY <2>1, <2>2, NamesAssumption DEF MergedQuery, First, Options
  <2>4. First(CertHash(n.pin), q.pin) # BadPin
    <3>1. n.pin \in Pins \cup {None}
      BY NormalizedOnce DEF ValidClientOverrides, IsOptions
    <3>2. First(CertHash(n.pin), r.pin) # BadPin
      BY <1>2, ValidURI
    <3>3. \A pin \in Pins \cup {None} : CertHash(pin) \in Pins \cup {None}
      BY NamesAssumption DEF CertHash, Pins
    <3>4. q.pin = First(d.query.pin, CertHash(def.pin))
      BY DEF MergedQuery, Options
    <3>5. r.pin = d.query.pin \/ d.query.pin = None
      BY DEF MergedQuery, Options, First
    <3> QED
      BY <2>1, <3>1, <3>2, <3>3, <3>4, <3>5, NamesAssumption DEF First
  <2>5. Obfuscates(ParsedQuery(Overridden(q, n, CertHash(n.pin))))
    <3>1. Obfuscates(d.query) /\ t.obfs \in {None, Salamander} /\ (t.obfs = None <=> t.password = None)
      BY DomainAssumption, SettingsAssumption
    <3>2. /\ q.obfs = First(d.query.obfs, t.obfs)
          /\ q.password = IF q.obfs = Salamander THEN First(d.query.password, t.password)
                          ELSE d.query.password
      BY <2>1 DEF MergedQuery, Options
    <3>3. Obfuscates(q)
      BY <3>1, <3>2, NamesAssumption DEF Obfuscates, First
    <3> HIDE DEF q
    <3> QED
      BY <3>3, NamesAssumption
      DEF ValidClientOverrides, Obfuscates, Overridden, ParsedQuery, First, Options
  <2> QED BY <1>2, <2>3, <2>4, <2>5, ValidURI
<1> QED BY <1>1, <1>2, DomainAssumption

-----------------------------------------------------------------------------
(* The inductive invariant: whatever a user has, or is about to have again *)
(* or for the first time, is good under all settings; and the stamps of a  *)
(* link and of its user are in the order the updates were.                 *)

Settled(d, o) ==
  /\ IsOptions(o)
  /\ \A s \in AllSettings :
       (d.uri => Len(s.ports) = 1) => ValidProfile(EffectiveProfile(s, d, Credential, o))

TypeInv == now \in Nat /\ domain \in Domains /\ settings \in AllSettings

UserInv ==
  /\ user.stamp \in Nat /\ user.stamp <= now
  /\ user.enabled \in BOOLEAN
  /\ Exists => Settled(domain, user.overrides)

GoodRequest(d, r) ==
  /\ r.step \in {"idle", "checked", "stored"}
  /\ r.step # "idle" => r.op \in {"create", "update", "enable", "disable", "delete"}
  /\ r.op = "update" => Settled(d, r.before)
  /\ r.op \in {"enable", "disable", "delete"} => r.before \in BOOLEAN
  /\ r.step = "checked" /\ r.op \in {"create", "update"} => Settled(d, r.overrides)

RequestInv ==
  /\ request = [a \in Admins |-> request[a]]
  /\ \A a \in Admins : GoodRequest(domain, request[a])

LinkInv ==
  Handed =>
    /\ Exists
    /\ link.stamp \in Nat /\ link.stamp <= user.stamp
    /\ link.since \in {"nothing", "same second", "later"}
    /\ link.since = "nothing" => user.enabled /\ user.stamp = link.stamp
    /\ link.since = "later" => user.stamp > link.stamp

Inv == TypeInv /\ UserInv /\ RequestInv /\ LinkInv

\* The overrides are stored as normalized.
LEMMA SettledNormalized ==
  ASSUME NEW d, NEW o, Settled(d, o)
  PROVE  Settled(d, NormalizeClientOverrides(o))
  BY NormalizedOnce DEF Settled, EffectiveProfile, ApplyClientOverrides

\* Accepted overrides are settled.
LEMMA AcceptedSettled ==
  ASSUME TypeInv, NEW o, IsOptions(o), Accepts(o)
  PROVE  Settled(domain, o)
  BY AcceptedForGood DEF TypeInv, Accepts, Exportable, ProfileWith, Settled

-----------------------------------------------------------------------------
(* The store.                                                              *)

\* An update is of now, and so not before the stamp that a link signs.
LEMMA UpdatedLink ==
  ASSUME TypeInv, UserInv, LinkInv, Exists, NEW o, NEW e \in BOOLEAN, Settled(domain, o),
         user' = User("live", o, e, now), link' = Updated, UNCHANGED <<now, domain>>
  PROVE  UserInv' /\ LinkInv'
<1>1. /\ user'.state = "live"
      /\ user'.overrides = o
      /\ user'.enabled = e
      /\ user'.stamp = now
  BY DEF User
<1>2. UserInv'
  BY <1>1 DEF TypeInv, UserInv, Exists
<1>3. LinkInv'
  <2>1. CASE ~Handed
    BY <2>1 DEF Updated, LinkInv, Handed
  <2>2. CASE Handed
    <3>1. /\ link'.stamp = link.stamp
          /\ link'.since = IF now > link.stamp THEN "later" ELSE "same second"
      BY <2>2 DEF Updated
    <3>2. link.stamp \in Nat /\ link.stamp <= now /\ now \in Nat
      <4>1. now \in Nat
        BY DEF TypeInv
      <4>2. user.stamp \in Nat /\ user.stamp <= now
        BY DEF UserInv
      <4>3. link.stamp \in Nat /\ link.stamp <= user.stamp
        BY <2>2 DEF LinkInv
      <4> QED BY <4>1, <4>2, <4>3
    <3>3. Exists' /\ link'.stamp \in Nat /\ link'.stamp <= user'.stamp
      BY <1>1, <3>1, <3>2 DEF Exists
    <3>4. link'.since \in {"same second", "later"}
      BY <3>1
    <3>5. link'.since = "later" => user'.stamp > link'.stamp
      BY <1>1, <3>1, <3>2
    <3> QED BY <3>3, <3>4, <3>5 DEF LinkInv
  <2> QED BY <2>1, <2>2
<1> QED BY <1>2, <1>3

LEMMA KeepInv ==
  ASSUME UserInv, LinkInv, Keep, UNCHANGED <<now, domain>>
  PROVE  UserInv' /\ LinkInv'
  BY DEF Keep, UserInv, LinkInv, Handed, Exists

LEMMA CreateInv ==
  ASSUME TypeInv, LinkInv, NEW o, Settled(domain, o), user.state = "new",
         CreateHysteriaUser(o), UNCHANGED <<now, domain>>
  PROVE  UserInv' /\ LinkInv'
<1>1. Settled(domain, NormalizeClientOverrides(o))
  BY SettledNormalized
<1>2. /\ user'.state = "live"
      /\ user'.overrides = NormalizeClientOverrides(o)
      /\ user'.enabled \in BOOLEAN
      /\ user'.stamp = now
  BY DEF CreateHysteriaUser, User
<1>3. link' = link /\ ~Handed
  BY DEF CreateHysteriaUser, LinkInv, Exists
<1>4. UserInv'
  BY <1>1, <1>2 DEF TypeInv, UserInv, Exists
<1>5. LinkInv'
  BY <1>3 DEF LinkInv, Handed
<1> QED BY <1>4, <1>5

LEMMA UpdateInv ==
  ASSUME TypeInv, UserInv, LinkInv, NEW o, Settled(domain, o),
         UpdateHysteriaUser(o), UNCHANGED <<now, domain>>
  PROVE  UserInv' /\ LinkInv'
<1>1. CASE ~Exists
  BY <1>1, KeepInv DEF UpdateHysteriaUser
<1>2. CASE Exists
  <2>1. Settled(domain, NormalizeClientOverrides(o))
    BY SettledNormalized
  <2>2. user.enabled \in BOOLEAN
    BY DEF UserInv
  <2> QED BY <1>2, <2>1, <2>2, UpdatedLink DEF UpdateHysteriaUser
<1> QED BY <1>1, <1>2

LEMMA EnabledInv ==
  ASSUME TypeInv, UserInv, LinkInv, NEW e \in BOOLEAN,
         SetHysteriaUserEnabled(e), UNCHANGED <<now, domain>>
  PROVE  UserInv' /\ LinkInv'
<1>1. CASE ~Exists
  BY <1>1, KeepInv DEF SetHysteriaUserEnabled
<1>2. CASE Exists
  <2>1. Settled(domain, user.overrides)
    BY <1>2 DEF UserInv
  <2> QED BY <1>2, <2>1, UpdatedLink DEF SetHysteriaUserEnabled
<1> QED BY <1>1, <1>2

LEMMA DeleteInv ==
  ASSUME TypeInv, UserInv, LinkInv, DeleteHysteriaUser, UNCHANGED <<now, domain>>
  PROVE  UserInv' /\ LinkInv'
<1>1. CASE ~Exists
  BY <1>1, KeepInv DEF DeleteHysteriaUser
<1>2. CASE Exists
  <2>1. user' = Gone /\ link' = NoLink
    BY <1>2 DEF DeleteHysteriaUser
  <2>2. /\ user'.state = "gone"
        /\ user'.enabled \in BOOLEAN
        /\ user'.stamp = 0
        /\ link'.since = "no link"
    BY <2>1 DEF Gone, User, NoLink
  <2>3. UserInv'
    <3>1. ~Exists'
      BY <2>2 DEF Exists
    <3>2. user'.stamp \in Nat /\ user'.stamp <= now'
      <4>1. now' = now
        OBVIOUS
      <4>2. now \in Nat
        BY DEF TypeInv
      <4>3. user'.stamp = 0
        BY <2>2
      <4>4. 0 <= now
        BY <4>2
      <4> QED BY <4>1, <4>2, <4>3, <4>4
    <3> QED BY <2>2, <3>1, <3>2 DEF UserInv
  <2>4. LinkInv'
    BY <2>2 DEF LinkInv, Handed
  <2> QED BY <2>3, <2>4
<1> QED BY <1>1, <1>2

-----------------------------------------------------------------------------
(* The requests.                                                           *)

\* One request changes, to a good one.
LEMMA RequestStep ==
  ASSUME RequestInv, NEW a \in Admins, NEW r, GoodRequest(domain, r),
         request' = [request EXCEPT ![a] = r], UNCHANGED domain
  PROVE  RequestInv'
  BY DEF RequestInv

LEMMA BeginInv ==
  ASSUME RequestInv, NEW a \in Admins, NEW op, NEW before, NEW o, UNCHANGED domain,
         Begin(a, op, before, o),
         op \in {"create", "update", "enable", "disable", "delete"},
         op = "update" => Settled(domain, before),
         op \in {"enable", "disable", "delete"} => before \in BOOLEAN,
         op \in {"create", "update"} => Settled(domain, o)
  PROVE  RequestInv'
<1> DEFINE r == [step |-> "checked", op |-> op, before |-> before, overrides |-> o]
<1>1. r.step = "checked" /\ r.op = op /\ r.before = before /\ r.overrides = o
  OBVIOUS
<1>2. request' = [request EXCEPT ![a] = r]
  BY DEF Begin
<1> HIDE DEF r
<1>3. GoodRequest(domain, r)
  BY <1>1 DEF GoodRequest
<1> QED BY <1>2, <1>3, RequestStep

\* A step that ends a request, or has it stored.
LEMMA EndInv ==
  ASSUME RequestInv, NEW a \in Admins, NEW r \in {Idle, Stored(request[a])},
         request[a].step # "idle",
         request' = [request EXCEPT ![a] = r], UNCHANGED domain
  PROVE  RequestInv'
<1>1. GoodRequest(domain, request[a])
  BY DEF RequestInv
<1>2. GoodRequest(domain, r)
  <2>1. CASE r = Idle
    BY <2>1 DEF Idle, GoodRequest
  <2>2. CASE r = Stored(request[a])
    <3>1. r.step = "stored" /\ r.op = request[a].op /\ r.before = request[a].before
      BY <2>2 DEF Stored
    <3> QED BY <1>1, <3>1 DEF GoodRequest
  <2> QED BY <2>1, <2>2
<1> QED BY <1>2, RequestStep

-----------------------------------------------------------------------------
(* The steps.                                                              *)

LEMMA InitInv == Init => Inv
<1> SUFFICES ASSUME Init PROVE Inv
  OBVIOUS
<1>1. TypeInv
  BY DEF Init, TypeInv
<1>2. UserInv
  BY DEF Init, UserInv, NoUser, User, Exists
<1>3. RequestInv
  BY DEF Init, RequestInv, GoodRequest, Idle
<1>4. LinkInv
  BY DEF Init, LinkInv, NoLink, Handed
<1> QED BY <1>1, <1>2, <1>3, <1>4 DEF Inv

LEMMA StartInv ==
  ASSUME Inv, NEW a \in Admins, Start(a)
  PROVE  Inv'
<1>1. UNCHANGED <<now, domain, settings, user, link>>
  BY DEF Start
<1>2. TypeInv' /\ UserInv' /\ LinkInv'
  BY <1>1 DEF Inv, TypeInv, UserInv, LinkInv, Exists, Handed
<1>3. RequestInv'
  <2>1. CASE Create(a)
    <3>1. PICK o \in Overrides : Accepts(o) /\ Begin(a, "create", None, o)
      BY <2>1 DEF Create
    <3>2. Settled(domain, o)
      BY <3>1, AcceptedSettled, OverridesAssumption DEF Inv
    <3> QED BY <1>1, <3>1, <3>2, BeginInv DEF Inv
  <2>2. CASE Update(a)
    <3>1. PICK o \in Overrides \cup {user.overrides} :
            Accepts(o) /\ Begin(a, "update", user.overrides, o)
      BY <2>2 DEF Update
    <3>2. Settled(domain, user.overrides)
      BY <2>2 DEF Update, Inv, UserInv
    <3>3. Settled(domain, o)
      BY <3>1, <3>2, AcceptedSettled, OverridesAssumption DEF Inv, Settled
    <3> QED BY <1>1, <3>1, <3>2, <3>3, BeginInv DEF Inv
  <2>3. CASE SetState(a)
    BY <1>1, <2>3, BeginInv DEF SetState, Inv, UserInv
  <2>4. CASE Delete(a)
    BY <1>1, <2>4, BeginInv DEF Delete, Inv, UserInv
  <2> QED BY <2>1, <2>2, <2>3, <2>4 DEF Start
<1> QED BY <1>2, <1>3 DEF Inv

LEMMA StoreDraftInv ==
  ASSUME Inv, NEW a \in Admins, StoreDraft(a)
  PROVE  Inv'
<1> DEFINE r == request[a]
           fails == IF r.op = "create" THEN user.state # "new"
                    ELSE ~Exists /\ (r.op = "delete" => r.before)
<1>1. /\ r.step = "checked"
      /\ request' = [request EXCEPT ![a] = IF fails THEN Idle ELSE Stored(r)]
      /\ UNCHANGED <<now, domain, settings>>
  BY DEF StoreDraft
<1>2. TypeInv'
  BY <1>1 DEF Inv, TypeInv
<1>3. RequestInv'
  BY <1>1, EndInv DEF Inv
<1>4. GoodRequest(domain, r)
  BY DEF Inv, RequestInv
<1>5. UserInv' /\ LinkInv'
  <2>1. CASE fails
    <3>1. Keep
      BY <2>1 DEF StoreDraft
    <3> QED BY <1>1, <3>1, KeepInv DEF Inv
  <2>2. CASE ~fails /\ r.op = "create"
    <3>1. CreateHysteriaUser(r.overrides)
      BY <2>2 DEF StoreDraft
    <3>2. user.state = "new" /\ Settled(domain, r.overrides)
      BY <1>1, <1>4, <2>2 DEF GoodRequest
    <3> QED BY <1>1, <3>1, <3>2, CreateInv DEF Inv
  <2>3. CASE ~fails /\ r.op = "update"
    <3>1. UpdateHysteriaUser(r.overrides)
      BY <2>3 DEF StoreDraft
    <3>2. Settled(domain, r.overrides)
      BY <1>1, <1>4, <2>3 DEF GoodRequest
    <3> QED BY <1>1, <3>1, <3>2, UpdateInv DEF Inv
  <2>4. CASE ~fails /\ r.op = "enable"
    <3>1. SetHysteriaUserEnabled(TRUE)
      BY <2>4 DEF StoreDraft
    <3> QED BY <1>1, <3>1, EnabledInv DEF Inv
  <2>5. CASE ~fails /\ r.op = "disable"
    <3>1. SetHysteriaUserEnabled(FALSE)
      BY <2>5 DEF StoreDraft
    <3> QED BY <1>1, <3>1, EnabledInv DEF Inv
  <2>6. CASE ~fails /\ r.op = "delete"
    <3>1. IF r.before THEN SetHysteriaUserEnabled(FALSE) ELSE Keep
      BY <2>6 DEF StoreDraft
    <3> QED BY <1>1, <3>1, EnabledInv, KeepInv DEF Inv
  <2> QED BY <1>1, <1>4, <2>1, <2>2, <2>3, <2>4, <2>5, <2>6 DEF GoodRequest
<1> QED BY <1>2, <1>3, <1>5 DEF Inv

LEMMA SyncedInv ==
  ASSUME Inv, NEW a \in Admins, Synced(a)
  PROVE  Inv'
<1>1. /\ request[a].step = "stored"
      /\ request' = [request EXCEPT ![a] = Idle]
      /\ UNCHANGED <<now, domain, settings>>
  BY DEF Synced, End
<1>2. TypeInv'
  BY <1>1 DEF Inv, TypeInv
<1>3. RequestInv'
  BY <1>1, EndInv DEF Inv
<1>4. UserInv' /\ LinkInv'
  BY <1>1, KeepInv, DeleteInv DEF Synced, Inv
<1> QED BY <1>2, <1>3, <1>4 DEF Inv

LEMMA RollBackInv ==
  ASSUME Inv, NEW a \in Admins, RollBack(a)
  PROVE  Inv'
<1> DEFINE r == request[a]
<1>1. /\ r.step = "stored"
      /\ request' = [request EXCEPT ![a] = Idle]
      /\ UNCHANGED <<now, domain, settings>>
  BY DEF RollBack, End
<1>2. TypeInv'
  BY <1>1 DEF Inv, TypeInv
<1>3. RequestInv'
  BY <1>1, EndInv DEF Inv
<1>4. GoodRequest(domain, r)
  BY DEF Inv, RequestInv
<1>5. UserInv' /\ LinkInv'
  <2>1. CASE r.op = "create"
    <3>1. DeleteHysteriaUser
      BY <2>1 DEF RollBack
    <3> QED BY <1>1, <3>1, DeleteInv DEF Inv
  <2>2. CASE r.op = "update"
    <3>1. UpdateHysteriaUser(r.before)
      BY <2>2 DEF RollBack
    <3> QED BY <1>1, <1>4, <2>2, <3>1, UpdateInv DEF Inv, GoodRequest
  <2>3. CASE r.op \in {"enable", "disable"}
    <3>1. SetHysteriaUserEnabled(r.before)
      BY <2>3 DEF RollBack
    <3> QED BY <1>1, <1>4, <2>3, <3>1, EnabledInv DEF Inv, GoodRequest
  <2>4. CASE r.op = "delete"
    <3>1. IF r.before THEN SetHysteriaUserEnabled(TRUE) ELSE Keep
      BY <2>4 DEF RollBack
    <3> QED BY <1>1, <3>1, EnabledInv, KeepInv DEF Inv
  <2> QED BY <1>1, <1>4, <2>1, <2>2, <2>3, <2>4 DEF GoodRequest
<1> QED BY <1>2, <1>3, <1>5 DEF Inv

LEMMA NextInv == Inv /\ [Next]_vars => Inv'
<1> SUFFICES ASSUME Inv, [Next]_vars PROVE Inv'
  OBVIOUS
<1> USE DEF Inv
<1>1. ASSUME NEW a \in Admins, Start(a) PROVE Inv'
  BY <1>1, StartInv
<1>2. ASSUME NEW a \in Admins, StoreDraft(a) PROVE Inv'
  BY <1>2, StoreDraftInv
<1>3. ASSUME NEW a \in Admins, Synced(a) PROVE Inv'
  BY <1>3, SyncedInv
<1>4. ASSUME NEW a \in Admins, RollBack(a) PROVE Inv'
  BY <1>4, RollBackInv
<1>5. CASE SaveSettings
  BY <1>5 DEF SaveSettings, TypeInv, UserInv, RequestInv, LinkInv, Exists, Handed
<1>6. CASE HandOut
  <2>1. link'.stamp = user.stamp /\ link'.since = "nothing"
    BY <1>6 DEF HandOut, BuildSubscriptionURL
  <2>2. TypeInv' /\ UserInv' /\ RequestInv'
    BY <1>6 DEF HandOut, TypeInv, UserInv, RequestInv, Exists
  <2>3. user' = user /\ Exists /\ user.enabled
    BY <1>6 DEF HandOut
  <2>4. user.stamp \in Nat
    BY DEF UserInv
  <2>5. link'.stamp \in Nat /\ link'.stamp <= user'.stamp /\ user'.stamp = link'.stamp
    BY <2>1, <2>3, <2>4
  <2>6. Exists' /\ user'.enabled
    BY <2>3 DEF Exists
  <2>7. LinkInv'
    BY <2>1, <2>5, <2>6 DEF LinkInv
  <2> QED BY <2>2, <2>7
<1>7. CASE Tick
  <2>1. now' = now + 1 /\ UNCHANGED <<domain, settings, user, request, link>>
    BY <1>7 DEF Tick
  <2>2. TypeInv' /\ UserInv'
    BY <2>1 DEF TypeInv, UserInv, Exists
  <2>3. RequestInv' /\ LinkInv'
    BY <2>1 DEF RequestInv, LinkInv, Exists, Handed
  <2> QED BY <2>2, <2>3
<1>8. CASE UNCHANGED vars
  BY <1>8 DEF vars, TypeInv, UserInv, RequestInv, LinkInv, Exists, Handed
<1> QED BY <1>1, <1>2, <1>3, <1>4, <1>5, <1>6, <1>7, <1>8 DEF Next

\* What is stored, or about to be, stays exportable; links and users agree
\* on the order of updates.
THEOREM Invariant == Spec => []Inv
  BY InitInv, NextInv, PTL DEF Spec

\* A user who was accepted once can be exported under all settings saved
\* since, HY2_DOMAIN and the overrides whatever they are.
THEOREM ExportsStayTheorem == Spec => []ExportsStay
<1>1. Inv => ExportsStay
  BY DEF Inv, TypeInv, UserInv, Settled, ExportsStay, Exportable, ProfileWith, OneURL
<1> QED BY <1>1, Invariant, PTL

\* A link serves until its user is updated, and never again after an update
\* in a later second.
THEOREM LinksFollowTheorem == Spec => []LinksFollow
<1>1. ASSUME Inv PROVE LinksFollow
  <2>1. ASSUME Handed, OneURL, link.since = "nothing"
        PROVE  Serves
    <3>2. Exportable(user.overrides)
      BY <1>1, <2>1
      DEF Inv, TypeInv, UserInv, LinkInv, Settled, Exportable, ProfileWith, OneURL
    <3> QED BY <1>1, <2>1, <3>2
            DEF Serves, ResolveSubscriptionUser, Verified, BuildSubscriptionURL, Inv, LinkInv
  <2>2. ASSUME Handed, link.since = "later" PROVE ~Serves
    BY <1>1, <2>2
    DEF Serves, ResolveSubscriptionUser, Verified, BuildSubscriptionURL, Inv, LinkInv,
        TypeInv, UserInv
  <2> QED BY <2>1, <2>2 DEF LinksFollow
<1> QED BY <1>1, Invariant, PTL
-----------------------------------------------------------------------------
(* The artifacts of a profile say one thing.                               *)

\* A hash is normalized once, and None stays.
LEMMA HashOnce ==
  \A pin : CertHash(CertHash(pin)) = CertHash(pin) /\ (CertHash(pin) = None <=> pin = None)
<1>1. \A pin \in Pins : CertHash(pin) = [hash |-> pin.hash, colons |-> FALSE] /\ CertHash(pin) \in Pins
  BY DEF CertHash, Pins
<1>2. \A pin : pin \notin Pins => CertHash(pin) = pin
  BY DEF CertHash
<1>3. None \notin Pins
  BY NamesAssumption
<1>4. \A pin \in Pins : CertHash(CertHash(pin)) = CertHash(pin)
  BY <1>1
<1> QED BY <1>1, <1>2, <1>3, <1>4

\* Of three layers of pins, however each is written.
LEMMA PinLayers ==
  ASSUME NEW a, NEW b, NEW c
  PROVE  CertHash(First(CertHash(a), First(b, CertHash(c)))) = CertHash(First(a, First(b, c)))
BY HashOnce DEF First

LEMMA SameConnection ==
  ASSUME NEW host, NEW ports, NEW auth, NEW o, NEW x, o.sni = x.sni, o.insecure = x.insecure,
         CertHash(o.pin) = CertHash(x.pin), ObfsOf(o) = ObfsOf(x)
  PROVE  Connection(host, ports, auth, o) = Connection(host, ports, auth, x)
BY DEF Connection

LEMMA OptionsFields ==
  \A sni, insecure, pin, obfs, password :
    /\ Options(sni, insecure, pin, obfs, password).sni = sni
    /\ Options(sni, insecure, pin, obfs, password).insecure = insecure
    /\ Options(sni, insecure, pin, obfs, password).pin = pin
    /\ Options(sni, insecure, pin, obfs, password).obfs = obfs
    /\ Options(sni, insecure, pin, obfs, password).password = password
BY DEF Options

LEMMA ParsedFields ==
  ASSUME NEW q
  PROVE  /\ ParsedQuery(q).sni = q.sni
         /\ ParsedQuery(q).insecure = First(q.insecure, FALSE)
         /\ ParsedQuery(q).pin = q.pin
         /\ ParsedQuery(q).obfs = q.obfs
         /\ ParsedQuery(q).password = IF q.obfs = None THEN None ELSE q.password
BY DEF ParsedQuery, Options

\* Obfuscation written twice is obfuscation written once.
LEMMA ObfsOnce ==
  ASSUME NEW o
  PROVE  /\ ObfsOf(o).obfs = o.obfs
         /\ ObfsOf(o).password = IF o.obfs = None THEN None ELSE o.password
         /\ \A sni, insecure, pin :
              ObfsOf(Options(sni, insecure, pin, ObfsOf(o).obfs, ObfsOf(o).password)) = ObfsOf(o)
<1>1. /\ ObfsOf(o).obfs = o.obfs
      /\ ObfsOf(o).password = IF o.obfs = None THEN None ELSE o.password
  BY DEF ObfsOf
<1>2. ASSUME NEW sni, NEW insecure, NEW pin
      PROVE  ObfsOf(Options(sni, insecure, pin, ObfsOf(o).obfs, ObfsOf(o).password)) = ObfsOf(o)
  BY <1>1, OptionsFields DEF ObfsOf
<1> QED BY <1>1, <1>2

\* What a client makes of a profile, whichever artifact it was given.
Meant(p) == Connection(p.host, p.ports, Resolved(p).auth, Resolved(p).options)

LEMMA URIAgrees ==
  ASSUME NEW p, p.uri \in BOOLEAN, Resolved(p).options.insecure \in BOOLEAN
  PROVE  ByURI(ClientURI(p)) = Meant(p)
<1> DEFINE r == Resolved(p)
<1>1. ByURI(ClientURI(p)) = Connection(p.host, p.ports, r.auth, ParsedQuery(ClientURI(p).query))
  BY DEF ByURI, ClientURI
<1>2. CASE p.uri = TRUE
  <2>1. ClientURI(p).query = p.query /\ r.options = ParsedQuery(p.query)
    BY <1>2 DEF ClientURI, Resolved
  <2> QED BY <1>1, <2>1 DEF Meant
<1>3. CASE p.uri = FALSE
  <2> DEFINE o == r.options
             said == ClientURI(p).query
             read == ParsedQuery(said)
  <2>1. /\ said.sni = o.sni /\ said.pin = CertHash(o.pin) /\ said.obfs = o.obfs
        /\ said.password = ObfsOf(o).password
        /\ said.insecure = (IF o.insecure THEN TRUE ELSE None)
    BY <1>3 DEF ClientURI, Options
  <2>2. /\ read.sni = o.sni /\ read.pin = CertHash(o.pin) /\ read.obfs = o.obfs
        /\ read.password = IF o.obfs = None THEN None ELSE ObfsOf(o).password
        /\ read.insecure = First(said.insecure, FALSE)
    BY <2>1, ParsedFields
  <2>3. read.insecure = o.insecure
    <3>1. CASE o.insecure = TRUE
      BY <2>1, <2>2, <3>1, NamesAssumption DEF First
    <3>2. CASE o.insecure = FALSE
      BY <2>1, <2>2, <3>2, NamesAssumption DEF First
    <3> QED BY <3>1, <3>2
  <2>4. ObfsOf(read) = ObfsOf(o)
    BY <2>2, ObfsOnce DEF ObfsOf
  <2>5. CertHash(read.pin) = CertHash(o.pin)
    BY <2>2, HashOnce
  <2> HIDE DEF read, said, o
  <2>6. Connection(p.host, p.ports, r.auth, read) = Connection(p.host, p.ports, r.auth, o)
    BY <2>2, <2>3, <2>4, <2>5, SameConnection
  <2> QED BY <1>1, <2>6 DEF Meant, read, o, said
<1> QED BY <1>2, <1>3

LEMMA YAMLAgrees ==
  ASSUME NEW p, p.uri \in BOOLEAN, Resolved(p).options.insecure \in BOOLEAN
  PROVE  ByYAML(ClientYAML(p)) = Meant(p)
<1>1. CASE p.uri = TRUE
  <2>1. ClientYAML(p).server = ClientURI(p)
    BY <1>1 DEF ClientYAML
  <2>2. "query" \in DOMAIN ClientURI(p)
    BY DEF ClientURI
  <2>3. ByYAML(ClientYAML(p)) = ByURI(ClientURI(p))
    BY <2>1, <2>2 DEF ByYAML
  <2> QED BY <2>3, URIAgrees
<1>2. CASE p.uri = FALSE
  <2>1. ClientYAML(p) = [server |-> [host |-> p.host, ports |-> p.ports], auth |-> Resolved(p).auth, 
                         tls |-> Resolved(p).options]
    BY <1>2 DEF ClientYAML
  <2>2. "query" \notin DOMAIN ClientYAML(p).server
    BY <2>1
  <2> QED BY <2>1, <2>2 DEF ByYAML, Meant
<1> QED BY <1>1, <1>2

LEMMA ParamsAgree ==
  ASSUME NEW p, p.uri \in BOOLEAN, ValidProfile(p)
  PROVE  /\ ClientParams(p).options = Resolved(p).options
         /\ ByParams(ClientParams(p), Resolved(p).auth) = Meant(p)
<1>1. ClientParams(p).options = Resolved(p).options
  <2>1. CASE p.uri = TRUE
    <3>1. Resolved(p).options = ParsedQuery(p.query) /\ Obfuscates(ParsedQuery(p.query))
      BY <2>1 DEF ValidProfile, Resolved
    <3>2. Obfuscates(p.query)
      BY <3>1, ParsedFields, NamesAssumption DEF Obfuscates
    <3> QED BY <2>1, <3>1, <3>2 DEF ClientParams
  <2>2. CASE p.uri = FALSE
    BY <2>2 DEF ClientParams, Resolved
  <2> QED BY <2>1, <2>2
<1>2. ClientParams(p).server = p.host /\ ClientParams(p).portUnion = p.ports
  BY DEF ClientParams
<1> QED BY <1>1, <1>2 DEF ByParams, Meant

LEMMA OneOf ==
  ASSUME NEW ports \in Seq(Nat), Len(ports) = 1
  PROVE  \A port : port = Head(ports) => <<port>> = ports
<1>0. ports[1] \in Nat
  <2>1. 1 \in 1..Len(ports)
    OBVIOUS
  <2> QED BY <2>1, ElementOfSeq
<1>1. ports[1] \in Nat /\ Head(ports) = ports[1]
  BY <1>0
<1> PICK n \in Nat : n = Head(ports)
  BY <1>1
<1>2. <<n>> \in Seq(Nat)
  OBVIOUS
<1>3. Len(<<n>>) = 1
  OBVIOUS
<1>4. <<n>>[1] = n
  OBVIOUS
<1> DEFINE t == <<n>>
<1>5. t \in Seq(Nat) /\ Len(t) = Len(ports) /\ \A i \in 1..Len(t) : t[i] = ports[i]
  BY <1>1, <1>2, <1>3, <1>4
<1> HIDE DEF t
<1>6. t = ports
  BY <1>5, SeqEqual
<1> QED BY <1>6 DEF t

LEMMA SingBoxAgrees ==
  ASSUME NEW p, p.uri \in BOOLEAN, ValidProfile(p), p.ports \in Seq(Nat), Len(p.ports) > 0, p.ports # None
  PROVE  BySingBox(SingBoxOutbound(p)) = [Meant(p) EXCEPT !.pin = None]
<1> DEFINE out == SingBoxOutbound(p)
           o == Resolved(p).options
           q == ClientParams(p)
<1>1. q.options = o /\ q.server = p.host /\ q.portUnion = p.ports /\ q.port = Head(p.ports)
  <2>1. q.options = o
    BY ParamsAgree
  <2>2. q.server = p.host /\ q.portUnion = p.ports /\ q.port = Head(p.ports)
    BY DEF ClientParams
  <2> QED BY <2>1, <2>2
<1> HIDE DEF q
<1>2. /\ out.server = p.host 
      /\ out.server_port = (IF Len(p.ports) > 1 THEN None ELSE Head(p.ports))
      /\ out.server_ports = (IF Len(p.ports) > 1 THEN p.ports ELSE None)
      /\ out.password = Resolved(p).auth
      /\ out.tls.server_name = o.sni /\ out.tls.insecure = o.insecure
      /\ out.obfs = ObfsOf(o)
  BY <1>1 DEF SingBoxOutbound, q
<1> HIDE DEF out
<1>3. (IF out.server_ports = None THEN <<out.server_port>> ELSE out.server_ports) = p.ports
  <2>1. CASE Len(p.ports) > 1
    BY <1>2, <2>1
  <2>2. CASE ~(Len(p.ports) > 1)
    <3>1. Len(p.ports) = 1
      <4>1. Len(p.ports) \in Nat
        BY LenProperties
      <4>2. \A n \in Nat : ~(n > 1) /\ n > 0 => n = 1
        OBVIOUS
      <4> QED BY <2>2, <4>1, <4>2
    <3>2. <<Head(p.ports)>> = p.ports
      BY <3>1, OneOf
    <3> QED BY <1>2, <2>2, <3>2
  <2> QED BY <2>1, <2>2
<1> DEFINE x == Options(out.tls.server_name, out.tls.insecure, None, out.obfs.obfs, out.obfs.password)
<1>4. BySingBox(out) = Connection(p.host, p.ports, Resolved(p).auth, x)
  BY <1>2, <1>3 DEF BySingBox
<1>5. x.sni = o.sni /\ x.insecure = o.insecure /\ x.pin = None /\ ObfsOf(x) = ObfsOf(o)
  BY <1>2, OptionsFields, ObfsOnce
<1>6. CertHash(None) = None
  BY HashOnce
<1> HIDE DEF x, o
<1>7. Connection(p.host, p.ports, Resolved(p).auth, x) = 
        [Connection(p.host, p.ports, Resolved(p).auth, o) EXCEPT !.pin = None]
  BY <1>5, <1>6 DEF Connection
<1> QED BY <1>4, <1>7 DEF Meant, o, out
-----------------------------------------------------------------------------
(* The profile of a user says what the user should have.                   *)

ServerOptions(s, d) == DefaultProfile(s, d).options

\* The options that are meant, layer by layer: n of the user, q of HY2_DOMAIN,
\* def of the server.
MeantBy(x, n, q, def, uri) ==
  /\ x.sni = First(n.sni, First(q.sni, IF uri /\ def.sni = Local THEN None ELSE def.sni))
  /\ x.insecure = First(n.insecure, First(q.insecure, def.insecure))
  /\ CertHash(x.pin) = CertHash(First(n.pin, First(q.pin, def.pin)))
  /\ x.obfs = First(n.obfs, First(q.obfs, def.obfs))
  /\ x.obfs # None => x.password = First(n.password, First(q.password, def.password))

LEMMA ServerFields ==
  ASSUME NEW s, NEW d
  PROVE  /\ ServerOptions(s, d).sni = (IF s.tls THEN First(s.acme, PublicHost(s, d)) ELSE None)
         /\ ServerOptions(s, d).insecure = (s.tls /\ s.insecure)
         /\ ServerOptions(s, d).pin = (IF s.tls THEN s.pin ELSE None)
         /\ ServerOptions(s, d).obfs = s.obfs
         /\ ServerOptions(s, d).password = s.password
         /\ DefaultProfile(s, d).host = PublicHost(s, d)
         /\ DefaultProfile(s, d).ports = s.ports
BY DEF ServerOptions, DefaultProfile, Profile, Options

LEMMA MeantIntended ==
  ASSUME NEW s, NEW d, NEW o, NEW x,
         MeantBy(x, NormalizeClientOverrides(o), d.query, ServerOptions(s, d), d.uri)
  PROVE  Connection(PublicHost(s, d), s.ports, Credential, x) = Intended(s, d, Credential, o)
<1> DEFINE n == NormalizeClientOverrides(o)
           def == ServerOptions(s, d)
           q == d.query
<1>1. Intended(s, d, Credential, o) = 
        [host |-> PublicHost(s, d), ports |-> s.ports, auth |-> Credential,
         sni |-> First(n.sni, First(q.sni, IF d.uri /\ def.sni = Local THEN None ELSE def.sni)),
         insecure |-> First(n.insecure, First(q.insecure, def.insecure)),
         pin |-> CertHash(First(n.pin, First(q.pin, def.pin))),
         obfs |-> [obfs |-> First(n.obfs, First(q.obfs, def.obfs)),
                   password |-> IF First(n.obfs, First(q.obfs, def.obfs)) = None THEN None
                                ELSE First(n.password, First(q.password, def.password))]]
  BY ServerFields DEF Intended
<1>2. ObfsOf(x) = [obfs |-> x.obfs, password |-> IF x.obfs = None THEN None ELSE x.password]
  BY DEF ObfsOf
<1> HIDE DEF n, def, q
<1>3. ObfsOf(x) = [obfs |-> First(n.obfs, First(q.obfs, def.obfs)),
                   password |-> IF First(n.obfs, First(q.obfs, def.obfs)) = None THEN None
                                ELSE First(n.password, First(q.password, def.password))]
  BY <1>2 DEF MeantBy, n, def, q
<1> QED BY <1>1, <1>3 DEF Connection, MeantBy, n, def, q

\* What there is of a pin, a flag or an obfuscation.
LEMMA OverrideFields ==
  ASSUME NEW o, IsOptions(o)
  PROVE  /\ NormalizeClientOverrides(o).insecure \in BOOLEAN \cup {None}
         /\ NormalizeClientOverrides(o).obfs = None => NormalizeClientOverrides(o).password = None
<1>1. IsOptions(NormalizeClientOverrides(o))
  BY NormalizedOnce
<1>2. NormalizeClientOverrides(o).obfs = None => NormalizeClientOverrides(o).password = None
  BY NamesAssumption DEF NormalizeClientOverrides, Options
<1> QED BY <1>1, <1>2 DEF IsOptions

\* A flag of the server: true, or nothing.
Flag(c) == IF c THEN TRUE ELSE None

LEMMA FlagLayers ==
  ASSUME NEW a \in BOOLEAN \cup {None}, NEW b \in BOOLEAN \cup {None}, NEW c \in BOOLEAN
  PROVE  /\ First(First(a, First(b, Flag(c))), FALSE) = First(a, First(b, c))
         /\ First(a, First(b, c)) \in BOOLEAN
<1>1. None # TRUE /\ None # FALSE
  BY NamesAssumption
<1>2. CASE a # None
  BY <1>1, <1>2 DEF First, Flag
<1>3. CASE a = None /\ b # None
  BY <1>1, <1>3 DEF First, Flag
<1>4. CASE a = None /\ b = None /\ c = TRUE
  BY <1>1, <1>4 DEF First, Flag
<1>5. CASE a = None /\ b = None /\ c = FALSE
  BY <1>1, <1>5 DEF First, Flag
<1> QED BY <1>2, <1>3, <1>4, <1>5

LEMMA PlainProfile ==
  ASSUME NEW s, NEW d, NEW o, d.uri = FALSE
  PROVE  EffectiveProfile(s, d, Credential, o) = 
           Profile(FALSE, PublicHost(s, d), s.ports, None, DefaultProfile(s, d).query, Credential,
                   Overridden(ServerOptions(s, d), NormalizeClientOverrides(o), 
                              NormalizeClientOverrides(o).pin))
<1> DEFINE n == NormalizeClientOverrides(o)
           def == DefaultProfile(s, d)
<1>1. BaseProfile(s, d) = def /\ def.uri = FALSE
  BY DEF BaseProfile, DefaultProfile, Profile
<1>2. UserProfile(s, d, Credential) =
        Profile(FALSE, def.host, def.ports, None, def.query, Credential, def.options)
  BY <1>1 DEF UserProfile
<1>3. EffectiveProfile(s, d, Credential, o) = 
        Profile(FALSE, def.host, def.ports, None, def.query, Credential, 
                Overridden(def.options, n, n.pin))
  BY <1>2 DEF EffectiveProfile, ApplyClientOverrides, Profile
<1> QED BY <1>3, ServerFields DEF ServerOptions

LEMMA URIProfile ==
  ASSUME NEW s, NEW d, NEW o, d.uri = TRUE
  PROVE  EffectiveProfile(s, d, Credential, o) = 
           Profile(TRUE, PublicHost(s, d), s.ports, Credential, 
                   Overridden(MergedQuery(d.query, ServerOptions(s, d)), NormalizeClientOverrides(o),
                              CertHash(NormalizeClientOverrides(o).pin)), None, NoOptions)
<1> DEFINE n == NormalizeClientOverrides(o)
           def == DefaultProfile(s, d)
           q == MergedQuery(d.query, def.options)
<1>1. BaseProfile(s, d) = Profile(TRUE, def.host, def.ports, None, q, None, NoOptions)
  BY DEF BaseProfile
<1>2. UserProfile(s, d, Credential) =
        Profile(TRUE, def.host, def.ports, Credential, q, None, NoOptions)
  BY <1>1 DEF UserProfile, Profile
<1>3. EffectiveProfile(s, d, Credential, o) = 
        Profile(TRUE, def.host, def.ports, Credential, Overridden(q, n, CertHash(n.pin)), None, 
                NoOptions)
  BY <1>2 DEF EffectiveProfile, ApplyClientOverrides, Profile
<1> QED BY <1>3, ServerFields DEF ServerOptions
LEMMA OverriddenFields ==
  ASSUME NEW p, NEW n, NEW pin
  PROVE  /\ Overridden(p, n, pin).sni = First(n.sni, p.sni)
         /\ Overridden(p, n, pin).insecure = First(n.insecure, p.insecure)
         /\ Overridden(p, n, pin).pin = First(pin, p.pin)
         /\ Overridden(p, n, pin).obfs = First(n.obfs, p.obfs)
         /\ Overridden(p, n, pin).password = 
              IF n.obfs = Salamander THEN First(n.password, p.password) ELSE p.password
BY DEF Overridden, Options

LEMMA MergedFields ==
  ASSUME NEW q, NEW def
  PROVE  /\ MergedQuery(q, def).sni = First(q.sni, IF def.sni = Local THEN None ELSE def.sni)
         /\ MergedQuery(q, def).insecure = First(q.insecure, Flag(def.insecure))
         /\ MergedQuery(q, def).pin = First(q.pin, CertHash(def.pin))
         /\ MergedQuery(q, def).obfs = First(q.obfs, def.obfs)
         /\ MergedQuery(q, def).password = 
              IF First(q.obfs, def.obfs) = Salamander THEN First(q.password, def.password) 
              ELSE q.password
BY DEF MergedQuery, Options, Flag

LEMMA PlainMeant ==
  ASSUME NEW s \in AllSettings, NEW d \in Domains, d.uri = FALSE, NEW o, IsOptions(o),
         Obfuscates(Overridden(ServerOptions(s, d), NormalizeClientOverrides(o),
                               NormalizeClientOverrides(o).pin))
  PROVE  /\ MeantBy(Overridden(ServerOptions(s, d), NormalizeClientOverrides(o),
                               NormalizeClientOverrides(o).pin),
                    NormalizeClientOverrides(o), d.query, ServerOptions(s, d), d.uri)
         /\ Overridden(ServerOptions(s, d), NormalizeClientOverrides(o),
                       NormalizeClientOverrides(o).pin).insecure \in BOOLEAN
<1> DEFINE n == NormalizeClientOverrides(o)
           def == ServerOptions(s, d)
           x == Overridden(def, n, n.pin)
           q == d.query
<1>1. q.sni = None /\ q.insecure = None /\ q.pin = None /\ q.obfs = None /\ q.password = None
  BY DomainAssumption DEF NoQuery, Options
<1>2. /\ x.sni = First(n.sni, def.sni) /\ x.insecure = First(n.insecure, def.insecure)
      /\ x.pin = First(n.pin, def.pin) /\ x.obfs = First(n.obfs, def.obfs)
      /\ x.password = IF n.obfs = Salamander THEN First(n.password, def.password) ELSE def.password
  BY OverriddenFields
<1>3. n.insecure \in BOOLEAN \cup {None} /\ (n.obfs = None => n.password = None)
  BY OverrideFields
<1>4. def.insecure \in BOOLEAN
  <2>1. s.tls \in BOOLEAN /\ s.insecure \in BOOLEAN
    BY SettingsAssumption
  <2> QED BY <2>1, ServerFields
<1>5. x.obfs \in {None, Salamander}
  BY DEF Obfuscates
<1> HIDE DEF n, def, x, q
<1>6. x.insecure = First(n.insecure, First(q.insecure, def.insecure)) /\ x.insecure \in BOOLEAN
  BY <1>1, <1>2, <1>3, <1>4 DEF First
<1>7. x.obfs # None => x.password = First(n.password, First(q.password, def.password))
  BY <1>1, <1>2, <1>3, <1>5 DEF First
<1>8. MeantBy(x, n, q, def, FALSE)
  BY <1>1, <1>2, <1>6, <1>7 DEF MeantBy, First
<1> QED BY <1>6, <1>8 DEF n, def, x, q

LEMMA URIMeant ==
  ASSUME NEW s \in AllSettings, NEW d \in Domains, d.uri = TRUE, NEW o, IsOptions(o),
         Obfuscates(ParsedQuery(Overridden(MergedQuery(d.query, ServerOptions(s, d)), 
                                           NormalizeClientOverrides(o), 
                                           CertHash(NormalizeClientOverrides(o).pin))))
  PROVE  /\ MeantBy(ParsedQuery(Overridden(MergedQuery(d.query, ServerOptions(s, d)), 
                                           NormalizeClientOverrides(o), 
                                           CertHash(NormalizeClientOverrides(o).pin))),
                    NormalizeClientOverrides(o), d.query, ServerOptions(s, d), d.uri)
         /\ ParsedQuery(Overridden(MergedQuery(d.query, ServerOptions(s, d)), 
                                   NormalizeClientOverrides(o), 
                                   CertHash(NormalizeClientOverrides(o).pin))).insecure \in BOOLEAN
<1> DEFINE n == NormalizeClientOverrides(o)
           def == ServerOptions(s, d)
           q == d.query
           m == MergedQuery(q, def)
           y == Overridden(m, n, CertHash(n.pin))
           x == ParsedQuery(y)
<1>1. /\ m.sni = First(q.sni, IF def.sni = Local THEN None ELSE def.sni)
      /\ m.insecure = First(q.insecure, Flag(def.insecure))
      /\ m.pin = First(q.pin, CertHash(def.pin))
      /\ m.obfs = First(q.obfs, def.obfs)
      /\ m.password = IF First(q.obfs, def.obfs) = Salamander THEN First(q.password, def.password) 
                      ELSE q.password
  BY MergedFields
<1>2. /\ y.sni = First(n.sni, m.sni) /\ y.insecure = First(n.insecure, m.insecure)
      /\ y.pin = First(CertHash(n.pin), m.pin) /\ y.obfs = First(n.obfs, m.obfs)
      /\ y.password = IF n.obfs = Salamander THEN First(n.password, m.password) ELSE m.password
  BY OverriddenFields
<1>3. /\ x.sni = y.sni /\ x.insecure = First(y.insecure, FALSE) /\ x.pin = y.pin /\ x.obfs = y.obfs
      /\ x.password = IF y.obfs = None THEN None ELSE y.password
  BY ParsedFields
<1>4. n.insecure \in BOOLEAN \cup {None} /\ (n.obfs = None => n.password = None)
  BY OverrideFields
<1>5. def.insecure \in BOOLEAN
  <2>1. s.tls \in BOOLEAN /\ s.insecure \in BOOLEAN
    BY SettingsAssumption
  <2> QED BY <2>1, ServerFields
<1>6. q.insecure \in BOOLEAN \cup {None}
  BY DomainAssumption DEF IsOptions
<1>7. x.obfs \in {None, Salamander}
  BY DEF Obfuscates
<1>8. def.obfs = None => def.password = None
  BY ServerFields, SettingsAssumption
<1> HIDE DEF n, def, q, m, y, x
<1>9. x.insecure = First(n.insecure, First(q.insecure, def.insecure)) /\ x.insecure \in BOOLEAN
  <2>1. x.insecure = First(First(n.insecure, First(q.insecure, Flag(def.insecure))), FALSE)
    BY <1>1, <1>2, <1>3
  <2>2. PICK a \in BOOLEAN \cup {None}, b \in BOOLEAN \cup {None}, c \in BOOLEAN :
           a = n.insecure /\ b = q.insecure /\ c = def.insecure
    BY <1>4, <1>5, <1>6
  <2>3. /\ First(First(a, First(b, Flag(c))), FALSE) = First(a, First(b, c))
        /\ First(a, First(b, c)) \in BOOLEAN
    BY FlagLayers
  <2> QED BY <2>1, <2>2, <2>3
<1>10. CertHash(x.pin) = CertHash(First(n.pin, First(q.pin, def.pin)))
  BY <1>1, <1>2, <1>3, PinLayers
<1>11. x.obfs = First(n.obfs, First(q.obfs, def.obfs))
  BY <1>1, <1>2, <1>3
<1>12. ASSUME x.obfs # None PROVE x.password = First(n.password, First(q.password, def.password))
  <2>1. x.obfs = Salamander /\ x.password = y.password /\ y.obfs = Salamander
    BY <1>3, <1>7, <1>12
  <2>2. CASE n.obfs = Salamander
    <3>1. x.password = First(n.password, m.password)
      BY <1>2, <2>1, <2>2
    <3>2. CASE m.obfs = Salamander
      BY <1>1, <3>1, <3>2
    <3>3. CASE m.obfs = None
      <4>1. q.obfs = None /\ def.obfs = None /\ None # Salamander
        BY <1>1, <3>3, NamesAssumption DEF First
      <4>2. m.password = q.password /\ def.password = None
        BY <1>1, <1>8, <4>1 DEF First
      <4> QED BY <3>1, <4>2 DEF First
    <3>4. m.obfs \in {None, Salamander}
      <4>1. q.obfs \in {None, Salamander} /\ def.obfs \in {None, Salamander}
        BY DomainAssumption, SettingsAssumption, ServerFields DEF q, def, Obfuscates
      <4> QED BY <1>1, <4>1 DEF First
    <3> QED BY <3>2, <3>3, <3>4
  <2>3. CASE n.obfs # Salamander
    <3>1. n.obfs = None /\ m.obfs = Salamander
      BY <1>2, <2>1, <2>3 DEF First
    <3> QED BY <1>1, <1>2, <1>4, <2>1, <2>3, <3>1 DEF First
  <2> QED BY <2>2, <2>3
<1>13. x.sni = First(n.sni, First(q.sni, IF def.sni = Local THEN None ELSE def.sni))
  BY <1>1, <1>2, <1>3
<1>14. MeantBy(x, n, q, def, TRUE)
  BY <1>9, <1>10, <1>11, <1>12, <1>13 DEF MeantBy
<1> QED BY <1>9, <1>14 DEF n, def, q, m, y, x
LEMMA ProfileMeant ==
  ASSUME NEW s \in AllSettings, NEW d \in Domains, NEW o, IsOptions(o), 
         NEW p, p = EffectiveProfile(s, d, Credential, o), ValidProfile(p)
  PROVE  /\ Meant(p) = Intended(s, d, Credential, o)
         /\ Resolved(p).options.insecure \in BOOLEAN
         /\ Resolved(p).auth = Credential
         /\ p.uri \in BOOLEAN /\ p.ports = s.ports
<1> DEFINE n == NormalizeClientOverrides(o)
           def == ServerOptions(s, d)
           plain == Overridden(def, n, n.pin)
           over == Overridden(MergedQuery(d.query, def), n, CertHash(n.pin))
<1>0. Obfuscates(Resolved(p).options)
  BY DEF ValidProfile
<1>1. CASE d.uri = FALSE
  <2>1. p = Profile(FALSE, PublicHost(s, d), s.ports, None, DefaultProfile(s, d).query, Credential, plain)
    BY <1>1, PlainProfile
  <2> HIDE DEF plain
  <2>2. /\ p.uri = FALSE /\ p.host = PublicHost(s, d) /\ p.ports = s.ports
        /\ Resolved(p).auth = Credential /\ Resolved(p).options = plain
    BY <2>1 DEF Profile, Resolved
  <2>3. MeantBy(plain, n, d.query, def, d.uri) /\ plain.insecure \in BOOLEAN
    <3>1. Obfuscates(plain)
      BY <1>0, <2>2
    <3> QED BY <1>1, <3>1, PlainMeant DEF plain
  <2>4. Connection(PublicHost(s, d), s.ports, Credential, plain) = Intended(s, d, Credential, o)
    BY <2>3, MeantIntended
  <2> QED BY <2>2, <2>3, <2>4 DEF Meant
<1>2. CASE d.uri = TRUE
  <2>1. p = Profile(TRUE, PublicHost(s, d), s.ports, Credential, over, None, NoOptions)
    BY <1>2, URIProfile
  <2> DEFINE x == ParsedQuery(over)
  <2> HIDE DEF over
  <2>2. /\ p.uri = TRUE /\ p.host = PublicHost(s, d) /\ p.ports = s.ports
        /\ Resolved(p).auth = Credential /\ Resolved(p).options = x
    BY <2>1 DEF Profile, Resolved
  <2> HIDE DEF x
  <2>3. MeantBy(x, n, d.query, def, d.uri) /\ x.insecure \in BOOLEAN
    <3>1. Obfuscates(x)
      BY <1>0, <2>2
    <3> QED BY <1>2, <3>1, URIMeant DEF x, over
  <2>4. Connection(PublicHost(s, d), s.ports, Credential, x) = Intended(s, d, Credential, o)
    BY <2>3, MeantIntended
  <2> QED BY <2>2, <2>3, <2>4 DEF Meant
<1> QED BY <1>1, <1>2, DomainAssumption

\* The profile without overrides is the one overridden by nothing.
LEMMA NothingOverridden ==
  ASSUME NEW m
  PROVE  LET n == NormalizeClientOverrides(NoOverrides)
             x == Overridden(m, n, CertHash(n.pin))
         IN  /\ n.pin = None /\ CertHash(n.pin) = None /\ IsOptions(NoOverrides)
             /\ x.sni = m.sni /\ x.insecure = m.insecure /\ x.pin = m.pin /\ x.obfs = m.obfs
             /\ x.password = m.password
<1> DEFINE n == NormalizeClientOverrides(NoOverrides)
           x == Overridden(m, n, CertHash(n.pin))
<1>1. NoOverrides = Options(None, None, None, None, None)
  BY OverridesAssumption DEF NoQuery
<1>2. n.sni = None /\ n.insecure = None /\ n.pin = None /\ n.obfs = None
  BY <1>1 DEF NormalizeClientOverrides, Options
<1>3. CertHash(None) = None /\ None # Salamander
  BY HashOnce, NamesAssumption
<1>4. IsOptions(NoOverrides)
  BY <1>1, OptionsFields DEF IsOptions
<1>5. /\ x.sni = First(n.sni, m.sni) /\ x.insecure = First(n.insecure, m.insecure)
      /\ x.pin = First(CertHash(n.pin), m.pin) /\ x.obfs = First(n.obfs, m.obfs)
      /\ x.password = IF n.obfs = Salamander THEN First(n.password, m.password) ELSE m.password
  BY OverriddenFields
<1> HIDE DEF n, x
<1>6. /\ x.sni = m.sni /\ x.insecure = m.insecure /\ x.pin = m.pin /\ x.obfs = m.obfs
      /\ x.password = m.password
  BY <1>2, <1>3, <1>5 DEF First
<1> QED BY <1>2, <1>3, <1>4, <1>6 DEF n, x

\* Two lots of options that say the same mean the same.
LEMMA MeantAlike ==
  ASSUME NEW x, NEW y, NEW n, NEW q, NEW def, NEW uri, MeantBy(x, n, q, def, uri),
         y.sni = x.sni, y.insecure = x.insecure, y.pin = x.pin, y.obfs = x.obfs, 
         y.obfs # None => y.password = x.password
  PROVE  MeantBy(y, n, q, def, uri)
BY DEF MeantBy

LEMMA ParsedAlike ==
  ASSUME NEW y, NEW m, y.sni = m.sni, y.insecure = m.insecure, y.pin = m.pin, y.obfs = m.obfs,
         y.password = m.password
  PROVE  ParsedQuery(y) = ParsedQuery(m)
BY DEF ParsedQuery

LEMMA DefaultsMeant ==
  ASSUME NEW s \in AllSettings, NEW d \in Domains
  PROVE  ByParams(ClientParams(BaseProfile(s, d)), Credential) = Intended(s, d, Credential, NoOverrides)
<1> DEFINE n == NormalizeClientOverrides(NoOverrides)
           def == ServerOptions(s, d)
           p == BaseProfile(s, d)
           x == ClientParams(p).options
<1>1. IsOptions(NoOverrides) /\ n.pin = None /\ CertHash(n.pin) = None
  BY NothingOverridden
<1>2. /\ s.obfs \in {None, Salamander} /\ (s.obfs = None <=> s.password = None)
      /\ def.obfs = s.obfs /\ def.password = s.password
  BY SettingsAssumption, ServerFields
<1>3. CASE d.uri = FALSE
  <2>1. p = DefaultProfile(s, d) /\ p.uri = FALSE
    BY <1>3 DEF BaseProfile, DefaultProfile, Profile
  <2>2. x = def /\ p.host = PublicHost(s, d) /\ p.ports = s.ports
    BY <2>1, ServerFields DEF ClientParams, ServerOptions
  <2> DEFINE y == Overridden(def, n, n.pin)
  <2>3. /\ y.sni = def.sni /\ y.insecure = def.insecure /\ y.pin = def.pin /\ y.obfs = def.obfs
        /\ y.password = def.password
    BY <1>1, NothingOverridden
  <2>4. Obfuscates(y)
    BY <1>2, <2>3, NamesAssumption DEF Obfuscates
  <2>5. MeantBy(y, n, d.query, def, d.uri)
    BY <1>1, <1>3, <2>4, PlainMeant
  <2> HIDE DEF y, def, n, x
  <2>6. MeantBy(x, n, d.query, def, d.uri)
    BY <2>2, <2>3, <2>5, MeantAlike
  <2>7. Connection(PublicHost(s, d), s.ports, Credential, x) = Intended(s, d, Credential, NoOverrides)
    BY <2>6, MeantIntended DEF n, def
  <2> QED BY <2>2, <2>7 DEF ByParams, ClientParams, x
<1>4. CASE d.uri = TRUE
  <2> DEFINE m == MergedQuery(d.query, def)
             y == Overridden(m, n, CertHash(n.pin))
             z == ParsedQuery(y)
  <2>1. p = Profile(TRUE, PublicHost(s, d), s.ports, None, m, None, NoOptions)
    BY <1>4, ServerFields DEF BaseProfile, ServerOptions
  <2>2. p.uri = TRUE /\ p.query = m /\ p.host = PublicHost(s, d) /\ p.ports = s.ports
    BY <2>1 DEF Profile
  <2>3. Obfuscates(m)
    <3>1. Obfuscates(d.query)
      BY DomainAssumption
    <3>2. /\ m.obfs = First(d.query.obfs, s.obfs)
          /\ m.password = IF m.obfs = Salamander THEN First(d.query.password, s.password)
                          ELSE d.query.password
      BY <1>2, MergedFields
    <3> HIDE DEF m
    <3> QED BY <1>2, <3>1, <3>2, NamesAssumption DEF Obfuscates, First
  <2>4. x = ParsedQuery(m)
    BY <2>2, <2>3 DEF ClientParams
  <2>5. /\ y.sni = m.sni /\ y.insecure = m.insecure /\ y.pin = m.pin /\ y.obfs = m.obfs
        /\ y.password = m.password
    BY NothingOverridden
  <2>6. /\ x.sni = z.sni /\ x.insecure = z.insecure /\ x.pin = z.pin /\ x.obfs = z.obfs
        /\ x.password = z.password
    <3>1. ParsedQuery(y) = ParsedQuery(m)
      BY <2>5, ParsedAlike
    <3> QED BY <2>4, <3>1
  <2>7. Obfuscates(z)
    BY <2>3, <2>5, ParsedFields, NamesAssumption DEF Obfuscates
  <2>8. MeantBy(z, n, d.query, def, d.uri)
    BY <1>1, <1>4, <2>7, URIMeant
  <2> HIDE DEF z, y, m, def, n, x
  <2>9. MeantBy(x, n, d.query, def, d.uri)
    BY <2>6, <2>8, MeantAlike
  <2>10. Connection(PublicHost(s, d), s.ports, Credential, x) = Intended(s, d, Credential, NoOverrides)
    BY <2>9, MeantIntended DEF n, def
  <2> QED BY <2>2, <2>10 DEF ByParams, ClientParams, x
<1> QED BY <1>3, <1>4, DomainAssumption

\* Whatever a user with a valid profile is given, share URI, client YAML,
\* parameters or sing-box outbound, it makes the one connection that the
\* overrides ask for over HY2_DOMAIN over the settings, sing-box without the
\* pin; and the defaults shown are that without the overrides.
THEOREM ArtifactsAgreeTheorem == Spec => []ArtifactsAgree
<1>1. ASSUME Inv PROVE ArtifactsAgree
  <2> DEFINE p == ProfileWith(user.overrides)
             c == Intended(settings, domain, Credential, user.overrides)
  <2> SUFFICES ASSUME Exists, ValidProfile(p)
               PROVE  /\ ByURI(ClientURI(p)) = c
                      /\ ByYAML(ClientYAML(p)) = c
                      /\ ByParams(ClientParams(p), Credential) = c
                      /\ BySingBox(SingBoxOutbound(p)) = [c EXCEPT !.pin = None]
                      /\ ByParams(ClientParams(BaseProfile(settings, domain)), Credential) =
                           Intended(settings, domain, Credential, NoOverrides)
    BY DEF ArtifactsAgree
  <2>1. settings \in AllSettings /\ domain \in Domains /\ IsOptions(user.overrides)
    BY <1>1 DEF Inv, TypeInv, UserInv, Settled
  <2>2. p = EffectiveProfile(settings, domain, Credential, user.overrides)
    BY DEF ProfileWith
  <2> HIDE DEF p
  <2>3. /\ Meant(p) = c /\ Resolved(p).options.insecure \in BOOLEAN
        /\ Resolved(p).auth = Credential /\ p.uri \in BOOLEAN /\ p.ports = settings.ports
    BY <2>1, <2>2, ProfileMeant
  <2>4. p.ports \in Seq(Nat) /\ Len(p.ports) > 0 /\ p.ports # None
    BY <2>1, <2>3, SettingsAssumption
  <2> HIDE DEF c
  <2>5. ByURI(ClientURI(p)) = c /\ ByYAML(ClientYAML(p)) = c
    BY <2>3, URIAgrees, YAMLAgrees
  <2>6. ByParams(ClientParams(p), Credential) = c
    BY <2>3, ParamsAgree
  <2>7. BySingBox(SingBoxOutbound(p)) = [c EXCEPT !.pin = None]
    BY <2>3, <2>4, SingBoxAgrees
  <2>8. ByParams(ClientParams(BaseProfile(settings, domain)), Credential) =
          Intended(settings, domain, Credential, NoOverrides)
    BY <2>1, DefaultsMeant
  <2> QED BY <2>5, <2>6, <2>7, <2>8
<1> QED BY <1>1, Invariant, PTL
=============================================================================
