----------------------------- MODULE ClientExport -----------------------------
(***************************************************************************)
(* The exports of one user over time: administrators create, change,       *)
(* disable and delete the user, the server's settings are saved, and links *)
(* to the user's subscription are handed out.  A link names the user and   *)
(* signs the second of the user's last update, so that it serves until     *)
(* the user is updated.                                                    *)
(*                                                                         *)
(* A handler reads the user, checks what the exports would be under the    *)
(* settings of that moment, stores the user and then applies the users to  *)
(* the server, taking the store back when that fails.  Another handler may *)
(* act between any two of these steps.                                     *)
(***************************************************************************)
EXTENDS ClientProfile

CONSTANTS
  Admins,      \* requests of administrators, one at a time each
  Domains,     \* what HY2_DOMAIN may be
  AllSettings, \* what the settings form may save
  Overrides,   \* what a request may ask for
  NoOverrides, \* all of them None
  Credential,  \* username:password
  MaxTime      \* bound: seconds

VARIABLES
  now,       \* in seconds
  domain,    \* HY2_DOMAIN, given for good
  settings,  \* of the server, as saved
  user,      \* "new", "live" or "gone"; stamp: the second of the last update
  request,   \* by administrator: the step the handler is at, and what it read
  link       \* a link handed out: the stamp signed, and the updates since then

vars == <<now, domain, settings, user, request, link>>

User(state, overrides, enabled, stamp) ==
  [state |-> state, overrides |-> overrides, enabled |-> enabled, stamp |-> stamp]

NoUser == User("new", NoOverrides, FALSE, 0)
Gone == User("gone", NoOverrides, FALSE, 0)
NoLink == [stamp |-> 0, since |-> "no link"]
Idle == [step |-> "idle", op |-> "none", before |-> None, overrides |-> NoOverrides]

Exists == user.state = "live"
Handed == link.since # "no link"
ProfileWith(overrides) == EffectiveProfile(settings, domain, Credential, overrides)
Exportable(overrides) == ValidProfile(ProfileWith(overrides))

\* Everything there is, is something.
ASSUME NamesAssumption ==
  /\ None \notin {TRUE, FALSE, Local, BadHost, Dot, BadPin, Salamander, Credential}
  /\ Local \notin {BadHost, Dot}
  /\ {None, BadPin} \cap Pins = {}
  /\ None # BadPin
  /\ MaxTime \in Nat

ASSUME OverridesAssumption ==
  NoOverrides = NoQuery /\ \A o \in Overrides : IsOptions(o)

\* A domain names an obfuscation with its password or not at all: with the
\* name alone, every export fails under settings without a password.  Only a
\* URI has a query.
ASSUME DomainAssumption ==
  \A d \in Domains :
    /\ d.uri \in BOOLEAN /\ IsOptions(d.query) /\ Obfuscates(d.query)
    /\ ~d.uri => d.query = NoQuery
    /\ d.host \notin {BadHost, Dot} /\ (d.uri => d.host # None)

\* What ValidateSettings lets through; autoGenerateManagedSecrets makes up a
\* missing password.
ASSUME SettingsAssumption ==
  \A s \in AllSettings :
    /\ s.ports \in Seq(Nat) /\ Len(s.ports) > 0 /\ s.ports # None
    /\ s.tls \in BOOLEAN /\ s.insecure \in BOOLEAN
    /\ {s.acme, s.listen} \cap {BadHost, Dot} = {}
    /\ s.pin \in Pins \cup {None}
    /\ s.obfs \in {None, Salamander} /\ (s.obfs = None <=> s.password = None)

Init ==
  /\ now = 0
  /\ domain \in Domains
  /\ settings \in AllSettings
  /\ user = NoUser
  /\ request = [a \in Admins |-> Idle]
  /\ link = NoLink

-----------------------------------------------------------------------------
(* The store.                                                              *)

\* history: what an update is to the link.
Updated == IF ~Handed THEN link
           ELSE [stamp |-> link.stamp,
                 since |-> IF now > link.stamp THEN "later" ELSE "same second"]

Keep == UNCHANGED <<user, link>>

\* One user: a deleted one never comes back, for ids are random.
CreateHysteriaUser(overrides) ==
  /\ user' = User("live", NormalizeClientOverrides(overrides), TRUE, now)
  /\ UNCHANGED link

UpdateHysteriaUser(overrides) ==
  IF ~Exists THEN Keep
  ELSE /\ user' = User("live", NormalizeClientOverrides(overrides), user.enabled, now)
       /\ link' = Updated

\* Variant: the stamp stays.
SetHysteriaUserEnabledUnstamped(enabled) ==
  IF ~Exists THEN Keep
  ELSE /\ user' = User("live", user.overrides, enabled, user.stamp)
       /\ link' = Updated

SetHysteriaUserEnabled(enabled) ==
  IF ~Exists THEN Keep
  ELSE /\ user' = User("live", user.overrides, enabled, now)
       /\ link' = Updated

DeleteHysteriaUser ==
  IF ~Exists THEN Keep ELSE user' = Gone /\ link' = NoLink

-----------------------------------------------------------------------------
(* The handlers of users.                                                  *)

\* The handler accepts a draft with these overrides.
Accepts(overrides) == ValidClientOverrides(overrides) /\ Exportable(overrides)

Begin(a, op, before, overrides) ==
  request' = [request EXCEPT ![a] =
    [step |-> "checked", op |-> op, before |-> before, overrides |-> overrides]]

Create(a) ==
  /\ user.state = "new"
  /\ \E o \in Overrides : Accepts(o) /\ Begin(a, "create", None, o)

\* Overrides that are not sent are those of the user as read.
Update(a) ==
  /\ Exists
  /\ \E o \in Overrides \cup {user.overrides} :
       Accepts(o) /\ Begin(a, "update", user.overrides, o)

SetState(a) ==
  Exists /\ Begin(a, IF user.enabled THEN "disable" ELSE "enable", user.enabled, NoOverrides)

Delete(a) ==
  Exists /\ Begin(a, "delete", user.enabled, NoOverrides)

Start(a) ==
  /\ request[a].step = "idle"
  /\ Create(a) \/ Update(a) \/ SetState(a) \/ Delete(a)
  /\ UNCHANGED <<now, domain, settings, user, link>>

Stored(r) == [step |-> "stored", op |-> r.op, before |-> r.before, overrides |-> NoOverrides]

\* The step of a request under the lock; without the user it ends in an error.
StoreDraft(a) ==
  LET r == request[a]
      fails == IF r.op = "create" THEN user.state # "new"
               ELSE ~Exists /\ (r.op = "delete" => r.before)
  IN  /\ r.step = "checked"
      /\ request' = [request EXCEPT ![a] = IF fails THEN Idle ELSE Stored(r)]
      /\ IF fails THEN Keep
         ELSE CASE r.op = "create" -> CreateHysteriaUser(r.overrides)
                [] r.op = "update" -> UpdateHysteriaUser(r.overrides)
                [] r.op = "enable" -> SetHysteriaUserEnabled(TRUE)
                [] r.op = "disable" -> SetHysteriaUserEnabled(FALSE)
                [] r.op = "delete" -> IF r.before THEN SetHysteriaUserEnabled(FALSE) ELSE Keep
      /\ UNCHANGED <<now, domain, settings>>

End(a) ==
  /\ request[a].step = "stored"
  /\ request' = [request EXCEPT ![a] = Idle]
  /\ UNCHANGED <<now, domain, settings>>

\* syncManagedHysteria succeeds.  A user who was disabled is now deleted.
Synced(a) ==
  /\ End(a)
  /\ IF request[a].op = "delete" THEN DeleteHysteriaUser ELSE Keep

\* It fails, and the store is taken back.
RollBack(a) ==
  LET r == request[a]
  IN  /\ End(a)
      /\ CASE r.op = "create" -> DeleteHysteriaUser
           [] r.op = "update" -> UpdateHysteriaUser(r.before)
           [] r.op \in {"enable", "disable"} -> SetHysteriaUserEnabled(r.before)
           [] r.op = "delete" -> IF r.before THEN SetHysteriaUserEnabled(TRUE) ELSE Keep

-----------------------------------------------------------------------------
(* Settings, links and time.                                               *)

SaveSettings ==
  /\ settings' \in AllSettings \ {settings}
  /\ UNCHANGED <<now, domain, user, request, link>>

\* What the URL of a subscription signs, in whole seconds.
BuildSubscriptionURL(u) == u.stamp

\* The artifacts, or the QR code, of an enabled user.  One link, of any
\* moment, is followed.
HandOut ==
  /\ ~Handed
  /\ Exists /\ user.enabled /\ Exportable(user.overrides)
  /\ link' = [stamp |-> BuildSubscriptionURL(user), since |-> "nothing"]
  /\ UNCHANGED <<now, domain, settings, user, request>>

Tick ==
  /\ now < MaxTime
  /\ now' = now + 1
  /\ UNCHANGED <<domain, settings, user, request, link>>

Verified == link.stamp = BuildSubscriptionURL(user)

ResolveSubscriptionUser == Exists /\ Verified

\* The link is answered.
Serves == ResolveSubscriptionUser /\ user.enabled /\ Exportable(user.overrides)

Next ==
  \/ \E a \in Admins : Start(a) \/ StoreDraft(a) \/ Synced(a) \/ RollBack(a)
  \/ SaveSettings
  \/ HandOut
  \/ Tick

Spec == Init /\ [][Next]_vars

-----------------------------------------------------------------------------
(* Properties.                                                             *)

\* All that a stored user is given says one thing: the share URI, the client
\* YAML, the parameters shown and the sing-box outbound make one connection,
\* that of the user's overrides over HY2_DOMAIN over the settings, and the
\* defaults shown are that without the overrides.
ArtifactsAgree ==
  LET p == ProfileWith(user.overrides)
      c == Intended(settings, domain, Credential, user.overrides)
  IN  Exists /\ ValidProfile(p) =>
        /\ ByURI(ClientURI(p)) = c
        /\ ByYAML(ClientYAML(p)) = c
        /\ ByParams(ClientParams(p), Credential) = c
        /\ BySingBox(SingBoxOutbound(p)) = [c EXCEPT !.pin = None]
        /\ ByParams(ClientParams(BaseProfile(settings, domain)), Credential) =
             Intended(settings, domain, Credential, NoOverrides)

\* Of several ports, a domain that is a URI makes no URL.
OneURL == domain.uri => Len(settings.ports) = 1

\* A user who was accepted once can be exported under all settings saved
\* since, where there is one URL.
ExportsStay ==
  Exists /\ OneURL => Exportable(user.overrides)

\* A link serves until the user is updated, and one to a user who was
\* updated in a later second than the link signs never serves again: not when
\* a disabled user is enabled, not when a change is rolled back.
LinksFollow ==
  Handed /\ OneURL =>
    /\ link.since = "nothing" => Serves
    /\ link.since = "later" => ~Serves
=============================================================================
