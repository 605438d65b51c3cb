---------------------------- MODULE ManagedUsers ----------------------------
(***************************************************************************)
(* The panel's Hysteria users and the authentication section derived from  *)
(* them.  A user name stands for its normalized form (trimmed, lower case),*)
(* the only form the repository compares and stores.                       *)
(***************************************************************************)
EXTENDS Naturals

CONSTANTS
  UserIds,    \* the identifiers uuid.NewString can return
  Names,      \* normalized user names
  Passwords,  \* normalized passwords
  Bootstrap,  \* the "__bootstrap__" entry of an otherwise empty user list
  NoUser      \* no record is stored under an identifier

User == [name: Names, pass: Passwords, enabled: BOOLEAN]

Credential == (Names \X Passwords) \cup {Bootstrap}

\* "__bootstrap__" starts with a character the user name pattern refuses.
ASSUME BootstrapAssumption == Bootstrap \notin Names \X Passwords
ASSUME NoUserAssumption == NoUser \notin User

\* What a repository directory can hold: at most one record per identifier.
Directory == [UserIds -> User \cup {NoUser}]

Stored(us) == {i \in UserIds : us[i] # NoUser}
Enabled(us) == {i \in Stored(us) : us[i].enabled}

CredentialOf(u) == <<u.name, u.pass>>

\* The uniqueness scan of CreateHysteriaUser and UpdateHysteriaUser: no
\* record other than that of `self' holds the name.
NameFree(us, self, n) == \A i \in Stored(us) \ {self} : us[i].name # n

\* Variant: the map's keys without their passwords.
ManagedAuthNames(us) == {us[i].name : i \in Enabled(us)} \cup {Bootstrap}

\* The auth map the panel owns: every enabled user, or the bootstrap entry
\* when there is none, so that the map is never empty.
ManagedAuth(us) ==
  IF Enabled(us) = {} THEN {Bootstrap}
                      ELSE {CredentialOf(us[i]) : i \in Enabled(us)}
=============================================================================
