SPECIFICATION Spec
CONSTANTS
  a1 = a1  a2 = a2
  Hosted = Hosted  Fronted = Fronted  Certified = Certified  Owned = Owned  Pinned = Pinned
  P1 = P1  P2 = P2  P3 = P3
  None = None  Local = Local  BadHost = BadHost  Dot = Dot  BadPin = BadPin
  Salamander = Salamander
  Hashes <- MCHashes
  Admins = {a1, a2}
  Domains <- MCDomains
  AllSettings <- MCSettings
  Overrides <- MCOverrides
  NoOverrides <- MCNoOverrides
  Credential = Credential
  MaxTime = 2
SYMMETRY Symmetry
INVARIANTS ArtifactsAgree ExportsStay LinksFollow
CHECK_DEADLOCK FALSE
