SPECIFICATION Spec
CONSTANTS
  u1 = u1  u2 = u2  n1 = n1  n2 = n2  w1 = w1  w2 = w2
  s1 = s1  s2 = s2  broken = broken
  NoUser = NoUser  NoId = NoId  NoContent = NoContent
  boot = boot  r1 = r1  r2 = r2
  UserIds = {u1, u2}
  Names = {n1, n2}
  Passwords = {w1}
  Bootstrap <- MCBootstrap
  Settings = {s1}
  ValidSettings = {s1}
  Requests = {r1, r2}
  Boot = boot
  HandEdits <- NoEdits
  MaxFaults = 1
  FaultKinds = {"restart"}
  MaxCrashes = 0
  MayDisconnect = FALSE
INVARIANTS UniqueNames
PROPERTIES GoneStaysGone UpdatesKeepEnabled
SYMMETRY Symmetry
