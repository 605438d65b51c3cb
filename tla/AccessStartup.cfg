SPECIFICATION FairSpec
CONSTANTS
  u1 = u1  u2 = u2  n1 = n1  n2 = n2  w1 = w1  w2 = w2
  s1 = s1  s2 = s2  broken = broken
  NoUser = NoUser  NoId = NoId  NoContent = NoContent
  boot = boot  r1 = r1  r2 = r2
  UserIds = {u1, u2}
  Names = {n1}
  Passwords = {w1, w2}
  Bootstrap <- MCBootstrap
  Settings = {s1, broken}
  ValidSettings = {s1}
  Requests = {r1}
  Boot = boot
  HandEdits <- MCHandEdits
  MaxFaults = 1
  FaultKinds = {"torn", "torn removal", "torn file"}
  MaxCrashes = 1
  MayDisconnect = TRUE
PROPERTIES SuccessPublishes RemovedIsOut PanelWritesValid StartupRepairs RequestsEnd
