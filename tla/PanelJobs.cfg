SPECIFICATION MCFairSpec
CONSTANTS
  u1 = u1  u2 = u2  n1 = n1  n2 = n2  s1 = s1  s2 = s2  c1 = c1  job = job
  NoUser = NoUser  NoState = NoState
  Users = {u1, u2}
  Names = {n1, n2}
  Services = {s1, s2}
  Clients = {c1}
  Job = job
  MaxEvents = 3
  MaxBytes = 1
  MaxKept = 2
INVARIANTS LateSnapshots LiveAnswersFresh
PROPERTIES RecordsKept ViewsSettle CacheSettles
