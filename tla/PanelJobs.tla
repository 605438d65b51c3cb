------------------------------ MODULE PanelJobs ------------------------------
(***************************************************************************)
(* The scheduler: the two polls of the panel run beside each other and     *)
(* beside the requests, in one process that may be shut down, may die and  *)
(* may be started again.                                                   *)
(***************************************************************************)
EXTENDS TrafficPoll, ServiceCache

vars == <<process, traffic, services>>

ASSUME BoundsAssumption == MaxEvents \in Nat /\ MaxBytes \in Nat /\ MaxKept \in Nat \ {0}
ASSUME JobAssumption == Job \notin Clients /\ Services # {}
ASSUME NullAssumption == NoUser \notin User /\ NoState \notin Stored

Init ==
  /\ running = TRUE
  /\ events = 0
  /\ TrafficInit
  /\ ServicesInit

Polls ==
  \/ (PollStep /\ UNCHANGED services)
  \/ (ServicePollStep /\ UNCHANGED traffic)

\* Shutdown cancels the context of the jobs; they end at their next call.
Shutdown ==
  /\ running
  /\ Event
  /\ running' = FALSE
  /\ UNCHANGED <<traffic, services>>

\* The process dies, shut down or not, and is started again.
Restart ==
  /\ running' = TRUE
  /\ IF running THEN Event ELSE UNCHANGED events
  /\ PollDies
  /\ ServicesDie

Next ==
  \/ TrafficNext /\ UNCHANGED services
  \/ ServicesNext /\ UNCHANGED traffic
  \/ Shutdown
  \/ Restart

Spec == Init /\ [][Next]_vars

\* Every call a job makes returns: HTTP calls and commands have timeouts,
\* the lock is held for one operation at a time.  A job is one goroutine, so
\* each is fair by itself.
FairSpec ==
  /\ Spec
  /\ WF_vars(PollStep /\ UNCHANGED services)
  /\ WF_vars(ServicePollStep /\ UNCHANGED traffic)
  /\ \A p \in Clients : WF_vars(Serve(p) /\ UNCHANGED traffic)

TypeOK == 
  /\ running \in BOOLEAN 
  /\ events \in 0..MaxEvents 
  /\ TrafficTypeOK 
  /\ ServicesTypeOK

-----------------------------------------------------------------------------
(* Properties.                                                             *)

\* A poll keeps what requests made of the users since it listed them: it
\* changes nothing of a record but the last visit and brings no record back;
\* and whatever requests do, the last visit of a user never goes back.
RecordsKept ==
  [][\A u \in Users :
       /\ u \in Deleted => users'[u] = NoUser
       /\ users[u] # NoUser /\ users'[u] # NoUser => users'[u].seen >= users[u].seen
       /\ poll' # poll => \/ users'[u] = users[u]
                          \/ /\ NoUser \notin {users[u], users'[u]}
                             /\ users'[u] = [users[u] EXCEPT !.seen = users'[u].seen]]_vars

\* What a poll leaves behind of a deleted user is at most one snapshot per
\* deletion, that of the poll under way when the user was deleted.
LateSnapshots == \A u \in Users : late[u] <= 1

\* When requests, traffic and failures cease and the panel stays up, every
\* user is shown with what the server counts for its name, and the overview
\* with the sums of it.
ViewsRight ==
  /\ \A u \in Present :
       View(u) = [bytes |-> api.bytes[users[u].name], online |-> api.online[users[u].name]]
  /\ Overview = 
       [enabled |-> Cardinality({u \in Present : users[u].enabled}),
        bytes |-> MapThenSumSet(LAMBDA u : api.bytes[users[u].name], Present),
        online |-> MapThenSumSet(LAMBDA u : api.online[users[u].name], Present)]
UsersSettle == <>[]running => <>[]ViewsRight

\* A state that a client is told as live is one the service was in at or
\* after the moment the client asked, its own restart included; older ones
\* are marked.
LiveAnswersFresh ==
  \A p \in Clients : answer[p].live => answer[p].since >= answer[p].asked

\* When services and requests cease to change and the panel stays up, what
\* is stored of each service is what systemd says of it, with the version.
StatesSettle ==
  <>[]running =>
  <>[](\A s \in Services : cache[s] # NoState /\ cache[s].state = unit[s].state /\ cache[s].version)
=============================================================================
