----------------------------- MODULE MCPanelJobs -----------------------------
(***************************************************************************)
(* PanelJobs for TLC.  The two jobs share nothing but the process, and no  *)
(* property speaks of both, so TLC follows each beside the other at rest:  *)
(* a behaviour of MCFairSpec is what a behaviour of FairSpec looks like to *)
(* one of the jobs.                                                        *)
(***************************************************************************)
EXTENDS PanelJobs, TLC

CONSTANTS u1, u2, n1, n2, s1, s2, c1, job   \* model values

VARIABLE watched   \* the job that is followed

MCVars == <<vars, watched>>

UsersStep == watched = "users" /\ TrafficNext /\ UNCHANGED services
ServicesStep == watched = "services" /\ ServicesNext /\ UNCHANGED traffic

\* What the other job works on is as small as it can be, and the services
\* start in good health.
MCInit ==
  /\ Init
  /\ watched \in {"users", "services"}
  /\ \A s \in Services : unit[s].state = "active"
  /\ watched = "services" => Present = {}

MCNext ==
  /\ UsersStep \/ ServicesStep \/ Shutdown \/ Restart
  /\ UNCHANGED watched

PollGoesOn == watched = "users" /\ PollStep /\ UNCHANGED <<services, watched>>
ServicePollGoesOn ==
  watched = "services" /\ ServicePollStep /\ UNCHANGED <<traffic, watched>>

MCFairSpec ==
  /\ MCInit
  /\ [][MCNext]_MCVars
  /\ WF_MCVars(PollGoesOn)
  /\ WF_MCVars(ServicePollGoesOn)
  /\ \A p \in Clients :
       WF_MCVars(watched = "services" /\ Serve(p) /\ UNCHANGED <<traffic, watched>>)

\* The liveness properties, for the job that is followed.
ViewsSettle == watched = "users" => UsersSettle
CacheSettles == watched = "services" => StatesSettle
=============================================================================
