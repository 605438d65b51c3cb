---------------------------- MODULE ServiceCache ----------------------------
(***************************************************************************)
(* The states of the managed services as the panel remembers them.  The    *)
(* truth is systemd's.  The job that polls it, the handlers that list or   *)
(* show services and those that restart or reload one all ask systemd      *)
(* first and store what it said afterwards, in one repository operation;   *)
(* between the two anything may happen.  A handler that cannot ask answers *)
(* with what is stored.                                                    *)
(***************************************************************************)
EXTENDS PanelProcess

CONSTANTS
  Services,    \* those of MANAGED_SERVICES
  Clients,     \* goroutines serving HTTP requests
  Job,         \* the polling job
  NoState      \* nothing stored for a service

VARIABLES
  unit,     \* unit[s]: the state systemd has s in, and the event it began with
  cache,    \* cache[s]: the service state in the repository
  call,     \* call[p]: the local variables of process p
  answer    \* history: what each client was told last, and about which service

services == <<unit, cache, call, answer>>

States == {"active", "failed"}
Reading == [state: States, since: 0..MaxEvents]
Stored == [state: States, since: 0..MaxEvents, version: BOOLEAN]

Procs == Clients \cup {Job}

AnyService == CHOOSE s \in Services : TRUE

\* A process between two requests, or two polls.  `todo' is the services it
\* has yet to ask about, `svc' the one it is working on, `asked' when the
\* state began that each service was in when the client asked, `read' what
\* systemd said.
Resting ==
  [pc |-> "idle", kind |-> "poll", todo |-> {}, svc |-> AnyService,
   asked |-> [s \in Services |-> 0],
   read |-> [state |-> "active", since |-> 0], version |-> FALSE]

NoAnswer == [live |-> FALSE, since |-> 0, asked |-> 0]

\* Process p goes on at label l with the local variables c.
Goto(p, l, c) == call' = [call EXCEPT ![p] = [c EXCEPT !.pc = l]]

\* p is done with service s: it goes on to another one, or ends.
Done(p, s) ==
  IF call[p].todo \ {s} = {} THEN call' = [call EXCEPT ![p] = Resting]
  ELSE Goto(p, "show", [call[p] EXCEPT !.todo = @ \ {s}, !.version = FALSE])

\* A command or a repository operation of p fails.  The job's context may
\* be cancelled, a client may have gone away.
Fails(p) == IF p = Job THEN CallFails ELSE Event /\ UNCHANGED running

-----------------------------------------------------------------------------
(* What begins.                                                            *)

StartServicePoll ==
  /\ call[Job].pc = "idle"
  /\ running
  /\ Goto(Job, "show", [Resting EXCEPT !.todo = Services])
  /\ UNCHANGED <<unit, cache, answer, process>>

\* ListServices and the live page ask for all services, GetService for one.
Open(p, kind, S) ==
  /\ call[p].pc = "idle"
  /\ Event
  /\ Goto(p, "show", [Resting EXCEPT !.kind = kind, !.todo = S,
                      !.asked = [s \in Services |-> unit[s].since]])
  /\ UNCHANGED <<unit, cache, answer, running>>

\* RestartService and ReloadService: the command succeeds and the status is
\* asked for; or it fails or is killed at its timeout, whatever state that
\* leaves the service in, and the request ends without storing anything.
Command(p, s) ==
  /\ call[p].pc = "idle"
  /\ Event
  /\ \/ /\ unit' = [unit EXCEPT ![s] = [state |-> "active", since |-> events']]
        /\ Goto(p, "show", [Resting EXCEPT !.kind = "action", !.todo = {s},
                            !.asked = [x \in Services |-> unit'[x].since]])
     \/ /\ unit' = [unit EXCEPT ![s] = [state |-> "failed", since |-> events']]
        /\ UNCHANGED call
  /\ UNCHANGED <<cache, answer, running>>

OpenAny(p) ==
  \/ Open(p, "list", Services)
  \/ \E s \in Services : Open(p, "get", {s}) \/ Command(p, s)

-----------------------------------------------------------------------------
(* Asking systemd.                                                         *)

\* After a successful `systemctl show' the job looks for the version.
Show(p) ==
  /\ call[p].pc = "show"
  /\ p = Job => running
  /\ \E s \in call[p].todo :
       Goto(p, IF p = Job THEN "version" ELSE "upsert",
            [call[p] EXCEPT !.svc = s, !.todo = @ \ {s}, !.read = unit[s]])
  /\ UNCHANGED <<unit, cache, answer, process>>

\* The job stores "failed", without a version, and goes on.
Failed(s) == 
  [cache EXCEPT ![s] = [state |-> "failed", since |-> unit[s].since, version |-> FALSE]]

ShowFailsJob ==
  /\ call[Job].pc = "show"
  /\ CallFails
  /\ \E s \in call[Job].todo :
       /\ \/ running /\ cache' = Failed(s)
          \/ ~running /\ UNCHANGED cache
       /\ Done(Job, s)
  /\ UNCHANGED <<unit, answer>>

\* What p tells its client about service s.
Tell(p, s, live, r) == answer' = [answer EXCEPT ![p] =
  [live |-> live, since |-> r.since, asked |-> call[p].asked[s]]]

\* Variant: the stored state is told as if it had just been asked for.
FallBackLive(p, s) ==
  IF cache[s] = NoState THEN UNCHANGED answer ELSE Tell(p, s, TRUE, cache[s])

\* What is told instead: the stored state, marked as stale, if there is one.
FallBack(p, s) ==
  IF cache[s] = NoState THEN UNCHANGED answer ELSE Tell(p, s, FALSE, cache[s])

\* A list falls back to the stored state; the other requests end.
ShowFails(p) ==
  /\ p \in Clients
  /\ call[p].pc = "show"
  /\ Event
  /\ \E s \in call[p].todo :
       /\ IF call[p].kind = "list" THEN FallBack(p, s) ELSE UNCHANGED answer
       /\ Done(p, s)
  /\ UNCHANGED <<unit, cache, running>>

-----------------------------------------------------------------------------
(* Storing what it said.                                                   *)

\* DetectBinaryVersion, or a constant for the panel's own services.
Version ==
  /\ call[Job].pc = "version"
  /\ \/ running /\ UNCHANGED process /\ Goto(Job, "upsert", [call[Job] EXCEPT !.version = TRUE])
     \/ CallFails /\ Goto(Job, "upsert", call[Job])
  /\ UNCHANGED <<unit, cache, answer>>

Entry(p) == [state |-> call[p].read.state, since |-> call[p].read.since,
             version |-> call[p].version]

\* Variant: a state that is stored already stays.
UpsertedOnce(p) ==
  IF cache[call[p].svc] # NoState THEN cache ELSE [cache EXCEPT ![call[p].svc] = Entry(p)]

\* UpsertServiceState replaces the stored state, the version included.
Upserted(p) == [cache EXCEPT ![call[p].svc] = Entry(p)]

\* The error of the upsert is dropped, by the handlers and by the job.
Upsert(p) ==
  /\ call[p].pc = "upsert"
  /\ \/ (p = Job => running) /\ UNCHANGED process /\ cache' = Upserted(p)
     \/ Fails(p) /\ UNCHANGED cache
  /\ IF p = Job THEN UNCHANGED answer ELSE Tell(p, call[p].svc, TRUE, call[p].read)
  /\ Done(p, call[p].svc)
  /\ UNCHANGED unit

ServicePollStep == StartServicePoll \/ Show(Job) \/ ShowFailsJob \/ Version \/ Upsert(Job)

Serve(p) == Show(p) \/ ShowFails(p) \/ Upsert(p)

\* A service fails, or systemd starts it again.
UnitChanges(s) ==
  /\ Event
  /\ \E x \in States \ {unit[s].state} :
       unit' = [unit EXCEPT ![s] = [state |-> x, since |-> events']]
  /\ UNCHANGED <<cache, call, answer, running>>

\* The process ends, or starts again.
ServicesDie ==
  /\ call' = [p \in Procs |-> Resting]
  /\ UNCHANGED <<unit, cache, answer>>

-----------------------------------------------------------------------------
ServicesInit ==
  /\ unit \in [Services -> [state: States, since: {0}]]
  /\ cache = [s \in Services |-> NoState]
  /\ call = [p \in Procs |-> Resting]
  /\ answer = [p \in Clients |-> NoAnswer]

ServicesNext ==
  \/ ServicePollStep
  \/ \E p \in Clients : OpenAny(p) \/ Serve(p)
  \/ \E s \in Services : UnitChanges(s)

ServicesTypeOK ==
  /\ unit \in [Services -> Reading]
  /\ cache \in [Services -> Stored \cup {NoState}]
  /\ call \in [Procs -> [pc: {"idle", "show", "version", "upsert"},
                         kind: {"poll", "list", "get", "action"},
                         todo: SUBSET Services, svc: Services,
                         asked: [Services -> 0..MaxEvents],
                         read: Reading, version: BOOLEAN]]
  /\ answer \in [Clients -> [live: BOOLEAN, since: 0..MaxEvents, asked: 0..MaxEvents]]
=============================================================================
