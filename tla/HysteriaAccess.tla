--------------------------- MODULE HysteriaAccess ---------------------------
(***************************************************************************)
(* How the panel keeps the Hysteria server's authentication in step with   *)
(* its user records.  The records (a directory of JSON files behind a      *)
(* lock), the server's configuration file (no lock, replaced by rename)    *)
(* and the configuration the running server last loaded are three copies   *)
(* of one fact.  Every handler that changes a user runs                    *)
(*                                                                         *)
(*   repository change; read file; list enabled users and inject them;     *)
(*   save the file if it changed; systemctl restart hysteria-server        *)
(*                                                                         *)
(* and, when a step after the first fails, undoes the change and runs the  *)
(* synchronisation once more.  A handler that synchronised may still have  *)
(* to read what it answers with.  A step of this module is one locked      *)
(* repository operation, one read or rename of the file or one systemctl   *)
(* command: between any two of them other requests, an edit of the file by *)
(* hand, a client disconnect, a crash of the panel or a restart of the     *)
(* server may come.                                                        *)
(***************************************************************************)
EXTENDS ManagedUsers

CONSTANTS
  Requests,       \* goroutines serving HTTP requests
  Boot,           \* the panel's start-up code
  Settings,       \* the server settings outside "auth"
  ValidSettings,  \* those HysteriaConfigManager.Validate accepts
  HandEdits,      \* contents an operator may put in the file by hand
  NoId, NoContent,
  MaxFaults,      \* bound: failing calls during one request
  FaultKinds,     \* which calls may fail, see Kinds
  MaxCrashes,     \* bound: crashes of the panel in a behaviour
  MayDisconnect   \* whether clients may go away while they are served

Procs == Requests \cup {Boot}

Content == [auth: SUBSET Credential, settings: Settings]

\* A call that reads, writes or restarts fails without effect; a write that
\* is torn reports an error after its effect: of a record (the directory's
\* fsync after the rename), of removing one (the snapshots come after the
\* record) or of the file.
Kinds == {"read", "write", "restart", "torn", "torn removal", "torn file"}

ASSUME BootAssumption == Boot \notin Requests
ASSUME SettingsAssumption == ValidSettings \subseteq Settings
ASSUME HandEditsAssumption == HandEdits \subseteq Content
ASSUME NullAssumption == NoId \notin UserIds /\ NoContent \notin Content
ASSUME BoundsAssumption == 
  /\ MaxFaults \in Nat 
  /\ MaxCrashes \in Nat
  /\ FaultKinds \subseteq Kinds
  /\ MayDisconnect \in BOOLEAN

VARIABLES
  users,    \* users[i]: the record stored under identifier i
  issued,   \* identifiers handed out so far, never used again
  config,   \* the server's configuration file
  live,     \* the content the running server loaded
  pc,       \* pc[p]: the next call of process p
  job,      \* job[p]: the local variables of process p
  crashes   \* crashes of the panel so far

vars == <<users, issued, config, live, pc, job, crashes>>
stores == <<users, issued, config, live>>

Ops == {"none", "create", "update", "toggle", "delete", "save", "apply", "boot"}

Job == [op: Ops,
        id: UserIds \cup {NoId},
        old: User \cup {NoUser},         \* `current', read when the request began
        file: Content \cup {NoContent},  \* the content read, then the next one
        undo: BOOLEAN,                   \* the handler is rolling back
        cut: BOOLEAN,                    \* the request's context is cancelled
        edited: BOOLEAN,                 \* history: the file was edited by hand
        faults: 0..MaxFaults]

NoJob == [op |-> "none", id |-> NoId, old |-> NoUser, file |-> NoContent,
          undo |-> FALSE, cut |-> FALSE, edited |-> FALSE, faults |-> 0]

\* A request that answered, with the answer it gave; "unread" is the error
\* that says that the user or the artifacts to answer with could not be read.
Rest == {"ok", "failed", "unread"}

Labels == Rest \cup {"update", "toggle", "remove", "undo",
                     "read", "inject", "write", "check", "restart", "respond"}

Resting(p) == pc[p] \in Rest
Quiet == \A p \in Procs : Resting(p)

ValidContent(c) == c.settings \in ValidSettings

-----------------------------------------------------------------------------
(* Control.                                                                *)

\* What is left of the local variables j at label l.
Kept(l, j) == 
  IF l \in Rest THEN NoJob ELSE IF l = "undo" THEN [j EXCEPT !.undo = TRUE] ELSE j

\* Process p goes on at label l with the local variables j.
Move(p, l, j) ==
  /\ pc' = [pc EXCEPT ![p] = l]
  /\ job' = [job EXCEPT ![p] = Kept(l, j)]

\* A call of the given kind returns an error and p goes on at l.
Fault(p, kind, l) ==
  /\ kind \in FaultKinds
  /\ job[p].faults < MaxFaults
  /\ Move(p, l, [job[p] EXCEPT !.faults = @ + 1])

\* A call that takes the request's context fails: the context is cancelled
\* or the call itself goes wrong.
Fails(p, kind, l) ==
  \/ job[p].cut /\ Move(p, l, job[p])
  \/ Fault(p, kind, l)

TornKind(u) == IF u = NoUser THEN "torn removal" ELSE "torn"

\* One repository operation that stores u under id: it succeeds, or fails
\* without effect, or fails after its effect.
Store(p, id, u, next, error) ==
  /\ \/ /\ ~job[p].cut
        /\ users' = [users EXCEPT ![id] = u]
        /\ Move(p, next, job[p])
     \/ /\ Fails(p, "write", error)
        /\ UNCHANGED users
     \/ /\ ~job[p].cut
        /\ users' = [users EXCEPT ![id] = u]
        /\ Fault(p, TornKind(u), error)
  /\ UNCHANGED <<issued, config, live, crashes>>

\* The operation finds no record, or the name taken, and changes nothing.
Refuse(p, next) == Move(p, next, job[p]) /\ UNCHANGED <<stores, crashes>>

\* Handlers serve requests once the start-up code is done.
Idle(p) == p \in Requests /\ Resting(p) /\ Resting(Boot)

-----------------------------------------------------------------------------
(* The handlers, up to the synchronisation.                                *)

\* CreateHysteriaUser: the request body is validated, then one repository
\* operation checks the name and writes the record under a fresh identifier.
Create(p) ==
  /\ Idle(p)
  /\ \E id \in UserIds \ issued, n \in Names, w \in Passwords :
       LET j == [NoJob EXCEPT !.op = "create", !.id = id] 
       IN /\ NameFree(users, id, n)
          /\ users' = [users EXCEPT ![id] = 
                         [name |-> n, pass |-> w, enabled |-> TRUE]]
          /\ issued' = issued \cup {id}
          /\ \/ Move(p, "read", j)
             \/ /\ "torn" \in FaultKinds
                /\ MaxFaults > 0
                /\ Move(p, "failed", j)
  /\ UNCHANGED <<config, live, crashes>>

\* The handlers of an existing user read its record first.
Open(p, op, id, l) ==
  /\ Idle(p)
  /\ users[id] # NoUser
  /\ Move(p, l, [NoJob EXCEPT !.op = op, !.id = id, !.old = users[id]])
  /\ UNCHANGED <<stores, crashes>>

OpenUpdate(p) == \E id \in UserIds : Open(p, "update", id, "update")

OpenToggle(p) == \E id \in UserIds : Open(p, "toggle", id, "toggle")

\* Variant: the record of a disabled user is removed right away.
OpenDeleteTrusting(p) ==
  \E id \in UserIds :
    Open(p, "delete", id, 
         IF users[id] # NoUser /\ users[id].enabled THEN "toggle" ELSE "remove")

\* Deleting disables an enabled user first; a disabled one is synchronised
\* away (it should not be in the file) before its record is removed.
OpenDelete(p) ==
  \E id \in UserIds :
    Open(p, "delete", id, 
         IF users[id] # NoUser /\ users[id].enabled THEN "toggle" ELSE "read")

\* UpdateHysteriaUser: the record is read again under the lock, so that only
\* the fields of the request change.  A field the body leaves out keeps the
\* value read by OpenUpdate, which is one of the names and passwords here.
Update(p) ==
  LET id == job[p].id
  IN /\ pc[p] = "update"
     /\ \/ /\ users[id] = NoUser
           /\ Refuse(p, "failed")
        \/ \E n \in Names, w \in Passwords :
             /\ users[id] # NoUser
             /\ \/ /\ ~NameFree(users, id, n)
                   /\ Refuse(p, "failed")
                \/ /\ NameFree(users, id, n)
                   /\ Store(p, id, [users[id] EXCEPT !.name = n, !.pass = w],
                            "read", "failed")

\* SetHysteriaUserEnabled, called by enable, disable and delete.
Toggle(p) ==
  LET id == job[p].id
  IN /\ pc[p] = "toggle"
     /\ \/ /\ users[id] = NoUser
           /\ Refuse(p, "failed")
        \/ /\ users[id] # NoUser
           /\ Store(p, id, [users[id] EXCEPT !.enabled = ~job[p].old.enabled],
                    "read", "failed")

\* DeleteHysteriaUser, the last call of the delete handler.
Remove(p) ==
  LET id == job[p].id
  IN /\ pc[p] = "remove"
     /\ \/ users[id] = NoUser /\ Refuse(p, "failed")
        \/ users[id] # NoUser /\ Store(p, id, NoUser, "ok", "failed")

\* SaveHysteriaSettings reads the file and rebuilds it with the requested
\* settings; the auth section of the request is emptied.
SaveSettings(p) ==
  /\ Idle(p)
  /\ \E s \in Settings :
       Move(p, "inject", [NoJob EXCEPT !.op = "save", 
                                       !.file = [auth |-> {}, settings |-> s]])
  /\ UNCHANGED <<stores, crashes>>

\* ApplyHysteriaSettings starts with a synchronisation.
ApplySettings(p) ==
  /\ Idle(p)
  /\ Move(p, "read", [NoJob EXCEPT !.op = "apply"])
  /\ UNCHANGED <<stores, crashes>>

-----------------------------------------------------------------------------
(* The synchronisation, and what each handler does with its outcome.       *)

\* Variant: a failed delete of an enabled user is not rolled back.
RollsBackNoDelete(j) == ~j.undo /\ j.op \in {"create", "update", "toggle"}

\* A failed delete of a disabled user has nothing to undo; a failed undo,
\* apply, save or start-up is reported and left as it is.
RollsBack(j) ==
  /\ ~j.undo
  /\ \/ j.op \in {"create", "update", "toggle"}
     \/ j.op = "delete" /\ j.old.enabled

\* Variant: the sync error is reported and the record stays changed.
OnErrorReport(j) == "failed"

\* Variant: rolling back is repeated until it succeeds.
OnErrorRetry(j) == IF RollsBack([j EXCEPT !.undo = FALSE]) THEN "undo" ELSE "failed"

OnError(j) == IF RollsBack(j) THEN "undo" ELSE "failed"

\* Creating and updating answer with the user's connection artifacts.
OnSynced(j) ==
  CASE j.undo                                     -> "failed"
    [] ~j.undo /\ j.op = "delete"                 -> "remove"
    [] ~j.undo /\ j.op \in {"create", "update"}   -> "respond"
    [] OTHER                                      -> "ok"

\* Variant: handlers restart the server only if the file changed.
AfterSyncChanged(j, changed) ==
  CASE j.op = "apply" -> "check"
    [] j.op = "save"  -> "ok"
    [] j.op = "boot"  -> IF changed THEN "restart" ELSE "ok"
    [] OTHER          -> IF changed THEN "restart" ELSE OnSynced(j)

\* Where a process goes when Sync returns: the start-up code restarts the
\* server only if the file changed, apply validates the file once more.
AfterSync(j, changed) ==
  CASE j.op = "boot"  -> IF changed THEN "restart" ELSE "ok"
    [] j.op = "apply" -> "check"
    [] j.op = "save"  -> "ok"
    [] OTHER          -> "restart"

\* Variant: start-up trusts a file that is valid.
ReadConfigTrusting(p) ==
  /\ pc[p] = "read"
  /\ Move(p, IF p = Boot /\ ValidContent(config) THEN "ok" ELSE "inject", 
          [job[p] EXCEPT !.file = config])
  /\ UNCHANGED <<stores, crashes>>

ReadConfig(p) ==
  /\ pc[p] = "read"
  /\ \/ Move(p, "inject", [job[p] EXCEPT !.file = config])
     \/ Fault(p, "read", OnError(job[p]))
  /\ UNCHANGED <<stores, crashes>>

\* InjectManagedAuth and Validate: the enabled users are listed under the
\* lock and replace the auth section of the content read earlier.
Inject(p) ==
  LET next == [job[p].file EXCEPT !.auth = ManagedAuth(users)]
      unchanged == job[p].op # "save" /\ next = job[p].file
  IN /\ pc[p] = "inject"
     /\ \/ /\ ~job[p].cut
           /\ IF ValidContent(next)
                THEN Move(p, IF unchanged THEN AfterSync(job[p], FALSE) ELSE "write",
                          [job[p] EXCEPT !.file = next])
                ELSE Move(p, OnError(job[p]), job[p])
        \/ Fails(p, "read", OnError(job[p]))
     /\ UNCHANGED <<stores, crashes>>

\* Variant: only the auth section is put into what the file holds by now.
SaveConfigMerging(p) ==
  /\ pc[p] = "write"
  /\ config' = [config EXCEPT !.auth = job[p].file.auth]
  /\ Move(p, AfterSync(job[p], TRUE), job[p])
  /\ UNCHANGED <<users, issued, live, crashes>>

\* Save replaces the file; it does not look at the request's context.
SaveConfig(p) ==
  /\ pc[p] = "write"
  /\ \/ /\ config' = job[p].file
        /\ Move(p, AfterSync(job[p], TRUE), job[p])
     \/ /\ Fault(p, "write", OnError(job[p]))
        /\ UNCHANGED config
     \/ /\ config' = job[p].file
        /\ Fault(p, "torn file", OnError(job[p]))
  /\ UNCHANGED <<users, issued, live, crashes>>

\* ApplyHysteriaSettings reads and validates what the file holds by now.
CheckConfig(p) ==
  /\ pc[p] = "check"
  /\ \/ Move(p, IF ValidContent(config) THEN "restart" ELSE "failed", job[p])
     \/ Fault(p, "read", "failed")
  /\ UNCHANGED <<stores, crashes>>

\* systemctl restart: the server loads the file.  A command that is killed
\* (context cancelled, six seconds over) may leave its job in systemd's queue.
Restart(p) ==
  /\ pc[p] = "restart"
  /\ \/ /\ ~job[p].cut
        /\ live' = config
        /\ Move(p, OnSynced(job[p]), job[p])
     \/ /\ live' \in {live, config}
        /\ Fails(p, "restart", OnError(job[p]))
  /\ UNCHANGED <<users, issued, config, crashes>>

\* Variants of Undone: the old name is restored without the uniqueness scan;
\* the password is not restored; the whole record read first is written back,
\* its enabled flag included; a record deleted meanwhile is written again.
UndoneNoScan(j) ==
  LET u == users[j.id]
  IN CASE j.op = "create" \/ u = NoUser -> NoUser
       [] j.op = "update" /\ u # NoUser ->
            [u EXCEPT !.name = j.old.name, !.pass = j.old.pass]
       [] OTHER -> [u EXCEPT !.enabled = j.old.enabled]

UndoneNameOnly(j) ==
  LET u == users[j.id]
  IN CASE j.op = "create" \/ u = NoUser -> NoUser
       [] j.op = "update" /\ u # NoUser ->
            IF NameFree(users, j.id, j.old.name)
              THEN [u EXCEPT !.name = j.old.name] ELSE u
       [] OTHER -> [u EXCEPT !.enabled = j.old.enabled]

UndoneWhole(j) ==
  LET u == users[j.id]
  IN IF u = NoUser THEN NoUser ELSE j.old

UndoneAgain(j) == j.old

\* The record the handler's rollback writes, whose own errors it ignores.
Undone(j) ==
  LET u == users[j.id]
  IN CASE j.op = "create" \/ u = NoUser -> NoUser
       [] j.op = "update" /\ u # NoUser ->
            IF NameFree(users, j.id, j.old.name)
              THEN [u EXCEPT !.name = j.old.name, !.pass = j.old.pass]
              ELSE u
       [] OTHER -> [u EXCEPT !.enabled = j.old.enabled]

Undo(p) ==
  /\ pc[p] = "undo"
  /\ Store(p, job[p].id, Undone(job[p]), "read", "read")

\* Creating reads the record back under the request's context; an update
\* was given it by the repository.
Reloaded(j) == j.op = "update" \/ (~j.cut /\ users[j.id] # NoUser)

\* Both then generate the artifacts, which reads the file and lists the
\* users without that context (an update of a disabled user has none to
\* generate).  When either fails the change stays.
Respond(p) ==
  /\ pc[p] = "respond"
  /\ \/ Move(p, IF Reloaded(job[p]) THEN "ok" ELSE "unread", job[p])
     \/ Fault(p, "read", "unread")
  /\ UNCHANGED <<stores, crashes>>

-----------------------------------------------------------------------------
(* The environment.                                                        *)

\* The client goes away and net/http cancels the request's context.
Disconnect(p) ==
  /\ MayDisconnect
  /\ p \in Requests /\ ~Resting(p) /\ ~job[p].cut
  /\ job' = [job EXCEPT ![p].cut = TRUE]
  /\ UNCHANGED <<stores, pc, crashes>>

\* The panel dies and is started again: requests are gone, Server.Run
\* synchronises before it listens.
Crash ==
  /\ crashes < MaxCrashes
  /\ crashes' = crashes + 1
  /\ pc' = [p \in Procs |-> IF p = Boot THEN "read" ELSE "failed"]
  /\ job' = [p \in Procs |-> IF p = Boot THEN [NoJob EXCEPT !.op = "boot"] ELSE NoJob]
  /\ UNCHANGED stores

\* The server exits and its unit (Restart=always) starts it again.
ServerRestart ==
  /\ live # config
  /\ live' = config
  /\ UNCHANGED <<users, issued, config, pc, job, crashes>>

\* An operator edits the file, also between a request's read and its write.
HandEdit ==
  /\ \E c \in HandEdits \ {config} : config' = c
  /\ job' = [p \in Procs |-> IF Resting(p) THEN job[p] 
                              ELSE [job[p] EXCEPT !.edited = TRUE]]
  /\ UNCHANGED <<users, issued, live, pc, crashes>>

-----------------------------------------------------------------------------
\* The panel after its first start: no users yet, so the bootstrap entry.
Init ==
  /\ users = [i \in UserIds |-> NoUser]
  /\ issued = {}
  /\ config \in [auth: {{Bootstrap}}, settings: ValidSettings]
  /\ live = config
  /\ pc = [p \in Procs |-> "ok"]
  /\ job = [p \in Procs |-> NoJob]
  /\ crashes = 0

\* A new request: whether one comes is up to the clients.
Begin(p) ==
  \/ Create(p)
  \/ OpenUpdate(p)
  \/ OpenToggle(p)
  \/ OpenDelete(p)
  \/ SaveSettings(p)
  \/ ApplySettings(p)

\* The next call of a process that is in the middle of its work.
Step(p) ==
  \/ Update(p)
  \/ Toggle(p)
  \/ Remove(p)
  \/ ReadConfig(p)
  \/ Inject(p)
  \/ SaveConfig(p)
  \/ CheckConfig(p)
  \/ Restart(p)
  \/ Respond(p)
  \/ Undo(p)

Next ==
  \/ \E p \in Procs : Begin(p) \/ Step(p) \/ Disconnect(p)
  \/ Crash
  \/ ServerRestart
  \/ HandEdit

Spec == Init /\ [][Next]_vars

\* Every call a handler makes returns: file operations are local, the lock is
\* held for one operation only, and systemctl runs under a timeout.
FairSpec == Spec /\ \A p \in Procs : WF_vars(Step(p))

-----------------------------------------------------------------------------
(* Safety.                                                                 *)

TypeOK ==
  /\ users \in Directory
  /\ issued \subseteq UserIds
  /\ config \in Content
  /\ live \in Content
  /\ pc \in [Procs -> Labels]
  /\ job \in [Procs -> Job]
  /\ crashes \in 0..MaxCrashes

\* No two records hold the same user name, whatever requests, rollbacks and
\* crashes interleave: the uniqueness scans of CreateHysteriaUser and
\* UpdateHysteriaUser (also when it writes an old name back) run under the
\* lock that the write runs under.
UniqueNames ==
  \A i, k \in Stored(users) : users[i].name = users[k].name => i = k

KeepsGone == \A i \in issued : users[i] = NoUser => users'[i] = NoUser

\* A record removed is never seen again: no stale copy a handler holds (the
\* record it read first, the one its rollback restores) brings it back.
GoneStaysGone == [][KeepsGone]_vars

KeepsEnabled ==
  \A i \in Stored(users) :
    /\ users'[i] \in User 
    /\ users'[i].enabled # users[i].enabled
    => \E p \in Procs : /\ job[p].id = i
                        /\ job[p].op \in {"toggle", "delete"}
                        /\ pc'[p] # pc[p]

\* Renaming a user or changing the password, and undoing that, never changes
\* whether the user is enabled: an update racing a disable does not give the
\* access back.
UpdatesKeepEnabled == [][KeepsEnabled]_vars

WritesValid == config' # config /\ pc' # pc => config'.settings \in ValidSettings

\* The panel never puts content in the file that the server would reject,
\* though an operator may have edited the file between its read and its
\* write: what it writes is what it validated, whole.
PanelWritesValid == [][WritesValid]_vars

\* Once no request is in flight, the file holds the enabled users and no
\* one else, whatever single call failed on the way.
FileAgrees == Quiet => config.auth = ManagedAuth(users)

\* ... and so does the running server.
ServerAgrees == Quiet => live.auth = ManagedAuth(users)

\* What a response says of a disabled user: that it "is not present in the
\* active Hysteria server auth config".
DisabledNotInFile ==
  Quiet => \A i \in Stored(users) \ Enabled(users) : 
             CredentialOf(users[i]) \notin config.auth

\* A request that changes users or applies the settings and answers success
\* has published the users: the file and the running server hold exactly
\* the enabled ones, even if the file had been edited by hand before (but
\* not while the request was served).  One that saves settings has done so
\* for the file.
SuccessPublishes ==
  [][\A p \in Requests :
       pc[p] \notin Rest /\ pc'[p] = "ok" /\ ~job[p].edited =>
         /\ config'.auth = ManagedAuth(users')
         /\ job[p].op # "save" => live'.auth = ManagedAuth(users')]_vars

LeavesNothing(id) ==
  /\ CredentialOf(users[id]) \notin config.auth
  /\ CredentialOf(users[id]) \notin live.auth

\* When a delete takes a record away, whether it then reports success or an
\* error, neither the file nor the running server accepts the user any
\* longer: no record is left that could tell what to take out of them.  This
\* holds though the record may say disabled while an earlier request that
\* failed or died left the user in both.
RemovedIsOut ==
  [][\A p \in Requests, id \in UserIds :
       /\ pc[p] = "remove" /\ ~job[p].edited
       /\ users[id] # NoUser /\ users'[id] = NoUser
       => LeavesNothing(id)]_vars

-----------------------------------------------------------------------------
(* Refinement.  While one request is in flight its user counts as what it  *)
(* was when the request began; the copies count as in agreement with that. *)

InFlight(i) == {p \in Requests : ~Resting(p) /\ job[p].id = i}

Committed == 
  [i \in UserIds |-> IF InFlight(i) = {} 
                       THEN users[i]
                       ELSE job[CHOOSE p \in InFlight(i) : TRUE].old]

\* The answer of the one request process there is.
Answer == 
  LET p == CHOOSE p \in Requests : TRUE 
  IN IF Resting(p) THEN pc[p] ELSE "pending"

SettledAuth(auth) == IF Quiet THEN auth ELSE ManagedAuth(Committed)

Promise == INSTANCE AccessPromise WITH 
             accounts  <- Committed,
             published <- SettledAuth(config.auth),
             served    <- SettledAuth(live.auth),
             answer    <- Answer

\* Served one at a time, requests are transactions: each takes effect in the
\* records, the file and the server together or, when one of its calls
\* fails, in none of them.  The error that it could not read what to answer
\* with says that its effect is in all three; a delete that could not remove
\* all of a record leaves its effect as well.
KeepsPromise == Promise!Spec

-----------------------------------------------------------------------------
(* Liveness.                                                               *)

\* Every request is answered, and start-up ends: rollback does not retry.
RequestsEnd == \A p \in Procs : ~Resting(p) ~> Resting(p)

\* After a crash at any point of a request, and whatever was edited before,
\* the next start brings the file back in agreement with the records if the
\* rest of it is valid and no one edits it meanwhile.
StartupRepairs == 
  (pc[Boot] = "read" /\ ValidContent(config)) 
     ~> (config.auth = ManagedAuth(users) \/ job[Boot].edited)
=============================================================================
