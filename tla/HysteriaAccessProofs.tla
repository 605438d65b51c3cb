------------------------ MODULE HysteriaAccessProofs ------------------------
(***************************************************************************)
(* Proofs, for any numbers of users, names, passwords, settings, requests, *)
(* faults and crashes, of what HysteriaAccess guarantees: first under      *)
(* every interleaving of requests, then, with requests served one at a     *)
(* time, that a success is published, and at last that such requests are   *)
(* transactions, as AccessPromise has it.                                  *)
(***************************************************************************)
EXTENDS HysteriaAccess, TLAPS

-----------------------------------------------------------------------------
(* The inductive invariant.                                                *)

UserOps == {"create", "update", "toggle", "delete"}

\* What the local variables of a process hold at any label, ...
Fits(j) ==
  /\ j.op \in UserOps => j.id \in UserIds
  /\ j.op \in UserOps \ {"create"} => j.old \in User
  /\ j.file # NoContent => j.file \in Content

\* ... and at label l.
At(l, j) ==
  /\ l \in Labels
  /\ l = "update" => j.op = "update"
  /\ l = "toggle" => j.op \in {"toggle", "delete"}
  /\ l = "remove" => j.op = "delete"
  /\ l = "undo" => j.op \in UserOps
  /\ l = "respond" => j.op \in {"create", "update"}
  /\ l \in {"inject", "write"} => j.file # NoContent
  /\ l = "write" => j.file.settings \in ValidSettings

Shape(l, j) == At(l, j) /\ Fits(j)

JobShape == \A p \in Procs : Shape(pc[p], job[p])

\* Only identifiers handed out are in use.
StoreShape == Stored(users) \subseteq issued

\* The processes' part of the invariant.
Control ==
  /\ pc \in [Procs -> Labels]
  /\ job \in [Procs -> Job]
  /\ JobShape

IInv == TypeOK /\ UniqueNames /\ JobShape /\ StoreShape

-----------------------------------------------------------------------------
(* Lemmas on the operators.                                                *)

LEMMA ManagedAuthType ==
  ASSUME NEW us \in Directory
  PROVE  ManagedAuth(us) \subseteq Credential
<1>1. \A i \in Enabled(us) : us[i] \in User
  BY DEF Directory, Enabled, Stored
<1> QED
  BY <1>1 DEF ManagedAuth, Credential, CredentialOf, User

LEMMA NoJobType == NoJob \in Job /\ Fits(NoJob)
BY BoundsAssumption DEF NoJob, Job, Ops, Fits, UserOps

\* Going on at a label that the local variables fit keeps the processes' part.
LEMMA MoveControl ==
  ASSUME NEW p \in Procs, NEW l \in Labels, NEW j \in Job, Control,
         l \in Rest \/ Shape(l, j),
         Move(p, l, j)
  PROVE  Control'
<1> DEFINE n == Kept(l, j)
<1>1. n \in Job /\ Shape(l, n)
  <2>1. CASE l \in Rest
    <3>1. n = NoJob
      BY <2>1 DEF Kept
    <3>2. At(l, NoJob)
      BY <2>1 DEF At, Rest
    <3> QED
      BY <3>1, <3>2, NoJobType DEF Shape
  <2>2. CASE l = "undo"
    <3>1. n = [j EXCEPT !.undo = TRUE] /\ Shape(l, j)
      BY <2>2 DEF Kept, Rest
    <3>2. n \in Job
      BY <3>1 DEF Job
    <3>3. n.op = j.op /\ n.id = j.id /\ n.old = j.old /\ n.file = j.file
      BY <3>1 DEF Job
    <3> QED
      BY <3>1, <3>2, <3>3 DEF Shape, At, Fits
  <2>3. CASE l \notin Rest /\ l # "undo"
    BY <2>3 DEF Kept
  <2> QED
    BY <2>1, <2>2, <2>3
<1>2. pc' = [pc EXCEPT ![p] = l] /\ job' = [job EXCEPT ![p] = n]
  BY DEF Move
<1> HIDE DEF n
<1>3. pc' \in [Procs -> Labels] /\ job' \in [Procs -> Job]
  BY <1>1, <1>2 DEF Control
<1>4. ASSUME NEW q \in Procs PROVE Shape(pc'[q], job'[q])
  <2>1. CASE q = p
    BY <1>1, <1>2, <2>1 DEF Control
  <2>2. CASE q # p
    <3>1. pc'[q] = pc[q] /\ job'[q] = job[q]
      BY <1>2, <2>2 DEF Control
    <3> QED
      BY <3>1 DEF Control, JobShape
  <2> QED
    BY <2>1, <2>2
<1>5. JobShape'
  BY <1>4 DEF JobShape, Shape, At, Fits
<1> QED
  BY <1>3, <1>5 DEF Control

\* So does an error that leads to such a label.
LEMMA FailControl ==
  ASSUME NEW p \in Procs, NEW l \in Labels, NEW kind, Control,
         l \in Rest \/ At(l, job[p]),
         Fails(p, kind, l) \/ Fault(p, kind, l) \/ Move(p, l, job[p])
  PROVE  Control'
<1>1. job[p] \in Job /\ Fits(job[p])
  BY DEF Control, JobShape, Shape
<1>2. CASE Move(p, l, job[p])
  BY <1>1, <1>2, MoveControl DEF Shape
<1>3. CASE Fault(p, kind, l)
  <2> DEFINE j == [job[p] EXCEPT !.faults = @ + 1]
  <2>1. job[p].faults < MaxFaults /\ Move(p, l, j)
    BY <1>3 DEF Fault
  <2>2. j \in Job
    BY <1>1, <2>1, BoundsAssumption DEF Job
  <2>3. j.op = job[p].op /\ j.id = job[p].id /\ j.old = job[p].old 
        /\ j.file = job[p].file
    BY <1>1 DEF Job
  <2>4. Fits(j) /\ (At(l, job[p]) => At(l, j))
    BY <1>1, <2>3 DEF Fits, At
  <2> HIDE DEF j
  <2> QED
    BY <2>1, <2>2, <2>4, MoveControl DEF Shape
<1> QED
  BY <1>2, <1>3 DEF Fails

\* Where an error and a finished synchronisation lead.
LEMMA OutcomeLabels ==
  ASSUME NEW j \in Job, Fits(j), NEW changed \in BOOLEAN
  PROVE  /\ OnError(j) \in Labels /\ (OnError(j) \in Rest \/ At(OnError(j), j))
         /\ OnSynced(j) \in Labels /\ (OnSynced(j) \in Rest \/ At(OnSynced(j), j))
         /\ AfterSync(j, changed) \in Labels 
         /\ AfterSync(j, changed) \in Rest \/ At(AfterSync(j, changed), j)
<1>1. RollsBack(j) => j.op \in UserOps
  BY DEF RollsBack, UserOps
<1>2. OnError(j) \in Rest \/ (OnError(j) = "undo" /\ j.op \in UserOps)
  BY <1>1 DEF OnError, Rest
<1>3. \/ OnSynced(j) \in Rest 
      \/ OnSynced(j) = "remove" /\ j.op = "delete"
      \/ OnSynced(j) = "respond" /\ j.op \in {"create", "update"}
  BY DEF OnSynced, Rest
<1>4. AfterSync(j, changed) \in Rest \cup {"restart", "check"}
  BY DEF AfterSync, Rest
<1> QED
  BY <1>2, <1>3, <1>4 DEF At, Labels, Rest
-----------------------------------------------------------------------------
(* What the steps do to the three copies.                                  *)

\* A step that leaves the copies alone only has the processes to consider.
LEMMA KeepStores ==
  ASSUME IInv, Control', UNCHANGED <<stores, crashes>>
  PROVE  IInv'
<1>1. TypeOK'
  BY DEF IInv, TypeOK, Control, stores
<1>2. UniqueNames' /\ StoreShape'
  BY DEF IInv, UniqueNames, StoreShape, Stored, stores
<1> QED
  BY <1>1, <1>2 DEF IInv, Control

LEMMA ControlNow == ASSUME IInv PROVE Control
BY DEF IInv, TypeOK, Control

\* Writing a record whose name is free, or removing one, keeps the records.
LEMMA WriteRecord ==
  ASSUME IInv, Control', NEW id \in UserIds, NEW u,
         u = NoUser \/ (u \in User /\ NameFree(users, id, u.name)),
         users' = [users EXCEPT ![id] = u],
         issued' \subseteq UserIds, issued \subseteq issued',
         u = NoUser \/ id \in issued',
         UNCHANGED <<config, live, crashes>>
  PROVE  IInv'
<1>1. users \in Directory /\ issued \subseteq UserIds
  BY DEF IInv, TypeOK
<1>2. users' \in Directory
  BY <1>1 DEF Directory
<1>3. \A i \in UserIds : users'[i] = IF i = id THEN u ELSE users[i]
  BY <1>1 DEF Directory
<1>4. TypeOK'
  BY <1>2 DEF IInv, TypeOK, Control
<1>5. ASSUME NEW i \in Stored(users'), NEW k \in Stored(users'),
             users'[i].name = users'[k].name
      PROVE  i = k
  <2>1. \A m \in Stored(users') : m \in Stored(users) \/ m = id
    BY <1>3 DEF Stored
  <2>2. id \in Stored(users') => \A m \in Stored(users) \ {id} : users[m].name # u.name
    BY <1>3, NoUserAssumption DEF Stored, NameFree
  <2>3. CASE i # id /\ k # id
    <3>1. i \in Stored(users) /\ k \in Stored(users) /\ users[i].name = users[k].name
      BY <1>3, <1>5, <2>1, <2>3 DEF Stored
    <3> QED
      BY <3>1 DEF IInv, UniqueNames
  <2>4. CASE i = id \/ k = id
    BY <1>3, <1>5, <2>1, <2>2, <2>4 DEF Stored
  <2> QED
    BY <2>3, <2>4
<1>6. UniqueNames'
  BY <1>5 DEF UniqueNames, Stored
<1>7. Stored(users') \subseteq issued'
  BY <1>1, <1>3 DEF IInv, StoreShape, Stored
<1>8. StoreShape'
  BY <1>7 DEF IInv, StoreShape, Stored
<1> QED
  BY <1>4, <1>6, <1>8 DEF IInv, Control

\* One repository operation.
LEMMA StoreKeeps ==
  ASSUME IInv, NEW p \in Procs, NEW id \in UserIds, NEW u,
         NEW next \in Labels, NEW error \in Labels,
         u = NoUser \/ (u \in User /\ id \in issued /\ NameFree(users, id, u.name)),
         next \in Rest \/ At(next, job[p]),
         error \in Rest \/ At(error, job[p]),
         Store(p, id, u, next, error)
  PROVE  IInv'
<1>1. Control
  BY ControlNow
<1>2. Control'
  BY <1>1, FailControl DEF Store
<1>3. CASE users' = users
  BY <1>2, <1>3, KeepStores DEF Store, stores
<1>4. CASE users' = [users EXCEPT ![id] = u]
  <2>1. issued \subseteq UserIds
    BY DEF IInv, TypeOK
  <2> QED
    BY <1>2, <1>4, <2>1, WriteRecord DEF Store
<1> QED
  BY <1>3, <1>4 DEF Store

\* A step that writes the file or loads it.
LEMMA CopyKeeps ==
  ASSUME IInv, Control', UNCHANGED <<users, issued, crashes>>,
         config' \in Content, live' \in Content
  PROVE  IInv'
<1>1. TypeOK'
  BY DEF IInv, TypeOK, Control
<1>2. UniqueNames' /\ StoreShape'
  BY DEF IInv, UniqueNames, StoreShape, Stored
<1> QED
  BY <1>1, <1>2 DEF IInv, Control

-----------------------------------------------------------------------------
(* One lemma per action.                                                   *)

\* Facts every action lemma starts from.
LEMMA JobNow ==
  ASSUME IInv, NEW p \in Procs
  PROVE  /\ job[p] \in Job 
         /\ Fits(job[p]) 
         /\ At(pc[p], job[p])
         /\ users \in Directory
BY DEF IInv, TypeOK, JobShape, Shape

LEMMA RestLabels == Rest \subseteq Labels
BY DEF Rest, Labels

LEMMA CreateKeeps == ASSUME IInv, NEW p \in Procs, Create(p) PROVE IInv'
<1>1. PICK id \in UserIds \ issued, n \in Names, w \in Passwords :
        /\ NameFree(users, id, n)
        /\ users' = [users EXCEPT ![id] = [name |-> n, pass |-> w, enabled |-> TRUE]]
        /\ issued' = issued \cup {id}
        /\ \/ Move(p, "read", [NoJob EXCEPT !.op = "create", !.id = id])
           \/ Move(p, "failed", [NoJob EXCEPT !.op = "create", !.id = id])
  BY DEF Create
<1> DEFINE j == [NoJob EXCEPT !.op = "create", !.id = id]
           u == [name |-> n, pass |-> w, enabled |-> TRUE]
<1>2. j \in Job /\ Fits(j)
  <2>1. j \in Job
    BY NoJobType DEF Job, Ops
  <2>2. j.op = "create" /\ j.id = id /\ j.file = NoContent
    BY DEF NoJob
  <2> HIDE DEF j
  <2> QED
    BY <2>1, <2>2 DEF Fits, UserOps
<1>3. Shape("read", j)
  BY <1>2 DEF Shape, At, Labels
<1>4. u \in User /\ u.name = n
  BY DEF User
<1>5. Move(p, "read", j) \/ Move(p, "failed", j)
  BY <1>1
<1>6. users' = [users EXCEPT ![id] = u]
  BY <1>1
<1> HIDE DEF j, u
<1>7. Control'
  BY <1>2, <1>3, <1>5, ControlNow, RestLabels, MoveControl DEF Rest, Labels
<1>8. issued \subseteq UserIds /\ UNCHANGED <<config, live, crashes>>
  BY DEF IInv, TypeOK, Create
<1>9. issued' \subseteq UserIds /\ issued \subseteq issued' /\ id \in issued'
  BY <1>1, <1>8
<1> QED
  BY <1>1, <1>4, <1>6, <1>7, <1>8, <1>9, WriteRecord

\* The first call of the handlers of an existing user.
LEMMA OpenKeeps ==
  ASSUME IInv, NEW p \in Procs, NEW id \in UserIds,
         NEW op \in UserOps, NEW l \in {"update", "toggle", "read"},
         l = "update" => op = "update",
         l = "toggle" => op \in {"toggle", "delete"},
         Open(p, op, id, l)
  PROVE  IInv'
<1> DEFINE j == [NoJob EXCEPT !.op = op, !.id = id, !.old = users[id]]
<1>1. users[id] \in User
  BY DEF Open, IInv, TypeOK, Directory
<1>2. j \in Job /\ Fits(j) /\ j.op = op
  <2>1. j \in Job
    BY <1>1, NoJobType DEF Job, Ops, UserOps
  <2>2. j.op = op /\ j.id = id /\ j.old = users[id] /\ j.file = NoContent
    BY DEF NoJob
  <2> HIDE DEF j
  <2> QED
    BY <1>1, <2>1, <2>2 DEF Fits
<1>3. Move(p, l, j) /\ UNCHANGED <<stores, crashes>>
  BY DEF Open
<1> HIDE DEF j
<1>4. Shape(l, j) /\ l \in Labels
  BY <1>2 DEF Shape, At, Labels
<1>5. Control'
  BY <1>2, <1>3, <1>4, ControlNow, MoveControl
<1> QED
  BY <1>3, <1>5, KeepStores

LEMMA OpensKeep ==
  ASSUME IInv, NEW p \in Procs, OpenUpdate(p) \/ OpenToggle(p) \/ OpenDelete(p)
  PROVE  IInv'
<1>1. CASE OpenUpdate(p)
  BY <1>1, OpenKeeps DEF OpenUpdate, UserOps
<1>2. CASE OpenToggle(p)
  BY <1>2, OpenKeeps DEF OpenToggle, UserOps
<1>3. CASE OpenDelete(p)
  <2>1. PICK id \in UserIds : 
          Open(p, "delete", id, "toggle") \/ Open(p, "delete", id, "read")
    BY <1>3 DEF OpenDelete
  <2> QED
    BY <2>1, OpenKeeps DEF UserOps
<1> QED
  BY <1>1, <1>2, <1>3

LEMMA UpdateKeeps == ASSUME IInv, NEW p \in Procs, Update(p) PROVE IInv'
<1> DEFINE id == job[p].id
<1>1. Control /\ JobShape
  BY ControlNow DEF Control
<1>2. job[p].op = "update" /\ id \in UserIds
  BY JobNow DEF Update, At, Fits, UserOps
<1>3. CASE Refuse(p, "failed")
  <2>1. Control'
    BY <1>1, <1>3, RestLabels, FailControl DEF Refuse, Rest
  <2> QED
    BY <1>3, <2>1, KeepStores DEF Refuse
<1>4. ASSUME NEW n \in Names, NEW w \in Passwords, 
             users[id] # NoUser, NameFree(users, id, n),
             Store(p, id, [users[id] EXCEPT !.name = n, !.pass = w], "read", "failed")
      PROVE  IInv'
  <2> DEFINE u == [users[id] EXCEPT !.name = n, !.pass = w]
  <2>1. users[id] \in User /\ id \in issued
    BY <1>2, <1>4 DEF IInv, TypeOK, Directory, StoreShape, Stored
  <2>2. u \in User /\ u.name = n
    BY <2>1 DEF User
  <2>3. Store(p, id, u, "read", "failed")
    BY <1>4
  <2> HIDE DEF u, id
  <2>4. At("read", job[p])
    BY DEF At, Labels
  <2> QED
    BY <1>2, <1>4, <2>1, <2>2, <2>3, <2>4, StoreKeeps DEF Rest, Labels
<1> QED
  BY <1>3, <1>4 DEF Update

LEMMA ToggleKeeps == ASSUME IInv, NEW p \in Procs, Toggle(p) PROVE IInv'
<1> DEFINE id == job[p].id
           u == [users[id] EXCEPT !.enabled = ~job[p].old.enabled]
<1>1. job[p].op \in {"toggle", "delete"} /\ id \in UserIds /\ job[p].old \in User
  BY JobNow DEF Toggle, At, Fits, UserOps
<1>2. CASE Refuse(p, "failed")
  <2>1. Control'
    BY <1>2, ControlNow, RestLabels, FailControl DEF Refuse, Rest
  <2> QED
    BY <1>2, <2>1, KeepStores DEF Refuse
<1>3. CASE users[id] # NoUser /\ Store(p, id, u, "read", "failed")
  <2>1. users[id] \in User /\ id \in issued /\ id \in Stored(users)
    BY <1>1, <1>3 DEF IInv, TypeOK, Directory, StoreShape, Stored
  <2>2. u \in User /\ u.name = users[id].name
    BY <1>1, <2>1 DEF User
  <2>3. NameFree(users, id, users[id].name)
    BY <1>1, <2>1 DEF NameFree, IInv, UniqueNames
  <2>4. Store(p, id, u, "read", "failed")
    BY <1>3
  <2> HIDE DEF u, id
  <2>5. At("read", job[p])
    BY DEF At, Labels
  <2> QED
    BY <1>1, <2>1, <2>2, <2>3, <2>4, <2>5, StoreKeeps DEF Rest, Labels
<1> QED
  BY <1>2, <1>3 DEF Toggle

LEMMA RemoveKeeps == ASSUME IInv, NEW p \in Procs, Remove(p) PROVE IInv'
<1> DEFINE id == job[p].id
<1>1. job[p].op = "delete" /\ id \in UserIds
  BY JobNow DEF Remove, At, Fits, UserOps
<1>2. CASE Refuse(p, "failed")
  <2>1. Control'
    BY <1>2, ControlNow, RestLabels, FailControl DEF Refuse, Rest
  <2> QED
    BY <1>2, <2>1, KeepStores DEF Refuse
<1>3. CASE Store(p, id, NoUser, "ok", "failed")
  BY <1>1, <1>3, StoreKeeps, RestLabels DEF Rest
<1> QED
  BY <1>2, <1>3 DEF Remove

LEMMA SaveSettingsKeeps ==
  ASSUME IInv, NEW p \in Procs, SaveSettings(p) PROVE IInv'
<1>1. PICK s \in Settings :
        Move(p, "inject", [NoJob EXCEPT !.op = "save",
                                        !.file = [auth |-> {}, settings |-> s]])
  BY DEF SaveSettings
<1> DEFINE c == [auth |-> {}, settings |-> s]
           j == [NoJob EXCEPT !.op = "save", !.file = c]
<1>2. c \in Content
  BY DEF Content
<1>3. Move(p, "inject", j)
  BY <1>1
<1> HIDE DEF c
<1>4. j \in Job
  BY <1>2, NoJobType DEF Job, Ops
<1>5. j.op = "save" /\ j.file = c
  BY DEF NoJob
<1> HIDE DEF j
<1>6. Shape("inject", j)
  BY <1>2, <1>5, NullAssumption DEF Shape, At, Fits, UserOps, Labels
<1>7. Control'
  BY <1>3, <1>4, <1>6, ControlNow, MoveControl DEF Labels
<1> QED
  BY <1>7, KeepStores DEF SaveSettings

LEMMA ApplySettingsKeeps ==
  ASSUME IInv, NEW p \in Procs, ApplySettings(p) PROVE IInv'
<1> DEFINE j == [NoJob EXCEPT !.op = "apply"]
<1>1. j \in Job
  BY NoJobType DEF Job, Ops
<1>2. j.op = "apply" /\ j.file = NoContent
  BY DEF NoJob
<1>3. Move(p, "read", j)
  BY DEF ApplySettings
<1> HIDE DEF j
<1>4. Shape("read", j)
  BY <1>2 DEF Shape, At, Fits, UserOps, Labels
<1>5. Control'
  BY <1>1, <1>3, <1>4, ControlNow, MoveControl DEF Labels
<1> QED
  BY <1>5, KeepStores DEF ApplySettings

\* Going on with other content in hand.
LEMMA FileControl ==
  ASSUME IInv, NEW p \in Procs, NEW c \in Content,
         NEW l \in Labels,
         \A j : j.op = job[p].op /\ j.file = c => l \in Rest \/ At(l, j),
         Move(p, l, [job[p] EXCEPT !.file = c])
  PROVE  Control'
<1> DEFINE j == [job[p] EXCEPT !.file = c]
<1>1. job[p] \in Job /\ Fits(job[p])
  BY JobNow
<1>2. j \in Job
  BY <1>1 DEF Job
<1>3. j.op = job[p].op /\ j.id = job[p].id /\ j.old = job[p].old /\ j.file = c
  BY <1>1 DEF Job
<1>4. Move(p, l, j)
  OBVIOUS
<1> HIDE DEF j
<1>5. Fits(j)
  BY <1>1, <1>3 DEF Fits
<1>6. l \in Rest \/ At(l, j)
  BY <1>3
<1> QED
  BY <1>2, <1>4, <1>5, <1>6, ControlNow, MoveControl DEF Shape

\* An error during the synchronisation.
LEMMA ErrorControl ==
  ASSUME IInv, NEW p \in Procs, NEW kind,
         \/ Fails(p, kind, OnError(job[p])) 
         \/ Fault(p, kind, OnError(job[p]))
         \/ Move(p, OnError(job[p]), job[p])
  PROVE  Control'
<1>1. job[p] \in Job /\ Fits(job[p])
  BY JobNow
<1> DEFINE l == OnError(job[p])
<1>2. l \in Labels /\ (l \in Rest \/ At(l, job[p]))
  BY <1>1, OutcomeLabels
<1>3. Fails(p, kind, l) \/ Fault(p, kind, l) \/ Move(p, l, job[p])
  OBVIOUS
<1> HIDE DEF l
<1> QED
  BY <1>2, <1>3, ControlNow, FailControl

LEMMA ReadConfigKeeps == ASSUME IInv, NEW p \in Procs, ReadConfig(p) PROVE IInv'
<1>1. config \in Content
  BY DEF IInv, TypeOK
<1>2. CASE Move(p, "inject", [job[p] EXCEPT !.file = config])
  <2>1. \A j : j.file = config => At("inject", j)
    BY <1>1, NullAssumption DEF At, Labels
  <2>2. Control'
    BY <1>1, <1>2, <2>1, FileControl DEF Labels
  <2> QED
    BY <2>2, KeepStores DEF ReadConfig
<1>3. CASE Fault(p, "read", OnError(job[p]))
  <2>1. Control'
    BY <1>3, ErrorControl
  <2> QED
    BY <2>1, KeepStores DEF ReadConfig
<1> QED
  BY <1>2, <1>3 DEF ReadConfig

\* The content to write has the listed users for its auth section.
LEMMA InjectKeeps == ASSUME IInv, NEW p \in Procs, Inject(p) PROVE IInv'
<1> DEFINE next == [job[p].file EXCEPT !.auth = ManagedAuth(users)]
<1>1. job[p].file \in Content
  BY JobNow DEF Inject, At, Fits
<1>2. ManagedAuth(users) \subseteq Credential
  BY ManagedAuthType DEF IInv, TypeOK
<1>3. next \in Content /\ next.auth = ManagedAuth(users)
  BY <1>1, <1>2 DEF Content
<1>4. UNCHANGED <<stores, crashes>>
  BY DEF Inject
<1>5. \/ /\ ValidContent(next)
         /\ \/ Move(p, "write", [job[p] EXCEPT !.file = next])
            \/ Move(p, AfterSync(job[p], FALSE), [job[p] EXCEPT !.file = next])
      \/ Move(p, OnError(job[p]), job[p])
      \/ Fails(p, "read", OnError(job[p]))
  BY DEF Inject
<1> HIDE DEF next
<1>6. CASE ValidContent(next) /\ Move(p, "write", [job[p] EXCEPT !.file = next])
  <2>1. \A j : j.file = next => At("write", j)
    BY <1>3, <1>6, NullAssumption DEF At, Labels, ValidContent
  <2>2. Control'
    BY <1>2, <1>3, <1>6, <2>1, FileControl DEF Labels
  <2> QED
    BY <1>4, <2>2, KeepStores
<1>7. CASE Move(p, AfterSync(job[p], FALSE), [job[p] EXCEPT !.file = next])
  <2>1. AfterSync(job[p], FALSE) \in Rest \cup {"restart", "check"}
    BY DEF AfterSync, Rest
  <2>2. \A l \in {"restart", "check"} : \A j : At(l, j)
    BY DEF At, Labels
  <2>3. \A j : AfterSync(job[p], FALSE) \in Rest \/ At(AfterSync(job[p], FALSE), j)
    BY <2>1, <2>2
  <2>4. AfterSync(job[p], FALSE) \in Labels
    BY <2>1 DEF Rest, Labels
  <2>5. Control'
    BY <1>2, <1>3, <1>7, <2>3, <2>4, FileControl
  <2> QED
    BY <1>4, <2>5, KeepStores
<1>8. CASE Move(p, OnError(job[p]), job[p]) \/ Fails(p, "read", OnError(job[p]))
  <2>1. Control'
    BY <1>8, ErrorControl
  <2> QED
    BY <1>4, <2>1, KeepStores
<1> QED
  BY <1>5, <1>6, <1>7, <1>8

LEMMA SaveConfigKeeps == ASSUME IInv, NEW p \in Procs, SaveConfig(p) PROVE IInv'
<1>1. job[p].file \in Content
  BY JobNow DEF SaveConfig, At, Fits
<1>2. Control'
  <2>1. CASE Move(p, AfterSync(job[p], TRUE), job[p])
    <3>1. job[p] \in Job /\ Fits(job[p])
      BY JobNow
    <3> DEFINE l == AfterSync(job[p], TRUE)
    <3>2. l \in Labels /\ (l \in Rest \/ At(l, job[p]))
      BY <3>1, OutcomeLabels
    <3>3. Move(p, l, job[p])
      BY <2>1
    <3> HIDE DEF l
    <3> QED
      BY <3>2, <3>3, ControlNow, FailControl
  <2>2. CASE \E kind : Fault(p, kind, OnError(job[p]))
    BY <2>2, ErrorControl
  <2> QED
    BY <2>1, <2>2 DEF SaveConfig
<1>3. config' \in Content 
  BY <1>1 DEF SaveConfig, IInv, TypeOK
<1>4. live' \in Content
  BY DEF SaveConfig, IInv, TypeOK
<1> QED
  BY <1>2, <1>3, <1>4, CopyKeeps DEF SaveConfig

LEMMA CheckConfigKeeps ==
  ASSUME IInv, NEW p \in Procs, CheckConfig(p) PROVE IInv'
<1>1. At("restart", job[p])
  BY DEF At, Labels
<1>2. \/ Move(p, "restart", job[p])
      \/ Move(p, "failed", job[p])
      \/ Fault(p, "read", "failed")
  BY DEF CheckConfig
<1>3. Control'
  BY <1>1, <1>2, ControlNow, FailControl DEF Labels, Rest
<1> QED
  BY <1>3, KeepStores DEF CheckConfig

LEMMA RestartKeeps == ASSUME IInv, NEW p \in Procs, Restart(p) PROVE IInv'
<1>1. Control'
  <2>1. CASE Move(p, OnSynced(job[p]), job[p])
    <3>1. job[p] \in Job /\ Fits(job[p])
      BY JobNow
    <3> DEFINE l == OnSynced(job[p])
    <3>2. l \in Labels /\ (l \in Rest \/ At(l, job[p]))
      BY <3>1, OutcomeLabels
    <3>3. Move(p, l, job[p])
      BY <2>1
    <3> HIDE DEF l
    <3> QED
      BY <3>2, <3>3, ControlNow, FailControl
  <2>2. CASE Fails(p, "restart", OnError(job[p]))
    BY <2>2, ErrorControl
  <2> QED
    BY <2>1, <2>2 DEF Restart
<1>2. live' \in Content
  BY DEF Restart, IInv, TypeOK
<1>3. config' \in Content
  BY DEF Restart, IInv, TypeOK
<1> QED
  BY <1>1, <1>2, <1>3, CopyKeeps DEF Restart

LEMMA RespondKeeps == ASSUME IInv, NEW p \in Procs, Respond(p) PROVE IInv'
<1>1. \/ Move(p, "ok", job[p]) \/ Move(p, "unread", job[p]) \/ Fault(p, "read", "unread")
  BY DEF Respond
<1>2. Control'
  BY <1>1, ControlNow, RestLabels, FailControl DEF Rest
<1> QED
  BY <1>2, KeepStores DEF Respond

\* What a rollback writes: nothing, or the record as it is by now with some
\* of the values read first, under a name that is free.
LEMMA UndoneRecord ==
  ASSUME IInv, NEW p \in Procs, pc[p] = "undo"
  PROVE  LET id == job[p].id
             u == Undone(job[p])
         IN /\ id \in UserIds
            /\ users[id] = NoUser => u = NoUser
            /\ \/ u = NoUser
               \/ u \in User /\ id \in issued /\ NameFree(users, id, u.name)
            /\ job[p].op = "update" /\ u # NoUser => u.enabled = users[id].enabled
<1> DEFINE j == job[p]
           id == j.id
           r == users[id]
           u == Undone(j)
<1>1. id \in UserIds /\ j.op \in UserOps
      /\ (j.op # "create" => j.old \in User)
  BY JobNow DEF At, Fits, UserOps
<1>2. r = NoUser \/ (r \in User /\ id \in issued /\ NameFree(users, id, r.name))
  BY <1>1 DEF IInv, TypeOK, Directory, StoreShape, Stored, UniqueNames, NameFree
<1>3. CASE j.op = "create" \/ r = NoUser
  <2>1. u = NoUser
    BY <1>3 DEF Undone
  <2> QED
    BY <1>1, <1>3, <2>1
<1>4. CASE j.op = "update" /\ r # NoUser
  <2> DEFINE v == [r EXCEPT !.name = j.old.name, !.pass = j.old.pass]
  <2>1. u = IF NameFree(users, id, j.old.name) THEN v ELSE r
    BY <1>4 DEF Undone
  <2>2. v \in User /\ v.name = j.old.name /\ v.enabled = r.enabled
    BY <1>1, <1>2, <1>4 DEF User
  <2> HIDE DEF u, v, r, id
  <2> QED
    BY <1>1, <1>2, <1>4, <2>1, <2>2 DEF id, u, r
<1>5. CASE j.op \in {"toggle", "delete"} /\ r # NoUser
  <2> DEFINE v == [r EXCEPT !.enabled = j.old.enabled]
  <2>1. u = v
    BY <1>5 DEF Undone
  <2>2. v \in User /\ v.name = r.name
    BY <1>1, <1>2, <1>5 DEF User
  <2> HIDE DEF u, v, r, id
  <2> QED
    BY <1>1, <1>2, <1>5, <2>1, <2>2 DEF id, u, r
<1> QED
  BY <1>1, <1>3, <1>4, <1>5 DEF UserOps

LEMMA UndoKeeps == ASSUME IInv, NEW p \in Procs, Undo(p) PROVE IInv'
<1> DEFINE id == job[p].id
           u == Undone(job[p])
<1>1. /\ id \in UserIds
      /\ u = NoUser \/ (u \in User /\ id \in issued /\ NameFree(users, id, u.name))
  BY UndoneRecord DEF Undo
<1>2. Store(p, id, u, "read", "read")
  BY DEF Undo
<1> HIDE DEF id, u
<1>3. At("read", job[p])
  BY DEF At, Labels
<1> QED
  BY <1>1, <1>2, <1>3, StoreKeeps DEF Labels

LEMMA DisconnectKeeps == ASSUME IInv, NEW p \in Procs, Disconnect(p) PROVE IInv'
<1> DEFINE j == [job[p] EXCEPT !.cut = TRUE]
<1>1. job[p] \in Job /\ Fits(job[p]) /\ At(pc[p], job[p])
  BY JobNow
<1>2. j \in Job
  BY <1>1 DEF Job
<1>3. j.op = job[p].op /\ j.id = job[p].id /\ j.old = job[p].old 
      /\ j.file = job[p].file
  BY <1>1 DEF Job
<1>4. pc' = pc /\ job' = [job EXCEPT ![p] = j]
  BY DEF Disconnect
<1> HIDE DEF j
<1>5. Shape(pc[p], j)
  BY <1>1, <1>3 DEF Shape, At, Fits
<1>6. Control /\ \A q \in Procs : Shape(pc[q], job[q])
  BY ControlNow DEF Control, JobShape
<1>7. ASSUME NEW q \in Procs PROVE Shape(pc'[q], job'[q])
  BY <1>4, <1>5, <1>6 DEF Control
<1>8. JobShape'
  BY <1>7 DEF JobShape, Shape, At, Fits
<1>9. Control'
  BY <1>2, <1>4, <1>6, <1>8 DEF Control
<1> QED
  BY <1>9, KeepStores DEF Disconnect

LEMMA CrashKeeps == ASSUME IInv, Crash PROVE IInv'
<1> DEFINE b == [NoJob EXCEPT !.op = "boot"]
<1>1. b \in Job
  BY NoJobType DEF Job, Ops
<1>2. b.op = "boot" /\ b.file = NoContent
  BY DEF NoJob
<1>3. /\ pc' = [p \in Procs |-> IF p = Boot THEN "read" ELSE "failed"]
      /\ job' = [p \in Procs |-> IF p = Boot THEN b ELSE NoJob]
  BY DEF Crash
<1> HIDE DEF b
<1>4. Shape("read", b)
  BY <1>2 DEF Shape, At, Fits, UserOps, Labels
<1>5. Shape("failed", NoJob)
  BY NoJobType DEF Shape, At, Labels, Rest
<1>6. ASSUME NEW q \in Procs PROVE Shape(pc'[q], job'[q])
  BY <1>3, <1>4, <1>5
<1>7. JobShape'
  BY <1>6 DEF JobShape, Shape, At, Fits
<1>8. pc' \in [Procs -> Labels] /\ job' \in [Procs -> Job]
  BY <1>1, <1>3, NoJobType DEF Labels, Rest
<1>9. TypeOK'
  BY <1>8, BoundsAssumption DEF Crash, stores, IInv, TypeOK
<1>10. UniqueNames' /\ StoreShape'
  BY DEF Crash, stores, IInv, UniqueNames, StoreShape, Stored
<1> QED
  BY <1>7, <1>9, <1>10 DEF IInv

LEMMA ServerRestartKeeps == ASSUME IInv, ServerRestart PROVE IInv'
<1>1. UNCHANGED <<users, issued, config, pc, job, crashes>> /\ live' = config
  BY DEF ServerRestart
<1>2. Control'
  BY <1>1, ControlNow DEF Control, JobShape, Shape, At, Fits
<1>3. config' \in Content /\ live' \in Content
  BY <1>1 DEF IInv, TypeOK
<1> QED
  BY <1>1, <1>2, <1>3, CopyKeeps

\* An edit by hand leaves only its mark in the local variables.
LEMMA EditedJob ==
  ASSUME IInv, NEW p \in Procs, HandEdit
  PROVE  /\ Resting(p) => job'[p] = job[p]
         /\ ~Resting(p) => job'[p] = [job[p] EXCEPT !.edited = TRUE]
         /\ job'[p] \in Job
         /\ job'[p].op = job[p].op /\ job'[p].id = job[p].id /\ job'[p].old = job[p].old
         /\ job'[p].file = job[p].file /\ job'[p].undo = job[p].undo
<1>1. job[p] \in Job
  BY JobNow
<1>2. job'[p] = IF Resting(p) THEN job[p] ELSE [job[p] EXCEPT !.edited = TRUE]
  BY DEF HandEdit
<1> QED
  BY <1>1, <1>2 DEF Job

LEMMA HandEditKeeps == ASSUME IInv, HandEdit PROVE IInv'
<1>1. UNCHANGED <<users, issued, live, pc, crashes>> /\ config' \in Content
  BY HandEditsAssumption DEF HandEdit
<1>2. Control /\ \A p \in Procs : Shape(pc[p], job[p])
  BY ControlNow DEF Control, JobShape
<1>3. ASSUME NEW p \in Procs PROVE job'[p] \in Job /\ Shape(pc'[p], job'[p])
  BY <1>1, <1>2, <1>3, EditedJob DEF Shape, At, Fits
<1>4. JobShape'
  BY <1>3 DEF JobShape, Shape, At, Fits
<1>5. job' = [p \in Procs |-> job'[p]]
  BY DEF HandEdit
<1>6. Control'
  BY <1>1, <1>2, <1>3, <1>4, <1>5 DEF Control
<1>7. live' \in Content
  BY <1>1 DEF IInv, TypeOK
<1> QED
  BY <1>1, <1>6, <1>7, CopyKeeps

-----------------------------------------------------------------------------
(* The invariant.                                                          *)

LEMMA InitKeeps == Init => IInv
<1> SUFFICES ASSUME Init PROVE IInv
  OBVIOUS
<1>1. users = [i \in UserIds |-> NoUser] /\ issued = {} /\ live = config
  BY DEF Init
<1>2. config.auth = {Bootstrap} /\ config \in Content
  BY SettingsAssumption DEF Init, Content, Credential
<1>3. Stored(users) = {}
  BY <1>1 DEF Stored
<1>4. \A p \in Procs : pc[p] = "ok" /\ job[p] = NoJob
  BY DEF Init
<1>5. Shape("ok", NoJob)
  BY NoJobType DEF Shape, At, Labels, Rest
<1>6. JobShape
  BY <1>4, <1>5 DEF JobShape
<1>7. pc \in [Procs -> Labels] /\ job \in [Procs -> Job]
  BY NoJobType DEF Init, Labels, Rest
<1>8. TypeOK
  BY <1>1, <1>2, <1>7, BoundsAssumption DEF Init, TypeOK, Directory
<1> QED
  BY <1>3, <1>6, <1>8 DEF IInv, UniqueNames, StoreShape

LEMMA NextKeeps == IInv /\ [Next]_vars => IInv'
<1> SUFFICES ASSUME IInv, [Next]_vars PROVE IInv'
  OBVIOUS
<1>1. ASSUME NEW p \in Procs, Begin(p) PROVE IInv'
  BY <1>1, CreateKeeps, OpensKeep, SaveSettingsKeeps, ApplySettingsKeeps DEF Begin
<1>2. ASSUME NEW p \in Procs, Step(p) PROVE IInv'
  BY <1>2, UpdateKeeps, ToggleKeeps, RemoveKeeps, ReadConfigKeeps, InjectKeeps,
     SaveConfigKeeps, CheckConfigKeeps, RestartKeeps, RespondKeeps, UndoKeeps DEF Step
<1>3. ASSUME NEW p \in Procs, Disconnect(p) PROVE IInv'
  BY <1>3, DisconnectKeeps
<1>4. CASE Crash
  BY <1>4, CrashKeeps
<1>5. CASE ServerRestart \/ HandEdit
  BY <1>5, ServerRestartKeeps, HandEditKeeps
<1>6. CASE UNCHANGED vars
  <2>1. UNCHANGED <<stores, crashes>> /\ pc' = pc /\ job' = job
    BY <1>6 DEF vars, stores
  <2>2. Control'
    BY <2>1, ControlNow DEF Control, JobShape, Shape, At, Fits
  <2> QED
    BY <2>1, <2>2, KeepStores
<1> QED
  BY <1>1, <1>2, <1>3, <1>4, <1>5, <1>6 DEF Next

THEOREM Invariance == Spec => []IInv
BY InitKeeps, NextKeeps, PTL DEF Spec

\* Every variable keeps its type, whatever interleaves.
THEOREM TypeCorrect == Spec => []TypeOK
<1>1. IInv => TypeOK
  BY DEF IInv
<1> QED
  BY <1>1, Invariance, PTL

\* No two records ever hold the same user name: CreateHysteriaUser,
\* UpdateHysteriaUser and every rollback keep names unique.
THEOREM NamesUnique == Spec => []UniqueNames
<1>1. IInv => UniqueNames
  BY DEF IInv
<1> QED
  BY <1>1, Invariance, PTL

-----------------------------------------------------------------------------
(* What no step does.                                                      *)

\* Which steps write a record, and what they write there.
LEMMA RecordWrites ==
  ASSUME IInv, Next, users' # users
  PROVE  \/ \E id \in UserIds \ issued, u \in User : 
              users' = [users EXCEPT ![id] = u]
         \/ \E p \in Procs : \E u :
              /\ users' = [users EXCEPT ![job[p].id] = u]
              /\ job[p].id \in UserIds
              /\ pc'[p] # pc[p]
              /\ users[job[p].id] = NoUser => u = NoUser
              /\ \/ u = NoUser
                 \/ job[p].op \in {"toggle", "delete"}
                 \/ u.enabled = users[job[p].id].enabled
<1> USE DEF Procs
<1>1. PICK p \in Procs : 
        Create(p) \/ Update(p) \/ Toggle(p) \/ Remove(p) \/ Undo(p)
  <2>1. \E p \in Procs : Begin(p) \/ Step(p)
    BY DEF Next, Disconnect, Crash, ServerRestart, HandEdit, stores
  <2>2. ASSUME NEW p \in Procs, Begin(p) PROVE Create(p)
    BY <2>2 DEF Begin, OpenUpdate, OpenToggle, OpenDelete, Open, SaveSettings,
                ApplySettings, stores
  <2>3. ASSUME NEW p \in Procs, Step(p) 
        PROVE  Update(p) \/ Toggle(p) \/ Remove(p) \/ Undo(p)
    BY <2>3 DEF Step, ReadConfig, Inject, SaveConfig, CheckConfig, Restart, Respond, stores
  <2> QED
    BY <2>1, <2>2, <2>3
<1> DEFINE id == job[p].id
<1>2. /\ users \in Directory /\ pc \in [Procs -> Labels] /\ job[p] \in Job
      /\ Fits(job[p]) /\ At(pc[p], job[p])
  BY JobNow DEF IInv, TypeOK
<1>3. ASSUME NEW u, NEW next \in {"read", "ok"}, NEW error \in {"read", "failed"},
             Store(p, id, u, next, error)
      PROVE  users' = [users EXCEPT ![id] = u] /\ pc'[p] \in {"read", "ok", "failed"}
  <2>1. users' = [users EXCEPT ![id] = u]
    BY <1>3 DEF Store
  <2>2. pc' = [pc EXCEPT ![p] = next] \/ pc' = [pc EXCEPT ![p] = error]
    BY <1>3 DEF Store, Fails, Fault, Move
  <2> QED
    BY <1>2, <2>1, <2>2
<1>4. CASE Create(p)
  <2>1. \A n \in Names, w \in Passwords : 
          [name |-> n, pass |-> w, enabled |-> TRUE] \in User
    BY DEF User
  <2> QED
    BY <1>4, <2>1 DEF Create
<1>5. CASE Update(p)
  <2>1. id \in UserIds /\ ~Refuse(p, "failed")
    BY <1>2, <1>5 DEF Update, At, Fits, UserOps, Refuse, stores
  <2>2. PICK n \in Names, w \in Passwords :
          /\ users[id] # NoUser
          /\ Store(p, id, [users[id] EXCEPT !.name = n, !.pass = w], "read", "failed")
    BY <1>5, <2>1 DEF Update
  <2> DEFINE u == [users[id] EXCEPT !.name = n, !.pass = w]
  <2>3. u.enabled = users[id].enabled
    BY <1>2, <2>1, <2>2 DEF Directory, User
  <2>4. pc[p] = "update" /\ Store(p, id, u, "read", "failed")
    BY <1>5, <2>2 DEF Update
  <2> HIDE DEF u
  <2> QED
    BY <1>3, <2>1, <2>2, <2>3, <2>4
<1>6. CASE Toggle(p)
  <2> DEFINE u == [users[id] EXCEPT !.enabled = ~job[p].old.enabled]
  <2>1. /\ pc[p] = "toggle"
        /\ users[id] # NoUser
        /\ Store(p, id, u, "read", "failed")
    BY <1>6 DEF Toggle, Refuse, stores
  <2>2. job[p].op \in {"toggle", "delete"} /\ id \in UserIds
    BY <1>2, <2>1 DEF At, Fits, UserOps
  <2> HIDE DEF u
  <2> QED
    BY <1>3, <2>1, <2>2
<1>7. CASE Remove(p)
  <2>1. pc[p] = "remove" /\ Store(p, id, NoUser, "ok", "failed")
    BY <1>7 DEF Remove, Refuse, stores
  <2>2. id \in UserIds
    BY <1>2, <2>1 DEF At, Fits, UserOps
  <2> QED
    BY <1>3, <2>1, <2>2
<1>8. CASE Undo(p)
  <2> DEFINE u == Undone(job[p])
  <2>1. pc[p] = "undo" /\ Store(p, id, u, "read", "read")
    BY <1>8 DEF Undo
  <2>2. /\ id \in UserIds
        /\ users[id] = NoUser => u = NoUser
        /\ job[p].op = "update" /\ u # NoUser => u.enabled = users[id].enabled
    BY <2>1, UndoneRecord
  <2>3. job[p].op = "create" => u = NoUser
    BY DEF Undone
  <2>4. job[p].op \in UserOps
    BY <1>2, <2>1 DEF At
  <2> HIDE DEF u
  <2> QED
    BY <1>3, <2>1, <2>2, <2>3, <2>4 DEF UserOps
<1> QED
  BY <1>1, <1>4, <1>5, <1>6, <1>7, <1>8

\* A removed record never comes back, not even through the copies that
\* handlers hold for their rollback.
THEOREM NeverResurrected == Spec => GoneStaysGone
<1>1. IInv /\ [Next]_vars => [KeepsGone]_vars
  <2> SUFFICES ASSUME IInv, Next, NEW i \in issued, users[i] = NoUser, users' # users
               PROVE  users'[i] = NoUser
    BY DEF KeepsGone
  <2>1. users \in Directory /\ i \in UserIds
    BY DEF IInv, TypeOK
  <2> QED
    BY <2>1, RecordWrites DEF Directory
<1> QED
  BY <1>1, Invariance, PTL DEF GoneStaysGone, Spec

\* Only enabling, disabling and deleting change the enabled flag of a record
\* that stays.
THEOREM EnabledKept == Spec => UpdatesKeepEnabled
<1>1. IInv /\ [Next]_vars => [KeepsEnabled]_vars
  <2> SUFFICES ASSUME IInv, Next, users' # users, NEW i \in Stored(users),
                      users'[i] \in User, users'[i].enabled # users[i].enabled
               PROVE  \E p \in Procs : /\ job[p].id = i
                                       /\ job[p].op \in {"toggle", "delete"}
                                       /\ pc'[p] # pc[p]
    BY DEF KeepsEnabled
  <2>1. users \in Directory /\ i \in UserIds /\ i \in issued
    BY DEF IInv, TypeOK, StoreShape, Stored
  <2>2. users'[i] # NoUser
    BY NoUserAssumption
  <2> QED
    BY <2>1, <2>2, RecordWrites DEF Directory
<1> QED
  BY <1>1, Invariance, PTL DEF UpdatesKeepEnabled, Spec

\* Whatever the panel writes to the file, the server accepts.
THEOREM OnlyValidWritten == Spec => PanelWritesValid
<1>1. IInv /\ [Next]_vars => [WritesValid]_vars
  <2> SUFFICES ASSUME IInv, Next, config' # config, pc' # pc
               PROVE  config'.settings \in ValidSettings
    BY DEF WritesValid
  <2>1. \E p \in Procs : Begin(p) \/ Step(p)
    BY DEF Next, Disconnect, Crash, ServerRestart, HandEdit, stores
  <2>2. PICK p \in Procs : SaveConfig(p)
    <3>1. ASSUME NEW p \in Procs, Begin(p) PROVE FALSE
      BY <3>1 DEF Begin, Create, OpenUpdate, OpenToggle, OpenDelete, Open,
                  SaveSettings, ApplySettings, stores
    <3>2. ASSUME NEW p \in Procs, Step(p) PROVE SaveConfig(p)
      BY <3>2 DEF Step, Update, Toggle, Remove, Undo, Store, Refuse, ReadConfig,
                  Inject, CheckConfig, Restart, Respond, stores
    <3> QED
      BY <2>1, <3>1, <3>2
  <2>3. config' = job[p].file /\ pc[p] = "write"
    BY <2>2 DEF SaveConfig
  <2> QED
    BY <2>3, JobNow DEF At
<1> QED
  BY <1>1, Invariance, PTL DEF PanelWritesValid, Spec
-----------------------------------------------------------------------------
(* One request process: nothing but the server's restarts and edits of the *)
(* file interleaves with a request, so that, as long as nobody edits, each *)
(* of its calls finds the copies as it left them.                          *)

OneRequest == \E r \in Requests : Requests = {r}

\* What a request at label l with the local variables j relies on, of the
\* records us, the file c and the server's copy v: the users injected are
\* still the users there are, and a user about to be removed is disabled.
\* What it relies on in the file and the server, an edit may have undone.
Stage(l, j, us, c, v) ==
  /\ l \notin Rest => j.op \notin {"none", "boot"}
  /\ l = "undo" => j.undo
  /\ l = "check" => j.op = "apply"
  /\ l = "toggle" /\ j.op = "delete" => j.old.enabled
  /\ l \in {"read", "inject", "write", "restart", "remove"} /\ j.op = "delete" /\ ~j.undo =>
       us[j.id] \in User /\ ~us[j.id].enabled
  /\ l = "write" => j.file.auth = ManagedAuth(us)
  /\ l \in {"remove", "respond"} => ~j.undo
  /\ ~j.edited =>
       /\ l = "inject" /\ j.op # "save" => j.file = c
       /\ l \in {"check", "restart", "remove", "respond"} => c.auth = ManagedAuth(us)
       /\ l \in {"remove", "respond"} => v.auth = ManagedAuth(us)

Alone(r) ==
  /\ ~Resting(r) => Resting(Boot)
  /\ Stage(pc[r], job[r], users, config, live)

LEMMA RestStage ==
  ASSUME NEW j \in Job, NEW l \in Rest \cup {"undo"}, l = "undo" => j.op \in UserOps,
         NEW us, NEW c, NEW v
  PROVE  Stage(l, Kept(l, j), us, c, v)
<1>1. CASE l \in Rest
  BY <1>1 DEF Stage, Rest
<1>2. CASE l = "undo"
  <2>1. Kept(l, j).op = j.op /\ Kept(l, j).undo
    BY <1>2 DEF Kept, Rest, Job
  <2> QED
    BY <1>2, <2>1 DEF Stage, UserOps
<1> QED
  BY <1>1, <1>2

LEMMA Moved ==
  ASSUME Control, NEW p \in Procs, NEW l, NEW j, Move(p, l, j)
  PROVE  /\ pc'[p] = l /\ job'[p] = Kept(l, j)
         /\ \A q \in Procs \ {p} : pc'[q] = pc[q] /\ job'[q] = job[q]
BY DEF Control, Move

LEMMA StageMove ==
  ASSUME Control, NEW r \in Procs, r # Boot, Resting(Boot), NEW l, NEW j, Move(r, l, j),
         Stage(l, Kept(l, j), users', config', live')
  PROVE  Alone(r)'
<1>1. pc'[r] = l /\ job'[r] = Kept(l, j) /\ pc'[Boot] = pc[Boot]
  BY Moved DEF Procs
<1> QED
  BY <1>1 DEF Alone, Resting

\* Errors lead to an answer or to the rollback, which rely on nothing.
LEMMA StageError ==
  ASSUME IInv, NEW r \in Procs, r # Boot, Resting(Boot), NEW kind, NEW l \in {"failed", "undo"}, 
         l = "undo" => job[r].op \in UserOps,
         Fails(r, kind, l) \/ Fault(r, kind, l) \/ Move(r, l, job[r])
  PROVE  Alone(r)'
<1>1. job[r] \in Job /\ Control
  BY JobNow, ControlNow
<1>2. PICK j \in Job : Move(r, l, j) /\ j.op = job[r].op
  <2>1. CASE Move(r, l, job[r])
    BY <1>1, <2>1
  <2>2. CASE Fault(r, kind, l)
    <3> DEFINE j == [job[r] EXCEPT !.faults = @ + 1]
    <3>1. j \in Job /\ j.op = job[r].op
      BY <1>1, <2>2, BoundsAssumption DEF Fault, Job
    <3> QED
      BY <2>2, <3>1 DEF Fault
  <2> QED
    BY <2>1, <2>2 DEF Fails
<1>3. Stage(l, Kept(l, j), users', config', live')
  BY <1>2, RestStage DEF Rest
<1> QED
  BY <1>1, <1>2, <1>3, StageMove

LEMMA ErrorLabel ==
  ASSUME NEW j \in Job 
  PROVE  OnError(j) \in {"failed", "undo"} /\ (OnError(j) = "undo" => j.op \in UserOps)
BY DEF OnError, RollsBack, UserOps

\* At a label where the job moves on unchanged.
LEMMA KeptAsIs ==
  ASSUME NEW j, NEW l, l \notin Rest, l # "undo" PROVE Kept(l, j) = j
BY DEF Kept

\* Removing the record of a disabled user takes no credential away.
LEMMA DisabledLeave ==
  ASSUME NEW us \in Directory, NEW id \in UserIds, us[id] \in User, ~us[id].enabled
  PROVE  ManagedAuth([us EXCEPT ![id] = NoUser]) = ManagedAuth(us)
<1> DEFINE vs == [us EXCEPT ![id] = NoUser]
<1>1. \A i \in UserIds : vs[i] = IF i = id THEN NoUser ELSE us[i]
  BY DEF Directory
<1> HIDE DEF vs
<1>2. Enabled(vs) = Enabled(us) /\ id \notin Enabled(us)
  BY <1>1 DEF Enabled, Stored
<1>3. \A i \in Enabled(us) : vs[i] = us[i]
  BY <1>1, <1>2 DEF Enabled, Stored
<1>4. ManagedAuth(vs) = ManagedAuth(us)
  BY <1>2, <1>3 DEF ManagedAuth
<1> QED
  BY <1>4 DEF vs
\* A request begins: what it relies on is what it reads then.
LEMMA BeginAlone ==
  ASSUME IInv, NEW r \in Requests, Begin(r) PROVE Alone(r)'
<1>1. r \in Procs /\ r # Boot /\ Control
  BY BootAssumption, ControlNow DEF Procs
<1>2. Resting(Boot)
  BY DEF Begin, Create, OpenUpdate, OpenToggle, OpenDelete, Open, SaveSettings, ApplySettings,
     Idle
<1>3. CASE Create(r)
  <2>1. PICK id : \/ Move(r, "read", [NoJob EXCEPT !.op = "create", !.id = id])
                  \/ Move(r, "failed", [NoJob EXCEPT !.op = "create", !.id = id])
    BY <1>3 DEF Create
  <2> DEFINE j == [NoJob EXCEPT !.op = "create", !.id = id]
  <2>2. j.op = "create"
    BY DEF NoJob
  <2> HIDE DEF j
  <2>3. Stage("read", Kept("read", j), users', config', live')
    BY <2>2 DEF Stage, Kept, Rest
  <2>4. Stage("failed", Kept("failed", j), users', config', live')
    BY DEF Stage, Rest
  <2>5. Move(r, "read", j) \/ Move(r, "failed", j)
    BY <2>1 DEF j
  <2> QED
    BY <1>1, <1>2, <2>3, <2>4, <2>5, StageMove
<1>4. ASSUME NEW id \in UserIds, NEW op \in UserOps, NEW l \in {"update", "toggle", "read"}, 
             Open(r, op, id, l),
             op = "delete" => l = IF users[id].enabled THEN "toggle" ELSE "read"
      PROVE  Alone(r)'
  <2> DEFINE j == [NoJob EXCEPT !.op = op, !.id = id, !.old = users[id]]
  <2>1. j.op = op /\ j.id = id /\ j.old = users[id]
    BY DEF NoJob
  <2>2. users[id] \in User /\ users' = users /\ Move(r, l, j)
    BY <1>4 DEF Open, IInv, TypeOK, Directory, stores
  <2> HIDE DEF j
  <2>3. users[id].enabled \in BOOLEAN
    BY <2>2 DEF User
  <2>4. Stage(l, Kept(l, j), users', config', live')
    BY <1>4, <2>1, <2>2, <2>3 DEF Stage, Kept, Rest, UserOps
  <2> QED
    BY <1>1, <1>2, <2>2, <2>4, StageMove
<1>5. CASE OpenUpdate(r) \/ OpenToggle(r)
  BY <1>4, <1>5 DEF OpenUpdate, OpenToggle, UserOps
<1>6. CASE OpenDelete(r)
  <2>1. PICK id \in UserIds :
          Open(r, "delete", id, 
               IF users[id] # NoUser /\ users[id].enabled THEN "toggle" ELSE "read")
    BY <1>6 DEF OpenDelete
  <2>2. users[id] # NoUser
    BY <2>1 DEF Open
  <2> QED
    BY <1>4, <2>1, <2>2 DEF UserOps
<1>7. CASE SaveSettings(r)
  <2>1. PICK s \in Settings : 
          Move(r, "inject", [NoJob EXCEPT !.op = "save", 
                                          !.file = [auth |-> {}, settings |-> s]])
    BY <1>7 DEF SaveSettings
  <2> DEFINE j == [NoJob EXCEPT !.op = "save", !.file = [auth |-> {}, settings |-> s]]
  <2>2. j.op = "save"
    BY DEF NoJob
  <2>3. Move(r, "inject", j)
    BY <2>1
  <2> HIDE DEF j
  <2>4. Stage("inject", Kept("inject", j), users', config', live')
    BY <2>2 DEF Stage, Kept, Rest
  <2> QED
    BY <1>1, <1>2, <2>3, <2>4, StageMove
<1>8. CASE ApplySettings(r)
  <2> DEFINE j == [NoJob EXCEPT !.op = "apply"]
  <2>1. j.op = "apply"
    BY DEF NoJob
  <2>2. Move(r, "read", j)
    BY <1>8 DEF ApplySettings
  <2> HIDE DEF j
  <2>3. Stage("read", Kept("read", j), users', config', live')
    BY <2>1 DEF Stage, Kept, Rest
  <2> QED
    BY <1>1, <1>2, <2>2, <2>3, StageMove
<1> QED
  BY <1>3, <1>5, <1>6, <1>7, <1>8 DEF Begin
\* Whether a call succeeds or fails, the local variables stay but for the
\* count of faults.
LEMMA MovesOn ==
  ASSUME IInv, NEW p \in Procs, NEW l, NEW kind,
         Fails(p, kind, l) \/ Fault(p, kind, l) \/ Move(p, l, job[p])
  PROVE  \E j \in Job : 
           /\ Move(p, l, j)
           /\ j.op = job[p].op /\ j.id = job[p].id /\ j.old = job[p].old 
           /\ j.file = job[p].file /\ j.undo = job[p].undo /\ j.edited = job[p].edited
<1>1. job[p] \in Job
  BY JobNow
<1>2. CASE Move(p, l, job[p])
  BY <1>1, <1>2
<1>3. CASE Fault(p, kind, l)
  <2> DEFINE j == [job[p] EXCEPT !.faults = @ + 1]
  <2>1. /\ j \in Job /\ j.op = job[p].op /\ j.id = job[p].id /\ j.old = job[p].old
        /\ j.file = job[p].file /\ j.undo = job[p].undo /\ j.edited = job[p].edited
    BY <1>1, <1>3, BoundsAssumption DEF Fault, Job
  <2> QED
    BY <1>3, <2>1 DEF Fault
<1> QED
  BY <1>2, <1>3 DEF Fails

\* The calls that change the records.
LEMMA StoreAlone ==
  ASSUME IInv, NEW r \in Requests, ~Resting(r), Alone(r),
         Update(r) \/ Toggle(r) \/ Remove(r) \/ Undo(r)
  PROVE  Alone(r)'
<1>1. r \in Procs /\ r # Boot /\ Control /\ Resting(Boot)
  BY BootAssumption, ControlNow DEF Procs, Alone
<1>2. job[r] \in Job /\ At(pc[r], job[r]) /\ Fits(job[r]) /\ users \in Directory
  BY <1>1, JobNow
<1>3. Stage(pc[r], job[r], users, config, live) /\ pc[r] \notin Rest
  BY DEF Alone, Resting
<1>4. ASSUME Refuse(r, "failed") PROVE Alone(r)'
  BY <1>1, <1>4, StageError DEF Refuse
<1>5. ASSUME NEW kind, Fails(r, kind, "failed") \/ Fault(r, kind, "failed") PROVE Alone(r)'
  BY <1>1, <1>5, StageError
<1>6. ASSUME NEW j \in Job, Move(r, "read", j), j.op = job[r].op, j.undo = job[r].undo,
             j.id = job[r].id,
             j.op # "delete" \/ j.undo \/ (users'[j.id] \in User /\ ~users'[j.id].enabled)
      PROVE  Alone(r)'
  <2>1. j.op \notin {"none", "boot"}
    BY <1>3, <1>6 DEF Stage
  <2>2. Stage("read", Kept("read", j), users', config', live')
    BY <1>6, <2>1 DEF Stage, Kept, Rest
  <2> QED
    BY <1>1, <1>6, <2>2, StageMove
<1>7. CASE Update(r)
  <2>1. job[r].op = "update"
    BY <1>2, <1>7 DEF Update, At
  <2>2. Refuse(r, "failed") \/ \E u : Store(r, job[r].id, u, "read", "failed")
    BY <1>7 DEF Update
  <2> QED
    BY <1>2, <1>4, <1>5, <1>6, <2>1, <2>2 DEF Store
<1>8. CASE Toggle(r)
  <2> DEFINE u == [users[job[r].id] EXCEPT !.enabled = ~job[r].old.enabled]
  <2>1. \/ Refuse(r, "failed") 
        \/ users[job[r].id] # NoUser /\ Store(r, job[r].id, u, "read", "failed")
    BY <1>8 DEF Toggle
  <2>2. pc[r] = "toggle" /\ job[r].op \in {"toggle", "delete"} /\ job[r].id \in UserIds
    BY <1>2, <1>8 DEF Toggle, At, Fits, UserOps
  <2>3. ASSUME job[r].op = "delete", users[job[r].id] # NoUser PROVE u \in User /\ ~u.enabled
    <3>1. job[r].old.enabled = TRUE /\ users[job[r].id] \in User
      BY <1>2, <1>3, <2>2, <2>3 DEF Stage, Directory, Job, Fits, UserOps, User
    <3> QED
      BY <3>1 DEF User
  <2> HIDE DEF u
  <2>4. ASSUME users' = [users EXCEPT ![job[r].id] = u] PROVE users'[job[r].id] = u
    BY <1>2, <2>2, <2>4 DEF Directory
  <2> QED
    BY <1>2, <1>4, <1>5, <1>6, <2>1, <2>2, <2>3, <2>4 DEF Store
<1>9. CASE Remove(r)
  <2>1. ASSUME Move(r, "ok", job[r]) PROVE Alone(r)'
    <3>1. Stage("ok", Kept("ok", job[r]), users', config', live')
      BY <1>2, RestStage DEF Rest
    <3> QED
      BY <1>1, <2>1, <3>1, StageMove
  <2> QED
    BY <1>4, <1>5, <1>9, <2>1 DEF Remove, Store
<1>10. CASE Undo(r)
  <2>1. job[r].undo
    BY <1>3, <1>10 DEF Undo, Stage
  <2>2. \E kind : 
          Fails(r, kind, "read") \/ Fault(r, kind, "read") \/ Move(r, "read", job[r])
    BY <1>10 DEF Undo, Store
  <2>3. PICK j \in Job : 
          /\ Move(r, "read", j)
          /\ j.op = job[r].op /\ j.id = job[r].id /\ j.undo = job[r].undo
    BY <1>1, <2>2, MovesOn
  <2> QED
    BY <1>6, <2>1, <2>3
<1> QED
  BY <1>7, <1>8, <1>9, <1>10

\* The calls of the synchronisation.
LEMMA SyncAlone ==
  ASSUME IInv, NEW r \in Requests, ~Resting(r), Alone(r),
         \/ ReadConfig(r) \/ Inject(r) \/ SaveConfig(r) 
         \/ CheckConfig(r) \/ Restart(r) \/ Respond(r)
  PROVE  Alone(r)'
<1>1. r \in Procs /\ r # Boot /\ Control /\ Resting(Boot)
  BY BootAssumption, ControlNow DEF Procs, Alone
<1>2. PICK j \in Job : j = job[r] /\ At(pc[r], j) /\ Fits(j)
  BY <1>1, JobNow
<1>3. Stage(pc[r], j, users, config, live) /\ pc[r] \notin Rest /\ j.op \notin {"none", "boot"}
  BY <1>2 DEF Alone, Resting, Stage
<1>4. ASSUME NEW kind, 
             \/ Fails(r, kind, OnError(j)) \/ Fault(r, kind, OnError(j)) \/ Move(r, OnError(j), j)
             \/ Fault(r, kind, "failed") \/ Move(r, "failed", j)
      PROVE  Alone(r)'
  BY <1>1, <1>2, <1>4, ErrorLabel, StageError
<1>5. ASSUME Move(r, "ok", j) PROVE Alone(r)'
  <2>1. Stage("ok", Kept("ok", j), users', config', live')
    BY <1>2, RestStage DEF Rest
  <2> QED
    BY <1>1, <1>5, <2>1, StageMove
\* Going on where the file agrees with the users.
<1>6. ASSUME NEW k \in Job, NEW changed \in BOOLEAN, Move(r, AfterSync(j, changed), k), 
             k.op = j.op, k.undo = j.undo, k.id = j.id, k.edited = j.edited,
             UNCHANGED users, ~j.edited => config'.auth = ManagedAuth(users),
             pc[r] \in {"inject", "write"}
      PROVE  Alone(r)'
  <2>1. CASE AfterSync(j, changed) = "ok"
    <3>1. Stage("ok", Kept("ok", k), users', config', live')
      BY RestStage DEF Rest
    <3> QED
      BY <1>1, <1>6, <2>1, <3>1, StageMove
  <2>2. CASE AfterSync(j, changed) \in {"check", "restart"}
    <3>1. PICK l \in {"check", "restart"} : 
            l = AfterSync(j, changed) /\ (l = "check" => j.op = "apply")
      BY <1>3, <2>2 DEF AfterSync
    <3>2. Stage(l, Kept(l, k), users', config', live')
      BY <1>3, <1>6, <3>1 DEF Stage, Kept, Rest
    <3> QED
      BY <1>1, <1>6, <3>1, <3>2, StageMove
  <2>3. AfterSync(j, changed) \in {"ok", "check", "restart"}
    BY <1>3 DEF AfterSync
  <2> QED
    BY <2>1, <2>2, <2>3
<1>7. CASE ReadConfig(r)
  <2> DEFINE k == [j EXCEPT !.file = config]
  <2>1. k.op = j.op /\ k.undo = j.undo /\ k.id = j.id /\ k.file = config
    BY DEF Job
  <2>2. ASSUME Move(r, "inject", k) PROVE Alone(r)'
    <3> HIDE DEF k
    <3>1. Stage("inject", Kept("inject", k), users', config', live')
      BY <1>3, <1>7, <2>1 DEF Stage, Kept, Rest, ReadConfig, stores
    <3> QED
      BY <1>1, <2>2, <3>1, StageMove
  <2> QED
    BY <1>2, <1>4, <1>7, <2>2 DEF ReadConfig
<1>8. CASE Inject(r)
  <2> DEFINE next == [j.file EXCEPT !.auth = ManagedAuth(users)]
             k == [j EXCEPT !.file = next]
  <2>1. /\ pc[r] = "inject" /\ j.file \in Content /\ UNCHANGED <<users, config, live>>
    BY <1>2, <1>8 DEF Inject, At, Fits, stores
  <2>2. next \in Content /\ next.auth = ManagedAuth(users)
    BY <1>1, <2>1, ManagedAuthType DEF Content, IInv, TypeOK
  <2>3. /\ k \in Job /\ k.op = j.op /\ k.undo = j.undo /\ k.id = j.id /\ k.file = next
        /\ k.edited = j.edited
    BY <2>2 DEF Job
  <2>4. \/ Move(r, OnError(j), j) 
        \/ Fails(r, "read", OnError(j))
        \/ Move(r, "write", k)
        \/ j.op # "save" /\ next = j.file /\ Move(r, AfterSync(j, FALSE), k)
    BY <1>2, <1>8 DEF Inject
  <2> HIDE DEF next, k
  <2>5. CASE Move(r, "write", k)
    <3>1. Stage("write", Kept("write", k), users', config', live')
      BY <1>3, <2>1, <2>2, <2>3 DEF Stage, Kept, Rest
    <3> QED
      BY <1>1, <2>5, <3>1, StageMove
  <2>6. CASE j.op # "save" /\ next = j.file /\ Move(r, AfterSync(j, FALSE), k)
    <3>1. ~j.edited => config'.auth = ManagedAuth(users)
      BY <1>3, <2>1, <2>2, <2>6 DEF Stage
    <3> QED
      BY <1>6, <2>1, <2>3, <2>6, <3>1
  <2> QED
    BY <1>4, <2>4, <2>5, <2>6
<1>9. CASE SaveConfig(r)
  <2>1. j.file.auth = ManagedAuth(users) /\ pc[r] = "write" /\ UNCHANGED users
    BY <1>3, <1>9 DEF SaveConfig, Stage
  <2>2. CASE config' = job[r].file /\ Move(r, AfterSync(job[r], TRUE), job[r])
    BY <1>2, <1>6, <2>1, <2>2
  <2> QED
    BY <1>2, <1>4, <1>9, <2>2 DEF SaveConfig
<1>10. CASE CheckConfig(r)
  <2>1. ASSUME Move(r, "restart", j) PROVE Alone(r)'
    <3>1. j.op = "apply"
      BY <1>3, <1>10 DEF CheckConfig, Stage
    <3>2. Stage("restart", Kept("restart", j), users', config', live')
      BY <1>3, <1>10, <3>1 DEF Stage, Kept, Rest, CheckConfig, stores
    <3> QED
      BY <1>1, <2>1, <3>2, StageMove
  <2> QED
    BY <1>2, <1>4, <1>10, <2>1 DEF CheckConfig
<1>11. CASE Restart(r)
  <2>1. pc[r] = "restart" /\ UNCHANGED <<users, config>>
    BY <1>11 DEF Restart
  <2>2. ASSUME live' = config, Move(r, OnSynced(j), j) PROVE Alone(r)'
    <3>1. CASE OnSynced(j) = "remove"
      <4>1. j.op = "delete" /\ ~j.undo
        BY <3>1 DEF OnSynced
      <4>2. Stage("remove", Kept("remove", j), users', config', live')
        BY <1>3, <2>1, <2>2, <4>1 DEF Stage, Kept, Rest
      <4> QED
        BY <1>1, <2>2, <3>1, <4>2, StageMove
    <3>2. CASE OnSynced(j) = "respond"
      <4>1. j.op \in {"create", "update"} /\ ~j.undo
        BY <3>2 DEF OnSynced
      <4>2. Stage("respond", Kept("respond", j), users', config', live')
        BY <1>3, <2>1, <2>2, <4>1 DEF Stage, Kept, Rest
      <4> QED
        BY <1>1, <2>2, <3>2, <4>2, StageMove
    <3>3. OnSynced(j) \in {"remove", "respond", "ok", "failed"}
      BY DEF OnSynced
    <3> QED
      BY <1>4, <1>5, <2>2, <3>1, <3>2, <3>3
  <2> QED
    BY <1>2, <1>4, <1>11, <2>2 DEF Restart
<1>12. CASE Respond(r)
  <2>1. PICK l \in {"ok", "unread"} : \E k : Move(r, l, k)
    BY <1>12 DEF Respond, Fault
  <2>2. PICK m \in Rest \cup {"undo"} : m = l /\ m # "undo"
    BY DEF Rest
  <2>3. PICK k : Move(r, l, k)
    BY <2>1
  <2>4. Stage(l, Kept(l, k), users', config', live')
    <3>1. Stage(m, Kept(m, j), users', config', live')
      BY <2>2, RestStage
    <3>2. Kept(m, j) = NoJob /\ Kept(m, k) = NoJob
      BY <2>2 DEF Kept
    <3> QED
      BY <2>2, <3>1, <3>2
  <2> QED
    BY <1>1, <2>2, <2>3, <2>4, StageMove
<1> QED
  BY <1>7, <1>8, <1>9, <1>10, <1>11, <1>12
LEMMA NextAlone ==
  ASSUME IInv, NEW r \in Requests, Requests = {r}, Alone(r), [Next]_vars
  PROVE  Alone(r)'
<1>1. r \in Procs /\ r # Boot /\ Control /\ Procs = {r, Boot} /\ job[r] \in Job
  BY BootAssumption, ControlNow, JobNow DEF Procs
<1>2. CASE UNCHANGED vars
  BY <1>2 DEF vars, Alone, Resting
<1>3. ASSUME NEW p \in Procs, Begin(p) PROVE Alone(r)'
  <2>1. p = r
    BY <1>1, <1>3 DEF Begin, Create, OpenUpdate, OpenToggle, OpenDelete, Open, SaveSettings, 
       ApplySettings, Idle
  <2> QED
    BY <1>3, <2>1, BeginAlone
<1>4. CASE Step(r)
  <2>1. ~Resting(r)
    BY <1>4 DEF Step, Update, Toggle, Remove, ReadConfig, Inject, SaveConfig, CheckConfig,
       Restart, Respond, Undo, Resting, Rest
  <2> QED
    BY <1>4, <2>1, StoreAlone, SyncAlone DEF Step
<1>5. CASE Step(Boot)
  <2>1. ~Resting(Boot)
    BY <1>5 DEF Step, Update, Toggle, Remove, ReadConfig, Inject, SaveConfig, CheckConfig,
       Restart, Respond, Undo, Resting, Rest
  <2>2. pc'[r] = pc[r] /\ job'[r] = job[r] /\ Resting(r)
    <3>1. \E l, j : Move(Boot, l, j)
      BY <1>5 DEF Step, Update, Toggle, Remove, ReadConfig, Inject, SaveConfig, CheckConfig,
         Restart, Respond, Undo, Store, Refuse, Fails, Fault
    <3> QED
      BY <1>1, <2>1, <3>1, Moved DEF Alone, Procs
  <2> QED
    BY <2>2 DEF Alone, Resting, Stage, Rest
<1>6. ASSUME NEW p \in Procs, Disconnect(p) PROVE Alone(r)'
  <2>1. UNCHANGED <<users, config, live, pc>>
    BY <1>6 DEF Disconnect, stores
  <2>2. job'[r] = job[r] \/ job'[r] = [job[r] EXCEPT !.cut = TRUE]
    BY <1>1, <1>6 DEF Disconnect, Control
  <2>3. PICK k : /\ k = job'[r] /\ k.op = job[r].op /\ k.id = job[r].id /\ k.old = job[r].old
                 /\ k.file = job[r].file /\ k.undo = job[r].undo /\ k.edited = job[r].edited
    BY <1>1, <2>2 DEF Job
  <2> QED
    BY <2>1, <2>3 DEF Alone, Resting, Stage
<1>7. CASE Crash
  BY <1>1, <1>7 DEF Crash, Alone, Resting, Rest, Stage
<1>8. CASE ServerRestart
  <2>1. Stage(pc[r], job[r], users, config, config)
    BY DEF Alone, Stage
  <2> QED
    BY <1>8, <2>1 DEF ServerRestart, Alone, Resting
<1>9. CASE HandEdit
  <2>1. UNCHANGED <<users, live, pc>>
    BY <1>9 DEF HandEdit
  <2>2. CASE Resting(r)
    BY <2>1, <2>2 DEF Alone, Resting, Stage, Rest
  <2>3. CASE ~Resting(r)
    <3>1. PICK k : /\ k = job'[r] /\ k.op = job[r].op /\ k.id = job[r].id 
                   /\ k.old = job[r].old /\ k.file = job[r].file /\ k.undo = job[r].undo
      BY <1>1, <1>9, EditedJob
    <3>2. k.edited
      BY <1>1, <1>9, <2>3, <3>1, EditedJob DEF Job
    <3> QED
      BY <2>1, <2>3, <3>1, <3>2 DEF Alone, Resting, Stage
  <2> QED
    BY <2>2, <2>3
<1> QED
  BY <1>1, <1>2, <1>3, <1>4, <1>5, <1>6, <1>7, <1>8, <1>9 DEF Next

LEMMA AloneInvariance ==
  ASSUME NEW r \in Requests, Requests = {r} PROVE Spec => []Alone(r)
<1>1. Init => Alone(r)
  BY DEF Init, Alone, Resting, Rest, Stage, Procs
<1>2. IInv /\ Alone(r) /\ [Next]_vars => Alone(r)'
  BY NextAlone
<1> QED
  BY <1>1, <1>2, Invariance, PTL DEF Spec

\* What a success says: the last call of a request that answers "ok".
LEMMA SuccessStep ==
  ASSUME IInv, NEW r \in Requests, Requests = {r}, Alone(r), Next,
         pc[r] \notin Rest, pc'[r] = "ok"
  PROVE  ~job[r].edited =>
           /\ config'.auth = ManagedAuth(users')
           /\ job[r].op # "save" => live'.auth = ManagedAuth(users')
<1> SUFFICES ASSUME ~job[r].edited
             PROVE  /\ config'.auth = ManagedAuth(users')
                    /\ job[r].op # "save" => live'.auth = ManagedAuth(users')
  OBVIOUS
<1>1. r \in Procs /\ r # Boot /\ Control /\ Procs = {r, Boot} /\ users \in Directory
  BY BootAssumption, ControlNow, JobNow DEF Procs
<1>2. PICK j \in Job : j = job[r] /\ At(pc[r], j) /\ Fits(j)
  BY <1>1, JobNow
<1>3. Stage(pc[r], j, users, config, live) /\ j.op \notin {"none", "boot"}
  BY <1>2 DEF Alone, Stage
<1>4. Step(r)
  <2>1. ~Crash /\ ~ServerRestart /\ ~HandEdit /\ \A p \in Procs : ~Disconnect(p)
    BY <1>1 DEF Crash, ServerRestart, HandEdit, Disconnect, stores, Rest
  <2>2. PICK p \in Procs : Begin(p) \/ Step(p)
    BY <2>1 DEF Next
  <2>3. ~Begin(p)
    <3>1. Begin(p) => p = r /\ Resting(r)
      BY <1>1 DEF Begin, Create, OpenUpdate, OpenToggle, OpenDelete, Open, SaveSettings, 
         ApplySettings, Idle
    <3> QED
      BY <3>1 DEF Resting
  <2>4. p # Boot
    <3>1. Step(Boot) => \E l, k : Move(Boot, l, k)
      BY DEF Step, Update, Toggle, Remove, ReadConfig, Inject, SaveConfig, CheckConfig,
         Restart, Respond, Undo, Store, Refuse, Fails, Fault
    <3>2. Step(Boot) => pc'[r] = pc[r]
      BY <1>1, <3>1, Moved DEF Procs
    <3> QED
      BY <2>2, <2>3, <3>2 DEF Rest
  <2> QED
    BY <1>1, <2>2, <2>3, <2>4
<1>5. \A l, k : Move(r, l, k) => l = "ok"
  BY <1>1, Moved
<1>6. OnError(j) # "ok"
  BY DEF OnError
<1>7. \A kind : ~Fails(r, kind, "failed") /\ ~Fault(r, kind, "failed") /\ ~Refuse(r, "failed")
                /\ ~Fails(r, kind, OnError(j)) /\ ~Fault(r, kind, OnError(j))
                /\ ~Fails(r, kind, "read") /\ ~Fault(r, kind, "read")
  BY <1>5, <1>6 DEF Fails, Fault, Refuse
<1>8. CASE Remove(r)
  <2>1. users' = [users EXCEPT ![j.id] = NoUser] /\ UNCHANGED <<config, live>> /\ pc[r] = "remove"
    BY <1>2, <1>7, <1>8 DEF Remove, Store
  <2>2. j.op = "delete" /\ j.id \in UserIds
    BY <1>2, <2>1 DEF At, Fits, UserOps
  <2>3. users[j.id] \in User /\ ~users[j.id].enabled
    BY <1>3, <2>1, <2>2 DEF Stage
  <2>4. ManagedAuth(users') = ManagedAuth(users)
    BY <1>1, <2>1, <2>2, <2>3, DisabledLeave
  <2> QED
    BY <1>2, <1>3, <2>1, <2>4 DEF Stage
<1>9. CASE Inject(r)
  <2>1. pc[r] = "inject" /\ \E k : Move(r, AfterSync(j, FALSE), k) /\ j.op # "save"
    BY <1>2, <1>5, <1>6, <1>7, <1>9 DEF Inject
  <2>2. AfterSync(j, FALSE) # "ok"
    BY <1>3, <2>1 DEF AfterSync
  <2> QED
    BY <1>5, <2>1, <2>2
<1>10. CASE SaveConfig(r)
  <2>1. /\ pc[r] = "write" /\ config' = j.file /\ UNCHANGED users 
        /\ AfterSync(j, TRUE) = "ok"
    BY <1>2, <1>5, <1>7, <1>10 DEF SaveConfig
  <2>2. j.op = "save"
    BY <1>3, <2>1 DEF AfterSync
  <2> QED
    BY <1>2, <1>3, <2>1, <2>2 DEF Stage
<1>11. CASE Restart(r)
  BY <1>2, <1>3, <1>7, <1>11 DEF Restart, Stage
<1>12. CASE Respond(r)
  BY <1>2, <1>3, <1>12 DEF Respond, Stage, stores
<1>13. ~Update(r) /\ ~Toggle(r) /\ ~ReadConfig(r) /\ ~CheckConfig(r) /\ ~Undo(r)
  BY <1>2, <1>5, <1>7 DEF Update, Toggle, ReadConfig, CheckConfig, Undo, Store
<1> QED
  BY <1>4, <1>8, <1>9, <1>10, <1>11, <1>12, <1>13 DEF Step

\* Served by a panel that answers one request at a time, a success is never
\* said too early, whatever calls failed or were torn before, whether or not
\* the panel crashed, the server restarted or the client went away, and even
\* if the file was edited by hand, unless that came in between.
THEOREM SuccessIsPublished == OneRequest /\ Spec => SuccessPublishes
<1> SUFFICES ASSUME NEW r \in Requests, Requests = {r} PROVE Spec => SuccessPublishes
  BY DEF OneRequest
<1> DEFINE Publishes ==
      \A p \in Requests :
        pc[p] \notin Rest /\ pc'[p] = "ok" /\ ~job[p].edited =>
          /\ config'.auth = ManagedAuth(users')
          /\ job[p].op # "save" => live'.auth = ManagedAuth(users')
<1>1. IInv /\ Alone(r) /\ [Next]_vars => [Publishes]_vars
  <2> SUFFICES ASSUME IInv, Alone(r), Next, NEW p \in Requests, pc[p] \notin Rest, pc'[p] = "ok",
                      ~job[p].edited
               PROVE  /\ config'.auth = ManagedAuth(users')
                      /\ job[p].op # "save" => live'.auth = ManagedAuth(users')
    BY DEF Publishes
  <2> QED
    BY SuccessStep
<1>2. Spec => []IInv /\ []Alone(r)
  BY Invariance, AloneInvariance
<1> QED
  BY <1>1, <1>2, PTL DEF Spec, SuccessPublishes

UniqueIn(us) == \A i, k \in Stored(us) : us[i].name = us[k].name => i = k

\* The credential of a disabled user is not in the auth map.
LEMMA DisabledIsOut ==
  ASSUME NEW us \in Directory, UniqueIn(us),
         NEW id \in UserIds, us[id] \in User, ~us[id].enabled
  PROVE  CredentialOf(us[id]) \notin ManagedAuth(us)
<1>1. CredentialOf(us[id]) # Bootstrap
  BY BootstrapAssumption DEF CredentialOf, User
<1>2. \A i \in Enabled(us) : i \in Stored(us) /\ us[i].enabled
  BY DEF Enabled
<1>3. id \in Stored(us)
  BY NoUserAssumption DEF Stored
<1>4. ASSUME NEW i \in Enabled(us), CredentialOf(us[i]) = CredentialOf(us[id]) PROVE FALSE
  <2>1. us[i].name = us[id].name
    BY <1>4 DEF CredentialOf
  <2>2. i = id
    BY <1>2, <1>3, <2>1 DEF UniqueIn
  <2> QED
    BY <1>2, <2>2
<1> QED
  BY <1>1, <1>4 DEF ManagedAuth

\* When a delete takes a record away, file and server have let the user go,
\* though calls may have failed before or after their effect, the panel may
\* have died or an operator have edited before the request.
THEOREM RemovedUsersAreOut == OneRequest /\ Spec => RemovedIsOut
<1> SUFFICES ASSUME NEW r \in Requests, Requests = {r} PROVE Spec => RemovedIsOut
  BY DEF OneRequest
<1> DEFINE Out ==
      \A p \in Requests, id \in UserIds :
        /\ pc[p] = "remove" /\ ~job[p].edited
        /\ users[id] # NoUser /\ users'[id] = NoUser
        => LeavesNothing(id)
<1>1. IInv /\ Alone(r) /\ [Next]_vars => [Out]_vars
  <2> SUFFICES ASSUME IInv, Alone(r), Next, NEW id \in UserIds, 
                      pc[r] = "remove", ~job[r].edited, 
                      users[id] # NoUser, users'[id] = NoUser
               PROVE  LeavesNothing(id)
    BY DEF Out
  <2>1. PICK j \in Job : /\ j = job[r] /\ At("remove", j) /\ Fits(j) /\ users \in Directory
                         /\ Stage("remove", j, users, config, live) /\ Resting(Boot)
    BY JobNow DEF Alone, Procs, Resting, Rest
  <2>2. j.op = "delete" /\ j.id \in UserIds /\ users[j.id] \in User /\ ~users[j.id].enabled
    BY <2>1 DEF At, Fits, UserOps, Stage
  <2>3. Remove(r)
    <3>1. Procs = {r, Boot} /\ pc[r] \notin Rest
      BY DEF Procs, Rest
    <3>2. PICK p \in Procs : Begin(p) \/ Step(p)
      BY DEF Next, Disconnect, Crash, ServerRestart, HandEdit, stores
    <3>3. ~Begin(p)
      BY <3>1 DEF Begin, Create, OpenUpdate, OpenToggle, OpenDelete, Open, SaveSettings, 
         ApplySettings, Idle, Resting
    <3>4. ~Step(Boot)
      BY <2>1 DEF Step, Update, Toggle, Remove, ReadConfig, Inject, SaveConfig, CheckConfig,
         Restart, Respond, Undo, Resting, Rest
    <3> QED
      BY <3>1, <3>2, <3>3, <3>4 DEF Step, Update, Toggle, ReadConfig, Inject, SaveConfig, 
         CheckConfig, Restart, Respond, Undo
  <2>6. id = j.id
    BY <2>1, <2>2, <2>3 DEF Remove, Refuse, Store, stores, Directory
  <2>4. config.auth = ManagedAuth(users) /\ live.auth = ManagedAuth(users)
    BY <2>1 DEF Stage
  <2>5. UniqueIn(users)
    BY DEF IInv, UniqueNames, UniqueIn
  <2> QED
    BY <2>1, <2>2, <2>4, <2>5, <2>6, DisabledIsOut DEF LeavesNothing
<1>2. Spec => []IInv /\ []Alone(r)
  BY Invariance, AloneInvariance
<1> QED
  BY <1>1, <1>2, PTL DEF Spec, RemovedIsOut
-----------------------------------------------------------------------------
(* Besides, at most one call of a request fails, and one that writes a     *)
(* record before its effect: after it the code answers failure and does    *)
(* not synchronise.  Removing a record and writing the file may fail after *)
(* their effect.  The panel does not crash, no client leaves, nobody edits *)
(* the file.                                                               *)

Serial == 
  /\ OneRequest 
  /\ MaxFaults <= 1 
  /\ "torn" \notin FaultKinds
  /\ MaxCrashes = 0 
  /\ ~MayDisconnect
  /\ HandEdits = {}

\* The records as they were when the request began.
Before(j, us) == IF j.op \in UserOps THEN [us EXCEPT ![j.id] = j.old] ELSE us

\* What the request has made of its record.
Changed(j, us) ==
  /\ j.op = "create" => us[j.id] \in User /\ us[j.id].enabled
  /\ j.op = "update" => us[j.id] \in User /\ us[j.id].enabled = j.old.enabled
  /\ j.op = "toggle" => us[j.id] = [j.old EXCEPT !.enabled = ~j.old.enabled]
  /\ j.op = "delete" => us[j.id] = [j.old EXCEPT !.enabled = FALSE]

\* How far a request has come: until it writes, the copies are those it
\* found; once it rolls back, nothing more can fail, and the copies need only
\* agree again when it answers.
Course(l, j, us, c, v) ==
  /\ c.settings \in ValidSettings
  /\ ~j.cut /\ ~j.edited
  /\ UniqueIn(Before(j, us))
  /\ l \in Rest => j = NoJob
  /\ j.undo => /\ j.faults >= MaxFaults 
               /\ j.op \in UserOps 
               /\ j.op = "delete" => j.old.enabled
  /\ j.op = "create" => j.old = NoUser
  /\ j.op \notin UserOps => j.id = NoId
  /\ l \in {"update", "toggle"} => us[j.id] = j.old /\ ~j.undo
  /\ l \notin Rest \cup {"update", "toggle"} /\ j.op \in UserOps =>
       IF j.undo /\ l # "undo" THEN us[j.id] = j.old ELSE Changed(j, us)
  /\ ~j.undo /\ l \notin {"restart", "remove", "respond"} =>
       c.auth = ManagedAuth(Before(j, us)) /\ v.auth = ManagedAuth(Before(j, us))
  /\ ~j.undo /\ l = "restart" => 
       v.auth = ManagedAuth(Before(j, us)) \/ v.auth = ManagedAuth(us)

Serves(r) == Resting(Boot) /\ Course(pc[r], job[r], users, config, live)

\* A request that answers leaves the copies in agreement.
LEMMA RestCourse ==
  ASSUME NEW l \in Rest, NEW us, UniqueIn(us), NEW c, c.settings \in ValidSettings,
         c.auth = ManagedAuth(us), NEW v, v.auth = ManagedAuth(us)
  PROVE  Course(l, NoJob, us, c, v)
<1>1. /\ NoJob.op = "none" /\ NoJob.undo = FALSE /\ NoJob.cut = FALSE /\ NoJob.id = NoId
      /\ NoJob.edited = FALSE
  BY DEF NoJob
<1>2. Before(NoJob, us) = us
  BY <1>1 DEF Before, UserOps
<1> QED
  BY <1>1, <1>2 DEF Course, Rest, UserOps

LEMMA KeptAtRest == ASSUME NEW l \in Rest, NEW j PROVE Kept(l, j) = NoJob
BY DEF Kept

LEMMA ServesMove ==
  ASSUME Control, NEW r \in Procs, r # Boot, Resting(Boot), NEW l, NEW j, Move(r, l, j),
         Course(l, Kept(l, j), users', config', live')
  PROVE  Serves(r)'
<1>1. pc'[r] = l /\ job'[r] = Kept(l, j) /\ pc'[Boot] = pc[Boot]
  BY Moved DEF Procs
<1> QED
  BY <1>1 DEF Serves, Resting

\* A request that answers in agreement.
LEMMA ServesRest ==
  ASSUME Control, IInv', NEW r \in Procs, r # Boot, Resting(Boot), NEW l \in Rest, NEW j, 
         Move(r, l, j), config'.settings \in ValidSettings,
         config'.auth = ManagedAuth(users'), live'.auth = ManagedAuth(users')
  PROVE  Serves(r)'
<1>1. UniqueIn(users')
  BY DEF IInv, UniqueNames, UniqueIn
<1>2. Course(l, NoJob, users', config', live')
  BY <1>1, RestCourse
<1> QED
  BY <1>2, KeptAtRest, ServesMove

\* A record put back where it was.
LEMMA PutBack ==
  ASSUME NEW us \in Directory, NEW id \in UserIds 
  PROVE  [us EXCEPT ![id] = us[id]] = us
BY DEF Directory

LEMMA PutAgain ==
  ASSUME NEW us \in Directory, NEW id \in UserIds, NEW u, NEW w
  PROVE  [[us EXCEPT ![id] = u] EXCEPT ![id] = w] = [us EXCEPT ![id] = w]
BY DEF Directory

\* What a request began with is what it found in its record, as long as that
\* is still there.
LEMMA BeforeIs ==
  ASSUME NEW j \in Job, Fits(j), NEW us \in Directory
  PROVE  /\ j.op \in UserOps /\ us[j.id] = j.old => Before(j, us) = us
         /\ j.op \notin UserOps => Before(j, us) = us
         /\ \A u : j.op \in UserOps => Before(j, [us EXCEPT ![j.id] = u]) = Before(j, us)
<1>1. j.op \in UserOps => j.id \in UserIds
  BY DEF Fits
<1>2. ASSUME j.op \in UserOps, us[j.id] = j.old PROVE Before(j, us) = us
  BY <1>1, <1>2, PutBack DEF Before
<1>3. ASSUME NEW u, j.op \in UserOps PROVE Before(j, [us EXCEPT ![j.id] = u]) = Before(j, us)
  <2>1. PICK id, w : id \in UserIds /\ id = j.id /\ w = j.old
    BY <1>1, <1>3
  <2>2. [[us EXCEPT ![id] = u] EXCEPT ![id] = w] = [us EXCEPT ![id] = w]
    BY PutAgain
  <2> QED
    BY <1>3, <2>1, <2>2, Zenon DEF Before
<1> QED
  BY <1>2, <1>3 DEF Before
\* Serving one at a time, a call that fails has used up the one fault, and
\* the context is never cancelled.
LEMMA OneFault ==
  ASSUME Serial, IInv, NEW r \in Requests, Alone(r), Serves(r), NEW kind, NEW l,
         Fails(r, kind, l) \/ Fault(r, kind, l)
  PROVE  /\ kind # "torn" /\ ~job[r].undo
         /\ \E k \in Job : 
              /\ Move(r, l, k) /\ k.faults >= MaxFaults
              /\ k.op = job[r].op /\ k.id = job[r].id /\ k.old = job[r].old 
              /\ k.file = job[r].file /\ k.undo = job[r].undo /\ k.cut = job[r].cut
              /\ k.edited = job[r].edited
<1> DEFINE k == [job[r] EXCEPT !.faults = @ + 1]
<1>1. r \in Procs /\ job[r] \in Job /\ ~job[r].cut
  BY JobNow DEF Procs, Serves, Course
<1>2. Fault(r, kind, l)
  BY <1>1 DEF Fails
<1>3. job[r].faults < MaxFaults /\ kind \in FaultKinds /\ Move(r, l, k)
  BY <1>2 DEF Fault
<1>4. job[r].faults \in Nat /\ k \in Job /\ k.faults = job[r].faults + 1
  BY <1>1, <1>3, BoundsAssumption DEF Job
<1>5. ~job[r].undo
  BY <1>3, <1>4, BoundsAssumption DEF Serves, Course
<1>6. k.faults >= MaxFaults
  BY <1>3, <1>4, BoundsAssumption DEF Serial
<1>7. /\ k.op = job[r].op /\ k.id = job[r].id /\ k.old = job[r].old 
      /\ k.file = job[r].file /\ k.undo = job[r].undo /\ k.cut = job[r].cut
      /\ k.edited = job[r].edited
  BY <1>1 DEF Job
<1> QED
  BY <1>3, <1>4, <1>5, <1>6, <1>7 DEF Serial

LEMMA BeginServes ==
  ASSUME Serial, IInv, IInv', NEW r \in Requests, Serves(r), Begin(r) PROVE Serves(r)'
<1>1. r \in Procs /\ r # Boot /\ Control /\ Resting(Boot) /\ users \in Directory
  BY BootAssumption, ControlNow, JobNow DEF Procs, Serves
<1>2. Resting(r)
  BY DEF Begin, Create, OpenUpdate, OpenToggle, OpenDelete, Open, SaveSettings, ApplySettings, 
     Idle
<1>3. /\ UniqueIn(users) 
      /\ config.settings \in ValidSettings
      /\ config.auth = ManagedAuth(users) 
      /\ live.auth = ManagedAuth(users)
  <2>1. job[r] = NoJob /\ NoJob.op = "none" /\ NoJob.undo = FALSE
    BY <1>2 DEF Serves, Course, Resting, NoJob
  <2>2. Before(NoJob, users) = users
    BY <2>1 DEF Before, UserOps
  <2> QED
    BY <1>2, <2>1, <2>2 DEF Serves, Course, Resting, Rest, IInv, UniqueNames, UniqueIn
<1>4. CASE Create(r)
  <2>1. PICK id \in UserIds \ issued, n \in Names, w \in Passwords :
          /\ users' = [users EXCEPT ![id] = [name |-> n, pass |-> w, enabled |-> TRUE]]
          /\ Move(r, "read", [NoJob EXCEPT !.op = "create", !.id = id])
    BY <1>4 DEF Create, Serial
  <2> DEFINE j == [NoJob EXCEPT !.op = "create", !.id = id]
             u == [name |-> n, pass |-> w, enabled |-> TRUE]
  <2>2. j.op = "create" /\ j.id = id /\ j.old = NoUser /\ j.undo = FALSE /\ j.cut = FALSE
        /\ j.edited = FALSE
    BY DEF NoJob
  <2>3. u \in User /\ u.enabled
    BY DEF User
  <2>4. Move(r, "read", j) /\ users' = [users EXCEPT ![id] = u]
    BY <2>1
  <2> HIDE DEF j, u
  <2>5. users'[id] = u
    BY <1>1, <2>4 DEF Directory
  <2>6. Before(j, users') = users
    <3>1. users[id] = NoUser
      BY <2>1 DEF IInv, StoreShape, Stored
    <3>2. [users' EXCEPT ![id] = NoUser] = users
      BY <1>1, <2>4, <3>1 DEF Directory
    <3> QED
      BY <2>2, <3>2 DEF Before, UserOps
  <2>7. UNCHANGED <<config, live>>
    BY <1>4 DEF Create
  <2>8. Course("read", j, users', config', live')
    BY <1>3, <2>2, <2>3, <2>5, <2>6, <2>7 DEF Course, Changed, Rest, UserOps
  <2> QED
    BY <1>1, <2>4, <2>8, ServesMove, KeptAsIs DEF Rest
<1>5. ASSUME NEW id \in UserIds, NEW op \in {"update", "toggle", "delete"}, 
             NEW l \in {"update", "toggle", "read"}, Open(r, op, id, l),
             l = "read" => op = "delete" /\ ~users[id].enabled
      PROVE  Serves(r)'
  <2> DEFINE j == [NoJob EXCEPT !.op = op, !.id = id, !.old = users[id]]
  <2>1. /\ j.op = op /\ j.id = id /\ j.old = users[id] /\ j.undo = FALSE /\ j.cut = FALSE
        /\ j.edited = FALSE
    BY DEF NoJob
  <2>2. users[id] \in User /\ UNCHANGED <<users, config, live>> /\ Move(r, l, j)
    BY <1>5 DEF Open, IInv, TypeOK, Directory, stores
  <2> HIDE DEF j
  <2>3. Before(j, users) = users
    BY <1>1, <2>1, PutBack DEF Before
  <2>4. ASSUME l = "read" PROVE Changed(j, users)
    <3>1. users[id] = [users[id] EXCEPT !.enabled = FALSE]
      BY <1>5, <2>2, <2>4 DEF User
    <3> QED
      BY <1>5, <2>1, <2>4, <3>1 DEF Changed
  <2>5. Course(l, j, users', config', live')
    BY <1>3, <2>1, <2>2, <2>3, <2>4 DEF Course, Rest, UserOps
  <2> QED
    BY <1>1, <2>2, <2>5, ServesMove, KeptAsIs DEF Rest
<1>6. CASE OpenUpdate(r) \/ OpenToggle(r)
  BY <1>5, <1>6 DEF OpenUpdate, OpenToggle
<1>7. CASE OpenDelete(r)
  <2>1. PICK id \in UserIds :
          Open(r, "delete", id, 
               IF users[id] # NoUser /\ users[id].enabled THEN "toggle" ELSE "read")
    BY <1>7 DEF OpenDelete
  <2>2. users[id] # NoUser
    BY <2>1 DEF Open
  <2> QED
    BY <1>5, <2>1, <2>2
<1>8. ASSUME NEW j, j.op \in {"save", "apply"}, j.id = NoId, ~j.undo, ~j.cut, ~j.edited,
             NEW l \in {"read", "inject"}, Move(r, l, j), UNCHANGED <<users, config, live>>
      PROVE  Serves(r)'
  <2>1. Before(j, users) = users
    BY <1>8 DEF Before, UserOps
  <2>2. Course(l, j, users', config', live')
    BY <1>3, <1>8, <2>1 DEF Course, Rest, UserOps
  <2> QED
    BY <1>1, <1>8, <2>2, ServesMove, KeptAsIs DEF Rest
<1>9. CASE SaveSettings(r)
  <2>1. PICK s \in Settings : 
          Move(r, "inject", [NoJob EXCEPT !.op = "save", 
                                          !.file = [auth |-> {}, settings |-> s]])
    BY <1>9 DEF SaveSettings
  <2> DEFINE j == [NoJob EXCEPT !.op = "save", !.file = [auth |-> {}, settings |-> s]]
  <2>2. j.op = "save" /\ j.id = NoId /\ ~j.undo /\ ~j.cut /\ ~j.edited
    BY DEF NoJob
  <2>3. Move(r, "inject", j) /\ UNCHANGED <<users, config, live>>
    BY <1>9, <2>1 DEF SaveSettings, stores
  <2> HIDE DEF j
  <2>4. PICK l \in {"read", "inject"} : l = "inject"
    OBVIOUS
  <2> QED
    BY <1>8, <2>2, <2>3, <2>4
<1>10. CASE ApplySettings(r)
  <2> DEFINE j == [NoJob EXCEPT !.op = "apply"]
  <2>1. j.op = "apply" /\ j.id = NoId /\ ~j.undo /\ ~j.cut /\ ~j.edited
    BY DEF NoJob
  <2>2. Move(r, "read", j) /\ UNCHANGED <<users, config, live>>
    BY <1>10 DEF ApplySettings, stores
  <2> HIDE DEF j
  <2>3. PICK l \in {"read", "inject"} : l = "read"
    OBVIOUS
  <2> QED
    BY <1>8, <2>1, <2>2, <2>3
<1> QED
  BY <1>4, <1>6, <1>7, <1>9, <1>10 DEF Begin
\* A request gives up with the records and the copies as it found them.
LEMMA GivesUp ==
  ASSUME Serial, IInv, IInv', NEW r \in Requests, Alone(r), Serves(r), NEW j, 
         Move(r, "failed", j) \/ (\E kind : Fails(r, kind, "failed") \/ Fault(r, kind, "failed")),
         UNCHANGED users, UNCHANGED config, 
         config.auth = ManagedAuth(users), live'.auth = ManagedAuth(users)
  PROVE  Serves(r)'
<1>1. r \in Procs /\ r # Boot /\ Control /\ Resting(Boot) /\ config.settings \in ValidSettings
  BY BootAssumption, ControlNow DEF Procs, Serves, Course
<1>2. PICK l \in Rest : l = "failed"
  BY DEF Rest
<1>3. \E k : Move(r, l, k)
  BY <1>2, OneFault
<1> QED
  BY <1>1, <1>3, ServesRest

\* What holds of a request in the middle of its work.
LEMMA CourseNow ==
  ASSUME IInv, NEW r \in Requests, Alone(r), Serves(r), ~Resting(r)
  PROVE  /\ job[r] \in Job /\ At(pc[r], job[r]) /\ Fits(job[r]) /\ users \in Directory
         /\ Stage(pc[r], job[r], users, config, live) 
         /\ Course(pc[r], job[r], users, config, live)
         /\ pc[r] \notin Rest /\ job[r].op \notin {"none", "boot"}
BY JobNow DEF Procs, Alone, Serves, Resting, Stage

\* Served so, no call fails after it wrote a record.
LEMMA TornRecord ==
  ASSUME Serial, NEW r, NEW l, NEW u \in User PROVE ~Fault(r, TornKind(u), l)
BY NoUserAssumption DEF Serial, TornKind, Fault

LEMMA UpdateServes ==
  ASSUME Serial, IInv, IInv', NEW r \in Requests, Alone(r), Serves(r), Update(r) \/ Toggle(r)
  PROVE  Serves(r)'
<1>1. r \in Procs /\ r # Boot /\ Control /\ Resting(Boot)
  BY BootAssumption, ControlNow DEF Procs, Serves
<1>2. PICK l \in {"update", "toggle"} : 
        l = pc[r] /\ (Update(r) => l = "update") /\ (Toggle(r) => l = "toggle")
  BY DEF Update, Toggle
<1>3. PICK j \in Job : 
        /\ j = job[r] /\ At(l, j) /\ Fits(j) /\ users \in Directory
        /\ Stage(l, j, users, config, live) /\ Course(l, j, users, config, live)
  BY <1>2, CourseNow DEF Resting, Rest
<1>4. /\ j.op \in {"update", "toggle", "delete"} /\ j.op \in UserOps /\ j.id \in UserIds
      /\ j.old \in User /\ users[j.id] = j.old /\ ~j.undo /\ ~j.cut /\ ~j.edited
      /\ l = "update" => j.op = "update" /\ (l = "toggle" => j.op # "update")
      /\ l = "toggle" /\ j.op = "delete" => j.old.enabled
  BY <1>3 DEF At, Fits, Stage, Course, UserOps
<1>5. /\ Before(j, users) = users /\ config.settings \in ValidSettings
      /\ config.auth = ManagedAuth(users) /\ live.auth = ManagedAuth(users) /\ UniqueIn(users)
  BY <1>3, <1>4, BeforeIs DEF Course
\* The record is written.
<1>6. ASSUME NEW u, users' = [users EXCEPT ![j.id] = u], UNCHANGED <<config, live>>,
             Move(r, "read", j),
             /\ j.op = "update" => u \in User /\ u.enabled = j.old.enabled
             /\ j.op = "toggle" => u = [j.old EXCEPT !.enabled = ~j.old.enabled]
             /\ j.op = "delete" => u = [j.old EXCEPT !.enabled = FALSE]
      PROVE  Serves(r)'
  <2>1. users'[j.id] = u
    BY <1>3, <1>4, <1>6 DEF Directory
  <2>2. Before(j, users') = users
    BY <1>3, <1>4, <1>5, <1>6, BeforeIs
  <2>3. Changed(j, users')
    BY <1>4, <1>6, <2>1 DEF Changed
  <2>4. Course("read", j, users', config', live')
    BY <1>4, <1>5, <1>6, <2>2, <2>3 DEF Course, Rest
  <2> QED
    BY <1>1, <1>6, <2>4, ServesMove, KeptAsIs DEF Rest
<1>7. ASSUME NEW u, Store(r, j.id, u, "read", "failed"),
             /\ j.op = "update" => u \in User /\ u.enabled = j.old.enabled
             /\ j.op = "toggle" => u = [j.old EXCEPT !.enabled = ~j.old.enabled]
             /\ j.op = "delete" => u = [j.old EXCEPT !.enabled = FALSE]
      PROVE  Serves(r)'
  <2>1. UNCHANGED <<config, live>>
    BY <1>7 DEF Store
  <2>2. CASE users' = [users EXCEPT ![j.id] = u] /\ Move(r, "read", j)
    BY <1>6, <1>7, <2>1, <2>2
  <2>3. CASE UNCHANGED users /\ Fails(r, "write", "failed")
    BY <1>5, <2>1, <2>3, GivesUp
  <2>4. ~Fault(r, TornKind(u), "failed")
    <3>1. u \in User
      BY <1>4, <1>7 DEF User
    <3> QED
      BY <3>1, TornRecord
  <2> QED
    BY <1>3, <1>7, <2>2, <2>3, <2>4 DEF Store
<1>8. ASSUME Refuse(r, "failed") PROVE Serves(r)'
  BY <1>5, <1>8, GivesUp DEF Refuse, stores
<1>9. CASE Update(r)
  <2>1. CASE Refuse(r, "failed")
    BY <1>8, <2>1
  <2>2. ASSUME NEW n \in Names, NEW w \in Passwords, 
               Store(r, j.id, [users[j.id] EXCEPT !.name = n, !.pass = w], "read", "failed")
        PROVE  Serves(r)'
    <3> DEFINE u == [users[j.id] EXCEPT !.name = n, !.pass = w]
    <3>1. u \in User /\ u.enabled = j.old.enabled
      BY <1>4 DEF User
    <3>2. j.op = "update"
      BY <1>2, <1>4, <1>9
    <3> HIDE DEF u
    <3>3. Store(r, j.id, u, "read", "failed")
      BY <2>2 DEF u
    <3> QED
      BY <1>7, <3>1, <3>2, <3>3
  <2> QED
    BY <1>3, <1>9, <2>1, <2>2 DEF Update
<1>10. CASE Toggle(r)
  <2> DEFINE u == [users[j.id] EXCEPT !.enabled = ~j.old.enabled]
  <2>1. /\ j.op = "toggle" => u = [j.old EXCEPT !.enabled = ~j.old.enabled]
        /\ j.op = "delete" => u = [j.old EXCEPT !.enabled = FALSE]
        /\ j.op # "update"
    <3>1. j.op # "update"
      BY <1>2, <1>3, <1>10 DEF At
    <3>2. j.op = "delete" => j.old.enabled = TRUE
      BY <1>2, <1>4, <1>10 DEF User
    <3> QED
      BY <1>4, <3>1, <3>2
  <2>2. Refuse(r, "failed") \/ Store(r, j.id, u, "read", "failed")
    BY <1>3, <1>10 DEF Toggle
  <2> HIDE DEF u
  <2> QED
    BY <1>7, <1>8, <2>1, <2>2
<1> QED
  BY <1>9, <1>10

LEMMA RemoveServes ==
  ASSUME Serial, IInv, IInv', NEW r \in Requests, Alone(r), Serves(r), Remove(r) 
  PROVE  Serves(r)'
<1>1. r \in Procs /\ r # Boot /\ Control /\ Resting(Boot)
  BY BootAssumption, ControlNow DEF Procs, Serves
<1>2. PICK l \in Labels : l = "remove" /\ l = pc[r]
  BY DEF Remove, Labels
<1>3. PICK j \in Job : 
        /\ j = job[r] /\ At(l, j) /\ Fits(j) /\ users \in Directory
        /\ Stage(l, j, users, config, live) /\ Course(l, j, users, config, live)
  BY <1>2, CourseNow DEF Resting, Rest
<1>4. /\ j.op = "delete" /\ j.id \in UserIds /\ ~j.undo /\ ~j.cut /\ ~j.edited
      /\ users[j.id] \in User /\ ~users[j.id].enabled
      /\ config.auth = ManagedAuth(users) /\ live.auth = ManagedAuth(users)
      /\ config.settings \in ValidSettings
  BY <1>2, <1>3 DEF At, Fits, Stage, Course, UserOps
<1>5. UNCHANGED <<config, live>> /\ users[j.id] # NoUser
  BY <1>3, <1>4, NoUserAssumption DEF Remove, Store, Refuse, stores
<1>6. ASSUME NEW a \in Rest, NEW k, 
             users' = [users EXCEPT ![j.id] = NoUser], Move(r, a, k) 
      PROVE  Serves(r)'
  <2>1. ManagedAuth(users') = ManagedAuth(users)
    BY <1>3, <1>4, <1>6, DisabledLeave
  <2> QED
    BY <1>1, <1>4, <1>5, <1>6, <2>1, ServesRest
<1>7. CASE UNCHANGED users /\ Fails(r, "write", "failed")
  BY <1>4, <1>5, <1>7, GivesUp
<1>8. "ok" \in Rest /\ "failed" \in Rest
  BY DEF Rest
<1>9. CASE users' = [users EXCEPT ![j.id] = NoUser] /\ Move(r, "ok", j)
  BY <1>6, <1>8, <1>9
<1>10. CASE users' = [users EXCEPT ![j.id] = NoUser] /\ Fault(r, TornKind(NoUser), "failed")
  BY <1>6, <1>8, <1>10 DEF Fault
<1> QED
  BY <1>3, <1>5, <1>7, <1>9, <1>10 DEF Remove, Store

\* Alone with its record, a request puts it back exactly as it was.
LEMMA UndoneIsOld ==
  ASSUME IInv, NEW j \in Job, Fits(j), j.op \in UserOps, j.op = "create" => j.old = NoUser, 
         Changed(j, users), UniqueIn(Before(j, users))
  PROVE  Undone(j) = j.old
<1>1. users \in Directory /\ j.id \in UserIds
  BY DEF Fits, IInv, TypeOK
<1>2. CASE j.op = "create"
  BY <1>2 DEF Undone
<1>3. CASE j.op = "update"
  <2>1. /\ j.old \in User /\ users[j.id] \in User /\ users[j.id] # NoUser /\ j.old # NoUser
        /\ users[j.id].enabled = j.old.enabled
    BY <1>3, NoUserAssumption DEF Changed, Fits, UserOps
  <2>2. NameFree(users, j.id, j.old.name)
    <3> SUFFICES ASSUME NEW i \in Stored(users) \ {j.id} PROVE users[i].name # j.old.name
      BY DEF NameFree
    <3> DEFINE us == Before(j, users)
    <3>1. \A k \in UserIds : us[k] = IF k = j.id THEN j.old ELSE users[k]
      BY <1>1, <1>3 DEF Before, Directory, UserOps
    <3>2. i \in Stored(us) /\ j.id \in Stored(us)
      BY <1>1, <2>1, <3>1 DEF Stored
    <3> HIDE DEF us
    <3>3. UniqueIn(us)
      BY DEF us
    <3> QED
      BY <1>1, <3>1, <3>2, <3>3 DEF UniqueIn, Stored
  <2>3. [users[j.id] EXCEPT !.name = j.old.name, !.pass = j.old.pass] = j.old
    BY <2>1 DEF User
  <2> QED
    BY <1>3, <2>1, <2>2, <2>3 DEF Undone
<1>4. CASE j.op \in {"toggle", "delete"}
  <2>1. j.old \in User
    BY <1>4 DEF Fits, UserOps
  <2>2. PICK b \in BOOLEAN : users[j.id] = [j.old EXCEPT !.enabled = b]
    BY <1>4, <2>1 DEF Changed, User
  <2>3. [users[j.id] EXCEPT !.enabled = j.old.enabled] = j.old /\ users[j.id] \in User
    BY <2>1, <2>2 DEF User
  <2> QED
    BY <1>4, <2>3, NoUserAssumption DEF Undone
<1> QED
  BY <1>2, <1>3, <1>4 DEF UserOps

LEMMA UndoServes ==
  ASSUME Serial, IInv, IInv', NEW r \in Requests, Alone(r), Serves(r), Undo(r) 
  PROVE  Serves(r)'
<1>1. r \in Procs /\ r # Boot /\ Control /\ Resting(Boot)
  BY BootAssumption, ControlNow DEF Procs, Serves
<1>2. PICK l \in Labels : l = "undo" /\ l = pc[r]
  BY DEF Undo, Labels
<1>3. PICK j \in Job : 
        /\ j = job[r] /\ At(l, j) /\ Fits(j) /\ users \in Directory
        /\ Stage(l, j, users, config, live) /\ Course(l, j, users, config, live)
  BY <1>2, CourseNow DEF Resting, Rest
<1>4. /\ j.op \in UserOps /\ j.id \in UserIds /\ j.undo /\ ~j.cut /\ ~j.edited /\ Changed(j, users)
      /\ j.faults >= MaxFaults /\ (j.op = "delete" => j.old.enabled) 
      /\ j.op = "create" => j.old = NoUser
      /\ UniqueIn(Before(j, users)) /\ config.settings \in ValidSettings
  BY <1>2, <1>3 DEF At, Fits, Stage, Course, Rest
<1>5. Undone(j) = j.old
  BY <1>3, <1>4, UndoneIsOld
<1>6. /\ users' = [users EXCEPT ![j.id] = j.old] /\ Move(r, "read", j) 
      /\ UNCHANGED <<config, live>>
  <2>1. \A kind : ~Fails(r, kind, "read") /\ ~Fault(r, kind, "read")
    BY <1>3, <1>4, OneFault
  <2> QED
    BY <1>3, <1>5, <2>1 DEF Undo, Store
<1>7. users'[j.id] = j.old /\ Before(j, users') = Before(j, users)
  <2>1. users'[j.id] = j.old
    BY <1>3, <1>4, <1>6 DEF Directory
  <2>2. PICK u : u = j.old
    OBVIOUS
  <2>3. Before(j, [users EXCEPT ![j.id] = u]) = Before(j, users)
    BY <1>3, <1>4, BeforeIs
  <2> QED
    BY <1>6, <2>1, <2>2, <2>3
<1>8. Course("read", j, users', config', live')
  BY <1>4, <1>6, <1>7 DEF Course, Rest
<1> QED
  BY <1>1, <1>6, <1>8, ServesMove, KeptAsIs DEF Rest
\* A synchronisation that fails rolls back, or has changed nothing.
LEMMA ErrorServes ==
  ASSUME Serial, IInv, IInv', NEW r \in Requests, Alone(r), Serves(r), 
         NEW l \in {"read", "inject", "write", "restart"}, l = pc[r], NEW kind, 
         Fails(r, kind, OnError(job[r])) \/ Fault(r, kind, OnError(job[r])),
         UNCHANGED users, config' = config \/ (l = "write" /\ config' = job[r].file),
         live' = live \/ (l = "restart" /\ live' = config)
  PROVE  Serves(r)'
<1>1. r \in Procs /\ r # Boot /\ Control /\ Resting(Boot)
  BY BootAssumption, ControlNow DEF Procs, Serves
<1>2. PICK j \in Job : 
        /\ j = job[r] /\ At(l, j) /\ Fits(j) /\ users \in Directory /\ j.op \notin {"none", "boot"}
        /\ Stage(l, j, users, config, live) /\ Course(l, j, users, config, live)
  BY CourseNow DEF Resting, Rest
<1>3. PICK k \in Job : 
        /\ Move(r, OnError(j), k) /\ k.faults >= MaxFaults
        /\ k.op = j.op /\ k.id = j.id /\ k.old = j.old /\ k.undo = j.undo /\ k.cut = j.cut
        /\ k.edited = j.edited
  BY <1>2, OneFault
<1>4. ~j.undo /\ ~j.cut /\ ~j.edited /\ config.settings \in ValidSettings /\ UniqueIn(Before(j, users))
      /\ (j.op \in UserOps => Changed(j, users))
  <2>1. ~j.undo
    BY <1>2, OneFault
  <2> QED
    BY <1>2, <2>1 DEF Course, Rest
<1>7. config'.settings \in ValidSettings
  BY <1>2, <1>4 DEF At
<1>5. CASE ~RollsBack(j)
  <2>1. j.op \in UserOps => j.op = "delete" /\ ~j.old.enabled /\ j.old \in User
    BY <1>2, <1>4, <1>5 DEF RollsBack, UserOps, Fits
  <2>2. ASSUME j.op \in UserOps PROVE users[j.id] = j.old
    <3>1. j.old = [j.old EXCEPT !.enabled = FALSE]
      BY <2>1, <2>2 DEF User
    <3> QED
      BY <1>4, <2>1, <2>2, <3>1 DEF Changed
  <2>3. Before(j, users) = users
    BY <1>2, <2>2, BeforeIs
  <2>4. config.auth = ManagedAuth(users)
    BY <1>2, <1>4, <2>3 DEF Course, Stage
  <2>7. config'.auth = ManagedAuth(users)
    BY <1>2, <2>4 DEF Stage
  <2>8. live.auth = ManagedAuth(users)
    BY <1>2, <1>4, <2>3 DEF Course
  <2>5. OnError(j) = "failed" /\ live'.auth = ManagedAuth(users)
    BY <1>5, <2>4, <2>8 DEF OnError
  <2>6. PICK a \in Rest : a = OnError(j)
    BY <2>5 DEF Rest
  <2> QED
    BY <1>1, <1>3, <1>7, <2>5, <2>6, <2>7, ServesRest
<1>6. CASE RollsBack(j)
  <2> DEFINE u == Kept(OnError(j), k)
  <2>1. OnError(j) = "undo" /\ j.op \in UserOps /\ (j.op = "delete" => j.old.enabled)
    BY <1>6 DEF OnError, RollsBack, UserOps
  <2>2. /\ u.op = j.op /\ u.id = j.id /\ u.old = j.old /\ u.undo /\ ~u.cut /\ ~u.edited
        /\ u.faults >= MaxFaults
    BY <1>3, <1>4, <2>1 DEF Kept, Rest, Job
  <2> HIDE DEF u
  <2>3. Before(u, users) = Before(j, users) /\ Changed(u, users)
    BY <1>4, <2>1, <2>2 DEF Before, Changed
  <2>4. j.op = "create" => j.old = NoUser
    BY <1>2 DEF Course
  <2>5. Course("undo", u, users', config', live')
    BY <1>4, <1>7, <2>1, <2>2, <2>3, <2>4 DEF Course, Rest
  <2>6. Course(OnError(j), u, users', config', live')
    BY <2>1, <2>5
  <2> QED
    BY <1>1, <1>3, <2>6, ServesMove DEF u
<1> QED
  BY <1>5, <1>6

\* Going on before anything was written.
LEMMA Onward ==
  ASSUME NEW l \in {"read", "inject", "write", "check"}, 
         NEW m \in {"read", "inject", "write", "check", "restart"},
         NEW j, NEW k, NEW us, NEW c, NEW v, NEW d, Course(l, j, us, c, v), 
         d.settings \in ValidSettings, 
         ~j.undo /\ m # "restart" => d.auth = ManagedAuth(Before(j, us)),
         k.op = j.op, k.id = j.id, k.old = j.old, k.undo = j.undo, k.cut = j.cut, k.edited = j.edited,
         k.faults = j.faults
  PROVE  Course(m, k, us, d, v)
<1>1. Before(k, us) = Before(j, us) /\ (Changed(k, us) <=> Changed(j, us))
  BY DEF Before, Changed
<1> QED
  BY <1>1 DEF Course, Rest
LEMMA SyncServes ==
  ASSUME Serial, IInv, IInv', NEW r \in Requests, Alone(r), Serves(r),
         ReadConfig(r) \/ Inject(r) \/ SaveConfig(r) \/ CheckConfig(r)
  PROVE  Serves(r)'
<1>1. r \in Procs /\ r # Boot /\ Control /\ Resting(Boot)
  BY BootAssumption, ControlNow DEF Procs, Serves
<1>2. PICK l \in {"read", "inject", "write", "check"} : 
        /\ l = pc[r] 
        /\ ReadConfig(r) => l = "read"
        /\ Inject(r) => l = "inject"
        /\ SaveConfig(r) => l = "write"
        /\ CheckConfig(r) => l = "check"
  BY DEF ReadConfig, Inject, SaveConfig, CheckConfig
<1>3. PICK j \in Job : 
        /\ j = job[r] /\ At(l, j) /\ Fits(j) /\ users \in Directory /\ j.op \notin {"none", "boot"}
        /\ Stage(l, j, users, config, live) /\ Course(l, j, users, config, live)
  BY <1>2, CourseNow DEF Resting, Rest
<1>4. UNCHANGED <<users, live>> /\ config.settings \in ValidSettings 
      /\ ~j.cut /\ ~j.edited
  BY <1>3 DEF ReadConfig, Inject, SaveConfig, CheckConfig, stores, Course
<1>5. j.op \in {"save", "apply"} => Before(j, users) = users /\ ~j.undo
  BY <1>3, BeforeIs DEF Course, UserOps
<1>6. ASSUME NEW kind, l # "check", config' = config \/ (l = "write" /\ config' = j.file),
             Fails(r, kind, OnError(j)) \/ Fault(r, kind, OnError(j))
      PROVE  Serves(r)'
  BY <1>2, <1>3, <1>4, <1>6, ErrorServes
<1>7. ASSUME NEW m \in {"read", "inject", "write", "check", "restart"}, NEW k, Move(r, m, k),
             k.op = j.op, k.id = j.id, k.old = j.old, k.undo = j.undo, k.cut = j.cut, k.edited = j.edited,
             k.faults = j.faults,
             config'.settings \in ValidSettings, 
             ~j.undo /\ m # "restart" => config'.auth = ManagedAuth(Before(j, users))
      PROVE  Serves(r)'
  <2>1. Course(m, k, users, config', live)
    BY <1>3, <1>7, Onward
  <2>2. Kept(m, k) = k
    BY KeptAsIs DEF Rest
  <2>3. Course(m, Kept(m, k), users', config', live')
    BY <1>4, <2>1, <2>2
  <2> QED
    BY <1>1, <1>7, <2>3, ServesMove
<1>8. CASE ReadConfig(r)
  <2> DEFINE k == [j EXCEPT !.file = config]
  <2>1. /\ k.op = j.op /\ k.id = j.id /\ k.old = j.old /\ k.undo = j.undo /\ k.cut = j.cut
        /\ k.faults = j.faults /\ k.edited = j.edited
    BY DEF Job
  <2>2. l = "read" /\ UNCHANGED config
    BY <1>2, <1>8 DEF ReadConfig, stores
  <2>3. Move(r, "inject", k) \/ Fault(r, "read", OnError(j))
    BY <1>3, <1>8 DEF ReadConfig
  <2> HIDE DEF k
  <2>4. ~j.undo => config'.auth = ManagedAuth(Before(j, users))
    BY <1>3, <2>2 DEF Course
  <2>5. PICK m \in {"read", "inject", "write", "check", "restart"} : m = "inject"
    OBVIOUS
  <2> QED
    BY <1>4, <1>6, <1>7, <2>1, <2>2, <2>3, <2>4, <2>5
<1>9. CASE Inject(r)
  <2> DEFINE next == [j.file EXCEPT !.auth = ManagedAuth(users)]
             k == [j EXCEPT !.file = next]
  <2>1. l = "inject" /\ UNCHANGED config /\ j.file \in Content
    BY <1>2, <1>3, <1>9 DEF Inject, stores, At, Fits
  <2>2. /\ k.op = j.op /\ k.id = j.id /\ k.old = j.old /\ k.undo = j.undo /\ k.cut = j.cut
        /\ k.faults = j.faults /\ k.edited = j.edited
    BY DEF Job
  <2>3. j.op # "save" => ValidContent(next)
    BY <1>3, <1>4, <2>1 DEF Stage, ValidContent, Content
  <2>4. \/ j.op = "save" /\ Move(r, OnError(j), j)
        \/ Fails(r, "read", OnError(j))
        \/ Move(r, "write", k)
        \/ j.op # "save" /\ Move(r, AfterSync(j, FALSE), k)
    BY <1>3, <1>9, <2>3 DEF Inject
  <2> HIDE DEF next, k
  <2>5. ~j.undo => config'.auth = ManagedAuth(Before(j, users))
    BY <1>3, <2>1 DEF Course
  <2>6. CASE j.op = "save" /\ Move(r, OnError(j), j)
    <3>1. PICK a \in Rest : a = OnError(j)
      BY <2>6 DEF OnError, RollsBack, Rest
    <3>2. config'.auth = ManagedAuth(users') /\ live'.auth = ManagedAuth(users')
      BY <1>3, <1>4, <1>5, <2>1, <2>6 DEF Course
    <3> QED
      BY <1>1, <1>4, <2>1, <2>6, <3>1, <3>2, ServesRest
  <2>7. CASE Move(r, "write", k)
    <3>1. PICK m \in {"read", "inject", "write", "check", "restart"} : m = "write"
      OBVIOUS
    <3> QED
      BY <1>4, <1>7, <2>1, <2>2, <2>5, <2>7, <3>1
  <2>8. CASE j.op # "save" /\ Move(r, AfterSync(j, FALSE), k)
    <3>1. PICK m \in {"read", "inject", "write", "check", "restart"} : m = AfterSync(j, FALSE)
      BY <1>3, <2>8 DEF AfterSync
    <3> QED
      BY <1>4, <1>7, <2>1, <2>2, <2>5, <2>8, <3>1
  <2>9. CASE Fails(r, "read", OnError(j))
    BY <1>6, <2>1, <2>9
  <2> QED
    BY <2>4, <2>6, <2>7, <2>8, <2>9
<1>10. CASE SaveConfig(r)
  <2>1. l = "write" /\ j.file.settings \in ValidSettings /\ j.file.auth = ManagedAuth(users)
    BY <1>2, <1>3, <1>10 DEF At, Stage
  <2>2. CASE config' = j.file /\ Move(r, AfterSync(j, TRUE), j)
    <3>1. CASE j.op = "save"
      <4>1. PICK a \in Rest : a = AfterSync(j, TRUE)
        BY <3>1 DEF AfterSync, Rest
      <4>2. config'.auth = ManagedAuth(users') /\ live'.auth = ManagedAuth(users')
        BY <1>3, <1>4, <1>5, <2>1, <2>2, <3>1 DEF Course
      <4> QED
        BY <1>1, <2>1, <2>2, <4>1, <4>2, ServesRest
    <3>2. CASE j.op # "save"
      <4>1. PICK m \in {"check", "restart"} : m = AfterSync(j, TRUE) /\ (m # "restart" => j.op = "apply")
        BY <1>3, <3>2 DEF AfterSync
      <4>2. ~j.undo /\ m # "restart" => config'.auth = ManagedAuth(Before(j, users))
        BY <1>5, <2>1, <2>2, <4>1
      <4> QED
        BY <1>7, <2>1, <2>2, <4>1, <4>2
    <3> QED
      BY <3>1, <3>2
  <2>3. CASE UNCHANGED config /\ Fault(r, "write", OnError(j))
    BY <1>6, <2>1, <2>3
  <2>4. CASE config' = j.file /\ Fault(r, "torn file", OnError(j))
    BY <1>6, <2>1, <2>4
  <2> QED
    BY <1>3, <1>10, <2>2, <2>3, <2>4 DEF SaveConfig
<1>11. CASE CheckConfig(r)
  <2>1. l = "check" /\ UNCHANGED config /\ ValidContent(config)
    BY <1>2, <1>4, <1>11 DEF CheckConfig, stores, ValidContent
  <2>2. CASE Move(r, "restart", j)
    <3>1. PICK m \in {"read", "inject", "write", "check", "restart"} : m = "restart"
      OBVIOUS
    <3> QED
      BY <1>4, <1>7, <2>1, <2>2, <3>1
  <2>3. CASE Fault(r, "read", "failed")
    <3>1. j.op = "apply"
      BY <1>3, <2>1 DEF Stage
    <3>2. config.auth = ManagedAuth(users) /\ live'.auth = ManagedAuth(users)
      BY <1>3, <1>4, <1>5, <2>1, <3>1 DEF Course
    <3> QED
      BY <1>4, <2>1, <2>3, <3>2, GivesUp
  <2> QED
    BY <1>3, <1>11, <2>1, <2>2, <2>3 DEF CheckConfig
<1> QED
  BY <1>8, <1>9, <1>10, <1>11

LEMMA RestartServes ==
  ASSUME Serial, IInv, IInv', NEW r \in Requests, Alone(r), Serves(r), Restart(r)
  PROVE  Serves(r)'
<1>1. r \in Procs /\ r # Boot /\ Control /\ Resting(Boot)
  BY BootAssumption, ControlNow DEF Procs, Serves
<1>2. PICK l \in {"read", "inject", "write", "restart"} : l = "restart" /\ l = pc[r]
  BY DEF Restart
<1>3. PICK j \in Job : 
        /\ j = job[r] /\ At(l, j) /\ Fits(j) /\ users \in Directory /\ j.op \notin {"none", "boot"}
        /\ Stage(l, j, users, config, live) /\ Course(l, j, users, config, live)
  BY <1>2, CourseNow DEF Resting, Rest
<1>4. /\ UNCHANGED <<users, config>> /\ config.settings \in ValidSettings /\ ~j.cut /\ ~j.edited
      /\ config.auth = ManagedAuth(users)
  BY <1>2, <1>3 DEF Restart, Course, Stage
<1>5. CASE live' = config /\ Move(r, OnSynced(j), j)
  <2>1. CASE OnSynced(j) = "remove"
    <3>1. j.op = "delete" /\ ~j.undo
      BY <2>1 DEF OnSynced
    <3>2. Course("remove", j, users, config, config)
      BY <1>2, <1>3, <3>1 DEF Course, Rest, UserOps
    <3>3. Kept(OnSynced(j), j) = j
      BY <2>1, KeptAsIs DEF Rest
    <3>4. Course(OnSynced(j), Kept(OnSynced(j), j), users', config', live')
      BY <1>4, <1>5, <2>1, <3>2, <3>3
    <3> QED
      BY <1>1, <1>5, <3>4, ServesMove
  <2>3. CASE OnSynced(j) = "respond"
    <3>1. j.op \in {"create", "update"} /\ ~j.undo
      BY <2>3 DEF OnSynced
    <3>2. Course("respond", j, users, config, config)
      BY <1>2, <1>3, <3>1 DEF Course, Rest, UserOps
    <3>3. Kept(OnSynced(j), j) = j
      BY <2>3, KeptAsIs DEF Rest
    <3>4. Course(OnSynced(j), Kept(OnSynced(j), j), users', config', live')
      BY <1>4, <1>5, <2>3, <3>2, <3>3
    <3> QED
      BY <1>1, <1>5, <3>4, ServesMove
  <2>2. CASE OnSynced(j) \notin {"remove", "respond"}
    <3>1. PICK a \in Rest : a = OnSynced(j)
      BY <2>2 DEF OnSynced, Rest
    <3> QED
      BY <1>1, <1>4, <1>5, <3>1, ServesRest
  <2> QED
    BY <2>1, <2>2, <2>3
<1>6. CASE live' \in {live, config} /\ Fails(r, "restart", OnError(j))
  BY <1>2, <1>3, <1>4, <1>6, ErrorServes
<1> QED
  BY <1>3, <1>5, <1>6 DEF Restart

\* Whether or not it can be answered with, the change has been published.
LEMMA RespondServes ==
  ASSUME Serial, IInv, IInv', NEW r \in Requests, Alone(r), Serves(r), Respond(r)
  PROVE  Serves(r)'
<1>1. r \in Procs /\ r # Boot /\ Control /\ Resting(Boot)
  BY BootAssumption, ControlNow DEF Procs, Serves
<1>2. pc[r] = "respond" /\ ~Resting(r) /\ UNCHANGED <<users, config, live>>
  BY DEF Respond, Resting, Rest, stores
<1>3. /\ config.settings \in ValidSettings 
      /\ config.auth = ManagedAuth(users) /\ live.auth = ManagedAuth(users)
  BY <1>2, CourseNow DEF Stage, Course
<1>4. \E a \in Rest : \E k : Move(r, a, k)
  BY DEF Respond, Fault, Rest
<1> QED
  BY <1>1, <1>2, <1>3, <1>4, ServesRest

LEMMA NextServes ==
  ASSUME Serial, NEW r \in Requests, Requests = {r}, IInv, IInv', Alone(r), Serves(r), [Next]_vars
  PROVE  Serves(r)'
<1>1. r \in Procs /\ Procs = {r, Boot} /\ Resting(Boot)
  BY DEF Procs, Serves
<1>2. CASE UNCHANGED vars
  BY <1>2 DEF vars, Serves, Resting
<1>3. ASSUME NEW p \in Procs, Begin(p) PROVE Serves(r)'
  <2>1. p = r
    BY <1>1, <1>3 DEF Begin, Create, OpenUpdate, OpenToggle, OpenDelete, Open, SaveSettings, 
       ApplySettings, Idle
  <2> QED
    BY <1>3, <2>1, BeginServes
<1>4. CASE Step(r)
  BY <1>4, UpdateServes, RemoveServes, UndoServes, SyncServes, RestartServes, 
     RespondServes DEF Step
<1>5. ~Step(Boot)
  BY <1>1 DEF Step, Update, Toggle, Remove, ReadConfig, Inject, SaveConfig, CheckConfig,
     Restart, Respond, Undo, Resting, Rest
<1>6. \A p \in Procs : ~Disconnect(p)
  BY DEF Disconnect, Serial
<1>7. ~Crash
  BY DEF Crash, Serial, IInv, TypeOK
<1>8. CASE ServerRestart
  <2>1. UNCHANGED <<users, config, pc, job>> /\ live' = config
    BY <1>8 DEF ServerRestart
  <2>2. Course(pc[r], job[r], users, config, config)
    BY DEF Serves, Course, Alone, Stage
  <2> QED
    BY <2>1, <2>2 DEF Serves, Resting
<1>9. ~HandEdit
  BY DEF HandEdit, Serial
<1> QED
  BY <1>1, <1>2, <1>3, <1>4, <1>5, <1>6, <1>7, <1>8, <1>9 DEF Next
LEMMA ServesInvariance ==
  ASSUME Serial, NEW r \in Requests, Requests = {r} PROVE Spec => []Serves(r)
<1>1. Init => Serves(r)
  <2> SUFFICES ASSUME Init PROVE Serves(r)
    OBVIOUS
  <2>1. r \in Procs /\ Boot \in Procs
    BY DEF Procs
  <2>2. ManagedAuth(users) = {Bootstrap} /\ UniqueIn(users)
    BY DEF Init, ManagedAuth, Enabled, Stored, UniqueIn
  <2>3. config.auth = {Bootstrap} /\ config.settings \in ValidSettings /\ live = config
    BY DEF Init
  <2>4. PICK l \in Rest : l = pc[r]
    BY <2>1 DEF Init, Rest
  <2>5. Course(l, NoJob, users, config, live)
    BY <2>2, <2>3, RestCourse
  <2> QED
    BY <2>1, <2>4, <2>5 DEF Init, Serves, Resting, Rest
<1>2. IInv /\ IInv' /\ Alone(r) /\ Serves(r) /\ [Next]_vars => Serves(r)'
  BY NextServes
<1> QED
  BY <1>1, <1>2, Invariance, AloneInvariance, PTL DEF Spec

\* At rest, the copies agree.
LEMMA RestAgrees ==
  ASSUME NEW r \in Requests, Requests = {r}, Serves(r) 
  PROVE  Quiet => config.auth = ManagedAuth(users) /\ live.auth = ManagedAuth(users)
<1> SUFFICES ASSUME Quiet 
             PROVE  config.auth = ManagedAuth(users) /\ live.auth = ManagedAuth(users)
  OBVIOUS
<1>1. pc[r] \in Rest
  BY DEF Quiet, Resting, Procs
<1>2. job[r] = NoJob /\ NoJob.op = "none" /\ ~NoJob.undo
  BY <1>1 DEF Serves, Course, NoJob
<1>3. Before(NoJob, users) = users
  BY <1>2 DEF Before, UserOps
<1> QED
  BY <1>1, <1>2, <1>3 DEF Serves, Course, Rest

\* Whatever call of a request fails, the handler's rollback and the second
\* synchronisation leave the file with the enabled users and no one else.
THEOREM FileFollows == Serial /\ Spec => []FileAgrees
<1> SUFFICES ASSUME Serial, NEW r \in Requests, Requests = {r} PROVE Spec => []FileAgrees
  BY DEF Serial, OneRequest
<1>1. Serves(r) => FileAgrees
  BY RestAgrees DEF FileAgrees
<1> QED
  BY <1>1, ServesInvariance, PTL

\* ... and the running server accepts the enabled users and no one else.
THEOREM ServerFollows == Serial /\ Spec => []ServerAgrees
<1> SUFFICES ASSUME Serial, NEW r \in Requests, Requests = {r} PROVE Spec => []ServerAgrees
  BY DEF Serial, OneRequest
<1>1. Serves(r) => ServerAgrees
  BY RestAgrees DEF ServerAgrees
<1> QED
  BY <1>1, ServesInvariance, PTL
-----------------------------------------------------------------------------
(* The refinement of AccessPromise.  What counts as the accounts are the   *)
(* records as they were when the request began: every step within a        *)
(* request is a stutter, and its answer is one step of the promise.        *)

Maps(r) ==
  /\ Committed = Before(job[r], users)
  /\ Answer = (IF Resting(r) THEN pc[r] ELSE "pending")
  /\ SettledAuth(config.auth) = ManagedAuth(Committed)
  /\ SettledAuth(live.auth) = ManagedAuth(Committed)

LEMMA TheOneRequest ==
  ASSUME NEW r, Requests = {r} PROVE (CHOOSE p \in Requests : TRUE) = r
OBVIOUS

LEMMA InFlightIs ==
  ASSUME NEW r \in Requests, Requests = {r}, NEW i
  PROVE  InFlight(i) = IF ~Resting(r) /\ job[r].id = i THEN {r} ELSE {}
BY DEF InFlight

LEMMA CommittedIs ==
  ASSUME NEW r \in Requests, Requests = {r}, IInv, Serves(r)
  PROVE  Committed = Before(job[r], users)
<1>1. users \in Directory /\ job[r] \in Job /\ Fits(job[r]) 
  BY JobNow DEF Procs
<1>2. CASE Resting(r)
  <2>1. job[r] = NoJob /\ NoJob.op = "none"
    BY <1>2 DEF Serves, Course, Resting, NoJob
  <2>2. Before(job[r], users) = users
    BY <2>1 DEF Before, UserOps
  <2>3. \A i \in UserIds : InFlight(i) = {}
    BY <1>2, InFlightIs
  <2>4. Committed = [i \in UserIds |-> users[i]]
    BY <2>3 DEF Committed
  <2> QED
    BY <1>1, <2>2, <2>4 DEF Directory
<1>3. CASE ~Resting(r) /\ job[r].op \notin UserOps
  <2>1. job[r].id = NoId /\ Before(job[r], users) = users
    BY <1>3 DEF Serves, Course, Before
  <2>2. \A i \in UserIds : InFlight(i) = {}
    BY <2>1, InFlightIs, NullAssumption
  <2>3. Committed = [i \in UserIds |-> users[i]]
    BY <2>2 DEF Committed
  <2> QED
    BY <1>1, <2>1, <2>3 DEF Directory
<1>4. CASE ~Resting(r) /\ job[r].op \in UserOps
  <2>1. job[r].id \in UserIds /\ Before(job[r], users) = [users EXCEPT ![job[r].id] = job[r].old]
    BY <1>1, <1>4 DEF Fits, Before
  <2>2. \A i \in UserIds : InFlight(i) = IF job[r].id = i THEN {r} ELSE {}
    BY <1>4, InFlightIs
  <2>3. (CHOOSE p \in {r} : TRUE) = r
    OBVIOUS
  <2>4. \A i \in UserIds : 
          (IF InFlight(i) = {} THEN users[i] ELSE job[CHOOSE p \in InFlight(i) : TRUE].old)
            = IF job[r].id = i THEN job[r].old ELSE users[i]
    <3> TAKE i \in UserIds
    <3>1. CASE job[r].id = i
      <4>1. InFlight(i) = {r}
        BY <2>2, <3>1
      <4> QED
        BY <2>3, <3>1, <4>1
    <3>2. CASE job[r].id # i
      BY <2>2, <3>2
    <3> QED
      BY <3>1, <3>2
  <2>5. Committed = [i \in UserIds |-> IF job[r].id = i THEN job[r].old ELSE users[i]]
    BY <2>4 DEF Committed
  <2> QED
    BY <1>1, <2>1, <2>5 DEF Directory
<1> QED
  BY <1>2, <1>3, <1>4

LEMMA MapsNow ==
  ASSUME NEW r \in Requests, Requests = {r}, IInv, Serves(r) PROVE Maps(r)
<1>1. Committed = Before(job[r], users)
  BY CommittedIs
<1>2. Answer = IF Resting(r) THEN pc[r] ELSE "pending"
  BY TheOneRequest DEF Answer
<1>3. Quiet <=> Resting(r)
  BY DEF Quiet, Procs, Serves
<1>4. CASE Resting(r)
  <2>1. job[r] = NoJob /\ NoJob.op = "none"
    BY <1>4 DEF Serves, Course, Resting, NoJob
  <2>2. Before(job[r], users) = users
    BY <2>1 DEF Before, UserOps
  <2>3. config.auth = ManagedAuth(users) /\ live.auth = ManagedAuth(users)
    BY <1>3, <1>4, RestAgrees
  <2> QED
    BY <1>1, <1>2, <1>3, <1>4, <2>2, <2>3 DEF Maps, SettledAuth
<1>5. CASE ~Resting(r)
  BY <1>1, <1>2, <1>3, <1>5 DEF Maps, SettledAuth
<1> QED
  BY <1>4, <1>5
\* The promise reads records and credentials as this module does.
LEMMA SameReading ==
  ASSUME NEW us PROVE /\ Promise!ManagedAuth(us) = ManagedAuth(us) 
                      /\ Promise!Stored(us) = Stored(us) /\ Promise!Enabled(us) = Enabled(us)
BY DEF Promise!ManagedAuth, ManagedAuth, Promise!Enabled, Enabled, Promise!Stored, Stored,
       Promise!CredentialOf, CredentialOf

PromiseStep == [Promise!Next]_(Promise!promised)

LEMMA Stutters ==
  ASSUME NEW r, Maps(r), Maps(r)', Committed' = Committed, Answer' = Answer
  PROVE  PromiseStep
BY DEF PromiseStep, Maps, Promise!promised

\* A request comes.
LEMMA Asks ==
  ASSUME NEW r, Maps(r), Maps(r)', Committed' = Committed, 
         Answer \in Rest, Answer' = "pending"
  PROVE  PromiseStep
<1>1. Promise!Asked
  BY DEF Maps, Promise!Asked, Promise!Answers, Rest
<1> QED
  BY <1>1 DEF PromiseStep, Promise!Next

\* A request is answered and has changed nothing.
LEMMA AnswersAsItWas ==
  ASSUME NEW r, Maps(r), Maps(r)', Committed' = Committed, 
         Answer = "pending", Answer' \in {"ok", "failed"}
  PROVE  PromiseStep
<1>1. Promise!Unchanged
  BY DEF Maps, Promise!Unchanged
<1> QED
  BY <1>1 DEF PromiseStep, Promise!Next

\* A request is answered and has changed one record.
LEMMA Becomes ==
  ASSUME NEW r, Maps(r), Maps(r)', NEW id, NEW u, NEW a,
         Committed' = [Committed EXCEPT ![id] = u], Answer = "pending", Answer' = a
  PROVE  Promise!Become(id, u, a)
BY SameReading DEF Maps, Promise!Become

\* Nothing but its own record changes while a request works, and what it
\* remembers of it stays.
LEMMA OwnRecord ==
  ASSUME IInv, NEW r \in Requests, Step(r)
  PROVE  \E l : \E k \in Job : 
           /\ Move(r, l, k) /\ k.op = job[r].op /\ k.id = job[r].id /\ k.old = job[r].old
           /\ \/ users' = users
              \/ \E u : job[r].op \in UserOps /\ users' = [users EXCEPT ![job[r].id] = u]
<1>1. PICK j \in Job : j = job[r] /\ At(pc[r], j) /\ Fits(j)
  BY JobNow DEF Procs
<1> DEFINE Goes == \E l : \E k \in Job : 
                     Move(r, l, k) /\ k.op = j.op /\ k.id = j.id /\ k.old = j.old
<1>2. ASSUME NEW l, Move(r, l, j) PROVE Goes
  BY <1>2
<1>3. ASSUME NEW kind, NEW l, Fault(r, kind, l) PROVE Goes
  <2> DEFINE k == [j EXCEPT !.faults = @ + 1]
  <2>1. k \in Job /\ k.op = j.op /\ k.id = j.id /\ k.old = j.old
    BY <1>1, <1>3, BoundsAssumption DEF Fault, Job
  <2>2. Move(r, l, k)
    BY <1>1, <1>3 DEF Fault
  <2> QED
    BY <2>1, <2>2
<1>4. ASSUME NEW kind, NEW l, Fails(r, kind, l) PROVE Goes
  BY <1>1, <1>2, <1>3, <1>4 DEF Fails
<1>5. ASSUME NEW l, NEW f \in Content, Move(r, l, [j EXCEPT !.file = f]) PROVE Goes
  <2> DEFINE k == [j EXCEPT !.file = f]
  <2>1. k \in Job /\ k.op = j.op /\ k.id = j.id /\ k.old = j.old
    BY DEF Job
  <2> QED
    BY <1>5, <2>1
<1> HIDE DEF Goes
<1>6. ASSUME NEW u, NEW l, NEW m, Store(r, j.id, u, l, m) 
      PROVE  Goes /\ (users' = users \/ users' = [users EXCEPT ![j.id] = u])
  BY <1>1, <1>2, <1>3, <1>4, <1>6 DEF Store
<1>7. ASSUME NEW l, Refuse(r, l) PROVE Goes /\ users' = users
  BY <1>1, <1>2, <1>7 DEF Refuse, stores
<1>8. CASE Update(r) \/ Toggle(r) \/ Remove(r) \/ Undo(r)
  <2>1. j.op \in UserOps
    BY <1>1, <1>8 DEF Update, Toggle, Remove, Undo, At, UserOps
  <2>2. (\E u, l, m : Store(r, j.id, u, l, m)) \/ (\E l : Refuse(r, l))
    BY <1>1, <1>8 DEF Update, Toggle, Remove, Undo
  <2> QED
    BY <1>1, <1>6, <1>7, <2>1, <2>2 DEF Goes
<1>9. CASE ReadConfig(r)
  <2>1. users' = users /\ config \in Content
    BY <1>9 DEF ReadConfig, stores, IInv, TypeOK
  <2> QED
    BY <1>1, <1>3, <1>5, <1>9, <2>1 DEF ReadConfig, Goes
<1>10. CASE Inject(r)
  <2> DEFINE next == [j.file EXCEPT !.auth = ManagedAuth(users)]
  <2>1. users' = users /\ next \in Content
    <3>1. users' = users /\ j.file \in Content /\ users \in Directory
      BY <1>1, <1>10 DEF Inject, stores, At, Fits, IInv, TypeOK
    <3>2. ManagedAuth(users) \subseteq Credential
      BY <3>1, ManagedAuthType
    <3> QED
      BY <3>1, <3>2 DEF Content
  <2>2. \/ \E l : Move(r, l, [j EXCEPT !.file = next])
        \/ \E l : Move(r, l, j)
        \/ \E l : Fails(r, "read", l)
    BY <1>1, <1>10 DEF Inject
  <2> QED
    BY <1>1, <1>2, <1>4, <1>5, <2>1, <2>2 DEF Goes
<1>11. CASE SaveConfig(r) \/ CheckConfig(r) \/ Restart(r) \/ Respond(r)
  <2>1. users' = users
    BY <1>11 DEF SaveConfig, CheckConfig, Restart, Respond, stores
  <2> QED
    BY <1>1, <1>2, <1>3, <1>4, <1>11, <2>1 DEF SaveConfig, CheckConfig, Restart, Respond, Goes
<1> QED
  BY <1>8, <1>9, <1>10, <1>11 DEF Step

\* Until it answers, a request leaves what counts as the accounts alone.
LEMMA InFlightKeeps ==
  ASSUME IInv, NEW r \in Requests, Step(r), pc'[r] \notin Rest
  PROVE  Before(job'[r], users') = Before(job[r], users)
<1>1. r \in Procs /\ Control /\ job[r] \in Job /\ Fits(job[r]) /\ users \in Directory
  BY ControlNow, JobNow DEF Procs
<1>2. PICK l : \E k \in Job : 
        /\ Move(r, l, k) /\ k.op = job[r].op /\ k.id = job[r].id /\ k.old = job[r].old
        /\ \/ users' = users
           \/ \E u : job[r].op \in UserOps /\ users' = [users EXCEPT ![job[r].id] = u]
  BY OwnRecord
<1>3. PICK k \in Job : 
        /\ Move(r, l, k) /\ k.op = job[r].op /\ k.id = job[r].id /\ k.old = job[r].old
  BY <1>2
<1>4. pc'[r] = l /\ job'[r] = Kept(l, k)
  BY <1>1, <1>3, Moved
<1>5. /\ job'[r].op = job[r].op /\ job'[r].id = job[r].id /\ job'[r].old = job[r].old
  BY <1>3, <1>4 DEF Kept, Job
<1>6. Before(job[r], users') = Before(job[r], users)
  BY <1>1, <1>2, BeforeIs
<1> QED
  BY <1>5, <1>6 DEF Before
Serving(r) == IInv /\ Alone(r) /\ Serves(r) /\ Maps(r)

LEMMA AtAnswer ==
  ASSUME NEW r \in Requests, Serving(r), Serving(r)', ~Resting(r), pc'[r] \in Rest
  PROVE  /\ Committed = Before(job[r], users) /\ Committed' = users'
         /\ Answer = "pending" /\ Answer' = pc'[r]
<1>1. Course(pc'[r], job'[r], users', config', live')
  BY DEF Serving, Serves
<1>2. job'[r] = NoJob /\ NoJob.op = "none"
  BY <1>1 DEF Course, NoJob
<1>3. Before(job'[r], users') = users'
  BY <1>2 DEF Before, UserOps
<1>4. Resting(r)' 
  BY DEF Resting
<1> QED
  BY <1>3, <1>4 DEF Serving, Maps

\* An answer given with the records as they were when the request began.
LEMMA GaveUp ==
  ASSUME NEW r \in Requests, Serving(r), Serving(r)', ~Resting(r), 
         pc'[r] \in Rest, pc'[r] \in {"ok", "failed"},
         users' = users, job[r].op \in UserOps => users[job[r].id] = job[r].old
  PROVE  PromiseStep
<1>1. job[r] \in Job /\ Fits(job[r]) /\ users \in Directory
  BY JobNow DEF Procs, Serving
<1>2. Before(job[r], users) = users
  BY <1>1, BeforeIs
<1>3. Committed' = Committed /\ Answer = "pending" /\ Answer' \in {"ok", "failed"}
  BY <1>2, AtAnswer
<1> QED
  BY <1>3, AnswersAsItWas DEF Serving

\* A synchronisation that ends in an answer had nothing to undo, or undid it.
LEMMA ErrorIsOld ==
  ASSUME NEW l \in {"read", "inject", "write", "restart"}, NEW j \in Job, Fits(j), 
         NEW c, NEW v, Course(l, j, users, c, v), OnError(j) \in Rest, j.op \in UserOps 
  PROVE  users[j.id] = j.old
<1>1. CASE j.undo
  BY <1>1 DEF Course, Rest
<1>2. CASE ~j.undo
  <2>1. j.op = "delete" /\ ~j.old.enabled /\ j.old \in User
    BY <1>2 DEF OnError, RollsBack, UserOps, Rest, Fits
  <2>2. Changed(j, users)
    BY <1>2 DEF Course, Rest
  <2>3. j.old = [j.old EXCEPT !.enabled = FALSE]
    BY <2>1 DEF User
  <2> QED
    BY <2>1, <2>2, <2>3 DEF Changed
<1> QED
  BY <1>1, <1>2

\* One record put back and changed again.
LEMMA OneRecord ==
  ASSUME NEW us \in Directory, NEW id \in UserIds, NEW old
  PROVE  us = [[us EXCEPT ![id] = old] EXCEPT ![id] = us[id]]
BY DEF Directory

\* A request that took effect: its record is that of the promise.
LEMMA CreateAnswers ==
  ASSUME NEW r \in Requests, Serving(r), Serving(r)', ~Resting(r), pc'[r] \in Rest, users' = users, 
         pc'[r] \in {"ok", "unread"}, job[r].op = "create", job[r].old = NoUser, Changed(job[r], users)
  PROVE  PromiseStep
<1>1. PICK id \in UserIds, u \in User : id = job[r].id /\ u = users[id] /\ u.enabled /\ u # NoUser
  BY JobNow, NoUserAssumption DEF Procs, Serving, Fits, UserOps, Changed
<1>2. users \in Directory /\ UniqueNames
  BY DEF Serving, IInv, TypeOK
<1>3. PICK a \in {"ok", "unread"} : a = pc'[r]
  OBVIOUS
<1>4. /\ Committed = [users EXCEPT ![id] = NoUser] /\ Committed' = users'
      /\ Answer = "pending" /\ Answer' = a
  BY <1>1, <1>3, AtAnswer DEF Before, UserOps
<1>5. /\ Committed' = [Committed EXCEPT ![id] = u] /\ Committed[id] = NoUser
      /\ \A i \in UserIds \ {id} : Committed[i] = users[i]
  <2>1. PICK us, cs : us \in Directory /\ us = users /\ cs = Committed
    BY <1>2
  <2>2. us = [[us EXCEPT ![id] = NoUser] EXCEPT ![id] = us[id]]
    BY <2>1, OneRecord
  <2>3. cs = [us EXCEPT ![id] = NoUser]
    BY <1>4, <2>1
  <2>4. cs[id] = NoUser /\ \A i \in UserIds \ {id} : cs[i] = us[i]
    BY <2>1, <2>3 DEF Directory
  <2> QED
    BY <1>1, <1>4, <2>1, <2>2, <2>3, <2>4
<1>6. id \notin Promise!Stored(Committed)
  BY <1>5 DEF Promise!Stored
<1>7. Promise!NameFree(Committed, id, u.name)
  BY <1>1, <1>2, <1>5 DEF Promise!NameFree, Promise!Stored, UniqueNames, Stored
<1>8. Promise!Become(id, u, a)
  BY <1>4, <1>5, Becomes DEF Serving
<1>9. u = [name |-> u.name, pass |-> u.pass, enabled |-> TRUE] /\ u.name \in Names /\ u.pass \in Passwords
  BY <1>1 DEF User
<1>10. Promise!Created
  BY <1>3, <1>6, <1>7, <1>8, <1>9, Zenon DEF Promise!Created
<1> QED
  BY <1>10 DEF PromiseStep, Promise!Next

LEMMA UpdateAnswers ==
  ASSUME NEW r \in Requests, Serving(r), Serving(r)', ~Resting(r), pc'[r] \in Rest, users' = users, 
         pc'[r] \in {"ok", "unread"}, job[r].op = "update", Changed(job[r], users)
  PROVE  PromiseStep
<1>1. PICK id \in UserIds, u \in User, old \in User : 
        id = job[r].id /\ u = users[id] /\ old = job[r].old /\ u.enabled = old.enabled
  BY JobNow DEF Procs, Serving, Fits, UserOps, Changed
<1>2. users \in Directory /\ UniqueNames /\ u # NoUser /\ old # NoUser
  BY <1>1, NoUserAssumption DEF Serving, IInv, TypeOK
<1>3. PICK a \in {"ok", "unread"} : a = pc'[r]
  OBVIOUS
<1>4. /\ Committed = [users EXCEPT ![id] = old] /\ Committed' = users'
      /\ Answer = "pending" /\ Answer' = a
  BY <1>1, <1>3, AtAnswer DEF Before, UserOps
<1>5. /\ Committed' = [Committed EXCEPT ![id] = u] /\ Committed[id] = old
      /\ \A i \in UserIds \ {id} : Committed[i] = users[i]
  <2>1. PICK us, cs : us \in Directory /\ us = users /\ cs = Committed
    BY <1>2
  <2>2. us = [[us EXCEPT ![id] = old] EXCEPT ![id] = us[id]]
    BY <2>1, OneRecord
  <2>3. cs = [us EXCEPT ![id] = old]
    BY <1>4, <2>1
  <2>4. cs[id] = old /\ \A i \in UserIds \ {id} : cs[i] = us[i]
    BY <2>1, <2>3 DEF Directory
  <2> QED
    BY <1>1, <1>4, <2>1, <2>2, <2>3, <2>4
<1>6. id \in Promise!Stored(Committed)
  BY <1>2, <1>5 DEF Promise!Stored
<1>7. Promise!NameFree(Committed, id, u.name)
  BY <1>1, <1>2, <1>5 DEF Promise!NameFree, Promise!Stored, UniqueNames, Stored
<1>8. Promise!Become(id, u, a)
  BY <1>4, <1>5, Becomes DEF Serving
<1>9. PICK n \in Names, w \in Passwords : n = u.name /\ w = u.pass
  BY DEF User
<1>10. u = [old EXCEPT !.name = n, !.pass = w]
  BY <1>1, <1>9 DEF User
<1>11. u = [Committed[id] EXCEPT !.name = n, !.pass = w]
  BY <1>5, <1>10
<1>12. Promise!NameFree(Committed, id, n)
       /\ Promise!Become(id, [Committed[id] EXCEPT !.name = n, !.pass = w], a)
  BY <1>7, <1>8, <1>9, <1>11
<1>13. Promise!Updated
  BY <1>3, <1>6, <1>12, Zenon DEF Promise!Updated
<1> QED
  BY <1>13 DEF PromiseStep, Promise!Next

LEMMA ToggleAnswers ==
  ASSUME NEW r \in Requests, Serving(r), Serving(r)', ~Resting(r), pc'[r] = "ok", users' = users, 
         job[r].op = "toggle", Changed(job[r], users)
  PROVE  PromiseStep
<1>1. PICK id \in UserIds, old \in User : id = job[r].id /\ old = job[r].old 
  BY JobNow DEF Procs, Serving, Fits, UserOps
<1> DEFINE u == [old EXCEPT !.enabled = ~old.enabled]
<1>10. users[id] = u
  BY <1>1 DEF Changed
<1> HIDE DEF u
<1>2. users \in Directory /\ old # NoUser
  BY NoUserAssumption DEF Serving, IInv, TypeOK
<1>3. PICK a \in Rest : a = "ok"
  BY DEF Rest
<1>4. /\ Committed = [users EXCEPT ![id] = old] /\ Committed' = users'
      /\ Answer = "pending" /\ Answer' = a
  BY <1>1, <1>3, AtAnswer DEF Before, UserOps
<1>5. Committed' = [Committed EXCEPT ![id] = u] /\ Committed[id] = old
  <2>1. PICK us, cs : us \in Directory /\ us = users /\ cs = Committed
    BY <1>2
  <2>2. us = [[us EXCEPT ![id] = old] EXCEPT ![id] = us[id]]
    BY <2>1, OneRecord
  <2>3. cs = [us EXCEPT ![id] = old]
    BY <1>4, <2>1
  <2>4. cs[id] = old /\ \A i \in UserIds \ {id} : cs[i] = us[i]
    BY <2>1, <2>3 DEF Directory
  <2> QED
    BY <1>4, <1>10, <2>1, <2>2, <2>3, <2>4
<1>6. id \in Promise!Stored(Committed)
  BY <1>2, <1>5 DEF Promise!Stored
<1>7. Promise!Become(id, u, a)
  BY <1>4, <1>5, Becomes DEF Serving
<1>8. u = [Committed[id] EXCEPT !.enabled = ~@]
  BY <1>5 DEF u
<1>9. Promise!Switched
  BY <1>3, <1>6, <1>7, <1>8, Zenon DEF Promise!Switched
<1> QED
  BY <1>9 DEF PromiseStep, Promise!Next
\* Removing the record is the last thing a delete does; if the record cannot
\* be removed, a user who was enabled stays disabled.
LEMMA RemoveAnswers ==
  ASSUME Serial, NEW r \in Requests, Serving(r), Serving(r)', Remove(r), pc'[r] \in Rest,
         pc'[r] \in {"ok", "failed"}
  PROVE  PromiseStep
<1>1. ~Resting(r) /\ pc[r] = "remove" /\ r \in Procs
  BY DEF Remove, Resting, Rest, Procs
<1>2. PICK j \in Job : 
        /\ j = job[r] /\ At(pc[r], j) /\ Fits(j) /\ users \in Directory
        /\ Stage(pc[r], j, users, config, live) /\ Course(pc[r], j, users, config, live)
  BY <1>1, CourseNow DEF Serving
<1>3. j.op = "delete" /\ ~j.undo /\ j.op \in UserOps
  BY <1>1, <1>2 DEF At, Stage, UserOps
<1>4. PICK id \in UserIds, old \in User : id = j.id /\ old = j.old /\ old # NoUser
  BY <1>2, <1>3, NoUserAssumption DEF Fits, UserOps
<1> DEFINE u == [old EXCEPT !.enabled = FALSE]
<1>5. users[id] = u /\ u \in User /\ u # NoUser
  <2>1. users[id] = u
    BY <1>1, <1>2, <1>3, <1>4 DEF Course, Changed, Rest
  <2>2. u \in User
    BY DEF User
  <2> QED
    BY <2>1, <2>2, NoUserAssumption
<1>6. Committed = [users EXCEPT ![id] = old] /\ Committed' = users' /\ Answer = "pending" 
      /\ Answer' = pc'[r]
  BY <1>1, <1>2, <1>3, <1>4, AtAnswer DEF Before
<1>7. Committed[id] = old
  BY <1>2, <1>6 DEF Directory
<1>8. \/ users' = [users EXCEPT ![id] = NoUser]
      \/ users' = users /\ \E kind : Fails(r, kind, "failed")
  <2>1. users[id] # NoUser
    BY <1>5
  <2> QED
    BY <1>2, <1>4, <2>1 DEF Remove, Store
<1>9. CASE users' = [users EXCEPT ![id] = NoUser]
  <2>1. PICK a \in {"ok", "failed"} : pc'[r] = a
    OBVIOUS
  <2>2. PICK us, vs, cs : us \in Directory /\ us = users /\ vs = users' /\ cs = Committed
    BY <1>2
  <2>3. [cs EXCEPT ![id] = NoUser] = vs
    <3>1. cs = [us EXCEPT ![id] = old] /\ vs = [us EXCEPT ![id] = NoUser]
      BY <1>6, <1>9, <2>2
    <3> QED
      BY <2>2, <3>1 DEF Directory
  <2>4. Committed' = [Committed EXCEPT ![id] = NoUser]
    BY <1>6, <2>2, <2>3
  <2>5. Promise!Become(id, NoUser, a)
    BY <1>6, <2>1, <2>4, Becomes DEF Serving
  <2>6. id \in Promise!Stored(Committed)
    BY <1>4, <1>7 DEF Promise!Stored
  <2>7. Promise!Removed
    BY <2>1, <2>5, <2>6, Zenon DEF Promise!Removed
  <2> QED
    BY <2>7 DEF PromiseStep, Promise!Next
<1>10. CASE users' = users /\ \E kind : Fails(r, kind, "failed")
  <2>1. PICK a \in Rest : a = "failed" /\ pc'[r] = a
    <3>1. Control
      BY ControlNow DEF Serving
    <3>2. pc'[r] = "failed"
      BY <1>1, <1>10, <3>1, Moved DEF Fails, Fault
    <3> QED
      BY <3>2 DEF Rest
  <2>2. CASE ~old.enabled
    <3>1. u = old
      BY <2>2 DEF User
    <3> QED
      BY <1>1, <1>2, <1>4, <1>5, <1>10, <2>1, <3>1, GaveUp
  <2>3. CASE old.enabled
    <3>1. PICK us, cs : us \in Directory /\ us = users /\ cs = Committed
      BY <1>2
    <3>2. us = [[us EXCEPT ![id] = old] EXCEPT ![id] = us[id]]
      BY <3>1, OneRecord
    <3>3. cs = [us EXCEPT ![id] = old] /\ us[id] = u
      BY <1>5, <1>6, <3>1
    <3>4. us = [cs EXCEPT ![id] = u]
      BY <3>1, <3>2, <3>3
    <3>5. Committed' = [Committed EXCEPT ![id] = u]
      BY <1>6, <1>10, <3>1, <3>4
    <3>6. u = [Committed[id] EXCEPT !.enabled = FALSE]
      BY <1>7
    <3> HIDE DEF u
    <3>7. Promise!Become(id, u, a)
      BY <1>6, <2>1, <3>5, Becomes DEF Serving
    <3>8. id \in Promise!Enabled(Committed)
      BY <1>4, <1>7, <2>3 DEF Promise!Stored, Promise!Enabled
    <3>9. Promise!LeftDisabled
      BY <2>1, <3>6, <3>7, <3>8, Zenon DEF Promise!LeftDisabled
    <3> QED
      BY <3>9 DEF PromiseStep, Promise!Next
  <2> QED
    BY <2>2, <2>3
<1> QED
  BY <1>8, <1>9, <1>10

\* A synchronisation that answers a request changed no record of its own.
LEMMA SyncAnswers ==
  ASSUME Serial, NEW r \in Requests, Serving(r), Serving(r)', pc'[r] \in Rest,
         pc'[r] \in {"ok", "failed"}, 
         ReadConfig(r) \/ Inject(r) \/ SaveConfig(r) \/ CheckConfig(r)
  PROVE  PromiseStep
<1>1. PICK l \in {"read", "inject", "write", "check"} : 
        l = pc[r] /\ (CheckConfig(r) => l = "check") /\ (~CheckConfig(r) => l # "check")
  BY DEF ReadConfig, Inject, SaveConfig, CheckConfig
<1>2. ~Resting(r) /\ r \in Procs /\ users' = users /\ Control
  BY <1>1, ControlNow DEF Resting, Rest, Procs, ReadConfig, Inject, SaveConfig, CheckConfig, stores,
     Serving
<1>3. PICK j \in Job : 
        /\ j = job[r] /\ Fits(j) /\ j.op \notin {"none", "boot"}
        /\ Stage(l, j, users, config, live) /\ Course(l, j, users, config, live)
  BY <1>1, <1>2, CourseNow DEF Serving
<1>4. ASSUME NEW m, \/ \E k : Move(r, m, k)
                    \/ \E kind : Fails(r, kind, m) \/ Fault(r, kind, m)
      PROVE  m \in Rest
  <2>1. \E k : Move(r, m, k)
    BY <1>4 DEF Fails, Fault
  <2> QED
    BY <1>2, <2>1, Moved
<1>5. ASSUME j.op \in UserOps PROVE users[j.id] = j.old
  <2>1. CASE CheckConfig(r)
    <3>1. j.op = "apply"
      BY <1>1, <1>3, <2>1 DEF Stage
    <3> QED
      BY <1>5, <3>1 DEF UserOps
  <2>2. CASE ~CheckConfig(r)
    <3>1. AfterSync(j, FALSE) \notin Rest /\ AfterSync(j, TRUE) \notin Rest
      BY <1>5 DEF AfterSync, Rest, UserOps
    <3>2. OnError(j) \in Rest
      <4>1. "inject" \notin Rest /\ "write" \notin Rest
        BY DEF Rest
      <4> QED
        BY <1>3, <1>4, <2>2, <3>1, <4>1 DEF ReadConfig, Inject, SaveConfig
    <3>3. l \in {"read", "inject", "write", "restart"}
      BY <1>1, <2>2
    <3> QED
      BY <1>3, <1>5, <3>2, <3>3, ErrorIsOld
  <2> QED
    BY <2>1, <2>2
<1> QED
  BY <1>2, <1>3, <1>5, GaveUp

\* The restart is the last call of an enable, a disable and an apply, and of
\* every request rolled back.
LEMMA RestartAnswers ==
  ASSUME Serial, NEW r \in Requests, Serving(r), Serving(r)', pc'[r] \in Rest, Restart(r),
         pc'[r] \in {"ok", "failed"}
  PROVE  PromiseStep
<1>1. PICK l \in {"read", "inject", "write", "restart"} : l = pc[r] /\ l = "restart" 
  BY DEF Restart
<1>2. ~Resting(r) /\ r \in Procs /\ users' = users /\ Control
  BY <1>1, ControlNow DEF Resting, Rest, Procs, Restart, Serving
<1>3. PICK j \in Job : 
        /\ j = job[r] /\ Fits(j) /\ j.op \notin {"none", "boot"}
        /\ Stage(l, j, users, config, live) /\ Course(l, j, users, config, live)
  BY <1>1, <1>2, CourseNow DEF Serving
<1>4. CASE OnError(j) \in Rest /\ j.op \in UserOps
  <2>1. users[j.id] = j.old
    BY <1>3, <1>4, ErrorIsOld
  <2> QED
    BY <1>2, <1>3, <2>1, GaveUp
<1>5. CASE j.op \notin UserOps
  BY <1>2, <1>3, <1>5, GaveUp
<1>6. CASE j.undo
  <2>1. OnError(j) \in Rest
    BY <1>6 DEF OnError, RollsBack, Rest
  <2> QED
    BY <1>4, <1>5, <2>1
<1>7. CASE ~j.undo /\ j.op \in UserOps /\ OnError(j) \notin Rest
  <2>1. Move(r, OnSynced(j), j)
    <3>1. \A kind : ~Fails(r, kind, OnError(j))
      BY <1>2, <1>7, Moved DEF Fails, Fault
    <3> QED
      BY <1>3, <3>1 DEF Restart
  <2>2. pc'[r] = OnSynced(j)
    BY <1>2, <2>1, Moved
  <2>3. pc'[r] = "ok" /\ j.op = "toggle"
    BY <1>7, <2>2 DEF OnSynced, Rest, UserOps
  <2>4. Changed(j, users)
    BY <1>1, <1>3, <1>7 DEF Course, Rest
  <2> QED
    BY <1>2, <1>3, <2>3, <2>4, ToggleAnswers
<1> QED
  BY <1>4, <1>5, <1>6, <1>7

\* A create and an update answer last, with whatever they could read.
LEMMA RespondAnswers ==
  ASSUME NEW r \in Requests, Serving(r), Serving(r)', pc'[r] \in Rest, Respond(r)
  PROVE  PromiseStep
<1>1. pc[r] = "respond" /\ ~Resting(r) /\ r \in Procs /\ users' = users
  BY DEF Respond, Resting, Rest, Procs, stores
<1>2. PICK j : /\ j = job[r] /\ At("respond", j) /\ Stage("respond", j, users, config, live)
               /\ Course("respond", j, users, config, live)
  BY <1>1, CourseNow DEF Serving
<1>3. j.op \in {"create", "update"} /\ Changed(j, users) /\ (j.op = "create" => j.old = NoUser)
  BY <1>2 DEF At, Stage, Course, Rest, UserOps
<1>4. pc'[r] \in {"ok", "unread"}
  <2>1. \E l \in {"ok", "unread"} : \E k : Move(r, l, k)
    BY DEF Respond, Fault
  <2> QED
    BY <1>1, <2>1, ControlNow, Moved DEF Serving
<1> QED
  BY <1>1, <1>2, <1>3, <1>4, CreateAnswers, UpdateAnswers

\* A request that begins remembers the record it found.
LEMMA BeginKeeps ==
  ASSUME Serial, IInv, NEW r \in Requests, Begin(r) 
  PROVE  pc'[r] \notin Rest /\ Before(job'[r], users') = users
<1>1. r \in Procs /\ Control /\ users \in Directory
  BY ControlNow, JobNow DEF Procs
<1>2. ASSUME NEW l \in {"update", "toggle", "read", "inject"}, NEW j, Move(r, l, j), 
             Before(j, users') = users
      PROVE  pc'[r] \notin Rest /\ Before(job'[r], users') = users
  <2>1. l \notin Rest /\ l # "undo"
    BY DEF Rest
  <2>2. pc'[r] = l /\ job'[r] = j
    BY <1>1, <1>2, <2>1, Moved, KeptAsIs
  <2> QED
    BY <1>2, <2>1, <2>2
<1>3. CASE Create(r)
  <2>1. PICK id, u :
          /\ id \in UserIds \ issued
          /\ users' = [users EXCEPT ![id] = u]
          /\ Move(r, "read", [NoJob EXCEPT !.op = "create", !.id = id])
    BY <1>3 DEF Create, Serial
  <2> DEFINE j == [NoJob EXCEPT !.op = "create", !.id = id]
  <2>2. j.op = "create" /\ j.id = id /\ j.old = NoUser
    BY DEF NoJob
  <2>3. Move(r, "read", j)
    BY <2>1
  <2> HIDE DEF j
  <2>4. users[id] = NoUser
    BY <2>1 DEF IInv, StoreShape, Stored
  <2>5. [users' EXCEPT ![id] = NoUser] = users
    BY <1>1, <2>1, <2>4 DEF Directory
  <2>6. Before(j, users') = users
    BY <2>2, <2>5 DEF Before, UserOps
  <2>7. PICK l \in {"update", "toggle", "read", "inject"} : l = "read"
    OBVIOUS
  <2> QED
    BY <1>2, <2>3, <2>6, <2>7
<1>4. ASSUME NEW id \in UserIds, NEW op, NEW l \in {"update", "toggle", "read"}, 
             Open(r, op, id, l)
      PROVE  pc'[r] \notin Rest /\ Before(job'[r], users') = users
  <2> DEFINE j == [NoJob EXCEPT !.op = op, !.id = id, !.old = users[id]]
  <2>1. j.op = op /\ j.id = id /\ j.old = users[id]
    BY DEF NoJob
  <2>2. users' = users /\ Move(r, l, j)
    BY <1>4 DEF Open, stores
  <2> HIDE DEF j
  <2>3. Before(j, users') = users
    BY <1>1, <2>1, <2>2, PutBack DEF Before
  <2> QED
    BY <1>2, <2>2, <2>3
<1>5. CASE OpenUpdate(r) \/ OpenToggle(r) \/ OpenDelete(r)
  <2>1. \E id \in UserIds : \E op : \E l \in {"update", "toggle", "read"} : Open(r, op, id, l)
    BY <1>5 DEF OpenUpdate, OpenToggle, OpenDelete
  <2> QED
    BY <1>4, <2>1
<1>6. ASSUME NEW j, j.op \in {"save", "apply"}, NEW l \in {"read", "inject"}, Move(r, l, j), 
             users' = users
      PROVE  pc'[r] \notin Rest /\ Before(job'[r], users') = users
  <2>1. Before(j, users') = users
    BY <1>6 DEF Before, UserOps
  <2> QED
    BY <1>2, <1>6, <2>1
<1>7. CASE SaveSettings(r)
  <2>1. PICK s \in Settings : 
          Move(r, "inject", [NoJob EXCEPT !.op = "save", 
                                          !.file = [auth |-> {}, settings |-> s]])
    BY <1>7 DEF SaveSettings
  <2> DEFINE j == [NoJob EXCEPT !.op = "save", !.file = [auth |-> {}, settings |-> s]]
  <2>2. j.op = "save" 
    BY DEF NoJob
  <2>3. Move(r, "inject", j) /\ users' = users
    BY <1>7, <2>1 DEF SaveSettings, stores
  <2> HIDE DEF j
  <2>4. PICK l \in {"read", "inject"} : l = "inject"
    OBVIOUS
  <2> QED
    BY <1>6, <2>2, <2>3, <2>4
<1>8. CASE ApplySettings(r)
  <2> DEFINE j == [NoJob EXCEPT !.op = "apply"]
  <2>1. j.op = "apply" 
    BY DEF NoJob
  <2>2. Move(r, "read", j) /\ users' = users
    BY <1>8 DEF ApplySettings, stores
  <2> HIDE DEF j
  <2>3. PICK l \in {"read", "inject"} : l = "read"
    OBVIOUS
  <2> QED
    BY <1>6, <2>1, <2>2, <2>3
<1> QED
  BY <1>3, <1>5, <1>7, <1>8 DEF Begin

\* Only a create or an update answers that it could not read.
LEMMA OthersAnswer ==
  ASSUME IInv, NEW r \in Procs, Step(r), ~Respond(r), pc'[r] \in Rest
  PROVE  pc'[r] \in {"ok", "failed"}
<1> DEFINE Goal == pc'[r] # "unread"
<1>1. /\ \A j : OnError(j) # "unread" /\ OnSynced(j) # "unread"
      /\ \A j, changed : AfterSync(j, changed) # "unread"
  BY DEF OnError, OnSynced, AfterSync
<1>2. ASSUME NEW l, l # "unread", NEW k, Move(r, l, k) PROVE Goal
  BY <1>2, ControlNow, Moved
<1>3. ASSUME NEW l, l # "unread", NEW kind, Fails(r, kind, l) \/ Fault(r, kind, l)
      PROVE  Goal
  BY <1>2, <1>3 DEF Fails, Fault
<1> SUFFICES Goal
  BY DEF Rest
<1> HIDE DEF Goal
<1>4. ASSUME NEW id, NEW u, NEW next, NEW error, next # "unread", error # "unread",
             Store(r, id, u, next, error)
      PROVE  Goal
  BY <1>2, <1>3, <1>4 DEF Store
<1>5. ASSUME NEW next, next # "unread", Refuse(r, next) PROVE Goal
  BY <1>2, <1>5 DEF Refuse
<1>6. CASE Update(r) 
  BY <1>4, <1>5, <1>6 DEF Update
<1>7. CASE Toggle(r) 
  BY <1>4, <1>5, <1>7 DEF Toggle
<1>8. CASE Remove(r) \/ Undo(r)
  BY <1>4, <1>5, <1>8 DEF Remove, Undo
<1>9. CASE ReadConfig(r) \/ CheckConfig(r) 
  BY <1>1, <1>2, <1>3, <1>9 DEF ReadConfig, CheckConfig
<1>10. CASE SaveConfig(r)
  BY <1>1, <1>2, <1>3, <1>10 DEF SaveConfig
<1>11. CASE Restart(r)
  BY <1>1, <1>2, <1>3, <1>11 DEF Restart
<1>12. CASE Inject(r)
  BY <1>1, <1>2, <1>3, <1>12 DEF Inject
<1> QED
  BY <1>6, <1>7, <1>8, <1>9, <1>10, <1>11, <1>12 DEF Step

LEMMA NextPromised ==
  ASSUME Serial, NEW r \in Requests, Requests = {r}, Serving(r), Serving(r)', [Next]_vars
  PROVE  PromiseStep
<1>1. r \in Procs /\ Procs = {r, Boot} /\ Resting(Boot)
  BY DEF Procs, Serving, Serves
<1>2. /\ Committed = Before(job[r], users) 
      /\ Committed' = Before(job'[r], users')
      /\ Answer = (IF pc[r] \in Rest THEN pc[r] ELSE "pending")
      /\ Answer' = (IF pc'[r] \in Rest THEN pc'[r] ELSE "pending")
  BY DEF Serving, Maps, Resting
<1>3. CASE UNCHANGED <<users, pc, job>>
  <2>1. Committed' = Committed /\ Answer' = Answer
    BY <1>2, <1>3
  <2> QED
    BY <2>1, Stutters DEF Serving
<1>4. ASSUME NEW p \in Procs, Begin(p) PROVE PromiseStep
  <2>1. p = r /\ pc[r] \in Rest
    BY <1>1, <1>4 DEF Begin, Create, OpenUpdate, OpenToggle, OpenDelete, Open, SaveSettings, 
       ApplySettings, Idle, Resting
  <2>2. pc'[r] \notin Rest /\ Before(job'[r], users') = users
    BY <1>4, <2>1, BeginKeeps DEF Serving
  <2>3. Before(job[r], users) = users
    <3>1. job[r] = NoJob /\ NoJob.op = "none"
      BY <2>1 DEF Serving, Serves, Course, NoJob
    <3> QED
      BY <3>1 DEF Before, UserOps
  <2>4. Committed' = Committed /\ Answer \in Rest /\ Answer' = "pending"
    BY <1>2, <2>1, <2>2, <2>3
  <2> QED
    BY <2>4, Asks DEF Serving
<1>5. CASE Step(r)
  <2>1. pc[r] \notin Rest
    BY <1>5 DEF Step, Update, Toggle, Remove, ReadConfig, Inject, SaveConfig, CheckConfig,
       Restart, Respond, Undo, Rest
  <2>2. CASE pc'[r] \notin Rest
    <3>1. Committed' = Committed /\ Answer' = Answer
      BY <1>2, <1>5, <2>1, <2>2, InFlightKeeps DEF Serving
    <3> QED
      BY <3>1, Stutters DEF Serving
  <2>3. CASE pc'[r] \in Rest
    <3>7. ASSUME ~Respond(r) PROVE pc'[r] \in {"ok", "failed"}
      BY <1>1, <1>5, <2>3, <3>7, OthersAnswer DEF Serving
    <3>8. pc[r] # "respond" => ~Respond(r)
      BY DEF Respond
    <3>1. CASE Remove(r)
      BY <2>3, <3>1, <3>7, <3>8, RemoveAnswers DEF Remove
    <3>2. CASE ReadConfig(r) \/ Inject(r) \/ SaveConfig(r) \/ CheckConfig(r)
      BY <2>3, <3>2, <3>7, <3>8, SyncAnswers DEF ReadConfig, Inject, SaveConfig, CheckConfig
    <3>3. CASE Restart(r)
      BY <2>3, <3>3, <3>7, <3>8, RestartAnswers DEF Restart
    <3>6. CASE Respond(r)
      BY <2>3, <3>6, RespondAnswers
    <3>4. CASE Update(r) \/ Toggle(r)
      <4>1. PICK j \in Job : j = job[r] /\ At(pc[r], j) /\ Fits(j) 
                             /\ Course(pc[r], j, users, config, live)
        BY <2>1, CourseNow DEF Resting, Serving
      <4>2. users[j.id] = j.old
        BY <3>4, <4>1 DEF Update, Toggle, Course
      <4>3. users' = users
        <5>1. ~Move(r, "read", j)
          BY <1>1, <2>3, ControlNow, Moved DEF Rest, Serving
        <5>2. \A u \in User : ~Fault(r, TornKind(u), "failed")
          BY TornRecord
        <5>3. /\ \A n \in Names, w \in Passwords : 
                   users[j.id] \in User => [users[j.id] EXCEPT !.name = n, !.pass = w] \in User
              /\ users[j.id] # NoUser => users[j.id] \in User /\ j.old \in User
              /\ users[j.id] \in User => 
                   [users[j.id] EXCEPT !.enabled = ~j.old.enabled] \in User
          <6>1. users \in Directory /\ j.id \in UserIds
            BY <3>4, <4>1 DEF Update, Toggle, At, Fits, UserOps, Serving, IInv, TypeOK
          <6> QED
            BY <4>2, <6>1 DEF Directory, User
        <5> QED
          BY <3>4, <4>1, <5>1, <5>2, <5>3 DEF Update, Toggle, Store, Refuse, stores
      <4> QED
        BY <2>1, <2>3, <3>4, <3>7, <3>8, <4>1, <4>2, <4>3, GaveUp DEF Resting, Update, Toggle
    <3>5. ~Undo(r)
      <4>1. Undo(r) => \E k : Move(r, "read", k)
        BY DEF Undo, Store, Fails, Fault
      <4> QED
        BY <1>1, <2>3, <4>1, ControlNow, Moved DEF Rest, Serving
    <3> QED
      BY <1>5, <3>1, <3>2, <3>3, <3>4, <3>5, <3>6 DEF Step
  <2> QED
    BY <2>2, <2>3
<1>6. ~Step(Boot)
  BY <1>1 DEF Step, Update, Toggle, Remove, ReadConfig, Inject, SaveConfig, CheckConfig,
     Restart, Respond, Undo, Resting, Rest
<1>7. \A p \in Procs : ~Disconnect(p)
  BY DEF Disconnect, Serial
<1>8. ~Crash
  BY DEF Crash, Serial, Serving, IInv, TypeOK
<1>9. CASE ServerRestart \/ UNCHANGED vars
  BY <1>3, <1>9 DEF ServerRestart, vars
<1>10. ~HandEdit
  BY DEF HandEdit, Serial
<1> QED
  BY <1>1, <1>4, <1>5, <1>6, <1>7, <1>8, <1>9, <1>10 DEF Next

\* Served one at a time, by a panel where at most one call of a request fails
\* (no write of a record after its effect), requests are transactions on the
\* records, the file and the server: a success, and the error that what to
\* answer with could not be read, means that the request took effect in all
\* three, another failure that it did in none (of a delete, see AccessPromise).
THEOREM PromiseKept == Serial /\ Spec => KeepsPromise
<1> SUFFICES ASSUME Serial, NEW r \in Requests, Requests = {r} PROVE Spec => KeepsPromise
  BY DEF Serial, OneRequest
<1>1. Init /\ Maps(r) => Promise!Init
  <2> SUFFICES ASSUME Init, Maps(r) PROVE Promise!Init
    OBVIOUS
  <2>1. r \in Procs /\ pc[r] \in Rest /\ pc[r] = "ok"
    BY DEF Init, Procs, Rest
  <2>2. job[r] = NoJob /\ NoJob.op = "none"
    BY <2>1 DEF Init, NoJob
  <2>3. Before(job[r], users) = users
    BY <2>2 DEF Before, UserOps
  <2>4. ManagedAuth(users) = {Bootstrap}
    BY DEF Init, ManagedAuth, Enabled, Stored
  <2>5. Committed = [i \in UserIds |-> NoUser] /\ Answer = "ok"
    BY <2>1, <2>3 DEF Init, Maps, Resting
  <2> QED
    BY <2>3, <2>4, <2>5 DEF Maps, Promise!Init
<1>2. IInv /\ Serves(r) => Maps(r)
  BY MapsNow
<1>3. Serving(r) /\ Serving(r)' /\ [Next]_vars => [Promise!Next]_(Promise!promised)
  BY NextPromised DEF PromiseStep
<1>4. Spec => []IInv /\ []Alone(r) /\ []Serves(r)
  BY Invariance, AloneInvariance, ServesInvariance
<1>5. IInv /\ Alone(r) /\ Serves(r) => Serving(r)
  BY <1>2 DEF Serving
<1> QED
  BY <1>1, <1>2, <1>3, <1>4, <1>5, PTL DEF Spec, KeepsPromise, Promise!Spec
=============================================================================
