----------------------------- MODULE PanelStore -----------------------------
(***************************************************************************)
(* The panel's numbered records: the audit log, the traffic and the system *)
(* snapshots, one file per record named by its number, and the states of   *)
(* the services, one file per service.  The counters behind the numbers    *)
(* are one more file, meta.json.  Every operation holds the repository     *)
(* lock from reading the counters to its last write, but it writes several *)
(* files, any of which may fail, and the panel may crash between two.      *)
(* Opening the repository creates the counters WITHOUT the lock; both the  *)
(* panel and the bootstrap-admin command open it.                          *)
(***************************************************************************)
EXTENDS Integers, FiniteSets

CONSTANTS
  Programs,          \* processes that open the repository
  Panel,             \* the one that serves and polls
  Workers,           \* goroutines of the panel
  Items,             \* contents of a record, and of the state of a service
  Services,
  NoMeta, NoState, NoOp, Free,
  PruneEvery,        \* systemSnapshotPruneEvery
  MaxFiles,          \* systemSnapshotMaxFiles
  MaxBatch,          \* bound: users polled together
  Limit,             \* bound: the largest number of each kind
  MaxFaults, MaxCrashes,
  FirstStartsApart   \* whether no two programs create the counters at once

Logs == {"audit", "traffic", "system"}
Kinds == Logs \cup {"service"}

ASSUME ProgramsAssumption == Panel \in Programs
ASSUME ServicesAssumption == Services \cap Logs = {}
ASSUME PruneAssumption == PruneEvery \in Nat \ {0} /\ MaxFiles \in Nat \ {0}
ASSUME BoundsAssumption ==
  /\ MaxBatch \in Nat \ {0}
  /\ Limit \in [Kinds -> Nat]
  /\ MaxFaults \in Nat
  /\ MaxCrashes \in Nat
  /\ FirstStartsApart \in BOOLEAN

Meta == [Kinds -> Nat]
Record == [id: Nat, item: Items]

Op == [of: Logs \cup Services,  \* the log, or the service, written
       id: Nat,                 \* number of the next record to write
       left: 1..MaxBatch,       \* records to write
       item: Items,
       counters: Meta]          \* the counters to save

ASSUME NullAssumption ==
  NoMeta \notin Meta /\ NoState \notin Record /\ NoOp \notin Op /\ Free \notin Workers

VARIABLES
  meta,      \* meta.json: the last number given out, by kind
  files,     \* files[log]: the records of a log
  states,    \* states[s]: the file of service s
  opening,   \* opening[g]: how far program g is in opening the repository
  lock,      \* the worker that holds the lock
  pc, op,    \* the next write of each worker, and its local variables
  faults, crashes

vars == <<meta, files, states, opening, lock, pc, op, faults, crashes>>
disk == <<meta, files, states>>

Numbers(log) == {f.id : f \in files[log]}

\* Writing a file that exists replaces it.
Put(records, id, x) == {f \in records : f.id # id} \cup {[id |-> id, item |-> x]}

-----------------------------------------------------------------------------
(* Opening the repository.                                                 *)

\* Variant: opening always writes fresh counters.
OpenStoreFresh(g) ==
  /\ opening[g] = "closed"
  /\ \A h \in Programs : opening[h] # "create"
  /\ opening' = [opening EXCEPT ![g] = "create"]
  /\ UNCHANGED <<disk, lock, pc, op, faults, crashes>>

OpenStore(g) ==
  /\ opening[g] = "closed"
  /\ FirstStartsApart => \A h \in Programs : opening[h] # "create"
  /\ opening' = [opening EXCEPT ![g] = IF meta = NoMeta THEN "create" ELSE "open"]
  /\ UNCHANGED <<disk, lock, pc, op, faults, crashes>>

\* loadMetaNoLock found no counters: it writes fresh ones.
CreateMeta(g) ==
  /\ opening[g] = "create"
  /\ meta' = [k \in Kinds |-> 0]
  /\ opening' = [opening EXCEPT ![g] = "open"]
  /\ UNCHANGED <<files, states, lock, pc, op, faults, crashes>>

\* The bootstrap-admin command ends, or could not create the counters.
CloseStore(g) ==
  /\ g # Panel
  /\ opening[g] # "closed"
  /\ opening' = [opening EXCEPT ![g] = "closed"]
  /\ UNCHANGED <<disk, lock, pc, op, faults, crashes>>

-----------------------------------------------------------------------------
(* Operations under the lock.                                              *)

LockIsFree == opening[Panel] = "open" /\ lock = Free

Begin(w, l, o) ==
  /\ LockIsFree
  /\ lock' = w
  /\ pc' = [pc EXCEPT ![w] = l]
  /\ op' = [op EXCEPT ![w] = o]
  /\ UNCHANGED <<disk, opening, faults, crashes>>

Release(w) ==
  /\ lock' = Free
  /\ pc' = [pc EXCEPT ![w] = "idle"]
  /\ op' = [op EXCEPT ![w] = NoOp]

Continue(w, l, o) ==
  /\ pc' = [pc EXCEPT ![w] = l]
  /\ op' = [op EXCEPT ![w] = o]
  /\ UNCHANGED lock

\* The operation returns an error.
Fail(w) ==
  /\ faults < MaxFaults
  /\ faults' = faults + 1
  /\ Release(w)

\* A file write: `effect' is what it leaves on the disk, `rest' the
\* remainder of the operation; it may fail before or after the rename.
Written(w, effect, rest) ==
  /\ \/ effect /\ rest /\ UNCHANGED faults
     \/ effect /\ Fail(w)
     \/ UNCHANGED disk /\ Fail(w)
  /\ UNCHANGED <<opening, crashes>>

\* InsertAuditLog, InsertHysteriaSnapshots and InsertSystemSnapshot number
\* their records; a poll inserts one traffic snapshot per user together.
BeginInsert(w, log, n) ==
  \E x \in Items :
    /\ LockIsFree
    /\ meta[log] + n <= Limit[log]
    /\ Begin(w, "save", [of |-> log, id |-> meta[log] + 1, left |-> n, item |-> x,
                         counters |-> [meta EXCEPT ![log] = @ + n]])

InsertAuditLog(w) == BeginInsert(w, "audit", 1)
InsertSystemSnapshot(w) == BeginInsert(w, "system", 1)
InsertHysteriaSnapshots(w) == \E n \in 1..MaxBatch : BeginInsert(w, "traffic", n)

\* Variant: every update takes a new number.
UpsertServiceStateNew(w) ==
  \E x \in Items, s \in Services :
    /\ LockIsFree
    /\ meta["service"] < Limit["service"]
    /\ Begin(w, "save", [of |-> s, id |-> meta["service"] + 1, left |-> 1, item |-> x,
                         counters |-> [meta EXCEPT !["service"] = @ + 1]])

\* UpsertServiceState numbers a service the first time only.
UpsertServiceState(w) ==
  \E x \in Items, s \in Services :
    \/ /\ states[s] # NoState
       /\ Begin(w, "write", [of |-> s, id |-> states[s].id, left |-> 1, item |-> x,
                             counters |-> meta])
    \/ /\ states[s] = NoState
       /\ LockIsFree
       /\ meta["service"] < Limit["service"]
       /\ Begin(w, "save", [of |-> s, id |-> meta["service"] + 1, left |-> 1, item |-> x,
                            counters |-> [meta EXCEPT !["service"] = @ + 1]])

\* Variant: an error of saving the counters is ignored.
SaveMetaIgnored(w) ==
  /\ pc[w] = "save"
  /\ \/ meta' = op[w].counters
     \/ UNCHANGED meta
  /\ Continue(w, "write", op[w])
  /\ UNCHANGED <<files, states, opening, faults, crashes>>

\* The counters are saved before the records they number.
SaveMeta(w) ==
  /\ pc[w] = "save"
  /\ Written(w, meta' = op[w].counters /\ UNCHANGED <<files, states>>,
             Continue(w, "write", op[w]))

\* The rest of a batch once its first record is written.
Following(o) == [of |-> o.of, id |-> o.id + 1, left |-> o.left - 1, item |-> o.item,
                 counters |-> o.counters]

\* Variant: one record too many.
AfterRecordMore(w, o) ==
  IF o.left > 0 THEN Continue(w, "write", Following(o)) ELSE Release(w)

\* What follows a record: the next of the batch, or now and then a pruning.
AfterRecord(w, o) ==
  LET due == o.of = "system" /\ o.id % PruneEvery = 0
  IN \/ o.left > 1 /\ Continue(w, "write", Following(o))
     \/ o.left <= 1 /\ due /\ Continue(w, "prune", o)
     \/ o.left <= 1 /\ ~due /\ Release(w)

WriteRecord(w) ==
  LET o == op[w]
  IN /\ pc[w] = "write"
     /\ o.of \in Logs
     /\ Written(w, /\ files' = [files EXCEPT ![o.of] = Put(@, o.id, o.item)]
                   /\ UNCHANGED <<meta, states>>,
                AfterRecord(w, o))

WriteState(w) ==
  LET o == op[w]
  IN /\ pc[w] = "write"
     /\ o.of \in Services
     /\ Written(w, /\ states' = [states EXCEPT ![o.of] = [id |-> o.id, item |-> o.item]]
                   /\ UNCHANGED <<meta, files>>,
                Release(w))

\* Variant: the newest go first.
PruneNewest(w) ==
  /\ pc[w] = "prune"
  /\ IF Cardinality(files["system"]) <= MaxFiles
       THEN Release(w) /\ UNCHANGED files
       ELSE /\ \E f \in files["system"] :
                 /\ \A i \in Numbers("system") : f.id >= i
                 /\ files' = [files EXCEPT !["system"] = @ \ {f}]
            /\ UNCHANGED <<lock, pc, op>>
  /\ UNCHANGED <<meta, states, opening, faults, crashes>>

\* Variant: one file too many is left.
PruneLess(w) ==
  /\ pc[w] = "prune"
  /\ IF Cardinality(files["system"]) <= MaxFiles + 1
       THEN Release(w) /\ UNCHANGED files
       ELSE /\ \E f \in files["system"] :
                 /\ \A i \in Numbers("system") : f.id <= i
                 /\ files' = [files EXCEPT !["system"] = @ \ {f}]
            /\ UNCHANGED <<lock, pc, op>>
  /\ UNCHANGED <<meta, states, opening, faults, crashes>>

\* pruneSystemSnapshotsNoLock removes the oldest files, one by one, until
\* MaxFiles are left; its errors are ignored.
Prune(w) ==
  /\ pc[w] = "prune"
  /\ IF Cardinality(files["system"]) <= MaxFiles
       THEN Release(w) /\ UNCHANGED <<files, faults>>
       ELSE \/ /\ \E f \in files["system"] :
                    /\ \A i \in Numbers("system") : f.id <= i
                    /\ files' = [files EXCEPT !["system"] = @ \ {f}]
               /\ UNCHANGED <<lock, pc, op, faults>>
            \/ Fail(w) /\ UNCHANGED files
  /\ UNCHANGED <<meta, states, opening, crashes>>

\* The panel dies: the kernel drops its file lock.
Crash ==
  /\ opening[Panel] # "closed"
  /\ crashes < MaxCrashes
  /\ crashes' = crashes + 1
  /\ opening' = [opening EXCEPT ![Panel] = "closed"]
  /\ lock' = Free
  /\ pc' = [w \in Workers |-> "idle"]
  /\ op' = [w \in Workers |-> NoOp]
  /\ UNCHANGED <<disk, faults>>

Init ==
  /\ meta = NoMeta
  /\ files = [log \in Logs |-> {}]
  /\ states = [s \in Services |-> NoState]
  /\ opening = [g \in Programs |-> "closed"]
  /\ lock = Free
  /\ pc = [w \in Workers |-> "idle"]
  /\ op = [w \in Workers |-> NoOp]
  /\ faults = 0
  /\ crashes = 0

Next ==
  \/ \E g \in Programs : OpenStore(g) \/ CreateMeta(g) \/ CloseStore(g)
  \/ \E w \in Workers :
       \/ InsertAuditLog(w)
       \/ InsertSystemSnapshot(w)
       \/ InsertHysteriaSnapshots(w)
       \/ UpsertServiceState(w)
       \/ SaveMeta(w)
       \/ WriteRecord(w)
       \/ WriteState(w)
       \/ Prune(w)
  \/ Crash

Spec == Init /\ [][Next]_vars

-----------------------------------------------------------------------------
(* Properties.                                                             *)

TypeOK ==
  /\ meta \in Meta \cup {NoMeta}
  /\ files \in [Logs -> SUBSET Record]
  /\ states \in [Services -> Record \cup {NoState}]
  /\ opening \in [Programs -> {"closed", "create", "open"}]
  /\ lock \in Workers \cup {Free}
  /\ pc \in [Workers -> {"idle", "save", "write", "prune"}]
  /\ op \in [Workers -> Op \cup {NoOp}]
  /\ faults \in 0..MaxFaults
  /\ crashes \in 0..MaxCrashes

NumberedOnce ==
  \A log \in Logs : \A f \in files[log] :
    f \notin files'[log] => f.id \notin {g.id : g \in files'[log]}

\* A number is never given out twice: no record is written over another one,
\* whichever writes failed or were cut off by a crash since.  Opening the
\* repository must not reset the counters, and a counter must be on disk
\* before the first record it numbers.
NeverOverwritten == [][NumberedOnce]_vars

\* The same as a state: what is on disk is numbered by the counters on disk.
CountersAhead ==
  /\ \A log \in Logs : files[log] # {} => meta # NoMeta
  /\ meta # NoMeta =>
       /\ \A log \in Logs : \A f \in files[log] : f.id <= meta[log]
       /\ \A s \in Services : states[s] # NoState => states[s].id <= meta["service"]

KeepsNumbers ==
  \A s, t \in Services :
    states[s] # NoState =>
      /\ states'[s] # NoState
      /\ states'[s].id = states[s].id
      /\ s # t => states'[t] = NoState \/ states'[t].id # states'[s].id

\* A service keeps the number it got first, and shares it with no other:
\* which is why an update reads the old state under the lock.
ServicesKeepNumber == [][KeepsNumbers]_vars

\* Pruning, even one cut short by an error or a crash, removes the oldest
\* snapshots only and always leaves MaxFiles of them.
PruneKeepsNewest ==
  [][\A f \in files["system"] \ files'["system"] :
       /\ \A g \in files'["system"] : f.id < g.id
       /\ Cardinality(files'["system"]) >= MaxFiles]_vars

\* The system snapshots stay bounded: between two prunings PruneEvery more
\* come, and each failed write or crash can make one pruning fall out.
SnapshotsBounded ==
  lock = Free => 
    Cardinality(files["system"]) < MaxFiles + PruneEvery * (1 + faults + crashes)
=============================================================================
