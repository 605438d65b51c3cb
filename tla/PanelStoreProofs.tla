-------------------------- MODULE PanelStoreProofs --------------------------
(***************************************************************************)
(* Numbers are never given out twice, and the system snapshots stay within *)
(* their bound, for any number of programs, workers, failing writes and    *)
(* crashes, as long as no two programs create the counters at once.        *)
(***************************************************************************)
EXTENDS PanelStore, FiniteSetTheorems, TLAPS

\* A worker between two writes holds the lock, in an open repository.
Holding ==
  \A w \in Workers :
    pc[w] # "idle" => lock = w /\ op[w] \in Op /\ opening[Panel] = "open"

\* Whoever is creating the counters is alone, and there are none yet.
Opened ==
  /\ \A g \in Programs : opening[g] = "open" => meta # NoMeta
  /\ \A g \in Programs : opening[g] = "create" => meta = NoMeta
  /\ \A g, h \in Programs : opening[g] = "create" /\ opening[h] = "create" => g = h

\* The counters about to be saved cover the records to be written, whose
\* numbers are above every number given out so far.
SaveReady(o) ==
  /\ \A k \in Kinds : o.counters[k] >= meta[k]
  /\ o.of \in Logs => /\ o.id > meta[o.of]
                      /\ o.id + o.left - 1 <= o.counters[o.of]
  /\ o.of \in Services => /\ states[o.of] = NoState
                          /\ o.id > meta["service"]
                          /\ o.id <= o.counters["service"]

WriteReady(o) ==
  /\ o.of \in Logs => /\ o.id + o.left - 1 <= meta[o.of]
                      /\ \A f \in files[o.of] : f.id < o.id
  /\ o.of \in Services => 
       /\ o.id <= meta["service"]
       /\ states[o.of] # NoState => states[o.of].id = o.id
       /\ \A s \in Services \ {o.of} : states[s] # NoState => states[s].id # o.id

Ready ==
  \A w \in Workers : 
    /\ pc[w] = "save" => SaveReady(op[w])
    /\ pc[w] = "write" => WriteReady(op[w])

DistinctNumbers ==
  \A s, t \in Services :
    s # t /\ states[s] # NoState /\ states[t] # NoState => states[s].id # states[t].id

\* A log holds no two records of one number.
UniqueNumbers == 
  \A log \in Logs : \A f, g \in files[log] : f.id = g.id => f = g

ServicesAhead == \A s \in Services : states[s] # NoState => meta # NoMeta

IInv ==
  /\ FirstStartsApart
  /\ TypeOK
  /\ Holding
  /\ Opened
  /\ CountersAhead
  /\ ServicesAhead
  /\ Ready
  /\ UniqueNumbers
  /\ DistinctNumbers

-----------------------------------------------------------------------------

LEMMA KindFacts == Logs \subseteq Kinds /\ "service" \in Kinds /\ "service" \notin Logs
BY DEF Kinds, Logs

LEMMA InitKeeps == FirstStartsApart /\ Init => IInv
<1> SUFFICES ASSUME FirstStartsApart, Init PROVE IInv
  OBVIOUS
<1> USE BoundsAssumption, NullAssumption DEF Init
<1>1. TypeOK
  BY DEF TypeOK
<1>2. Holding /\ Opened /\ Ready
  BY DEF Holding, Opened, Ready
<1>3. CountersAhead /\ ServicesAhead /\ UniqueNumbers /\ DistinctNumbers
  BY DEF CountersAhead, ServicesAhead, UniqueNumbers, DistinctNumbers
<1> QED
  BY <1>1, <1>2, <1>3 DEF IInv

\* Opening touches neither the records nor the workers.
LEMMA OpenKeeps == ASSUME IInv, NEW g \in Programs, OpenStore(g) PROVE IInv'
<1> USE DEF IInv, OpenStore, disk
<1>1. TypeOK'
  BY DEF TypeOK
<1>2. Holding'
  <2>1. g # Panel \/ \A w \in Workers : pc[w] = "idle"
    BY DEF Holding
  <2> QED
    BY <2>1, ProgramsAssumption DEF Holding, TypeOK
<1>3. Opened'
  BY DEF Opened, TypeOK
<1>4. CountersAhead' /\ ServicesAhead' /\ UniqueNumbers' /\ DistinctNumbers'
  BY DEF CountersAhead, ServicesAhead, UniqueNumbers, DistinctNumbers
<1>5. Ready'
  BY DEF Ready, SaveReady, WriteReady
<1> QED
  BY <1>1, <1>2, <1>3, <1>4, <1>5

LEMMA CreateKeeps == ASSUME IInv, NEW g \in Programs, CreateMeta(g) PROVE IInv'
<1> USE DEF IInv, CreateMeta
<1>1. meta = NoMeta /\ \A h \in Programs : opening[h] # "open"
  BY DEF Opened
<1>2. \A w \in Workers : pc[w] = "idle"
  BY <1>1, ProgramsAssumption DEF Holding
<1>3. TypeOK'
  BY DEF TypeOK, Meta
<1>4. Holding' /\ Ready'
  BY <1>2 DEF Holding, Ready
<1>5. Opened'
  <2>1. meta' # NoMeta
    BY NullAssumption DEF Meta
  <2> QED
    BY <1>1, <2>1 DEF Opened, TypeOK
<1>6. CountersAhead' /\ ServicesAhead' /\ UniqueNumbers' /\ DistinctNumbers'
  BY <1>1 DEF CountersAhead, ServicesAhead, UniqueNumbers, DistinctNumbers
<1> QED
  BY <1>3, <1>4, <1>5, <1>6

LEMMA CloseKeeps == ASSUME IInv, NEW g \in Programs, CloseStore(g) PROVE IInv'
<1> USE DEF IInv, CloseStore, disk
<1>1. TypeOK'
  BY DEF TypeOK
<1>2. Holding'
  BY ProgramsAssumption DEF Holding, TypeOK
<1>3. Opened'
  BY DEF Opened, TypeOK
<1>4. CountersAhead' /\ ServicesAhead' /\ UniqueNumbers' /\ DistinctNumbers'
  BY DEF CountersAhead, ServicesAhead, UniqueNumbers, DistinctNumbers
<1>5. Ready'
  BY DEF Ready, SaveReady, WriteReady
<1> QED
  BY <1>1, <1>2, <1>3, <1>4, <1>5

-----------------------------------------------------------------------------

\* Taking the lock: nobody else is between two writes.
LEMMA BeginKeeps ==
  ASSUME IInv, NEW w \in Workers, NEW l \in {"save", "write"}, NEW o \in Op, Begin(w, l, o),
         l = "save" => SaveReady(o), l = "write" => WriteReady(o)
  PROVE  IInv'
<1> USE DEF IInv, Begin, LockIsFree, disk
<1>1. \A v \in Workers : pc[v] = "idle"
  BY NullAssumption DEF Holding
<1>2. TypeOK'
  BY DEF TypeOK
<1>3. \A v \in Workers : /\ v = w => pc'[v] = l /\ op'[v] = o
                         /\ v # w => pc'[v] = "idle"
  BY <1>1 DEF TypeOK
<1>4. Holding'
  BY <1>3 DEF Holding
<1>5. Opened' /\ CountersAhead' /\ ServicesAhead' /\ UniqueNumbers' /\ DistinctNumbers'
  BY DEF Opened, CountersAhead, ServicesAhead, UniqueNumbers, DistinctNumbers
<1>6. Ready'
  BY <1>3 DEF Ready, SaveReady, WriteReady
<1> QED
  BY <1>2, <1>4, <1>5, <1>6

LEMMA InsertKeeps ==
  ASSUME IInv, NEW w \in Workers, NEW log \in Logs, NEW n \in 1..MaxBatch, BeginInsert(w, log, n)
  PROVE  IInv'
<1>1. PICK x \in Items :
        /\ LockIsFree
        /\ Begin(w, "save", [of |-> log, id |-> meta[log] + 1, left |-> n, item |-> x,
                             counters |-> [meta EXCEPT ![log] = @ + n]])
  BY DEF BeginInsert
<1> DEFINE o == [of |-> log, id |-> meta[log] + 1, left |-> n, item |-> x,
                 counters |-> [meta EXCEPT ![log] = @ + n]]
<1>2. meta \in Meta
  BY <1>1, ProgramsAssumption DEF LockIsFree, IInv, Opened, TypeOK
<1>3. log \in Kinds /\ meta[log] \in Nat
  BY <1>2, KindFacts DEF Meta
<1>4. o.counters \in Meta /\ \A k \in Kinds : o.counters[k] = IF k = log THEN meta[k] + n ELSE meta[k]
  BY <1>2, <1>3, BoundsAssumption DEF Meta
<1>5. o \in Op
  BY <1>3, <1>4 DEF Op
<1>6. SaveReady(o)
  BY <1>2, <1>3, <1>4, BoundsAssumption, ServicesAssumption DEF SaveReady, Meta
<1> QED
  BY <1>1, <1>5, <1>6, BeginKeeps

LEMMA UpsertKeeps ==
  ASSUME IInv, NEW w \in Workers, UpsertServiceState(w) PROVE IInv'
<1> USE DEF IInv
<1>1. PICK x \in Items, s \in Services :
        \/ /\ states[s] # NoState
           /\ Begin(w, "write", [of |-> s, id |-> states[s].id, left |-> 1, item |-> x,
                                 counters |-> meta])
        \/ /\ states[s] = NoState
           /\ LockIsFree
           /\ Begin(w, "save", [of |-> s, id |-> meta["service"] + 1, left |-> 1, item |-> x,
                                counters |-> [meta EXCEPT !["service"] = @ + 1]])
  BY DEF UpsertServiceState
<1>2. meta \in Meta /\ meta["service"] \in Nat
  BY <1>1, ProgramsAssumption, KindFacts DEF Begin, LockIsFree, Opened, TypeOK, Meta
<1>3. CASE states[s] # NoState
  <2> DEFINE o == [of |-> s, id |-> states[s].id, left |-> 1, item |-> x, counters |-> meta]
  <2>1. states[s] \in Record
    BY <1>3 DEF TypeOK
  <2>2. o \in Op
    BY <1>2, <2>1, BoundsAssumption DEF Op, Record
  <2>3. WriteReady(o)
    BY <1>2, <1>3, <2>1, ServicesAssumption DEF WriteReady, CountersAhead, DistinctNumbers,
       ServicesAhead, Record
  <2>4. Begin(w, "write", o)
    BY <1>1, <1>3
  <2> QED
    BY <2>2, <2>3, <2>4, BeginKeeps
<1>4. CASE states[s] = NoState
  <2> DEFINE c == [meta EXCEPT !["service"] = @ + 1]
             o == [of |-> s, id |-> meta["service"] + 1, left |-> 1, item |-> x, counters |-> c]
  <2>1. c \in Meta /\ \A k \in Kinds : c[k] = IF k = "service" THEN meta[k] + 1 ELSE meta[k]
    BY <1>2, KindFacts DEF Meta
  <2>2. o \in Op
    BY <1>2, <2>1, BoundsAssumption DEF Op
  <2>3. SaveReady(o)
    BY <1>2, <1>4, <2>1, KindFacts, ServicesAssumption DEF SaveReady, Meta
  <2>4. Begin(w, "save", o)
    BY <1>1, <1>4
  <2> QED
    BY <2>2, <2>3, <2>4, BeginKeeps
<1> QED
  BY <1>3, <1>4

-----------------------------------------------------------------------------

DiskInv ==
  /\ meta \in Meta
  /\ files \in [Logs -> SUBSET Record]
  /\ states \in [Services -> Record \cup {NoState}]
  /\ CountersAhead
  /\ ServicesAhead
  /\ UniqueNumbers
  /\ DistinctNumbers

\* The holder of the lock goes on or lets go; everybody else is idle, so that
\* only its own next write has to fit the disk it leaves.
LEMMA HolderKeeps ==
  ASSUME IInv, NEW w \in Workers, pc[w] # "idle", DiskInv',
         UNCHANGED <<opening, crashes>>, faults' \in 0..MaxFaults,
         \/ Release(w)
         \/ \E l \in {"write", "prune"}, o \in Op : 
              /\ Continue(w, l, o) 
              /\ op'[w] = o 
              /\ l = "write" => WriteReady(op[w])'
  PROVE  IInv'
<1> USE DEF IInv
<1>1. \A v \in Workers \ {w} : pc[v] = "idle"
  BY DEF Holding
<1>2. lock = w /\ opening[Panel] = "open"
  BY DEF Holding
<1>3. TypeOK'
  BY DEF TypeOK, DiskInv, Release, Continue
<1>4. \A v \in Workers \ {w} : pc'[v] = "idle"
  BY <1>1 DEF TypeOK, Release, Continue
<1>5. Holding'
  BY <1>2, <1>4, NullAssumption DEF TypeOK, Holding, Release, Continue
<1>6. Opened'
  BY <1>2, NullAssumption, ProgramsAssumption DEF Opened, DiskInv
<1>7. Ready'
  <2>1. CASE Release(w)
    BY <1>4, <2>1 DEF TypeOK, Release, Ready
  <2>2. CASE \E l \in {"write", "prune"}, o \in Op : 
               /\ Continue(w, l, o) 
               /\ op'[w] = o 
               /\ l = "write" => WriteReady(op[w])'
    BY <1>4, <2>2 DEF TypeOK, Continue, Ready
  <2> QED
    BY <2>1, <2>2
<1> QED
  BY <1>3, <1>5, <1>6, <1>7 DEF DiskInv

LEMMA DiskNow ==
  ASSUME IInv, NEW w \in Workers, pc[w] # "idle"
  PROVE  DiskInv /\ op[w] \in Op /\ op[w].counters \in Meta /\ op[w].id \in Nat 
         /\ op[w].left \in 1..MaxBatch /\ op[w].item \in Items 
BY ProgramsAssumption DEF IInv, Holding, Opened, TypeOK, DiskInv, Op

LEMMA FailKeeps ==
  ASSUME IInv, NEW w \in Workers, pc[w] # "idle", DiskInv', Fail(w),
         UNCHANGED <<opening, crashes>>
  PROVE  IInv'
<1>1. faults' \in 0..MaxFaults
  BY BoundsAssumption DEF Fail, IInv, TypeOK
<1> QED
  BY <1>1, HolderKeeps DEF Fail

LEMMA SaveMetaKeeps == ASSUME IInv, NEW w \in Workers, SaveMeta(w) PROVE IInv'
<1>1. pc[w] = "save" /\ SaveReady(op[w])
  BY DEF SaveMeta, IInv, Ready
<1>2. PICK o \in Op : o = op[w]
  BY <1>1, DiskNow
<1>3. ASSUME meta' = op[w].counters, UNCHANGED <<files, states>> PROVE DiskInv'
  <2>1. DiskInv /\ o.counters \in Meta
    BY <1>1, <1>2, DiskNow
  <2>2. \A k \in Kinds : meta[k] \in Nat /\ meta'[k] \in Nat /\ meta'[k] >= meta[k]
    BY <1>1, <1>2, <1>3, <2>1 DEF DiskInv, Meta, SaveReady
  <2>3. meta # NoMeta /\ meta' # NoMeta
    BY <1>2, <1>3, <2>1, NullAssumption DEF DiskInv
  <2>4. CountersAhead'
    <3>1. \A log \in Logs : \A f \in files[log] : f.id \in Nat /\ f.id <= meta'[log]
      BY <2>1, <2>2, <2>3, KindFacts DEF DiskInv, CountersAhead, Record
    <3>2. \A s \in Services : 
            states[s] # NoState => states[s].id \in Nat /\ states[s].id <= meta'["service"]
      BY <2>1, <2>2, <2>3, KindFacts DEF DiskInv, CountersAhead, Record
    <3> QED
      BY <1>3, <2>3, <3>1, <3>2 DEF CountersAhead
  <2> QED
    BY <1>2, <1>3, <2>1, <2>3, <2>4 DEF DiskInv, ServicesAhead, UniqueNumbers, DistinctNumbers
<1>4. CASE UNCHANGED disk /\ Fail(w) /\ UNCHANGED <<opening, crashes>>
  <2>1. DiskInv'
    BY <1>1, <1>4, DiskNow DEF disk, DiskInv, CountersAhead, ServicesAhead, UniqueNumbers, DistinctNumbers
  <2> QED
    BY <1>1, <1>4, <2>1, FailKeeps
<1>5. CASE meta' = op[w].counters /\ UNCHANGED <<files, states, opening, crashes>> /\ Fail(w)
  BY <1>1, <1>3, <1>5, FailKeeps
<1>6. CASE /\ meta' = op[w].counters 
           /\ UNCHANGED <<files, states, opening, crashes, faults>>
           /\ Continue(w, "write", op[w])
  <2>1. DiskInv /\ DiskInv'
    BY <1>1, <1>3, <1>6, DiskNow
  <2>2. op'[w] = o
    BY <1>2, <1>6 DEF Continue, IInv, TypeOK
  <2>3. WriteReady(op[w])'
    <3>1. ASSUME o.of \in Logs 
          PROVE  o.id + o.left - 1 <= meta'[o.of] /\ \A f \in files[o.of] : f.id < o.id
      <4>1. o.of \in Kinds /\ meta[o.of] \in Nat /\ o.id \in Nat /\ o.id > meta[o.of]
        BY <1>1, <1>2, <2>1, <3>1, KindFacts DEF SaveReady, DiskInv, Meta, Op
      <4>2. \A f \in files[o.of] : f.id \in Nat /\ f.id <= meta[o.of]
        BY <2>1, <3>1, NullAssumption DEF DiskInv, CountersAhead, Record
      <4> QED
        BY <1>1, <1>2, <1>6, <3>1, <4>1, <4>2 DEF SaveReady
    <3>2. ASSUME o.of \in Services 
          PROVE  /\ o.id <= meta'["service"]
                 /\ states[o.of] = NoState
                 /\ \A s \in Services : states[s] # NoState => states[s].id # o.id
      <4>1. meta["service"] \in Nat /\ o.id \in Nat /\ o.id > meta["service"]
        BY <1>1, <1>2, <2>1, <3>2, KindFacts DEF SaveReady, DiskInv, Meta, Op
      <4>2. \A s \in Services : 
              states[s] # NoState => states[s].id \in Nat /\ states[s].id <= meta["service"]
        BY <2>1, NullAssumption DEF DiskInv, CountersAhead, Record
      <4> QED
        BY <1>1, <1>2, <1>6, <3>2, <4>1, <4>2 DEF SaveReady
    <3> QED
      BY <1>6, <2>2, <3>1, <3>2 DEF WriteReady
  <2>4. faults' \in 0..MaxFaults
    BY <1>6 DEF IInv, TypeOK
  <2> QED
    BY <1>1, <1>2, <1>6, <2>1, <2>2, <2>3, <2>4, HolderKeeps
<1> QED
  BY <1>4, <1>5, <1>6 DEF SaveMeta, Written, disk

LEMMA WriteRecordKeeps == ASSUME IInv, NEW w \in Workers, WriteRecord(w) PROVE IInv'
<1>1. pc[w] = "write" /\ WriteReady(op[w]) /\ op[w].of \in Logs
  BY DEF WriteRecord, IInv, Ready
<1>2. PICK o \in Op : o = op[w]
  BY <1>1, DiskNow
<1>3. DiskInv /\ meta # NoMeta
  BY <1>1, DiskNow, NullAssumption DEF DiskInv
<1>4. /\ o.of \in Logs /\ o.of \in Kinds /\ o.id \in Nat /\ o.left \in 1..MaxBatch 
      /\ o.item \in Items /\ o.counters \in Meta /\ meta[o.of] \in Nat
      /\ o.id + o.left - 1 <= meta[o.of]
      /\ \A f \in files[o.of] : f.id < o.id
  BY <1>1, <1>2, <1>3, KindFacts DEF WriteReady, Op, DiskInv, Meta
<1> DEFINE effect == /\ files' = [files EXCEPT ![op[w].of] = Put(@, op[w].id, op[w].item)]
                     /\ UNCHANGED <<meta, states>>
<1>5. ASSUME effect 
      PROVE  /\ DiskInv' 
             /\ \A f \in files'[o.of] : f.id \in Nat /\ f.id <= o.id
  <2>1. \A log \in Logs : 
          files'[log] = IF log = o.of THEN Put(files[log], o.id, o.item) ELSE files[log]
    BY <1>2, <1>3, <1>5 DEF DiskInv
  <2>2. files'[o.of] \subseteq Record /\ \A f \in files'[o.of] : f.id <= o.id
    <3>1. files'[o.of] = {f \in files[o.of] : f.id # o.id} \cup {[id |-> o.id, item |-> o.item]}
      BY <1>4, <2>1 DEF Put
    <3>2. [id |-> o.id, item |-> o.item] \in Record
      BY <1>4 DEF Record
    <3>3. files[o.of] \subseteq Record /\ \A f \in files[o.of] : f.id \in Nat
      BY <1>3, <1>4 DEF Record, DiskInv
    <3>4. files'[o.of] \subseteq Record
      BY <3>1, <3>2, <3>3
    <3>5. \A f \in files'[o.of] : f.id <= o.id
      BY <1>4, <3>1, <3>3
    <3> QED
      BY <3>4, <3>5
  <2>3. files' \in [Logs -> SUBSET Record]
    BY <1>2, <1>3, <1>4, <1>5, <2>1, <2>2 DEF DiskInv
  <2>4. \A log \in Logs : \A f \in files'[log] : f.id <= meta[log]
    <3> SUFFICES ASSUME NEW log \in Logs, NEW f \in files'[log] PROVE f.id <= meta[log]
      OBVIOUS
    <3>1. CASE log = o.of
      <4>1. f.id \in Nat /\ f.id <= o.id
        BY <2>2, <3>1 DEF Record
      <4> QED
        BY <1>4, <3>1, <4>1, BoundsAssumption
    <3>2. CASE log # o.of
      BY <1>3, <2>1, <3>2 DEF DiskInv, CountersAhead
    <3> QED
      BY <3>1, <3>2
  <2>5. CountersAhead'
    BY <1>3, <1>5, <2>4 DEF CountersAhead, DiskInv
  <2>6. UniqueNumbers'
    <3> SUFFICES ASSUME NEW log \in Logs, NEW f \in files'[log], NEW g \in files'[log], 
                        f.id = g.id
                 PROVE  f = g
      BY DEF UniqueNumbers
    <3>1. CASE log = o.of
      <4> DEFINE new == [id |-> o.id, item |-> o.item]
      <4>1. f \in {r \in files[o.of] : r.id # o.id} \cup {new} 
            /\ g \in {r \in files[o.of] : r.id # o.id} \cup {new}
        BY <1>4, <2>1, <3>1 DEF Put
      <4>2. new.id = o.id
        OBVIOUS
      <4> HIDE DEF new
      <4> QED
        BY <1>3, <1>4, <4>1, <4>2 DEF DiskInv, UniqueNumbers
    <3>2. CASE log # o.of
      BY <1>3, <2>1, <3>2 DEF DiskInv, UniqueNumbers
    <3> QED
      BY <3>1, <3>2
  <2> QED
    BY <1>3, <1>5, <2>2, <2>3, <2>5, <2>6 DEF DiskInv, ServicesAhead, DistinctNumbers, Record
<1>6. CASE UNCHANGED disk /\ Fail(w) /\ UNCHANGED <<opening, crashes>>
  <2>1. DiskInv'
    BY <1>3, <1>6 DEF disk, DiskInv, CountersAhead, ServicesAhead, UniqueNumbers, DistinctNumbers
  <2> QED
    BY <1>1, <1>6, <2>1, FailKeeps
<1>7. CASE effect /\ Fail(w) /\ UNCHANGED <<opening, crashes>>
  <2>1. DiskInv'
    BY <1>5, <1>7
  <2> QED
    BY <1>1, <1>7, <2>1, FailKeeps
<1>8. CASE effect /\ AfterRecord(w, op[w]) /\ UNCHANGED <<opening, crashes, faults>>
  <2>1. DiskInv' /\ faults' \in 0..MaxFaults
    BY <1>5, <1>8 DEF IInv, TypeOK
  <2>2. CASE Release(w)
    BY <1>1, <1>8, <2>1, <2>2, HolderKeeps
  <2>3. CASE Continue(w, "prune", op[w])
    <3>1. op'[w] = o
      BY <1>2, <2>3 DEF Continue, IInv, TypeOK
    <3> QED
      BY <1>1, <1>2, <1>8, <2>1, <2>3, <3>1, HolderKeeps
  <2>4. CASE /\ op[w].left > 1
             /\ Continue(w, "write", Following(op[w]))
    <3> DEFINE next == Following(o)
    <3>1. /\ next \in Op /\ next.id = o.id + 1 /\ next.left = o.left - 1 /\ next.of = o.of
      BY <1>2, <1>4, <2>4, BoundsAssumption DEF Op, Following
    <3>2. op'[w] = next
      BY <1>2, <2>4 DEF Continue, IInv, TypeOK
    <3>3. WriteReady(op[w])'
      <4>1. next.id + next.left - 1 <= meta[o.of]
        BY <1>4, <3>1, BoundsAssumption
      <4>2. \A f \in files'[o.of] : f.id < next.id
        BY <1>4, <1>5, <1>8, <3>1
      <4>3. o.of \notin Services /\ meta' = meta
        BY <1>4, <1>8, ServicesAssumption
      <4> HIDE DEF next
      <4> QED
        BY <3>1, <3>2, <4>1, <4>2, <4>3 DEF WriteReady
    <3> HIDE DEF next
    <3>4. Continue(w, "write", next)
      BY <1>2, <2>4 DEF next
    <3> QED
      BY <1>1, <1>8, <2>1, <3>1, <3>2, <3>3, <3>4, HolderKeeps
  <2> QED
    BY <1>8, <2>2, <2>3, <2>4 DEF AfterRecord
<1> QED
  BY <1>6, <1>7, <1>8 DEF WriteRecord, Written

LEMMA WriteStateKeeps == ASSUME IInv, NEW w \in Workers, WriteState(w) PROVE IInv'
<1>1. pc[w] = "write" /\ WriteReady(op[w]) /\ op[w].of \in Services
  BY DEF WriteState, IInv, Ready
<1>2. PICK o \in Op : o = op[w]
  BY <1>1, DiskNow
<1>3. DiskInv /\ meta # NoMeta
  BY <1>1, DiskNow, NullAssumption DEF DiskInv
<1> DEFINE effect == /\ states' = [states EXCEPT ![op[w].of] = 
                                     [id |-> op[w].id, item |-> op[w].item]]
                     /\ UNCHANGED <<meta, files>>
<1>4. ASSUME effect PROVE DiskInv'
  <2> DEFINE new == [id |-> o.id, item |-> o.item]
  <2>1. o.id \in Nat /\ o.item \in Items /\ o.of \in Services /\ new \in Record /\ new.id = o.id
    BY <1>1, <1>2 DEF Op, Record
  <2>2. new # NoState
    BY <2>1, NullAssumption
  <2>3. \A s \in Services : states'[s] = IF s = o.of THEN new ELSE states[s]
    BY <1>2, <1>3, <1>4 DEF DiskInv
  <2>4. states' \in [Services -> Record \cup {NoState}]
    BY <1>2, <1>3, <1>4, <2>1 DEF DiskInv
  <2>5. o.id <= meta["service"] /\ \A s \in Services \ {o.of} : 
                                     states[s] # NoState => states[s].id # o.id
    BY <1>1, <1>2 DEF WriteReady
  <2> HIDE DEF new
  <2>6. CountersAhead'
    BY <1>3, <1>4, <2>1, <2>3, <2>5 DEF CountersAhead, DiskInv
  <2>7. DistinctNumbers'
    BY <1>3, <2>1, <2>3, <2>5 DEF DistinctNumbers, DiskInv
  <2> QED
    BY <1>3, <1>4, <2>4, <2>6, <2>7 DEF DiskInv, ServicesAhead, UniqueNumbers
<1>5. CASE UNCHANGED disk /\ Fail(w) /\ UNCHANGED <<opening, crashes>>
  <2>1. DiskInv'
    BY <1>3, <1>5 DEF disk, DiskInv, CountersAhead, ServicesAhead, UniqueNumbers, DistinctNumbers
  <2> QED
    BY <1>1, <1>5, <2>1, FailKeeps
<1>6. CASE effect /\ Fail(w) /\ UNCHANGED <<opening, crashes>>
  <2>1. DiskInv'
    BY <1>4, <1>6
  <2> QED
    BY <1>1, <1>6, <2>1, FailKeeps
<1>7. CASE effect /\ Release(w) /\ UNCHANGED <<opening, crashes, faults>>
  <2>1. DiskInv' /\ faults' \in 0..MaxFaults
    BY <1>4, <1>7 DEF IInv, TypeOK
  <2> QED
    BY <1>1, <1>7, <2>1, HolderKeeps
<1> QED
  BY <1>5, <1>6, <1>7 DEF WriteState, Written

\* Removing a file cannot make a number come again: the counters stay.
LEMMA PruneKeeps == ASSUME IInv, NEW w \in Workers, Prune(w) PROVE IInv'
<1>1. pc[w] = "prune"
  BY DEF Prune
<1>2. DiskInv
  BY <1>1, DiskNow
<1>3. PICK fs : fs = files'["system"] /\ files' = [files EXCEPT !["system"] = fs]
             /\ fs \subseteq files["system"]
  <2>1. "system" \in Logs
    BY DEF Logs
  <2>2. CASE UNCHANGED files
    BY <1>2, <2>1, <2>2 DEF DiskInv
  <2>3. CASE \E f \in files["system"] : files' = [files EXCEPT !["system"] = @ \ {f}]
    BY <1>2, <2>1, <2>3 DEF DiskInv
  <2> QED
    BY <2>2, <2>3 DEF Prune
<1>4. UNCHANGED <<meta, states, opening, crashes>>
  BY DEF Prune
<1>5. DiskInv'
  <2>1. files' \in [Logs -> SUBSET Record] /\ \A log \in Logs : files'[log] \subseteq files[log]
    BY <1>2, <1>3 DEF DiskInv
  <2>2. CountersAhead'
    BY <1>2, <1>4, <2>1 DEF DiskInv, CountersAhead
  <2> QED
    BY <1>2, <1>4, <2>1, <2>2 DEF DiskInv, ServicesAhead, UniqueNumbers, DistinctNumbers
<1>6. CASE Fail(w)
  BY <1>1, <1>4, <1>5, <1>6, FailKeeps
<1>7. CASE Release(w) /\ UNCHANGED faults
  <2>1. faults' \in 0..MaxFaults
    BY <1>7 DEF IInv, TypeOK
  <2> QED
    BY <1>1, <1>4, <1>5, <1>7, <2>1, HolderKeeps
<1>8. CASE UNCHANGED <<lock, pc, op, faults>>
  <2>1. TypeOK'
    BY <1>4, <1>5, <1>8 DEF IInv, TypeOK, DiskInv
  <2>2. Holding' /\ Opened'
    BY <1>4, <1>8 DEF IInv, Holding, Opened
  <2>3. Ready'
    <3>1. \A v \in Workers : pc[v] = "idle" \/ pc[v] = "prune"
      BY <1>1 DEF IInv, Holding
    <3> QED
      BY <1>8, <3>1 DEF Ready
  <2> QED
    BY <1>5, <2>1, <2>2, <2>3 DEF IInv, DiskInv
<1> QED
  BY <1>6, <1>7, <1>8 DEF Prune

LEMMA CrashKeeps == ASSUME IInv, Crash PROVE IInv'
<1> USE DEF IInv, Crash, disk
<1>1. TypeOK'
  <2>1. crashes' \in 0..MaxCrashes
    BY BoundsAssumption DEF TypeOK
  <2>2. opening' \in [Programs -> {"closed", "create", "open"}]
    BY DEF TypeOK
  <2> QED
    BY <2>1, <2>2 DEF TypeOK
<1>2. Holding' /\ Ready'
  BY DEF Holding, Ready
<1>3. Opened'
  BY DEF Opened, TypeOK
<1> QED
  BY <1>1, <1>2, <1>3 DEF CountersAhead, ServicesAhead, UniqueNumbers, DistinctNumbers

LEMMA NextKeeps == ASSUME IInv, [Next]_vars PROVE IInv'
<1>1. CASE UNCHANGED vars
  BY <1>1 DEF vars, IInv, TypeOK, Holding, Opened, CountersAhead, ServicesAhead, Ready,
     SaveReady, WriteReady, UniqueNumbers, DistinctNumbers
<1>2. ASSUME NEW g \in Programs, OpenStore(g) \/ CreateMeta(g) \/ CloseStore(g) PROVE IInv'
  BY <1>2, OpenKeeps, CreateKeeps, CloseKeeps
<1>3. ASSUME NEW w \in Workers, InsertAuditLog(w) \/ InsertSystemSnapshot(w) PROVE IInv'
  BY <1>3, InsertKeeps, BoundsAssumption DEF InsertAuditLog, InsertSystemSnapshot, Logs
<1>4. ASSUME NEW w \in Workers, InsertHysteriaSnapshots(w) PROVE IInv'
  BY <1>4, InsertKeeps DEF InsertHysteriaSnapshots, Logs
<1>5. ASSUME NEW w \in Workers, 
             UpsertServiceState(w) \/ SaveMeta(w) \/ WriteRecord(w) \/ WriteState(w) \/ Prune(w)
      PROVE  IInv'
  BY <1>5, UpsertKeeps, SaveMetaKeeps, WriteRecordKeeps, WriteStateKeeps, PruneKeeps
<1> QED
  BY <1>1, <1>2, <1>3, <1>4, <1>5, CrashKeeps DEF Next

-----------------------------------------------------------------------------

\* The inductive invariant, for any number of programs, workers and failures.
THEOREM Invariance == FirstStartsApart /\ Spec => []IInv
<1>1. [Next]_vars /\ IInv => IInv'
  BY NextKeeps
<1> QED
  BY <1>1, InitKeeps, PTL DEF Spec

\* The records on disk are always numbered by the counters on disk: what
\* saving meta.json first buys.
THEOREM CountersStayAhead == FirstStartsApart /\ Spec => []CountersAhead
<1>1. IInv => CountersAhead
  BY DEF IInv
<1> QED
  BY <1>1, Invariance, PTL

\* A step removes records, or writes one whose number is above all others.
LEMMA StepNumbersOnce == ASSUME IInv, [Next]_vars PROVE NumberedOnce
<1>1. CASE UNCHANGED files
  BY <1>1 DEF NumberedOnce
<1>2. ASSUME NEW w \in Workers, WriteRecord(w) PROVE NumberedOnce
  <2>1. pc[w] = "write" /\ WriteReady(op[w]) /\ op[w].of \in Logs /\ DiskInv /\ op[w].id \in Nat
    BY <1>2, DiskNow DEF WriteRecord, IInv, Ready
  <2>2. CASE UNCHANGED files
    BY <2>2 DEF NumberedOnce
  <2>3. CASE files' = [files EXCEPT ![op[w].of] = Put(@, op[w].id, op[w].item)]
    <3> SUFFICES ASSUME NEW log \in Logs, NEW f \in files[log] PROVE f \in files'[log]
      BY DEF NumberedOnce
    <3>1. CASE log = op[w].of
      <4>1. files'[log] = Put(files[log], op[w].id, op[w].item)
        BY <2>1, <2>3, <3>1 DEF DiskInv
      <4>2. f.id < op[w].id /\ f.id \in Nat
        BY <2>1, <3>1 DEF WriteReady, DiskInv, Record
      <4> QED
        BY <2>1, <4>1, <4>2 DEF Put
    <3>2. CASE log # op[w].of
      BY <2>1, <2>3, <3>2 DEF DiskInv
    <3> QED
      BY <3>1, <3>2
  <2> QED
    BY <1>2, <2>2, <2>3 DEF WriteRecord, Written, disk
<1>3. ASSUME NEW w \in Workers, Prune(w) PROVE NumberedOnce
  <2>1. DiskInv /\ "system" \in Logs
    BY <1>3, DiskNow DEF Prune, Logs
  <2>2. CASE UNCHANGED files
    BY <2>2 DEF NumberedOnce
  <2>3. ASSUME NEW f \in files["system"], files' = [files EXCEPT !["system"] = @ \ {f}]
        PROVE  NumberedOnce
    BY <2>1, <2>3 DEF NumberedOnce, DiskInv, UniqueNumbers
  <2> QED
    BY <1>3, <2>2, <2>3 DEF Prune
<1>4. UNCHANGED files \/ \E w \in Workers : WriteRecord(w) \/ Prune(w)
  BY DEF Next, vars, disk, OpenStore, CreateMeta, CloseStore, Crash, InsertAuditLog,
     InsertSystemSnapshot, InsertHysteriaSnapshots, BeginInsert, UpsertServiceState, Begin,
     SaveMeta, WriteState, Written
<1> QED
  BY <1>1, <1>2, <1>3, <1>4

\* No record is ever written over another one.
THEOREM NumbersOnce == FirstStartsApart /\ Spec => NeverOverwritten
<1>1. IInv /\ [Next]_vars => [NumberedOnce]_vars
  BY StepNumbersOnce
<1> QED
  BY <1>1, Invariance, PTL DEF Spec, NeverOverwritten

LEMMA StepKeepsNumbers == ASSUME IInv, [Next]_vars PROVE KeepsNumbers
<1>1. CASE UNCHANGED states
  BY <1>1 DEF KeepsNumbers, IInv, DistinctNumbers
<1>2. ASSUME NEW w \in Workers, WriteState(w) PROVE KeepsNumbers
  <2>1. pc[w] = "write" /\ WriteReady(op[w]) /\ op[w].of \in Services /\ op[w] \in Op
    BY <1>2, DiskNow DEF WriteState, IInv, Ready
  <2>2. CASE UNCHANGED states
    BY <1>1, <2>2
  <2>3. CASE states' = [states EXCEPT ![op[w].of] = [id |-> op[w].id, item |-> op[w].item]]
    <3> DEFINE new == [id |-> op[w].id, item |-> op[w].item]
    <3>1. \A s \in Services : states'[s] = IF s = op[w].of THEN new ELSE states[s]
      BY <2>3 DEF IInv, TypeOK
    <3>2. new \in Record /\ new.id = op[w].id
      BY <2>1 DEF Op, Record
    <3>3. new # NoState
      BY <3>2, NullAssumption
    <3> HIDE DEF new
    <3> QED
      BY <2>1, <3>1, <3>2, <3>3 DEF KeepsNumbers, WriteReady, IInv, DistinctNumbers
  <2> QED
    BY <1>2, <2>2, <2>3 DEF WriteState, Written, disk
<1>3. UNCHANGED states \/ \E w \in Workers : WriteState(w)
  BY DEF Next, vars, disk, OpenStore, CreateMeta, CloseStore, Crash, InsertAuditLog,
     InsertSystemSnapshot, InsertHysteriaSnapshots, BeginInsert, UpsertServiceState, Begin,
     SaveMeta, WriteRecord, Written, Prune
<1> QED
  BY <1>1, <1>2, <1>3

\* Each service keeps its number, and no two have the same.
THEOREM NumbersKept == FirstStartsApart /\ Spec => ServicesKeepNumber
<1>1. IInv /\ [Next]_vars => [KeepsNumbers]_vars
  BY StepKeepsNumbers
<1> QED
  BY <1>1, Invariance, PTL DEF Spec, ServicesKeepNumber

\* Every variable always holds a value of its type.
THEOREM TypesHold == FirstStartsApart /\ Spec => []TypeOK
<1>1. IInv => TypeOK
  BY DEF IInv
<1> QED
  BY <1>1, Invariance, PTL

-----------------------------------------------------------------------------
(* Pruning is due at every PruneEvery-th number: remainders.               *)

LEMMA Division ==
  ASSUME NEW n \in Nat, NEW p \in Nat \ {0}
  PROVE  n \div p \in Nat /\ n % p \in 0..(p - 1) /\ n = p * (n \div p) + (n % p)
OBVIOUS

LEMMA Multiples == 
  ASSUME NEW p \in Nat, NEW a \in Nat, NEW b \in Nat, a < b 
  PROVE  p * a + p <= p * b
<1>1. PICK d \in Nat : b = a + 1 + d
  <2>1. b - a - 1 \in Nat /\ b = a + 1 + (b - a - 1)
    OBVIOUS
  <2> QED
    BY <2>1
<1>2. p * (a + 1 + d) = p * a + p + p * d
  OBVIOUS
<1>3. p * d \in Nat /\ p * a \in Nat
  OBVIOUS
<1> QED
  BY <1>1, <1>2, <1>3

LEMMA OneRemainder ==
  ASSUME NEW p \in Nat \ {0}, NEW a \in Nat, NEW b \in Nat, NEW r \in 0..(p - 1),
         NEW s \in 0..(p - 1), p * a + r = p * b + s
  PROVE  r = s
<1>1. p * a \in Nat /\ p * b \in Nat
  OBVIOUS
<1>2. CASE a < b
  BY <1>1, <1>2, Multiples
<1>3. CASE b < a
  BY <1>1, <1>3, Multiples
<1> QED
  BY <1>1, <1>2, <1>3

LEMMA NextRemainder ==
  ASSUME NEW n \in Nat, NEW p \in Nat \ {0}
  PROVE  (n + 1) % p = IF n % p = p - 1 THEN 0 ELSE (n % p) + 1
<1> DEFINE a == n \div p
           r == n % p
           s == IF r = p - 1 THEN 0 ELSE r + 1
           b == IF r = p - 1 THEN a + 1 ELSE a
<1>1. a \in Nat /\ r \in 0..(p - 1) /\ n = p * a + r
  BY Division
<1>2. /\ (n + 1) \div p \in Nat /\ (n + 1) % p \in 0..(p - 1) 
      /\ n + 1 = p * ((n + 1) \div p) + ((n + 1) % p)
  <2>1. n + 1 \in Nat
    OBVIOUS
  <2> QED
    BY <2>1, Division
<1> HIDE DEF a, r
<1>3. p * (a + 1) = p * a + p /\ p * a \in Nat
  BY <1>1
<1>4. s \in 0..(p - 1) /\ b \in Nat /\ n + 1 = p * b + s
  BY <1>1, <1>3
<1> HIDE DEF s, b
<1>5. (n + 1) % p = s
  BY <1>2, <1>4, OneRemainder
<1> QED
  BY <1>5 DEF s, r


-----------------------------------------------------------------------------
(* The number of system snapshots.                                         *)

\* A failed write or a crash lets the snapshots of one period stay.
Fits(c, e, k) == c <= MaxFiles + PruneEvery * e + k

SystemCount == Cardinality(files["system"])
Mishaps == faults + crashes

\* The worker is about to write a system snapshot, or to prune.
Adding(w) == pc[w] = "prune" \/ (pc[w] = "write" /\ op[w].of = "system")

SaveNext(o) ==
  /\ o.of = "system" => o.left = 1 /\ o.id = meta["system"] + 1
  /\ o.counters["system"] = IF o.of = "system" THEN meta["system"] + 1 ELSE meta["system"]

WriteNext(o) ==
  o.of = "system" => 
    /\ o.left = 1 
    /\ o.id = meta["system"] 
    /\ o.id > 0
    /\ Fits(SystemCount, Mishaps, (o.id - 1) % PruneEvery)

PruneNext ==
  meta["system"] % PruneEvery = 0 /\ Fits(SystemCount, Mishaps, PruneEvery)

\* At rest there is at most one snapshot above MaxFiles for every number
\* since the last multiple of PruneEvery, besides those of past mishaps; the
\* snapshot about to be written is the next of them.
Pruned ==
  /\ IsFiniteSet(files["system"])
  /\ meta # NoMeta /\ (\A w \in Workers : ~Adding(w)) => 
       Fits(SystemCount, Mishaps, meta["system"] % PruneEvery)
  /\ \A w \in Workers :
       /\ pc[w] = "save" => SaveNext(op[w])
       /\ pc[w] = "write" => WriteNext(op[w])
       /\ pc[w] = "prune" => PruneNext

LEMMA NextMishap ==
  ASSUME NEW c \in Nat, NEW e \in Nat, Fits(c, e, PruneEvery), NEW k \in Nat
  PROVE  Fits(c, e + 1, k)
<1>1. PruneEvery * (e + 1) = PruneEvery * e + PruneEvery /\ PruneEvery * e \in Nat
  BY PruneAssumption
<1> QED
  BY <1>1, PruneAssumption DEF Fits

LEMMA MoreFits ==
  ASSUME NEW c \in Nat, NEW e \in Nat, NEW k \in Nat, NEW l \in Nat, k <= l, Fits(c, e, k)
  PROVE  Fits(c, e, l)
<1>1. PruneEvery * e \in Nat
  BY PruneAssumption
<1> QED
  BY <1>1, PruneAssumption DEF Fits

LEMMA FewerFit ==
  ASSUME NEW c \in Nat, NEW d \in Nat, NEW e \in Nat, NEW k \in Nat, d <= c, Fits(c, e, k)
  PROVE  Fits(d, e, k)
<1>1. PruneEvery * e \in Nat
  BY PruneAssumption
<1> QED
  BY <1>1, PruneAssumption DEF Fits

LEMMA FewFit == 
  ASSUME NEW c \in Nat, NEW e \in Nat, c <= MaxFiles PROVE Fits(c, e, 0)
<1>1. PruneEvery * e \in Nat
  BY PruneAssumption
<1> QED
  BY <1>1, PruneAssumption DEF Fits

LEMMA CountTypes ==
  ASSUME TypeOK, IsFiniteSet(files["system"])
  PROVE  SystemCount \in Nat /\ Mishaps \in Nat
BY FS_CardinalityType, BoundsAssumption DEF TypeOK, SystemCount, Mishaps

LEMMA SystemLog == 
  ASSUME meta \in Meta 
  PROVE  /\ "system" \in Logs /\ "system" \in Kinds /\ meta["system"] \in Nat 
         /\ meta["system"] % PruneEvery \in 0..(PruneEvery - 1)
BY PruneAssumption, Division DEF Logs, Kinds, Meta

LEMMA OneHolder ==
  ASSUME IInv, NEW w \in Workers, pc[w] # "idle" 
  PROVE  \A v \in Workers \ {w} : pc[v] = "idle"
BY DEF IInv, Holding

\* A worker that has not come to a system snapshot finds room for one.
LEMMA RoomFound ==
  ASSUME IInv, Pruned, NEW w \in Workers, pc[w] # "idle", ~Adding(w)
  PROVE  Fits(SystemCount, Mishaps, meta["system"] % PruneEvery)
<1>1. meta # NoMeta
  BY DiskNow, NullAssumption DEF DiskInv
<1>2. \A v \in Workers : ~Adding(v)
  BY OneHolder DEF Adding
<1> QED
  BY <1>1, <1>2 DEF Pruned

\* Nobody is between two writes.
LEMMA AtRest ==
  ASSUME \A w \in Workers : pc'[w] = "idle", IsFiniteSet(files'["system"]),
         meta' # NoMeta => Fits(SystemCount', Mishaps', meta'["system"] % PruneEvery)
  PROVE  Pruned'
BY DEF Pruned

LEMMA MishapSettles ==
  ASSUME IInv', \A w \in Workers : pc'[w] = "idle", IsFiniteSet(files'["system"]),
         Mishaps \in Nat, Mishaps' = Mishaps + 1, Fits(SystemCount', Mishaps, PruneEvery)
  PROVE  Pruned'
<1>1. SystemCount' \in Nat
  BY FS_CardinalityType DEF SystemCount
<1>2. ASSUME meta' # NoMeta PROVE Fits(SystemCount', Mishaps', meta'["system"] % PruneEvery)
  <2>1. PICK k \in Nat : k = meta'["system"] % PruneEvery
    BY <1>2, PruneAssumption DEF IInv, TypeOK, Meta, Kinds, Logs
  <2> QED
    BY <1>1, <2>1, NextMishap
<1> QED
  BY <1>2, AtRest

LEMMA FailRests ==
  ASSUME IInv, NEW w \in Workers, pc[w] # "idle", Fail(w), UNCHANGED crashes
  PROVE  (\A v \in Workers : pc'[v] = "idle") /\ Mishaps' = Mishaps + 1
BY OneHolder, BoundsAssumption DEF Fail, Release, IInv, TypeOK, Mishaps


LEMMA InitPruned == ASSUME Init PROVE Pruned
BY FS_EmptySet, NullAssumption DEF Init, Pruned, Logs

LEMMA OpeningPrunes ==
  ASSUME IInv, Pruned, NEW g \in Programs, OpenStore(g) \/ CreateMeta(g) \/ CloseStore(g)
  PROVE  Pruned'
<1>1. CASE UNCHANGED <<meta, files, pc, op, faults, crashes>>
  BY <1>1 DEF Pruned, Adding, SaveNext, WriteNext, PruneNext, SystemCount, Mishaps
<1>2. CASE CreateMeta(g)
  <2>1. meta = NoMeta /\ \A w \in Workers : pc[w] = "idle"
    BY <1>2, ProgramsAssumption DEF CreateMeta, IInv, Opened, Holding
  <2>2. files'["system"] = {}
    BY <1>2, <2>1 DEF CreateMeta, IInv, CountersAhead, Logs
  <2>3. SystemCount' = 0 /\ IsFiniteSet(files'["system"])
    BY <2>2, FS_EmptySet DEF SystemCount
  <2>4. PICK k \in Nat : k = meta'["system"] % PruneEvery
    BY <1>2, PruneAssumption DEF CreateMeta, Kinds, Logs
  <2>5. PICK e \in Nat : e = Mishaps'
    BY <1>2, BoundsAssumption DEF CreateMeta, Mishaps, IInv, TypeOK
  <2>6. PruneEvery * e \in Nat
    BY PruneAssumption
  <2>7. Fits(SystemCount', Mishaps', meta'["system"] % PruneEvery)
    BY <2>3, <2>4, <2>5, <2>6, PruneAssumption DEF Fits
  <2> QED
    BY <1>2, <2>1, <2>3, <2>7, AtRest DEF CreateMeta
<1> QED
  BY <1>1, <1>2 DEF OpenStore, CloseStore, disk

LEMMA BeginPrunes ==
  ASSUME IInv, Pruned, NEW w \in Workers, NEW l \in {"save", "write"}, NEW o, Begin(w, l, o),
         l = "save" => SaveNext(o), 
         l = "write" => o.of # "system"
  PROVE  Pruned'
<1>1. \A v \in Workers : pc[v] = "idle"
  BY NullAssumption DEF IInv, Holding, Begin, LockIsFree
<1>2. \A v \in Workers : /\ v = w => pc'[v] = l /\ op'[v] = o
                         /\ v # w => pc'[v] = "idle"
  BY <1>1 DEF IInv, TypeOK, Begin
<1>3. UNCHANGED <<meta, files, SystemCount, Mishaps>>
  BY DEF Begin, disk, SystemCount, Mishaps
<1>4. meta' # NoMeta => Fits(SystemCount', Mishaps', meta'["system"] % PruneEvery)
  BY <1>1, <1>3 DEF Pruned, Adding
<1>5. \A v \in Workers : pc'[v] = "save" => SaveNext(op[v])'
  BY <1>2, <1>3 DEF SaveNext
<1>6. \A v \in Workers : (pc'[v] = "write" => WriteNext(op[v])') /\ pc'[v] # "prune"
  BY <1>2 DEF WriteNext
<1> QED
  BY <1>3, <1>4, <1>5, <1>6 DEF Pruned

LEMMA InsertPrunes ==
  ASSUME IInv, Pruned, NEW w \in Workers, NEW log \in Logs, NEW n \in 1..MaxBatch, 
         log = "system" => n = 1, BeginInsert(w, log, n)
  PROVE  Pruned'
<1>1. PICK x \in Items :
        /\ LockIsFree
        /\ Begin(w, "save", [of |-> log, id |-> meta[log] + 1, left |-> n, item |-> x,
                             counters |-> [meta EXCEPT ![log] = @ + n]])
  BY DEF BeginInsert
<1> DEFINE o == [of |-> log, id |-> meta[log] + 1, left |-> n, item |-> x,
                 counters |-> [meta EXCEPT ![log] = @ + n]]
<1>2. meta \in Meta
  BY <1>1, ProgramsAssumption DEF LockIsFree, IInv, Opened, TypeOK
<1>3. "system" \in Kinds
  BY DEF Kinds, Logs
<1>4. o.counters["system"] = IF log = "system" THEN meta["system"] + n ELSE meta["system"]
  BY <1>2, <1>3 DEF Meta
<1>5. SaveNext(o)
  BY <1>4 DEF SaveNext
<1> QED
  BY <1>1, <1>5, BeginPrunes

LEMMA UpsertPrunes ==
  ASSUME IInv, Pruned, NEW w \in Workers, UpsertServiceState(w) PROVE Pruned'
<1>1. PICK x \in Items, s \in Services :
        \/ Begin(w, "write", [of |-> s, id |-> states[s].id, left |-> 1, item |-> x,
                              counters |-> meta])
        \/ /\ LockIsFree
           /\ Begin(w, "save", [of |-> s, id |-> meta["service"] + 1, left |-> 1, item |-> x,
                                counters |-> [meta EXCEPT !["service"] = @ + 1]])
  BY DEF UpsertServiceState
<1>2. s # "system"
  BY ServicesAssumption DEF Logs
<1>3. CASE Begin(w, "write", [of |-> s, id |-> states[s].id, left |-> 1, item |-> x,
                              counters |-> meta])
  BY <1>2, <1>3, BeginPrunes
<1>4. CASE /\ LockIsFree
           /\ Begin(w, "save", [of |-> s, id |-> meta["service"] + 1, left |-> 1, item |-> x,
                                counters |-> [meta EXCEPT !["service"] = @ + 1]])
  <2> DEFINE o == [of |-> s, id |-> meta["service"] + 1, left |-> 1, item |-> x,
                   counters |-> [meta EXCEPT !["service"] = @ + 1]]
  <2>1. meta \in Meta /\ "system" \in Kinds
    BY <1>4, ProgramsAssumption DEF LockIsFree, IInv, Opened, TypeOK, Kinds, Logs
  <2>2. o.counters["system"] = meta["system"]
    BY <2>1 DEF Meta
  <2>3. SaveNext(o)
    BY <1>2, <2>2 DEF SaveNext
  <2> QED
    BY <1>4, <2>3, BeginPrunes
<1> QED
  BY <1>1, <1>3, <1>4


\* The records of every log but "system" leave the snapshots alone.
LEMMA OthersPrune ==
  ASSUME IInv, IInv', Pruned, NEW w \in Workers, pc[w] # "idle", ~Adding(w),
         UNCHANGED <<crashes, SystemCount>>, files'["system"] = files["system"],
         meta'["system"] = meta["system"],
         \/ Fail(w)
         \/ UNCHANGED faults /\ Release(w)
         \/ /\ UNCHANGED faults
            /\ \E o \in Op : o.of # "system" /\ Continue(w, "write", o) /\ op'[w] = o
  PROVE  Pruned'
<1>1. Fits(SystemCount, Mishaps, meta["system"] % PruneEvery)
  BY RoomFound
<1>2. SystemCount \in Nat /\ Mishaps \in Nat /\ IsFiniteSet(files["system"])
  BY CountTypes DEF IInv, Pruned
<1>3. CASE Fail(w)
  <2>1. Fits(SystemCount, Mishaps, PruneEvery)
    <3>1. PICK k \in 0..(PruneEvery - 1) : k = meta["system"] % PruneEvery
      BY DiskNow, SystemLog DEF DiskInv
    <3> QED
      BY <1>1, <1>2, <3>1, MoreFits, PruneAssumption
  <2> QED
    BY <1>2, <1>3, <2>1, FailRests, MishapSettles
<1>4. CASE UNCHANGED faults /\ Release(w)
  <2>1. \A v \in Workers : pc'[v] = "idle"
    BY <1>4, OneHolder DEF Release, IInv, TypeOK
  <2>2. Mishaps' = Mishaps
    BY <1>4 DEF Mishaps
  <2> QED
    BY <1>1, <1>2, <2>1, <2>2, AtRest
<1>5. ASSUME UNCHANGED faults, NEW o \in Op, o.of # "system", Continue(w, "write", o), op'[w] = o
      PROVE  Pruned'
  <2>1. \A v \in Workers : (v # w => pc'[v] = "idle") /\ (v = w => pc'[v] = "write" /\ op'[v] = o)
    BY <1>5, OneHolder DEF Continue, IInv, TypeOK
  <2>2. Mishaps' = Mishaps
    BY <1>5 DEF Mishaps
  <2>3. \A v \in Workers : pc'[v] = "write" => WriteNext(op[v])'
    BY <1>5, <2>1 DEF WriteNext
  <2>4. \A v \in Workers : pc'[v] # "save" /\ pc'[v] # "prune"
    BY <2>1
  <2> QED
    BY <1>1, <1>2, <2>2, <2>3, <2>4 DEF Pruned
<1> QED
  BY <1>3, <1>4, <1>5

LEMMA SaveMetaPrunes ==
  ASSUME IInv, IInv', Pruned, NEW w \in Workers, SaveMeta(w) PROVE Pruned'
<1>1. pc[w] = "save" /\ SaveNext(op[w]) /\ ~Adding(w)
  BY DEF SaveMeta, Pruned, Adding
<1>2. PICK o \in Op : o = op[w]
  BY <1>1, DiskNow
<1>3. PICK m \in Nat, k \in 0..(PruneEvery - 1) : 
        m = meta["system"] /\ k = m % PruneEvery /\ "system" \in Kinds
  BY <1>1, DiskNow, SystemLog DEF DiskInv
<1>4. Fits(SystemCount, Mishaps, k) /\ SystemCount \in Nat /\ Mishaps \in Nat 
      /\ IsFiniteSet(files["system"])
  BY <1>1, <1>3, RoomFound, CountTypes DEF IInv, Pruned
<1>5. UNCHANGED <<files, SystemCount, crashes>>
  BY DEF SaveMeta, Written, disk, SystemCount
<1>6. CASE Fail(w)
  <2>1. Fits(SystemCount, Mishaps, PruneEvery)
    BY <1>4, MoreFits, PruneAssumption
  <2> QED
    BY <1>1, <1>4, <1>5, <1>6, <2>1, FailRests, MishapSettles
<1>7. CASE /\ meta' = op[w].counters
           /\ Continue(w, "write", op[w]) 
           /\ UNCHANGED faults
  <2>1. op'[w] = o
    BY <1>2, <1>7 DEF Continue, IInv, TypeOK
  <2>2. CASE o.of # "system"
    BY <1>1, <1>2, <1>5, <1>7, <2>1, <2>2, OthersPrune DEF SaveNext
  <2>3. CASE o.of = "system"
    <3>1. meta'["system"] = m + 1 /\ o.left = 1 /\ o.id = m + 1
      BY <1>1, <1>2, <1>3, <1>7, <2>3 DEF SaveNext
    <3>2. \A v \in Workers : (v # w => pc'[v] = "idle") /\ (v = w => pc'[v] = "write" /\ op'[v] = o)
      BY <1>1, <1>2, <1>7, <2>1, OneHolder DEF Continue, IInv, TypeOK
    <3>3. Mishaps' = Mishaps /\ (o.id - 1) % PruneEvery = k
      <4>1. o.id - 1 = m
        BY <3>1
      <4> QED
        BY <1>3, <1>5, <1>7, <4>1 DEF Mishaps
    <3>4. WriteNext(o)'
      BY <1>4, <1>5, <3>1, <3>3 DEF WriteNext
    <3>5. \A v \in Workers : pc'[v] = "write" => WriteNext(op[v])'
      BY <3>2, <3>4 DEF WriteNext
    <3>6. Adding(w)'
      BY <2>1, <2>3, <3>2 DEF Adding
    <3>7. \A v \in Workers : pc'[v] # "save" /\ pc'[v] # "prune"
      BY <3>2
    <3> QED
      BY <1>4, <1>5, <3>5, <3>6, <3>7 DEF Pruned
  <2> QED
    BY <2>2, <2>3
<1> QED
  BY <1>6, <1>7 DEF SaveMeta, Written

LEMMA WriteStatePrunes ==
  ASSUME IInv, IInv', Pruned, NEW w \in Workers, WriteState(w) PROVE Pruned'
<1>1. pc[w] = "write" /\ op[w].of \in Services
  BY DEF WriteState
<1>2. ~Adding(w)
  BY <1>1, ServicesAssumption DEF Adding, Logs
<1>3. UNCHANGED <<meta, files, crashes, SystemCount>>
  BY DEF WriteState, Written, disk, SystemCount
<1> QED
  BY <1>1, <1>2, <1>3, OthersPrune DEF WriteState, Written


LEMMA WriteRecordPrunes ==
  ASSUME IInv, IInv', Pruned, NEW w \in Workers, WriteRecord(w) PROVE Pruned'
<1>1. pc[w] = "write" /\ op[w].of \in Logs /\ WriteReady(op[w]) /\ WriteNext(op[w])
  BY DEF WriteRecord, IInv, Ready, Pruned
<1>2. PICK o \in Op : o = op[w]
  BY <1>1, DiskNow
<1>3. DiskInv /\ UNCHANGED <<meta, crashes>>
  BY <1>1, DiskNow DEF WriteRecord, Written, disk
<1>4. SystemCount \in Nat /\ Mishaps \in Nat /\ IsFiniteSet(files["system"])
  BY CountTypes DEF IInv, Pruned
<1> DEFINE effect == files' = [files EXCEPT ![o.of] = Put(@, o.id, o.item)]
<1>5. CASE o.of # "system"
  <2>1. files'["system"] = files["system"] /\ SystemCount' = SystemCount
    <3>1. CASE effect
      BY <1>3, <1>5, <3>1, SystemLog DEF DiskInv, SystemCount
    <3>2. CASE UNCHANGED files
      BY <3>2 DEF SystemCount
    <3> QED
      BY <1>2, <3>1, <3>2 DEF WriteRecord, Written, disk
  <2>2. pc[w] # "idle" /\ ~Adding(w)
    BY <1>1, <1>2, <1>5 DEF Adding
  <2>3. ASSUME Continue(w, "write", Following(op[w])), op[w].left > 1
        PROVE  \E n \in Op : n.of # "system" /\ Continue(w, "write", n) /\ op'[w] = n
    <3>1. Following(o) \in Op /\ Following(o).of = o.of
      BY <1>2, <2>3, BoundsAssumption DEF Op, Following
    <3>2. op'[w] = Following(o)
      BY <1>2, <2>3 DEF Continue, IInv, TypeOK
    <3> QED
      BY <1>2, <1>5, <2>3, <3>1, <3>2
  <2>4. \/ Fail(w)
        \/ UNCHANGED faults /\ Release(w)
        \/ /\ UNCHANGED faults
           /\ \E n \in Op : n.of # "system" /\ Continue(w, "write", n) /\ op'[w] = n
    BY <1>2, <1>5, <2>3 DEF WriteRecord, Written, AfterRecord
  <2> QED
    BY <1>3, <2>1, <2>2, <2>4, OthersPrune
<1>6. CASE o.of = "system"
  <2>1. PICK m \in Nat, k \in 0..(PruneEvery - 1) : 
          /\ m > 0 /\ k = (m - 1) % PruneEvery
          /\ o.left = 1 /\ o.id = m /\ meta["system"] = m
          /\ Fits(SystemCount, Mishaps, k)
    <3>1. o.id \in Nat /\ o.id > 0 /\ o.id - 1 \in Nat
      BY <1>1, <1>2, <1>6 DEF WriteNext, Op
    <3>2. (o.id - 1) % PruneEvery \in 0..(PruneEvery - 1)
      BY <3>1, PruneAssumption, Division
    <3> QED
      BY <1>1, <1>2, <1>6, <3>1, <3>2 DEF WriteNext
  <2>2. PICK r : r = m % PruneEvery /\ r = IF k = PruneEvery - 1 THEN 0 ELSE k + 1
    <3>1. m - 1 \in Nat /\ (m - 1) + 1 = m
      BY <2>1
    <3>2. ((m - 1) + 1) % PruneEvery = IF (m - 1) % PruneEvery = PruneEvery - 1 THEN 0 
                                       ELSE ((m - 1) % PruneEvery) + 1
      BY <3>1, PruneAssumption, NextRemainder
    <3> QED
      BY <2>1, <3>1, <3>2
  \* One snapshot more at most.
  <2>3. PICK c \in Nat : c = SystemCount' /\ c <= SystemCount + 1 /\ IsFiniteSet(files'["system"])
    <3>1. CASE effect
      <4>1. files'["system"] = 
              {f \in files["system"] : f.id # m} \cup {[id |-> m, item |-> o.item]}
        BY <1>3, <1>6, <2>1, <3>1, SystemLog DEF DiskInv, Put
      <4>2. \A f \in files["system"] : f.id \in Nat /\ f.id < m
        BY <1>1, <1>2, <1>3, <1>6, <2>1, SystemLog DEF WriteReady, DiskInv, Record
      <4>3. {f \in files["system"] : f.id # m} = files["system"]
        BY <4>2
      <4>4. PICK x : files'["system"] = files["system"] \cup {x}
        BY <4>1, <4>3
      <4>5. /\ IsFiniteSet(files'["system"])
            /\ SystemCount' = SystemCount \/ SystemCount' = SystemCount + 1
        BY <1>4, <4>4, FS_AddElement DEF SystemCount
      <4> QED
        BY <1>4, <4>5
    <3>2. CASE UNCHANGED files
      BY <1>4, <3>2 DEF SystemCount
    <3> QED
      BY <1>2, <3>1, <3>2 DEF WriteRecord, Written, disk
  <2>4. PICK e \in Nat : e = Mishaps /\ PruneEvery * e \in Nat
    BY <1>4, PruneAssumption
  <2>5. Fits(c, e, k + 1) /\ Fits(c, e, PruneEvery)
    BY <1>4, <2>1, <2>3, <2>4, PruneAssumption DEF Fits
  <2>6. CASE Fail(w)
    BY <1>1, <1>3, <1>4, <2>3, <2>4, <2>5, <2>6, FailRests, MishapSettles
  <2>7. CASE Release(w) /\ UNCHANGED faults /\ r # 0
    <3>1. \A v \in Workers : pc'[v] = "idle"
      BY <1>1, <2>7, OneHolder DEF Release, IInv, TypeOK
    <3>2. Mishaps' = e /\ meta'["system"] % PruneEvery = k + 1
      BY <1>3, <2>1, <2>2, <2>4, <2>7 DEF Mishaps
    <3> QED
      BY <2>3, <2>5, <3>1, <3>2, AtRest
  <2>8. CASE Continue(w, "prune", op[w]) /\ UNCHANGED faults /\ r = 0
    <3>1. \A v \in Workers : (v # w => pc'[v] = "idle") /\ (v = w => pc'[v] = "prune")
      BY <1>1, <2>8, OneHolder DEF Continue, IInv, TypeOK
    <3>2. Mishaps' = e /\ meta'["system"] % PruneEvery = 0
      BY <1>3, <2>1, <2>2, <2>4, <2>8 DEF Mishaps
    <3>3. PruneNext' /\ Adding(w)'
      BY <2>3, <2>5, <3>1, <3>2 DEF PruneNext, Adding
    <3>4. \A v \in Workers : pc'[v] # "save" /\ pc'[v] # "write"
      BY <3>1
    <3> QED
      BY <2>3, <3>3, <3>4 DEF Pruned
  <2>9. op[w].of = "system" /\ op[w].left <= 1 /\ ~(op[w].left > 1) /\ op[w].id % PruneEvery = r
    BY <1>2, <1>6, <2>1, <2>2
  <2> QED
    BY <2>6, <2>7, <2>8, <2>9 DEF WriteRecord, Written, AfterRecord
<1> QED
  BY <1>5, <1>6

LEMMA PrunePrunes == 
  ASSUME IInv, IInv', Pruned, NEW w \in Workers, Prune(w) PROVE Pruned'
<1>1. pc[w] = "prune" /\ PruneNext /\ UNCHANGED <<meta, crashes>>
  BY DEF Prune, Pruned
<1>2. SystemCount \in Nat /\ Mishaps \in Nat /\ IsFiniteSet(files["system"])
  BY CountTypes DEF IInv, Pruned
<1>3. CASE Release(w) /\ UNCHANGED <<files, faults>> /\ SystemCount <= MaxFiles
  <2>1. \A v \in Workers : pc'[v] = "idle"
    BY <1>1, <1>3, OneHolder DEF Release, IInv, TypeOK
  <2>2. PICK e \in Nat : e = Mishaps /\ e = Mishaps' /\ PruneEvery * e \in Nat
    BY <1>1, <1>2, <1>3, PruneAssumption DEF Mishaps
  <2>3. SystemCount' = SystemCount /\ meta'["system"] % PruneEvery = 0
    BY <1>1, <1>3 DEF SystemCount, PruneNext
  <2>4. Fits(SystemCount', e, 0)
    <3>1. PICK c \in Nat : c = SystemCount' /\ c <= MaxFiles
      BY <1>2, <1>3, <2>3
    <3>2. Fits(c, e, 0)
      BY <3>1, FewFit
    <3> QED
      BY <3>1, <3>2
  <2> QED
    BY <1>2, <1>3, <2>1, <2>2, <2>3, <2>4, AtRest
<1>4. CASE Fail(w) /\ UNCHANGED files
  <2>1. SystemCount' = SystemCount
    BY <1>4 DEF SystemCount
  <2> QED
    BY <1>1, <1>2, <1>4, <2>1, FailRests, MishapSettles DEF PruneNext
<1>5. ASSUME NEW f \in files["system"], UNCHANGED <<pc, op, faults>>,
             files' = [files EXCEPT !["system"] = @ \ {f}]
      PROVE  Pruned'
  <2>1. files'["system"] = files["system"] \ {f}
    BY <1>1, <1>5, DiskNow, SystemLog DEF DiskInv
  <2>2. IsFiniteSet(files'["system"]) /\ SystemCount' \in Nat /\ SystemCount' <= SystemCount
    BY <1>2, <2>1, FS_RemoveElement, FS_CardinalityType DEF SystemCount
  <2>3. PICK e \in Nat : e = Mishaps /\ e = Mishaps' /\ PruneEvery * e \in Nat
    BY <1>1, <1>2, <1>5, PruneAssumption DEF Mishaps
  <2>4. Fits(SystemCount', e, PruneEvery)
    <3>1. PICK c \in Nat : c = SystemCount' /\ c <= SystemCount
      BY <2>2
    <3>2. Fits(SystemCount, e, PruneEvery)
      BY <1>1, <2>3 DEF PruneNext
    <3>3. Fits(c, e, PruneEvery)
      BY <1>2, <3>1, <3>2, FewerFit, PruneAssumption
    <3> QED
      BY <3>1, <3>3
  <2>5. PruneNext' /\ Adding(w)'
    BY <1>1, <1>5, <2>3, <2>4 DEF PruneNext, Adding
  <2>6. \A v \in Workers : pc'[v] # "save" /\ pc'[v] # "write"
    BY <1>1, <1>5, OneHolder
  <2> QED
    BY <2>2, <2>5, <2>6 DEF Pruned
<1> QED
  BY <1>3, <1>4, <1>5 DEF Prune, SystemCount

LEMMA CrashPrunes ==
  ASSUME IInv, IInv', Pruned, Crash PROVE Pruned'
<1>1. SystemCount \in Nat /\ Mishaps \in Nat /\ IsFiniteSet(files["system"])
  BY CountTypes DEF IInv, Pruned
<1>2. /\ \A w \in Workers : pc'[w] = "idle" 
      /\ Mishaps' = Mishaps + 1 
      /\ UNCHANGED <<meta, files, SystemCount>>
  BY BoundsAssumption DEF Crash, disk, Mishaps, SystemCount, IInv, TypeOK
<1>3. CASE meta = NoMeta
  BY <1>1, <1>2, <1>3, AtRest
<1>4. CASE meta # NoMeta
  <2>1. PICK k \in 0..(PruneEvery - 1) : k = meta["system"] % PruneEvery
    BY <1>4, SystemLog DEF IInv, TypeOK
  <2>2. Fits(SystemCount, Mishaps, PruneEvery)
    <3>1. CASE \A w \in Workers : ~Adding(w)
      BY <1>1, <1>4, <2>1, <3>1, MoreFits, PruneAssumption DEF Pruned
    <3>2. ASSUME NEW w \in Workers, pc[w] = "prune" PROVE Fits(SystemCount, Mishaps, PruneEvery)
      BY <3>2 DEF Pruned, PruneNext
    <3>3. ASSUME NEW w \in Workers, pc[w] = "write", op[w].of = "system"
          PROVE  Fits(SystemCount, Mishaps, PruneEvery)
      <4>1. PICK i \in Nat : i = op[w].id /\ i > 0 /\ i - 1 \in Nat
        BY <3>3, DiskNow DEF Pruned, WriteNext
      <4>2. PICK l \in 0..(PruneEvery - 1) : l = (i - 1) % PruneEvery
        BY <4>1, PruneAssumption, Division
      <4>3. Fits(SystemCount, Mishaps, l)
        BY <3>3, <4>1, <4>2 DEF Pruned, WriteNext
      <4> QED
        BY <1>1, <4>3, MoreFits, PruneAssumption
    <3> QED
      BY <3>1, <3>2, <3>3 DEF Adding
  <2> QED
    BY <1>1, <1>2, <2>2, MishapSettles
<1> QED
  BY <1>3, <1>4

LEMMA NextPrunes == ASSUME IInv, IInv', Pruned, [Next]_vars PROVE Pruned'
<1>1. CASE UNCHANGED vars
  BY <1>1 DEF vars, Pruned, Adding, SaveNext, WriteNext, PruneNext, SystemCount, Mishaps
<1>2. ASSUME NEW g \in Programs, OpenStore(g) \/ CreateMeta(g) \/ CloseStore(g) PROVE Pruned'
  BY <1>2, OpeningPrunes
<1>3. ASSUME NEW w \in Workers, InsertAuditLog(w) \/ InsertSystemSnapshot(w) PROVE Pruned'
  BY <1>3, InsertPrunes, BoundsAssumption DEF InsertAuditLog, InsertSystemSnapshot, Logs
<1>4. ASSUME NEW w \in Workers, InsertHysteriaSnapshots(w) PROVE Pruned'
  BY <1>4, InsertPrunes DEF InsertHysteriaSnapshots, Logs
<1>5. ASSUME NEW w \in Workers, 
             UpsertServiceState(w) \/ SaveMeta(w) \/ WriteRecord(w) \/ WriteState(w) \/ Prune(w)
      PROVE  Pruned'
  BY <1>5, UpsertPrunes, SaveMetaPrunes, WriteRecordPrunes, WriteStatePrunes, PrunePrunes
<1> QED
  BY <1>1, <1>2, <1>3, <1>4, <1>5, CrashPrunes DEF Next

LEMMA PrunedInvariance == FirstStartsApart /\ Spec => []Pruned
<1>1. IInv /\ IInv' /\ Pruned /\ [Next]_vars => Pruned'
  BY NextPrunes
<1> QED
  BY <1>1, InitPruned, Invariance, PTL DEF Spec

\* Whoever sees the lock free sees fewer snapshots than one period above
\* MaxFiles, and one more period for each mishap: the counter tells how far
\* the period has come, so no run of inserts can get past the pruning.
THEOREM SnapshotsStayBounded == FirstStartsApart /\ Spec => []SnapshotsBounded
<1>1. ASSUME IInv, Pruned PROVE SnapshotsBounded
  <2> SUFFICES ASSUME lock = Free PROVE SystemCount < MaxFiles + PruneEvery * (1 + faults + crashes)
    BY DEF SnapshotsBounded, SystemCount
  <2>1. PICK e \in Nat : e = Mishaps /\ 1 + faults + crashes = e + 1
    BY <1>1, BoundsAssumption DEF IInv, TypeOK, Mishaps
  <2>2. PruneEvery * (e + 1) = PruneEvery * e + PruneEvery /\ PruneEvery * e \in Nat
    BY PruneAssumption
  <2>3. SystemCount \in Nat
    BY <1>1, CountTypes DEF IInv, Pruned
  <2>4. \A w \in Workers : ~Adding(w)
    BY <1>1, NullAssumption DEF IInv, Holding, Adding
  <2>5. CASE meta = NoMeta
    <3>1. SystemCount = 0
      BY <1>1, <2>5, FS_EmptySet DEF IInv, CountersAhead, Logs, SystemCount
    <3> QED
      BY <2>1, <2>2, <3>1, PruneAssumption
  <2>6. CASE meta # NoMeta
    <3>1. PICK k \in 0..(PruneEvery - 1) : k = meta["system"] % PruneEvery
      BY <1>1, <2>6, SystemLog DEF IInv, TypeOK
    <3>2. Fits(SystemCount, e, k)
      BY <1>1, <2>1, <2>4, <2>6, <3>1 DEF Pruned
    <3> QED
      BY <2>1, <2>2, <2>3, <3>1, <3>2, PruneAssumption DEF Fits
  <2> QED
    BY <2>5, <2>6
<1> QED
  BY <1>1, Invariance, PrunedInvariance, PTL

\* Pruning stops at MaxFiles and takes the oldest first, and nothing else
\* removes a snapshot: a new one never replaces one, as its number is new.
THEOREM PruningKeepsNewest == FirstStartsApart /\ Spec => PruneKeepsNewest
<1> DEFINE Keeps == \A f \in files["system"] \ files'["system"] :
                      /\ \A g \in files'["system"] : f.id < g.id
                      /\ Cardinality(files'["system"]) >= MaxFiles
<1>1. ASSUME IInv, Pruned, Next PROVE Keeps
  <2>1. CASE UNCHANGED files
    BY <2>1
  <2>2. ASSUME NEW w \in Workers, WriteRecord(w) PROVE Keeps
    <3>1. /\ pc[w] = "write" /\ WriteReady(op[w]) /\ op[w].of \in Logs 
          /\ DiskInv /\ op[w].id \in Nat
      BY <1>1, <2>2, DiskNow DEF WriteRecord, IInv, Ready
    <3>2. CASE files' = [files EXCEPT ![op[w].of] = Put(@, op[w].id, op[w].item)]
      <4> SUFFICES ASSUME NEW f \in files["system"] PROVE f \in files'["system"]
        OBVIOUS
      <4>1. CASE op[w].of = "system"
        <5>1. files'["system"] = Put(files["system"], op[w].id, op[w].item)
          BY <3>1, <3>2, <4>1 DEF DiskInv
        <5>2. f.id < op[w].id /\ f.id \in Nat
          BY <3>1, <4>1 DEF WriteReady, DiskInv, Record
        <5> QED
          BY <3>1, <5>1, <5>2 DEF Put
      <4>2. CASE op[w].of # "system"
        BY <3>1, <3>2, <4>2, SystemLog DEF DiskInv
      <4> QED
        BY <4>1, <4>2
    <3> QED
      BY <2>1, <2>2, <3>2 DEF WriteRecord, Written, disk
  <2>3. ASSUME NEW w \in Workers, Prune(w) PROVE Keeps
    <3>1. DiskInv /\ "system" \in Logs
      BY <1>1, <2>3, DiskNow DEF Prune, Logs
    <3>2. SystemCount \in Nat /\ IsFiniteSet(files["system"])
      BY <1>1, CountTypes DEF IInv, Pruned
    <3>3. ASSUME NEW r \in files["system"], \A i \in Numbers("system") : r.id <= i,
                 files' = [files EXCEPT !["system"] = @ \ {r}], ~(SystemCount <= MaxFiles)
          PROVE  Keeps
      <4>1. files'["system"] = files["system"] \ {r}
        BY <3>1, <3>3 DEF DiskInv
      <4>2. ASSUME NEW g \in files'["system"] PROVE r.id < g.id
        <5>1. g \in files["system"] /\ g # r /\ g.id \in Nat /\ r.id \in Nat
          BY <3>1, <4>1, <4>2 DEF DiskInv, Record
        <5>2. r.id <= g.id /\ r.id # g.id
          BY <3>1, <3>3, <5>1 DEF Numbers, DiskInv, UniqueNumbers
        <5> QED
          BY <5>1, <5>2
      <4>3. Cardinality(files'["system"]) = SystemCount - 1
        BY <3>2, <4>1, FS_RemoveElement DEF SystemCount
      <4>4. Cardinality(files'["system"]) >= MaxFiles
        BY <3>2, <3>3, <4>3, PruneAssumption
      <4> QED
        BY <4>1, <4>2, <4>4
    <3> QED
      BY <2>1, <2>3, <3>3 DEF Prune, SystemCount
  <2>4. UNCHANGED files \/ \E w \in Workers : WriteRecord(w) \/ Prune(w) 
        \/ \E g \in Programs : CreateMeta(g)
    BY <1>1 DEF Next, vars, disk, OpenStore, CreateMeta, CloseStore, Crash, InsertAuditLog,
       InsertSystemSnapshot, InsertHysteriaSnapshots, BeginInsert, UpsertServiceState, Begin,
       SaveMeta, WriteState, Written
  <2>5. ASSUME NEW g \in Programs, CreateMeta(g) PROVE Keeps
    BY <2>1, <2>5 DEF CreateMeta
  <2> QED
    BY <2>1, <2>2, <2>3, <2>4, <2>5
<1>2. IInv /\ Pruned /\ [Next]_vars => [Keeps]_vars
  BY <1>1
<1> QED
  BY <1>2, Invariance, PrunedInvariance, PTL DEF Spec, PruneKeepsNewest

=============================================================================
