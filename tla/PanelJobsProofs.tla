---------------------------- MODULE PanelJobsProofs ----------------------------
(***************************************************************************)
(* What polls do to users, snapshots and service states beside requests,   *)
(* for any number of users, names, services and clients.                   *)
(***************************************************************************)
EXTENDS PanelJobs, TLAPS

\* No visit lies in the future, nor after the moment a poll is about to store.
VisitsPast ==
  \A u \in Present :
    /\ users[u].seen <= events
    /\ poll.pc = "touch" => users[u].seen <= poll.at

PollInTime == 
  /\ poll.at <= events
  /\ poll.todo # {} => poll.pc = "touch"

\* A user that a poll may still write a snapshot for after its deletion has
\* none from before.
LateOnce ==
  \A u \in Users :
    /\ late[u] <= 1
    /\ late[u] # 0 => u \in Deleted /\ (poll.pc = "touch" => poll.listed[u] = NoUser)

\* What a client asks about began no earlier than when it asked.
AskedBefore ==
  /\ \A p \in Clients, s \in Services : call[p].asked[s] <= unit[s].since
  /\ \A p \in Clients : call[p].pc = "upsert" => call[p].asked[call[p].svc] <= call[p].read.since

UnitsPast == \A s \in Services : unit[s].since <= events

TrafficInv == TrafficTypeOK /\ VisitsPast /\ PollInTime /\ LateOnce
ServicesInv == ServicesTypeOK /\ UnitsPast /\ AskedBefore /\ LiveAnswersFresh
ProcessInv == running \in BOOLEAN /\ events \in 0..MaxEvents

IInv == ProcessInv /\ TrafficInv /\ ServicesInv

-----------------------------------------------------------------------------
(* Helpers.                                                                *)

LEMMA MinOfTwo ==
  ASSUME NEW a \in Nat, NEW b \in Nat
  PROVE  /\ Min({a, b}) \in Nat /\ Min({a, b}) <= a /\ Min({a, b}) <= b
         /\ Min({a, b}) \in {a, b}
<1>1. \E x \in {a, b} : \A y \in {a, b} : x <= y
  <2>1. CASE a <= b
    BY <2>1
  <2>2. CASE ~(a <= b)
    BY <2>2
  <2> QED BY <2>1, <2>2
<1>2. Min({a, b}) \in {a, b} /\ \A y \in {a, b} : Min({a, b}) <= y
  BY <1>1 DEF Min
<1> QED BY <1>2

LEMMA EventCounts ==
  ASSUME ProcessInv, Event
  PROVE  events' \in 0..MaxEvents /\ events <= events' /\ events \in Nat /\ events' \in Nat
         /\ events' = events + 1
BY BoundsAssumption DEF ProcessInv, Event

LEMMA CallCounts ==
  ASSUME ProcessInv, UNCHANGED process \/ CallFails
  PROVE  ProcessInv' /\ events <= events' /\ events \in Nat /\ events' \in Nat
BY BoundsAssumption DEF ProcessInv, CallFails, Event, process

\* The local variables of a poll, one by one.
PollAt(pc, stats, listed, todo, at) ==
  [pc |-> pc, stats |-> stats, listed |-> listed, todo |-> todo, at |-> at]

LEMMA PollRecord ==
  ASSUME TrafficTypeOK
  PROVE  /\ poll = PollAt(poll.pc, poll.stats, poll.listed, poll.todo, poll.at)
         /\ poll.stats = [bytes |-> poll.stats.bytes, online |-> poll.stats.online]
         /\ poll.stats \in Counters /\ poll.listed \in [Users -> User \cup {NoUser}]
         /\ poll.todo \subseteq Users /\ poll.at \in 0..MaxEvents
BY DEF TrafficTypeOK, PollAt, Counters

Polls5 == [pc: Labels, stats: Counters, listed: [Users -> User \cup {NoUser}],
           todo: SUBSET Users, at: 0..MaxEvents]

LEMMA IdleType == Idle \in Polls5
BY BoundsAssumption DEF Idle, Polls5, Labels, Counters, Zero

\* What each step of a poll leaves in its local variables.
LEMMA PollNext ==
  ASSUME TrafficTypeOK
  PROVE  /\ StartPoll => poll' = PollAt("traffic", Zero, Idle.listed, {}, 0)
         /\ FetchTraffic => poll' = PollAt("online", [bytes |-> api.bytes, online |-> poll.stats.online],
                                           poll.listed, poll.todo, poll.at)
         /\ FetchOnline => poll' = PollAt("list", [bytes |-> poll.stats.bytes, online |-> api.online],
                                          poll.listed, poll.todo, poll.at)
         /\ List => poll' = PollAt("touch", poll.stats, users, 
                              {u \in Present : poll.stats.online[users[u].name] > 0}, events)
         /\ \A u \in Users : Touch(u) =>
              poll' = PollAt(poll.pc, poll.stats, poll.listed, poll.todo \ {u}, poll.at)
<1>1. StartPoll => poll' = PollAt("traffic", Zero, Idle.listed, {}, 0)
  BY DEF StartPoll, Idle, PollAt
<1>2. FetchTraffic => poll' = PollAt("online", [bytes |-> api.bytes, online |-> poll.stats.online],
                                     poll.listed, poll.todo, poll.at)
  <2> SUFFICES ASSUME FetchTraffic 
               PROVE  poll' = PollAt("online", [bytes |-> api.bytes, online |-> poll.stats.online],
                                     poll.listed, poll.todo, poll.at)
    OBVIOUS
  <2>1. poll' = [poll EXCEPT !.pc = "online", !.stats = [poll.stats EXCEPT !.bytes = api.bytes]]
    BY PollRecord DEF FetchTraffic, PollAt
  <2>2. [poll.stats EXCEPT !.bytes = api.bytes] = [bytes |-> api.bytes, online |-> poll.stats.online]
    BY PollRecord
  <2> QED BY <2>1, <2>2, PollRecord DEF PollAt
<1>3. FetchOnline => poll' = PollAt("list", [bytes |-> poll.stats.bytes, online |-> api.online],
                                    poll.listed, poll.todo, poll.at)
  <2> SUFFICES ASSUME FetchOnline
               PROVE  poll' = PollAt("list", [bytes |-> poll.stats.bytes, online |-> api.online],
                                     poll.listed, poll.todo, poll.at)
    OBVIOUS
  <2>1. poll' = [poll EXCEPT !.pc = "list", !.stats = [poll.stats EXCEPT !.online = api.online]]
    BY PollRecord DEF FetchOnline, PollAt
  <2>2. [poll.stats EXCEPT !.online = api.online] = [bytes |-> poll.stats.bytes, online |-> api.online]
    BY PollRecord
  <2> QED BY <2>1, <2>2, PollRecord DEF PollAt
<1>4. List => poll' = PollAt("touch", poll.stats, users, 
                        {u \in Present : poll.stats.online[users[u].name] > 0}, events)
  BY DEF List, TrafficTypeOK, PollAt
<1>5. \A u \in Users : Touch(u) =>
        poll' = PollAt(poll.pc, poll.stats, poll.listed, poll.todo \ {u}, poll.at)
  BY DEF Touch, TrafficTypeOK, PollAt
<1> QED BY <1>1, <1>2, <1>3, <1>4, <1>5

-----------------------------------------------------------------------------
(* The traffic poll.                                                       *)

\* Steps that touch neither the users nor the snapshots.
LEMMA PollMoves ==
  ASSUME ProcessInv, TrafficInv, ProcessInv', events <= events', poll' \in Polls5,
         UNCHANGED <<users, issued, snaps, late, api>>,
         poll'.at <= events', poll'.todo # {} => poll'.pc = "touch",
         poll'.pc = "touch" => \/ poll'.at = events /\ poll'.listed = users
                               \/ poll.pc = "touch" /\ poll'.at = poll.at /\ poll'.listed = poll.listed
  PROVE  TrafficInv'
<1>1. TrafficTypeOK'
  BY DEF TrafficInv, TrafficTypeOK, Present, Polls5
<1>2. PollInTime'
  BY DEF PollInTime
<1>3. VisitsPast'
  <2>1. Present' = Present /\ events \in Nat /\ events' \in Nat
    BY DEF Present, ProcessInv
  <2>2. \A u \in Present : users[u].seen \in Nat
    BY DEF TrafficInv, TrafficTypeOK, Present, User
  <2> QED BY <2>1, <2>2 DEF TrafficInv, VisitsPast
<1>4. LateOnce'
  <2>1. Deleted' = Deleted
    BY DEF Deleted, Present
  <2>2. \A u \in Deleted : users[u] = NoUser
    BY DEF Deleted, Present, TrafficInv, TrafficTypeOK
  <2> QED BY <2>1, <2>2 DEF TrafficInv, LateOnce
<1> QED BY <1>1, <1>2, <1>3, <1>4 DEF TrafficInv

LEMMA TouchKeeps == 
  ASSUME ProcessInv, TrafficInv, NEW u \in Users, Touch(u) PROVE ProcessInv' /\ TrafficInv'
<1>1. ProcessInv' /\ events <= events' /\ events \in Nat /\ events' \in Nat
  BY CallCounts DEF Touch
<1>2. poll' = PollAt(poll.pc, poll.stats, poll.listed, poll.todo \ {u}, poll.at)
  BY PollNext DEF TrafficInv
<1>3. poll.pc = "touch" /\ poll.at \in Nat /\ poll.at <= events /\ poll.at \in 0..MaxEvents
  BY PollRecord DEF Touch, TrafficInv, PollInTime
<1>4. poll' \in Polls5
  BY <1>2, PollRecord DEF TrafficInv, TrafficTypeOK, Polls5, PollAt
<1>5. poll'.pc = "touch" /\ poll'.at = poll.at /\ poll'.listed = poll.listed
  BY <1>2, <1>3 DEF PollAt
<1>6. PollInTime'
  BY <1>1, <1>3, <1>5 DEF PollInTime
<1>7. UNCHANGED <<issued, snaps, late, api>>
  BY DEF Touch
<1>8. CASE users' = users
  <2>1. TrafficInv'
    BY <1>1, <1>4, <1>5, <1>6, <1>7, <1>8, <1>3, PollMoves DEF PollInTime
  <2> QED BY <1>1, <2>1
<1>9. CASE users[u] # NoUser /\ users' = [users EXCEPT ![u].seen = poll.at]
  <2> DEFINE new == [name |-> users[u].name, enabled |-> users[u].enabled, seen |-> poll.at]
  <2>0. users \in [Users -> User \cup {NoUser}]
    BY DEF TrafficInv, TrafficTypeOK
  <2>1. users[u] \in User
    BY <1>9, <2>0
  <2>2. users' = [users EXCEPT ![u] = new]
    <3>1. [users[u] EXCEPT !.seen = poll.at] = new
      BY <2>1 DEF User
    <3> QED BY <1>9, <2>0, <3>1
  <2>3. new \in User /\ new # NoUser
    BY <1>3, <2>1, NullAssumption DEF User
  <2> HIDE DEF new
  <2>4. users' \in [Users -> User \cup {NoUser}] /\ Present' = Present
    <3>1. users' \in [Users -> User \cup {NoUser}]
      BY <2>0, <2>2, <2>3
    <3>2. \A v \in Users : users'[v] # NoUser <=> users[v] # NoUser
      BY <1>9, <2>0, <2>2, <2>3
    <3> QED BY <3>1, <3>2 DEF Present
  <2>5. TrafficTypeOK'
    BY <1>4, <1>7, <2>4 DEF TrafficInv, TrafficTypeOK, Polls5
  <2>6. VisitsPast'
    <3>1. \A v \in Present : users[v].seen \in Nat
      BY DEF TrafficInv, TrafficTypeOK, Present, User
    <3>2. users'[u].seen = poll.at /\ \A v \in Users \ {u} : users'[v] = users[v]
      BY <2>0, <2>2 DEF new
    <3>3. \A v \in Present : users'[v].seen <= events' /\ users'[v].seen <= poll.at
      BY <1>1, <1>3, <3>1, <3>2 DEF TrafficInv, VisitsPast, Present
    <3> QED BY <1>5, <2>4, <3>3 DEF VisitsPast
  <2>7. LateOnce'
    BY <1>3, <1>5, <1>7, <2>4 DEF TrafficInv, LateOnce, Deleted
  <2> QED BY <1>1, <1>6, <2>5, <2>6, <2>7 DEF TrafficInv
<1> QED BY <1>8, <1>9 DEF Touch, Touched

LEMMA WriteKeeps ==
  ASSUME ProcessInv, TrafficInv, NEW S \in SUBSET Listed, Write(S), poll.pc = "touch"
  PROVE  /\ snaps' \in [Users -> Snapshots]
         /\ late' \in [Users -> 0..MaxKept]
         /\ \A u \in Users : late'[u] <= 1 /\ (late'[u] # 0 => u \in Deleted)
<1>1. MaxKept \in Nat /\ MaxKept >= 1
  BY BoundsAssumption
<1>2. ASSUME NEW u \in S PROVE Added(u) \in Snapshots
  <2>1. u \in Users /\ poll.listed[u] \in User
    BY PollRecord DEF TrafficInv, Listed
  <2>2. snaps[u].count \in Nat
    BY <2>1 DEF TrafficInv, TrafficTypeOK, Snapshots
  <2>3. Min({snaps[u].count + 1, MaxKept}) \in 0..MaxKept
    BY <1>1, <2>2, MinOfTwo
  <2>4. poll.listed[u].name \in Names
    BY <2>1 DEF User
  <2>5. poll.stats.bytes[poll.listed[u].name] \in 0..MaxBytes
        /\ poll.stats.online[poll.listed[u].name] \in 0..1
    BY <2>4, PollRecord DEF TrafficInv, Counters
  <2> QED BY <2>3, <2>5 DEF Added, Snapshots
<1>3. snaps' \in [Users -> Snapshots]
  BY <1>2 DEF Write, TrafficInv, TrafficTypeOK
<1>4. ASSUME NEW u \in S \cap Deleted PROVE Min({late[u] + 1, MaxKept}) = 1
  <2>1. u \in Users /\ poll.listed[u] # NoUser
    BY <1>4 DEF Listed
  <2>2. late[u] = 0
    BY <2>1 DEF TrafficInv, LateOnce
  <2>3. Min({0 + 1, MaxKept}) \in {0 + 1, MaxKept} /\ Min({0 + 1, MaxKept}) <= 0 + 1
    BY <1>1, MinOfTwo
  <2>4. Min({0 + 1, MaxKept}) = 1
    BY <1>1, <2>3
  <2> QED BY <2>2, <2>4
<1>5. \A u \in Users : late'[u] = IF u \in S \cap Deleted THEN 1 ELSE late[u]
  BY <1>4 DEF Write
<1>6. late' \in [Users -> 0..MaxKept]
  <2>1. late' = [u \in Users |-> late'[u]]
    BY DEF Write
  <2>2. 1 \in 0..MaxKept
    BY <1>1
  <2> QED BY <1>5, <2>1, <2>2 DEF TrafficInv, TrafficTypeOK
<1>7. \A u \in Users : late'[u] <= 1 /\ (late'[u] # 0 => u \in Deleted)
  BY <1>5 DEF TrafficInv, LateOnce
<1> QED BY <1>3, <1>6, <1>7

LEMMA InsertKeeps == ASSUME ProcessInv, TrafficInv, Insert PROVE ProcessInv' /\ TrafficInv'
<1>1. ProcessInv' /\ events <= events' /\ events \in Nat /\ events' \in Nat
  BY CallCounts DEF Insert
<1>2. PICK S \in SUBSET Listed : Write(S)
  BY DEF Insert
<1>3. /\ snaps' \in [Users -> Snapshots]
      /\ late' \in [Users -> 0..MaxKept]
      /\ \A u \in Users : late'[u] <= 1 /\ (late'[u] # 0 => u \in Deleted)
  BY <1>2, WriteKeeps DEF Insert
<1>4. poll' = Idle /\ UNCHANGED <<users, issued, api>> /\ Present' = Present /\ Deleted' = Deleted
  BY DEF Insert, Present, Deleted
<1>5. TrafficTypeOK'
  BY <1>3, <1>4, IdleType DEF TrafficInv, TrafficTypeOK, Polls5
<1>6. poll'.pc = "idle" /\ poll'.at = 0 /\ poll'.todo = {}
  BY <1>4 DEF Idle
<1>7. VisitsPast'
  <2>1. \A u \in Present : users[u].seen \in Nat
    BY DEF TrafficInv, TrafficTypeOK, Present, User
  <2> QED BY <1>1, <1>4, <1>6, <2>1 DEF TrafficInv, VisitsPast
<1>8. PollInTime' /\ LateOnce'
  BY <1>1, <1>3, <1>4, <1>6 DEF PollInTime, LateOnce
<1> QED BY <1>1, <1>5, <1>7, <1>8 DEF TrafficInv

LEMMA PollKeeps == ASSUME ProcessInv, TrafficInv, PollStep PROVE ProcessInv' /\ TrafficInv'
<1> USE DEF TrafficInv
<1>1. ASSUME StartPoll \/ GivesUp \/ FetchTraffic \/ FetchOnline \/ List
      PROVE  /\ ProcessInv' /\ events <= events' /\ events \in Nat /\ events' \in Nat
             /\ UNCHANGED <<users, issued, snaps, late, api>>
  BY <1>1, CallCounts DEF StartPoll, GivesUp, FetchTraffic, FetchOnline, List
<1>2. CASE StartPoll \/ GivesUp
  <2>1. poll' \in Polls5 /\ poll'.at = 0 /\ poll'.todo = {} /\ poll'.pc # "touch"
    <3>1. CASE GivesUp
      BY <3>1, IdleType DEF GivesUp, Idle
    <3>2. CASE StartPoll
      <4>1. poll' = PollAt("traffic", Zero, Idle.listed, {}, 0)
        BY <3>2, PollNext
      <4>2. poll' \in Polls5
        BY <4>1, IdleType DEF Polls5, PollAt, Labels, Idle
      <4> QED BY <4>1, <4>2 DEF PollAt
    <3> QED BY <1>2, <3>1, <3>2
  <2> QED BY <1>1, <1>2, <2>1, PollMoves
<1>3. CASE FetchTraffic \/ FetchOnline
  <2>1. poll.pc # "touch" /\ poll.todo = {} /\ poll.at <= events
    BY <1>3 DEF FetchTraffic, FetchOnline, PollInTime
  <2>2. /\ poll' \in Polls5 /\ poll'.at = poll.at /\ poll'.todo = poll.todo 
        /\ poll'.pc # "touch"
    <3>1. poll.stats.bytes \in [Names -> 0..MaxBytes] /\ poll.stats.online \in [Names -> 0..1]
          /\ api.bytes \in [Names -> 0..MaxBytes] /\ api.online \in [Names -> 0..1]
      BY PollRecord DEF TrafficTypeOK, Counters
    <3>2. CASE FetchTraffic
      <4>1. poll' = PollAt("online", [bytes |-> api.bytes, online |-> poll.stats.online],
                           poll.listed, poll.todo, poll.at)
        BY <3>2, PollNext
      <4>2. [bytes |-> api.bytes, online |-> poll.stats.online] \in Counters
        BY <3>1 DEF Counters
      <4>3. poll' \in Polls5
        BY <4>1, <4>2, PollRecord DEF Polls5, PollAt, Labels
      <4> QED BY <4>1, <4>3 DEF PollAt
    <3>3. CASE FetchOnline
      <4>1. poll' = PollAt("list", [bytes |-> poll.stats.bytes, online |-> api.online],
                           poll.listed, poll.todo, poll.at)
        BY <3>3, PollNext
      <4>2. [bytes |-> poll.stats.bytes, online |-> api.online] \in Counters
        BY <3>1 DEF Counters
      <4>3. poll' \in Polls5
        BY <4>1, <4>2, PollRecord DEF Polls5, PollAt, Labels
      <4> QED BY <4>1, <4>3 DEF PollAt
    <3> QED BY <1>3, <3>2, <3>3
  <2>3. poll'.at <= events'
    <3>1. poll.at \in Nat
      BY PollRecord
    <3> QED BY <1>1, <1>3, <2>1, <2>2, <3>1
  <2> QED BY <1>1, <1>3, <2>1, <2>2, <2>3, PollMoves
<1>4. CASE List
  <2>1. poll' = PollAt("touch", poll.stats, users, 
                       {u \in Present : poll.stats.online[users[u].name] > 0}, events)
    BY <1>4, PollNext
  <2>2. poll' \in Polls5
    <3>1. {u \in Present : poll.stats.online[users[u].name] > 0} \in SUBSET Users
      BY DEF Present
    <3> HIDE DEF TrafficInv
    <3>2. users \in [Users -> User \cup {NoUser}] /\ events \in 0..MaxEvents /\ poll.stats \in Counters
      BY PollRecord DEF TrafficInv, TrafficTypeOK, ProcessInv
    <3> QED BY <2>1, <3>1, <3>2 DEF Polls5, PollAt, Labels
  <2>3. poll'.pc = "touch" /\ poll'.at = events /\ poll'.listed = users
    BY <2>1 DEF PollAt
  <2> QED BY <1>1, <1>4, <2>2, <2>3, PollMoves
<1> QED BY <1>2, <1>3, <1>4, TouchKeeps, InsertKeeps DEF PollStep

-----------------------------------------------------------------------------
(* Requests and the Hysteria server.                                       *)

\* Users there are were there, seen when they were, or are new and were not seen.
VisitsCarried ==
  \A u \in Users : u \in Present' =>
    \/ u \in Present /\ users'[u].seen = users[u].seen
    \/ u \notin issued /\ users'[u].seen = 0

\* Steps that leave the poll and the snapshots written late alone.
LEMMA UsersMove ==
  ASSUME ProcessInv, TrafficInv, ProcessInv', events <= events', UNCHANGED <<poll, late>>,
         users' \in [Users -> User \cup {NoUser}],
         issued \subseteq issued', issued' \subseteq Users, Present' \subseteq issued',
         snaps' \in [Users -> Snapshots], api' \in Counters,
         VisitsCarried
  PROVE  TrafficInv'
<1>1. TrafficTypeOK'
  BY DEF TrafficInv, TrafficTypeOK
<1>2. events \in Nat /\ events' \in Nat /\ poll.at \in Nat
  BY PollRecord DEF ProcessInv, TrafficInv
<1>3. VisitsPast'
  <2>1. \A u \in Present : users[u].seen \in Nat
    BY DEF TrafficInv, TrafficTypeOK, Present, User
  <2>2. Present' \subseteq Users
    BY DEF Present
  <2> QED BY <1>2, <2>1, <2>2 DEF TrafficInv, VisitsPast, VisitsCarried
<1>4. PollInTime'
  BY <1>2 DEF TrafficInv, PollInTime
<1>5. LateOnce'
  <2>1. Deleted \subseteq Deleted'
    BY DEF Deleted, Present, TrafficInv, TrafficTypeOK, VisitsCarried
  <2> QED BY <2>1 DEF TrafficInv, LateOnce
<1> QED BY <1>1, <1>3, <1>4, <1>5 DEF TrafficInv

LEMMA EventKeeps == ASSUME ProcessInv, Event, UNCHANGED running PROVE ProcessInv' /\ events <= events'
BY EventCounts DEF ProcessInv

LEMMA UserChanged ==
  ASSUME TrafficInv, NEW u \in Present
  PROVE  /\ u \in Users /\ users[u] \in User
         /\ \A n \in Names : /\ [users[u] EXCEPT !.name = n] \in User
                            /\ [users[u] EXCEPT !.name = n].seen = users[u].seen
         /\ [users[u] EXCEPT !.enabled = ~users[u].enabled] \in User
         /\ [users[u] EXCEPT !.enabled = ~users[u].enabled].seen = users[u].seen
<1>1. u \in Users /\ users[u] \in User
  BY DEF Present, TrafficInv, TrafficTypeOK
<1>2. [users[u] EXCEPT !.enabled = ~users[u].enabled] = 
        [name |-> users[u].name, enabled |-> ~users[u].enabled, seen |-> users[u].seen]
  BY <1>1 DEF User
<1>3. \A n \in Names : [users[u] EXCEPT !.name = n] = 
        [name |-> n, enabled |-> users[u].enabled, seen |-> users[u].seen]
  BY <1>1 DEF User
<1> QED BY <1>1, <1>2, <1>3 DEF User

LEMMA RequestKeeps == ASSUME ProcessInv, TrafficInv, Request PROVE ProcessInv' /\ TrafficInv'
<1>1. Event /\ UNCHANGED <<running, poll, late, api>>
  BY DEF Request, Create, Update, SetEnabled, Delete
<1>2. ProcessInv' /\ events <= events'
  BY <1>1, EventKeeps
<1>3. /\ users \in [Users -> User \cup {NoUser}] /\ issued \subseteq Users /\ Present \subseteq issued
      /\ snaps \in [Users -> Snapshots] /\ api \in Counters
  BY DEF TrafficInv, TrafficTypeOK
<1>4. ASSUME NEW u \in Users, NEW n \in Names, Create(u, n) PROVE TrafficInv'
  <2> DEFINE new == [name |-> n, enabled |-> TRUE, seen |-> 0]
  <2>1. new \in User /\ new # NoUser
    <3>1. 0 \in 0..MaxEvents
      BY BoundsAssumption
    <3>2. new \in User
      BY <3>1 DEF User
    <3> HIDE DEF new
    <3> QED BY <3>2, NullAssumption
  <2>2. /\ users' = [users EXCEPT ![u] = new] /\ issued' = issued \cup {u} /\ u \notin issued
        /\ snaps' = snaps
    BY <1>4 DEF Create
  <2>3. users' \in [Users -> User \cup {NoUser}] /\ Present' = Present \cup {u}
    BY <1>3, <2>1, <2>2 DEF Present
  <2>4. users'[u].seen = 0 /\ \A v \in Users \ {u} : users'[v] = users[v]
    BY <1>3, <2>2
  <2> HIDE DEF new
  <2>5. VisitsCarried
    BY <2>2, <2>3, <2>4 DEF VisitsCarried
  <2>6. issued \subseteq issued' /\ issued' \subseteq Users /\ Present' \subseteq issued'
    BY <1>3, <2>2, <2>3
  <2> QED BY <1>1, <1>2, <1>3, <2>2, <2>3, <2>5, <2>6, UsersMove
<1>5. ASSUME NEW u \in Present, NEW r \in User, users' = [users EXCEPT ![u] = r], 
             r.seen = users[u].seen, UNCHANGED <<issued, snaps>>
      PROVE  TrafficInv'
  <2>1. u \in Users /\ r # NoUser
    BY NullAssumption DEF Present
  <2>2. users' \in [Users -> User \cup {NoUser}]
    BY <1>3, <1>5, <2>1
  <2>3. users'[u] = r /\ \A v \in Users \ {u} : users'[v] = users[v]
    BY <1>3, <1>5, <2>1
  <2>4. Present' = Present
    BY <2>1, <2>3 DEF Present
  <2>5. VisitsCarried
    BY <1>5, <2>3, <2>4 DEF VisitsCarried
  <2> QED BY <1>1, <1>2, <1>3, <1>5, <2>2, <2>4, <2>5, UsersMove
<1>6. ASSUME NEW u \in Users, NEW n \in Names, Update(u, n) PROVE TrafficInv'
  BY <1>3, <1>5, <1>6, UserChanged DEF Update
<1>7. ASSUME NEW u \in Users, SetEnabled(u) PROVE TrafficInv'
  BY <1>3, <1>5, <1>7, UserChanged DEF SetEnabled
<1>8. ASSUME NEW u \in Users, Delete(u) PROVE TrafficInv'
  <2>1. users' = [users EXCEPT ![u] = NoUser] /\ issued' = issued
        /\ (snaps' = [snaps EXCEPT ![u] = NoSnapshots] \/ snaps' = snaps)
    BY <1>8 DEF Delete
  <2>2. NoSnapshots \in Snapshots
    BY BoundsAssumption DEF NoSnapshots, Snapshots
  <2>3. snaps' \in [Users -> Snapshots]
    BY <1>3, <2>1, <2>2
  <2>4. users' \in [Users -> User \cup {NoUser}]
    BY <1>3, <2>1
  <2>5. users'[u] = NoUser /\ \A v \in Users \ {u} : users'[v] = users[v]
    BY <1>3, <2>1
  <2>6. Present' = Present \ {u}
    BY <2>5 DEF Present
  <2>7. VisitsCarried
    BY <2>5, <2>6 DEF VisitsCarried
  <2>8. issued \subseteq issued' /\ issued' \subseteq Users /\ Present' \subseteq issued'
    BY <1>3, <2>1, <2>6
  <2> QED BY <1>1, <1>2, <1>3, <2>3, <2>4, <2>7, <2>8, UsersMove
<1> QED BY <1>2, <1>4, <1>6, <1>7, <1>8 DEF Request

LEMMA ServerKeeps == ASSUME ProcessInv, TrafficInv, Server PROVE ProcessInv' /\ TrafficInv'
<1>1. Event /\ UNCHANGED <<running, users, issued, snaps, late, poll>>
  BY DEF Server, Transfer, Connect, ServerRestart
<1>2. ProcessInv' /\ events <= events'
  BY <1>1, EventKeeps
<1>3. api \in Counters /\ api.bytes \in [Names -> 0..MaxBytes] /\ api.online \in [Names -> 0..1]
  BY DEF TrafficInv, TrafficTypeOK, Counters
<1>4. api' \in Counters
  <2>1. ASSUME NEW n \in Names, Transfer(n) PROVE api' \in Counters
    <3>1. api' = [api EXCEPT !.bytes = [api.bytes EXCEPT ![n] = api.bytes[n] + 1]] 
          /\ api.bytes[n] < MaxBytes
      BY <2>1 DEF Transfer
    <3>2. api.bytes[n] + 1 \in 0..MaxBytes
      BY <1>3, <3>1, BoundsAssumption
    <3>3. [api.bytes EXCEPT ![n] = api.bytes[n] + 1] \in [Names -> 0..MaxBytes]
      BY <1>3, <3>2
    <3>4. api' = [bytes |-> [api.bytes EXCEPT ![n] = api.bytes[n] + 1], online |-> api.online]
      BY <1>3, <3>1 DEF Counters
    <3> QED BY <1>3, <3>3, <3>4 DEF Counters
  <2>2. ASSUME NEW n \in Names, Connect(n) PROVE api' \in Counters
    <3>1. api' = [api EXCEPT !.online = [api.online EXCEPT ![n] = 1 - api.online[n]]] 
      BY <2>2 DEF Connect
    <3>2. 1 - api.online[n] \in 0..1
      BY <1>3
    <3>3. [api.online EXCEPT ![n] = 1 - api.online[n]] \in [Names -> 0..1]
      BY <1>3, <3>2
    <3>4. api' = [bytes |-> api.bytes, online |-> [api.online EXCEPT ![n] = 1 - api.online[n]]]
      BY <1>3, <3>1 DEF Counters
    <3> QED BY <1>3, <3>3, <3>4 DEF Counters
  <2>3. Zero \in Counters
    BY BoundsAssumption DEF Zero, Counters
  <2> QED BY <2>1, <2>2, <2>3 DEF Server, ServerRestart
<1>5. /\ users \in [Users -> User \cup {NoUser}] /\ issued \subseteq Users /\ Present \subseteq issued
      /\ snaps \in [Users -> Snapshots] /\ Present' = Present
  BY <1>1 DEF TrafficInv, TrafficTypeOK, Present
<1>6. VisitsCarried
  BY <1>1, <1>5 DEF VisitsCarried
<1>7. /\ issued \subseteq issued' /\ issued' \subseteq Users /\ Present' \subseteq issued'
      /\ snaps' \in [Users -> Snapshots] /\ users' \in [Users -> User \cup {NoUser}]
  BY <1>1, <1>5
<1>8. TrafficInv'
  BY <1>1, <1>2, <1>4, <1>6, <1>7, UsersMove
<1> QED BY <1>2, <1>8

\* The traffic side when only the clock or the context changes, or the poll dies.
LEMMA TrafficRests ==
  ASSUME ProcessInv, TrafficInv, ProcessInv', events <= events',
         UNCHANGED traffic \/ PollDies
  PROVE  TrafficInv'
<1>1. UNCHANGED <<users, issued, snaps, late, api>> /\ poll' \in {poll, Idle}
  BY DEF traffic, PollDies
<1>2. poll' \in Polls5
  BY <1>1, IdleType DEF TrafficInv, TrafficTypeOK, Polls5
<1>3. Idle.at = 0 /\ Idle.todo = {} /\ Idle.pc = "idle"
  BY DEF Idle
<1>4. events \in Nat /\ events' \in Nat /\ poll.at \in Nat
  BY PollRecord DEF ProcessInv, TrafficInv
<1>5. poll'.at <= events' /\ (poll'.todo # {} => poll'.pc = "touch")
  BY <1>1, <1>3, <1>4 DEF TrafficInv, PollInTime
<1> QED BY <1>1, <1>2, <1>3, <1>5, PollMoves

-----------------------------------------------------------------------------
(* The states of services.                                                 *)

Calls == [pc: {"idle", "show", "version", "upsert"}, kind: {"poll", "list", "get", "action"},
          todo: SUBSET Services, svc: Services, asked: [Services -> 0..MaxEvents],
          read: Reading, version: BOOLEAN]

\* The local variables of a process, one by one.
CallAt(pc, kind, todo, svc, asked, read, version) ==
  [pc |-> pc, kind |-> kind, todo |-> todo, svc |-> svc, asked |-> asked, read |-> read,
   version |-> version]

\* What a client asks about, under the units there are.
Honest(c, units) ==
  /\ \A s \in Services : c.asked[s] <= units[s].since
  /\ c.pc = "upsert" => c.asked[c.svc] <= c.read.since

LEMMA RestingCall == 
  /\ Resting \in Calls /\ Resting.pc = "idle" /\ \A s \in Services : Resting.asked[s] = 0
  /\ Resting = CallAt("idle", "poll", {}, Resting.svc, Resting.asked, Resting.read, FALSE)
<1>1. AnyService \in Services
  BY JobAssumption DEF AnyService
<1>2. [state |-> "active", since |-> 0] \in Reading
  BY BoundsAssumption DEF Reading, States
<1>3. [s \in Services |-> 0] \in [Services -> 0..MaxEvents]
  BY BoundsAssumption
<1> QED BY <1>1, <1>2, <1>3 DEF Resting, Calls, CallAt

\* What the steps make of them, named so that a lemma can say it once.
Onward(c, todo, version, l) == [[c EXCEPT !.todo = todo, !.version = version] EXCEPT !.pc = l]
Asks(c, s, todo, read, l) == [[c EXCEPT !.svc = s, !.todo = todo, !.read = read] EXCEPT !.pc = l]
Opens(c, kind, todo, asked, l) == 
  [[c EXCEPT !.kind = kind, !.todo = todo, !.asked = asked] EXCEPT !.pc = l]
Starts(c, todo, l) == [[c EXCEPT !.todo = todo] EXCEPT !.pc = l]
Versioned(c, version, l) == [[c EXCEPT !.version = version] EXCEPT !.pc = l]
Labelled(c, l) == [c EXCEPT !.pc = l]

LEMMA OnwardStep ==
  ASSUME NEW p, NEW k, NEW t, NEW s, NEW a, NEW r, NEW v, NEW l, NEW x, NEW y
  PROVE  Onward(CallAt(p, k, t, s, a, r, v), x, y, l) = CallAt(l, k, x, s, a, r, y)
<1>1. [CallAt(p, k, t, s, a, r, v) EXCEPT !.todo = x] = CallAt(p, k, x, s, a, r, v)
  BY DEF CallAt
<1>2. [CallAt(p, k, x, s, a, r, v) EXCEPT !.version = y] = CallAt(p, k, x, s, a, r, y)
  BY DEF CallAt
<1>3. [CallAt(p, k, x, s, a, r, y) EXCEPT !.pc = l] = CallAt(l, k, x, s, a, r, y)
  BY DEF CallAt
<1> DEFINE c == CallAt(p, k, t, s, a, r, v)
<1> HIDE DEF c
<1>4. [c EXCEPT !.todo = x, !.version = y] =
       [[c EXCEPT !.todo = x] EXCEPT !.version = y]
  OBVIOUS
<1>5. [CallAt(p, k, t, s, a, r, v) EXCEPT !.todo = x, !.version = y] = CallAt(p, k, x, s, a, r, y)
  BY <1>1, <1>2, <1>3, <1>4 DEF c
<1> QED BY <1>3, <1>5 DEF Onward

LEMMA AsksStep ==
  ASSUME NEW p, NEW k, NEW t, NEW s, NEW a, NEW r, NEW v, NEW l, NEW x, NEW y, NEW z
  PROVE  Asks(CallAt(p, k, t, s, a, r, v), x, y, z, l) = CallAt(l, k, y, x, a, z, v)
<1>1. [CallAt(p, k, t, s, a, r, v) EXCEPT !.svc = x] = CallAt(p, k, t, x, a, r, v)
  BY DEF CallAt
<1>2. [CallAt(p, k, t, x, a, r, v) EXCEPT !.todo = y] = CallAt(p, k, y, x, a, r, v)
  BY DEF CallAt
<1>3. [CallAt(p, k, y, x, a, r, v) EXCEPT !.read = z] = CallAt(p, k, y, x, a, z, v)
  BY DEF CallAt
<1>4. [CallAt(p, k, y, x, a, z, v) EXCEPT !.pc = l] = CallAt(l, k, y, x, a, z, v)
  BY DEF CallAt
<1> DEFINE c == CallAt(p, k, t, s, a, r, v)
<1> HIDE DEF c
<1>5. [c EXCEPT !.svc = x, !.todo = y, !.read = z] =
       [[[c EXCEPT !.svc = x] EXCEPT !.todo = y] EXCEPT !.read = z]
  OBVIOUS
<1>6. [CallAt(p, k, t, s, a, r, v) EXCEPT !.svc = x, !.todo = y, !.read = z] = CallAt(p, k, y, x, a, z, v)
  BY <1>1, <1>2, <1>3, <1>4, <1>5 DEF c
<1> QED BY <1>4, <1>6 DEF Asks

LEMMA OpensStep ==
  ASSUME NEW p, NEW k, NEW t, NEW s, NEW a, NEW r, NEW v, NEW l, NEW x, NEW y, NEW z
  PROVE  Opens(CallAt(p, k, t, s, a, r, v), x, y, z, l) = CallAt(l, x, y, s, z, r, v)
<1>1. [CallAt(p, k, t, s, a, r, v) EXCEPT !.kind = x] = CallAt(p, x, t, s, a, r, v)
  BY DEF CallAt
<1>2. [CallAt(p, x, t, s, a, r, v) EXCEPT !.todo = y] = CallAt(p, x, y, s, a, r, v)
  BY DEF CallAt
<1>3. [CallAt(p, x, y, s, a, r, v) EXCEPT !.asked = z] = CallAt(p, x, y, s, z, r, v)
  BY DEF CallAt
<1>4. [CallAt(p, x, y, s, z, r, v) EXCEPT !.pc = l] = CallAt(l, x, y, s, z, r, v)
  BY DEF CallAt
<1> DEFINE c == CallAt(p, k, t, s, a, r, v)
<1> HIDE DEF c
<1>5. [c EXCEPT !.kind = x, !.todo = y, !.asked = z] =
       [[[c EXCEPT !.kind = x] EXCEPT !.todo = y] EXCEPT !.asked = z]
  OBVIOUS
<1>6. [CallAt(p, k, t, s, a, r, v) EXCEPT !.kind = x, !.todo = y, !.asked = z] = CallAt(p, x, y, s, z, r, v)
  BY <1>1, <1>2, <1>3, <1>4, <1>5 DEF c
<1> QED BY <1>4, <1>6 DEF Opens

LEMMA StartsStep ==
  ASSUME NEW p, NEW k, NEW t, NEW s, NEW a, NEW r, NEW v, NEW l, NEW x
  PROVE  Starts(CallAt(p, k, t, s, a, r, v), x, l) = CallAt(l, k, x, s, a, r, v)
<1>1. [CallAt(p, k, t, s, a, r, v) EXCEPT !.todo = x] = CallAt(p, k, x, s, a, r, v)
  BY DEF CallAt
<1>2. [CallAt(p, k, x, s, a, r, v) EXCEPT !.pc = l] = CallAt(l, k, x, s, a, r, v)
  BY DEF CallAt
<1> QED BY <1>1, <1>2 DEF Starts

LEMMA VersionedStep ==
  ASSUME NEW p, NEW k, NEW t, NEW s, NEW a, NEW r, NEW v, NEW l, NEW x
  PROVE  Versioned(CallAt(p, k, t, s, a, r, v), x, l) = CallAt(l, k, t, s, a, r, x)
<1>1. [CallAt(p, k, t, s, a, r, v) EXCEPT !.version = x] = CallAt(p, k, t, s, a, r, x)
  BY DEF CallAt
<1>2. [CallAt(p, k, t, s, a, r, x) EXCEPT !.pc = l] = CallAt(l, k, t, s, a, r, x)
  BY DEF CallAt
<1> QED BY <1>1, <1>2 DEF Versioned

LEMMA LabelledStep ==
  ASSUME NEW p, NEW k, NEW t, NEW s, NEW a, NEW r, NEW v, NEW l
  PROVE  Labelled(CallAt(p, k, t, s, a, r, v), l) = CallAt(l, k, t, s, a, r, v)
<1>1. [CallAt(p, k, t, s, a, r, v) EXCEPT !.pc = l] = CallAt(l, k, t, s, a, r, v)
  BY DEF CallAt
<1> QED BY <1>1 DEF Labelled

LEMMA CallNow ==
  ASSUME NEW c \in Calls
  PROVE  \E p \in {"idle", "show", "version", "upsert"}, k \in {"poll", "list", "get", "action"},
            t \in SUBSET Services, s \in Services, a \in [Services -> 0..MaxEvents], r \in Reading,
            v \in BOOLEAN : c = CallAt(p, k, t, s, a, r, v)
BY DEF Calls, CallAt

LEMMA CallFields ==
  ASSUME NEW p, NEW k, NEW t, NEW s, NEW a, NEW r, NEW v
  PROVE  /\ CallAt(p, k, t, s, a, r, v).pc = p
         /\ CallAt(p, k, t, s, a, r, v).kind = k
         /\ CallAt(p, k, t, s, a, r, v).todo = t
         /\ CallAt(p, k, t, s, a, r, v).svc = s
         /\ CallAt(p, k, t, s, a, r, v).asked = a
         /\ CallAt(p, k, t, s, a, r, v).read = r
         /\ CallAt(p, k, t, s, a, r, v).version = v
BY DEF CallAt

LEMMA CallIn ==
  ASSUME NEW p \in {"idle", "show", "version", "upsert"}, NEW k \in {"poll", "list", "get", "action"},
         NEW t \in SUBSET Services, NEW s \in Services, NEW a \in [Services -> 0..MaxEvents], 
         NEW r \in Reading, NEW v \in BOOLEAN
  PROVE  CallAt(p, k, t, s, a, r, v) \in Calls
BY DEF CallAt, Calls

LEMMA CallRecord ==
  ASSUME ServicesTypeOK, NEW p \in Procs
  PROVE  /\ call[p] \in Calls
         /\ call[p] = CallAt(call[p].pc, call[p].kind, call[p].todo, call[p].svc, call[p].asked,
                             call[p].read, call[p].version)
BY DEF ServicesTypeOK, Calls, CallAt

\* A process done with a service rests, or goes on to the next.
LEMMA DoneNext ==
  ASSUME ServicesTypeOK, NEW p \in Procs, NEW s, Done(p, s)
  PROVE  \E c \in Calls :
           /\ call' = [call EXCEPT ![p] = c]
           /\ c.pc # "upsert"
           /\ c.asked = call[p].asked \/ c.asked = Resting.asked
<1>1. CASE call[p].todo \ {s} = {}
  BY <1>1, RestingCall DEF Done
<1>2. CASE call[p].todo \ {s} # {}
  <2>1. PICK l \in {"idle", "show", "version", "upsert"}, k \in {"poll", "list", "get", "action"},
             t \in SUBSET Services, x \in Services, a \in [Services -> 0..MaxEvents], r \in Reading,
             v \in BOOLEAN : call[p] = CallAt(l, k, t, x, a, r, v)
    BY CallRecord, CallNow
  <2> PICK no \in BOOLEAN, show \in {"show"}, rest \in SUBSET Services :
           no = FALSE /\ rest = t \ {s}
    OBVIOUS
  <2> DEFINE c == CallAt(show, k, rest, x, a, r, no)
  <2>2. call[p].todo = t /\ call[p].asked = a
    BY <2>1, CallFields
  <2>3. call' = [call EXCEPT ![p] = Onward(call[p], call[p].todo \ {s}, FALSE, "show")]
    BY <1>2 DEF Done, Goto, Onward
  <2>4. Onward(call[p], rest, no, show) = c
    BY <2>1, OnwardStep
  <2>5. call' = [call EXCEPT ![p] = c]
    BY <2>2, <2>3, <2>4
  <2>6. c \in Calls
    BY CallIn
  <2>7. c.pc = "show" /\ c.asked = a
    BY CallFields
  <2> HIDE DEF c
  <2> QED BY <2>2, <2>5, <2>6, <2>7
<1> QED BY <1>1, <1>2

LEMMA AskedNow ==
  ASSUME ServicesTypeOK
  PROVE  /\ unit \in [Services -> Reading]
         /\ \A s \in Services : unit[s].since \in Nat /\ unit[s].since \in 0..MaxEvents
         /\ \A p \in Procs, s \in Services : call[p].asked[s] \in Nat
<1>1. \A p \in Procs : call[p].asked \in [Services -> 0..MaxEvents]
  BY DEF ServicesTypeOK
<1>2. unit \in [Services -> Reading]
  BY DEF ServicesTypeOK
<1> QED BY <1>1, <1>2, BoundsAssumption DEF Reading

LEMMA RestingHonest == ASSUME ServicesTypeOK PROVE Honest(Resting, unit)
BY RestingCall, AskedNow DEF Honest

LEMMA HonestNow == ASSUME ServicesInv, NEW p \in Clients PROVE Honest(call[p], unit)
BY DEF ServicesInv, AskedBefore, Honest

\* A step of one process that leaves the services alone.
LEMMA ProcessMoves ==
  ASSUME ProcessInv, ServicesInv, ProcessInv', events <= events', unit' = unit,
         NEW p \in Procs, NEW c \in Calls, call' = [call EXCEPT ![p] = c],
         p \in Clients => Honest(c, unit),
         cache' \in [Services -> Stored \cup {NoState}],
         answer' \in [Clients -> [live: BOOLEAN, since: 0..MaxEvents, asked: 0..MaxEvents]],
         \A q \in Clients : answer'[q] # answer[q] => 
           (answer'[q].live => answer'[q].since >= answer'[q].asked)
  PROVE  ServicesInv'
<1>1. call' \in [Procs -> Calls] /\ call'[p] = c /\ \A q \in Procs \ {p} : call'[q] = call[q]
  BY DEF ServicesInv, ServicesTypeOK, Calls
<1>2. ServicesTypeOK'
  BY <1>1 DEF ServicesInv, ServicesTypeOK, Calls
<1>3. UnitsPast'
  <2>1. events \in Nat /\ events' \in Nat /\ \A s \in Services : unit[s].since \in Nat
    BY AskedNow DEF ServicesInv, ProcessInv
  <2> QED BY <2>1 DEF ServicesInv, UnitsPast
<1>4. AskedBefore'
  <2>1. \A q \in Clients : q \in Procs /\ Honest(call'[q], unit)
    BY <1>1, HonestNow DEF Procs
  <2> QED BY <2>1 DEF AskedBefore, Honest
<1>5. LiveAnswersFresh'
  BY DEF ServicesInv, LiveAnswersFresh
<1> QED BY <1>2, <1>3, <1>4, <1>5 DEF ServicesInv
\* Steps that leave the services and the processes alone.
LEMMA ServicesRest ==
  ASSUME ProcessInv, ServicesInv, ProcessInv', events <= events', UNCHANGED services
  PROVE  ServicesInv'
<1>1. events \in Nat /\ events' \in Nat /\ \A s \in Services : unit[s].since \in Nat
  BY AskedNow DEF ServicesInv, ProcessInv
<1> QED BY <1>1 DEF services, ServicesInv, ServicesTypeOK, UnitsPast, AskedBefore, LiveAnswersFresh

LEMMA CallNamed ==
  ASSUME ServicesTypeOK, NEW p \in Procs
  PROVE  \E l \in {"idle", "show", "version", "upsert"}, k \in {"poll", "list", "get", "action"},
            t \in SUBSET Services, x \in Services, a \in [Services -> 0..MaxEvents], r \in Reading,
            v \in BOOLEAN : 
           /\ call[p] = CallAt(l, k, t, x, a, r, v)
           /\ call[p].pc = l /\ call[p].todo = t /\ call[p].svc = x /\ call[p].asked = a
           /\ call[p].read = r /\ call[p].version = v
<1>1. PICK l \in {"idle", "show", "version", "upsert"}, k \in {"poll", "list", "get", "action"},
           t \in SUBSET Services, x \in Services, a \in [Services -> 0..MaxEvents], r \in Reading,
           v \in BOOLEAN : call[p] = CallAt(l, k, t, x, a, r, v)
  BY CallRecord, CallNow
<1>2. /\ call[p].pc = l /\ call[p].todo = t /\ call[p].svc = x /\ call[p].asked = a
      /\ call[p].read = r /\ call[p].version = v
  BY <1>1, CallFields
<1> QED BY <1>1, <1>2

LEMMA StartKeeps ==
  ASSUME ProcessInv, ServicesInv, StartServicePoll PROVE ProcessInv' /\ ServicesInv'
<1>1. ProcessInv' /\ events <= events'
  BY CallCounts DEF StartServicePoll
<1> PICK show \in {"idle", "show", "version", "upsert"}, k \in {"poll", "list", "get", "action"},
         no \in BOOLEAN, none \in SUBSET Services, all \in SUBSET Services, idle \in {"idle"} : 
         show = "show" /\ k = "poll" /\ no = FALSE /\ none = {} /\ all = Services /\ idle = "idle"
  OBVIOUS
<1>2. /\ Resting = CallAt(idle, k, none, Resting.svc, Resting.asked, Resting.read, no)
      /\ Resting.svc \in Services /\ Resting.asked \in [Services -> 0..MaxEvents]
      /\ Resting.read \in Reading
  BY RestingCall DEF Calls
<1> DEFINE c == CallAt(show, k, all, Resting.svc, Resting.asked, Resting.read, no)
<1>3. Starts(Resting, all, show) = c
  BY <1>2, StartsStep
<1>4. call' = [call EXCEPT ![Job] = Starts(Resting, all, show)]
  BY DEF StartServicePoll, Goto, Starts
<1>5. c \in Calls
  BY <1>2, CallIn
<1> HIDE DEF c
<1>6. Job \in Procs /\ Job \notin Clients
  BY JobAssumption DEF Procs
<1>7. call' = [call EXCEPT ![Job] = c] /\ UNCHANGED <<unit, cache, answer>>
  BY <1>3, <1>4 DEF StartServicePoll
<1>8. /\ cache' \in [Services -> Stored \cup {NoState}]
      /\ answer' \in [Clients -> [live: BOOLEAN, since: 0..MaxEvents, asked: 0..MaxEvents]]
  BY <1>7 DEF ServicesInv, ServicesTypeOK
<1> QED BY <1>1, <1>5, <1>6, <1>7, <1>8, ProcessMoves

LEMMA OpenKeeps ==
  ASSUME ProcessInv, ServicesInv, NEW p \in Clients, NEW kind \in {"poll", "list", "get", "action"},
         NEW S \in SUBSET Services, Open(p, kind, S) 
  PROVE  ProcessInv' /\ ServicesInv'
<1>1. ProcessInv' /\ events <= events'
  BY EventKeeps DEF Open
<1> PICK show \in {"idle", "show", "version", "upsert"}, k \in {"poll", "list", "get", "action"},
         no \in BOOLEAN, none \in SUBSET Services, idle \in {"idle"} : 
         show = "show" /\ k = "poll" /\ no = FALSE /\ none = {} /\ idle = "idle"
  OBVIOUS
<1>2. /\ Resting = CallAt(idle, k, none, Resting.svc, Resting.asked, Resting.read, no)
      /\ Resting.svc \in Services /\ Resting.read \in Reading
  BY RestingCall DEF Calls
<1>3. PICK now \in [Services -> 0..MaxEvents] : now = [s \in Services |-> unit[s].since]
  BY AskedNow DEF ServicesInv
<1> DEFINE c == CallAt(show, kind, S, Resting.svc, now, Resting.read, no)
<1>4. Opens(Resting, kind, S, now, show) = c
  BY <1>2, OpensStep
<1>5. call' = [call EXCEPT ![p] = Opens(Resting, kind, S, now, show)]
  BY <1>3 DEF Open, Goto, Opens
<1>6. c \in Calls
  BY <1>2, CallIn
<1>7. c.pc = show /\ c.asked = now
  BY CallFields
<1> HIDE DEF c
<1>8. Honest(c, unit)
  BY <1>3, <1>7, AskedNow DEF Honest, ServicesInv
<1>9. p \in Procs
  BY DEF Procs
<1>10. call' = [call EXCEPT ![p] = c] /\ UNCHANGED <<unit, cache, answer>>
  BY <1>4, <1>5 DEF Open
<1>11. /\ cache' \in [Services -> Stored \cup {NoState}]
       /\ answer' \in [Clients -> [live: BOOLEAN, since: 0..MaxEvents, asked: 0..MaxEvents]]
  BY <1>10 DEF ServicesInv, ServicesTypeOK
<1> QED BY <1>1, <1>6, <1>8, <1>9, <1>10, <1>11, ProcessMoves
\* A service enters a new state; a client may begin a request in the same step.
LEMMA UnitMoves ==
  ASSUME ProcessInv, ServicesInv, ProcessInv', events <= events', 
         NEW s \in Services, NEW r \in Reading, r.since = events', unit' = [unit EXCEPT ![s] = r],
         UNCHANGED <<cache, answer>>,
         call' \in [Procs -> Calls],
         \A q \in Clients : call'[q] = call[q] \/ Honest(call'[q], unit')
  PROVE  ServicesInv'
<1>1. ServicesTypeOK'
  BY DEF ServicesInv, ServicesTypeOK, Calls
<1>2. events \in Nat /\ events' \in Nat
  BY DEF ProcessInv
<1>3. unit'[s] = r /\ \A x \in Services \ {s} : unit'[x] = unit[x]
  BY AskedNow DEF ServicesInv
<1>4. \A x \in Services : unit[x].since \in Nat /\ unit[x].since <= events
  BY AskedNow DEF ServicesInv, UnitsPast
<1>5. \A x \in Services : unit[x].since <= unit'[x].since /\ unit'[x].since <= events'
                          /\ unit'[x].since \in Nat
  BY <1>2, <1>3, <1>4
<1>6. UnitsPast'
  BY <1>5 DEF UnitsPast
<1>7. \A q \in Clients : Honest(call'[q], unit')
  <2> SUFFICES ASSUME NEW q \in Clients, call'[q] = call[q] PROVE Honest(call'[q], unit')
    OBVIOUS
  <2>1. Honest(call[q], unit)
    BY HonestNow
  <2>2. \A x \in Services : call[q].asked[x] \in Nat
    BY AskedNow DEF ServicesInv, Procs
  <2> QED BY <1>4, <1>5, <2>1, <2>2 DEF Honest
<1>8. AskedBefore'
  BY <1>7 DEF AskedBefore, Honest
<1>9. LiveAnswersFresh'
  BY DEF ServicesInv, LiveAnswersFresh
<1> QED BY <1>1, <1>6, <1>8, <1>9 DEF ServicesInv

LEMMA NewState ==
  ASSUME ProcessInv, Event, NEW x \in States
  PROVE  /\ [state |-> x, since |-> events'] \in Reading 
         /\ [state |-> x, since |-> events'].since = events'
BY EventCounts DEF Reading

LEMMA UnitKeeps ==
  ASSUME ProcessInv, ServicesInv, NEW s \in Services, UnitChanges(s) 
  PROVE  ProcessInv' /\ ServicesInv'
<1>1. ProcessInv' /\ events <= events' /\ Event
  BY EventKeeps DEF UnitChanges
<1>2. PICK x \in States : unit' = [unit EXCEPT ![s] = [state |-> x, since |-> events']]
  BY DEF UnitChanges
<1> DEFINE r == [state |-> x, since |-> events']
<1>3. r \in Reading /\ r.since = events' /\ unit' = [unit EXCEPT ![s] = r]
  BY <1>1, <1>2, NewState
<1>4. call' = call /\ UNCHANGED <<cache, answer>>
  BY DEF UnitChanges
<1>5. call' \in [Procs -> Calls]
  BY <1>4 DEF ServicesInv, ServicesTypeOK, Calls
<1> HIDE DEF r
<1> QED BY <1>1, <1>3, <1>4, <1>5, UnitMoves

LEMMA CommandKeeps ==
  ASSUME ProcessInv, ServicesInv, NEW p \in Clients, NEW s \in Services, Command(p, s)
  PROVE  ProcessInv' /\ ServicesInv'
<1>1. ProcessInv' /\ events <= events' /\ Event /\ UNCHANGED <<cache, answer>>
  BY EventKeeps DEF Command
<1>2. call \in [Procs -> Calls] /\ p \in Procs
  BY DEF ServicesInv, ServicesTypeOK, Calls, Procs
<1>3. ASSUME unit' = [unit EXCEPT ![s] = [state |-> "failed", since |-> events']], UNCHANGED call
      PROVE  ServicesInv'
  <2> DEFINE r == [state |-> "failed", since |-> events']
  <2>1. r \in Reading /\ r.since = events' /\ unit' = [unit EXCEPT ![s] = r]
    BY <1>1, <1>3, NewState DEF States
  <2> HIDE DEF r
  <2> QED BY <1>1, <1>2, <1>3, <2>1, UnitMoves
<1>4. ASSUME unit' = [unit EXCEPT ![s] = [state |-> "active", since |-> events']],
             Goto(p, "show", [Resting EXCEPT !.kind = "action", !.todo = {s},
                              !.asked = [x \in Services |-> unit'[x].since]])
      PROVE  ServicesInv'
  <2> DEFINE r == [state |-> "active", since |-> events']
  <2>1. r \in Reading /\ r.since = events' /\ unit' = [unit EXCEPT ![s] = r]
    BY <1>1, <1>4, NewState DEF States
  <2> HIDE DEF r
  <2>2. unit' \in [Services -> Reading]
    BY <2>1, AskedNow DEF ServicesInv
  <2>3. /\ [x \in Services |-> unit'[x].since] \in [Services -> 0..MaxEvents]
        /\ \A x \in Services : unit'[x].since \in Nat
    BY <2>2, BoundsAssumption DEF Reading
  <2> PICK show \in {"idle", "show", "version", "upsert"}, k \in {"poll", "list", "get", "action"},
           no \in BOOLEAN, none \in SUBSET Services, idle \in {"idle"}, 
           action \in {"poll", "list", "get", "action"}, only \in SUBSET Services : 
           show = "show" /\ k = "poll" /\ no = FALSE /\ none = {} /\ idle = "idle" 
           /\ action = "action" /\ only = {s}
    OBVIOUS
  <2>4. /\ Resting = CallAt(idle, k, none, Resting.svc, Resting.asked, Resting.read, no)
        /\ Resting.svc \in Services /\ Resting.read \in Reading
    BY RestingCall DEF Calls
  <2>5. PICK now \in [Services -> 0..MaxEvents] : now = [x \in Services |-> unit'[x].since]
    BY <2>3
  <2> DEFINE c == CallAt(show, action, only, Resting.svc, now, Resting.read, no)
  <2>6. Opens(Resting, action, only, now, show) = c
    BY <2>4, OpensStep
  <2>7. call' = [call EXCEPT ![p] = Opens(Resting, action, only, now, show)]
    BY <1>4, <2>5 DEF Goto, Opens
  <2>8. c \in Calls
    BY <2>4, CallIn
  <2>9. c.pc = show /\ c.asked = now
    BY CallFields
  <2> HIDE DEF c
  <2>10. Honest(c, unit')
    <3>1. \A x \in Services : c.asked[x] <= unit'[x].since
      BY <2>3, <2>5, <2>9
    <3> QED BY <3>1, <2>9 DEF Honest
  <2>11. call' = [call EXCEPT ![p] = c]
    BY <2>6, <2>7
  <2>12. call' \in [Procs -> Calls] /\ call'[p] = c /\ \A q \in Procs \ {p} : call'[q] = call[q]
    BY <1>2, <2>8, <2>11
  <2>13. \A q \in Clients : call'[q] = call[q] \/ Honest(call'[q], unit')
    BY <2>10, <2>12 DEF Procs
  <2> QED BY <1>1, <2>1, <2>12, <2>13, UnitMoves
<1> QED BY <1>1, <1>3, <1>4 DEF Command
LEMMA ShowKeeps ==
  ASSUME ProcessInv, ServicesInv, NEW p \in Procs, Show(p) PROVE ProcessInv' /\ ServicesInv'
<1>1. ProcessInv' /\ events <= events' /\ UNCHANGED <<unit, cache, answer>>
  BY CallCounts DEF Show
<1>2. PICK l \in {"idle", "show", "version", "upsert"}, k \in {"poll", "list", "get", "action"},
           t \in SUBSET Services, x \in Services, a \in [Services -> 0..MaxEvents], r \in Reading,
           v \in BOOLEAN : 
           /\ call[p] = CallAt(l, k, t, x, a, r, v)
           /\ call[p].pc = l /\ call[p].todo = t /\ call[p].svc = x /\ call[p].asked = a
           /\ call[p].read = r /\ call[p].version = v
  BY CallNamed DEF ServicesInv
<1>3. PICK s \in t : Goto(p, IF p = Job THEN "version" ELSE "upsert",
                          [call[p] EXCEPT !.svc = s, !.todo = call[p].todo \ {s}, !.read = unit[s]])
  BY <1>2 DEF Show
<1>4. s \in Services /\ unit[s] \in Reading
  BY AskedNow DEF ServicesInv
<1> PICK next \in {"idle", "show", "version", "upsert"}, rest \in SUBSET Services, 
         now \in Reading :
         next = (IF p = Job THEN "version" ELSE "upsert") /\ rest = t \ {s} /\ now = unit[s]
  BY <1>4
<1> DEFINE c == CallAt(next, k, rest, s, a, now, v)
<1>5. Asks(call[p], s, rest, now, next) = c
  BY <1>2, AsksStep
<1>6. call' = [call EXCEPT ![p] = Asks(call[p], s, rest, now, next)]
  BY <1>2, <1>3 DEF Goto, Asks
<1>7. c \in Calls
  BY <1>4, CallIn
<1>8. c.asked = a /\ c.svc = s /\ c.read = now
  BY CallFields
<1> HIDE DEF c
<1>9. ASSUME p \in Clients PROVE Honest(c, unit)
  <2>1. Honest(call[p], unit)
    BY <1>9, HonestNow
  <2> QED BY <1>2, <1>4, <1>8, <2>1 DEF Honest
<1>10. call' = [call EXCEPT ![p] = c]
  BY <1>5, <1>6
<1>11. /\ cache' \in [Services -> Stored \cup {NoState}]
       /\ answer' \in [Clients -> [live: BOOLEAN, since: 0..MaxEvents, asked: 0..MaxEvents]]
  BY <1>1 DEF ServicesInv, ServicesTypeOK
<1> QED BY <1>1, <1>7, <1>9, <1>10, <1>11, ProcessMoves

\* Whatever a process is done with, what it asked about stays as it was.
LeftAt(p, c) == call' = [call EXCEPT ![p] = c] /\ (p \in Clients => Honest(c, unit))

LEMMA DoneHonest ==
  ASSUME ServicesInv, NEW p \in Procs, NEW s, Done(p, s)
  PROVE  \E c \in Calls : LeftAt(p, c)
<1>1. PICK c \in Calls : /\ call' = [call EXCEPT ![p] = c]
                         /\ c.pc # "upsert"
                         /\ c.asked = call[p].asked \/ c.asked = Resting.asked
  BY DoneNext DEF ServicesInv
<1>2. ASSUME p \in Clients PROVE Honest(c, unit)
  <2>1. Honest(call[p], unit) /\ Honest(Resting, unit)
    BY <1>2, HonestNow, RestingHonest DEF ServicesInv
  <2> QED BY <1>1, <2>1 DEF Honest
<1> QED BY <1>1, <1>2 DEF LeftAt

LEMMA JobFailsKeeps ==
  ASSUME ProcessInv, ServicesInv, ShowFailsJob PROVE ProcessInv' /\ ServicesInv'
<1>1. ProcessInv' /\ events <= events' /\ UNCHANGED <<unit, answer>>
  BY CallCounts DEF ShowFailsJob
<1>2. Job \in Procs /\ call[Job].todo \subseteq Services
  <2>1. Job \in Procs
    BY DEF Procs
  <2> QED BY <2>1 DEF ServicesInv, ServicesTypeOK
<1>3. PICK s \in Services : (cache' = Failed(s) \/ cache' = cache) /\ Done(Job, s)
  BY <1>2 DEF ShowFailsJob
<1>4. PICK c \in Calls : LeftAt(Job, c)
  BY <1>2, <1>3, DoneHonest
<1>5. cache' \in [Services -> Stored \cup {NoState}]
  <2> PICK no \in BOOLEAN : no = FALSE
    OBVIOUS
  <2>1. unit[s].since \in 0..MaxEvents
    BY AskedNow DEF ServicesInv
  <2>2. [state |-> "failed", since |-> unit[s].since, version |-> no] \in Stored
    BY <2>1 DEF Stored, States
  <2>3. Failed(s) = [cache EXCEPT ![s] = [state |-> "failed", since |-> unit[s].since, version |-> no]]
    BY DEF Failed
  <2>4. cache \in [Services -> Stored \cup {NoState}]
    BY DEF ServicesInv, ServicesTypeOK
  <2> QED BY <1>3, <2>2, <2>3, <2>4
<1>6. answer' \in [Clients -> [live: BOOLEAN, since: 0..MaxEvents, asked: 0..MaxEvents]]
  BY <1>1 DEF ServicesInv, ServicesTypeOK
<1> QED BY <1>1, <1>2, <1>4, <1>5, <1>6, ProcessMoves DEF LeftAt

\* A client is told something.
LEMMA TellKeeps ==
  ASSUME ServicesInv, NEW p \in Clients, NEW s \in Services, NEW live \in BOOLEAN, NEW r, 
         r.since \in 0..MaxEvents, live => r.since >= call[p].asked[s], Tell(p, s, live, r)
  PROVE  /\ answer' \in [Clients -> [live: BOOLEAN, since: 0..MaxEvents, asked: 0..MaxEvents]]
         /\ \A q \in Clients : answer'[q] # answer[q] => 
              (answer'[q].live => answer'[q].since >= answer'[q].asked)
<1>1. PICK a \in 0..MaxEvents, since \in 0..MaxEvents : a = call[p].asked[s] /\ since = r.since
  <2>1. p \in Procs
    BY DEF Procs
  <2>2. call[p].asked \in [Services -> 0..MaxEvents]
    BY <2>1 DEF ServicesInv, ServicesTypeOK
  <2> QED BY <2>2
<1> DEFINE new == [live |-> live, since |-> since, asked |-> a]
<1>2. answer' = [answer EXCEPT ![p] = new]
  BY <1>1 DEF Tell
<1>3. new \in [live: BOOLEAN, since: 0..MaxEvents, asked: 0..MaxEvents] 
      /\ (new.live => new.since >= new.asked)
  BY <1>1
<1> HIDE DEF new
<1>4. answer \in [Clients -> [live: BOOLEAN, since: 0..MaxEvents, asked: 0..MaxEvents]]
  BY DEF ServicesInv, ServicesTypeOK
<1>5. answer'[p] = new /\ \A q \in Clients \ {p} : answer'[q] = answer[q]
  BY <1>2, <1>4
<1>6. answer' \in [Clients -> [live: BOOLEAN, since: 0..MaxEvents, asked: 0..MaxEvents]]
  BY <1>2, <1>3, <1>4
<1> QED BY <1>3, <1>5, <1>6

LEMMA ShowFailsKeeps ==
  ASSUME ProcessInv, ServicesInv, NEW p \in Clients, ShowFails(p) PROVE ProcessInv' /\ ServicesInv'
<1>1. ProcessInv' /\ events <= events' /\ UNCHANGED <<unit, cache>>
  BY EventKeeps DEF ShowFails
<1>2. p \in Procs
  BY DEF Procs
<1>3. call[p].todo \subseteq Services
  BY <1>2 DEF ServicesInv, ServicesTypeOK
<1>4. PICK s \in Services : (FallBack(p, s) \/ UNCHANGED answer) /\ Done(p, s)
  BY <1>3 DEF ShowFails
<1>5. PICK c \in Calls : LeftAt(p, c)
  BY <1>2, <1>4, DoneHonest
<1>6. cache' \in [Services -> Stored \cup {NoState}]
  BY <1>1 DEF ServicesInv, ServicesTypeOK
<1>7. /\ answer' \in [Clients -> [live: BOOLEAN, since: 0..MaxEvents, asked: 0..MaxEvents]]
      /\ \A q \in Clients : answer'[q] # answer[q] => 
           (answer'[q].live => answer'[q].since >= answer'[q].asked)
  <2>1. CASE UNCHANGED answer
    BY <2>1 DEF ServicesInv, ServicesTypeOK
  <2>2. CASE cache[s] # NoState /\ Tell(p, s, FALSE, cache[s])
    <3>1. cache[s] \in Stored
      BY <2>2 DEF ServicesInv, ServicesTypeOK
    <3>2. cache[s].since \in 0..MaxEvents
      BY <3>1 DEF Stored
    <3> PICK no \in BOOLEAN : no = FALSE
      OBVIOUS
    <3>3. Tell(p, s, no, cache[s])
      BY <2>2
    <3> QED BY <3>2, <3>3, TellKeeps
  <2> QED BY <1>4, <2>1, <2>2 DEF FallBack
<1> QED BY <1>1, <1>2, <1>5, <1>6, <1>7, ProcessMoves DEF LeftAt
LEMMA VersionKeeps ==
  ASSUME ProcessInv, ServicesInv, Version PROVE ProcessInv' /\ ServicesInv'
<1>1. ProcessInv' /\ events <= events' /\ UNCHANGED <<unit, cache, answer>>
  BY CallCounts DEF Version
<1>2. Job \in Procs /\ Job \notin Clients
  BY JobAssumption DEF Procs
<1>3. PICK l \in {"idle", "show", "version", "upsert"}, k \in {"poll", "list", "get", "action"},
           t \in SUBSET Services, x \in Services, a \in [Services -> 0..MaxEvents], r \in Reading,
           v \in BOOLEAN : 
           /\ call[Job] = CallAt(l, k, t, x, a, r, v)
           /\ call[Job].pc = l /\ call[Job].todo = t /\ call[Job].svc = x /\ call[Job].asked = a
           /\ call[Job].read = r /\ call[Job].version = v
  BY <1>2, CallNamed DEF ServicesInv
<1> PICK upsert \in {"idle", "show", "version", "upsert"}, yes \in BOOLEAN : 
         upsert = "upsert" /\ yes = TRUE
  OBVIOUS
<1>4. \/ call' = [call EXCEPT ![Job] = Versioned(call[Job], yes, upsert)]
      \/ call' = [call EXCEPT ![Job] = Labelled(call[Job], upsert)]
  BY DEF Version, Goto, Versioned, Labelled
<1>5. Versioned(call[Job], yes, upsert) = CallAt(upsert, k, t, x, a, r, yes)
  <2>1. call[Job] = CallAt(l, k, t, x, a, r, v)
    BY <1>3
  <2>2. ASSUME NEW y PROVE Versioned(call[Job], y, upsert) = CallAt(upsert, k, t, x, a, r, y)
    BY <2>1, VersionedStep
  <2> QED BY <2>2
<1>6. Labelled(call[Job], upsert) = CallAt(upsert, k, t, x, a, r, v)
  BY <1>3, LabelledStep
<1>7. PICK c \in Calls : call' = [call EXCEPT ![Job] = c]
  <2>1. CallAt(upsert, k, t, x, a, r, yes) \in Calls /\ CallAt(upsert, k, t, x, a, r, v) \in Calls
    BY CallIn
  <2> QED BY <1>4, <1>5, <1>6, <2>1
<1>8. /\ cache' \in [Services -> Stored \cup {NoState}]
      /\ answer' \in [Clients -> [live: BOOLEAN, since: 0..MaxEvents, asked: 0..MaxEvents]]
  BY <1>1 DEF ServicesInv, ServicesTypeOK
<1> QED BY <1>1, <1>2, <1>7, <1>8, ProcessMoves

LEMMA UpsertKeeps ==
  ASSUME ProcessInv, ServicesInv, NEW p \in Procs, Upsert(p) PROVE ProcessInv' /\ ServicesInv'
<1>1. ProcessInv' /\ events <= events' /\ unit' = unit
  BY CallCounts, EventKeeps DEF Upsert, Fails
<1>2. PICK l \in {"idle", "show", "version", "upsert"}, k \in {"poll", "list", "get", "action"},
           t \in SUBSET Services, x \in Services, a \in [Services -> 0..MaxEvents], r \in Reading,
           v \in BOOLEAN : 
           /\ call[p] = CallAt(l, k, t, x, a, r, v)
           /\ call[p].pc = l /\ call[p].todo = t /\ call[p].svc = x /\ call[p].asked = a
           /\ call[p].read = r /\ call[p].version = v
  BY CallNamed DEF ServicesInv
<1>3. PICK c \in Calls : LeftAt(p, c)
  BY DoneHonest DEF Upsert
<1>4. r.since \in 0..MaxEvents /\ r.since \in Nat /\ r.state \in States
  BY BoundsAssumption DEF Reading
<1>5. cache' \in [Services -> Stored \cup {NoState}]
  <2>1. Entry(p) = [state |-> r.state, since |-> r.since, version |-> v]
    BY <1>2 DEF Entry
  <2>2. Entry(p) \in Stored
    BY <1>4, <2>1 DEF Stored
  <2>3. cache' = cache \/ cache' = [cache EXCEPT ![x] = Entry(p)]
    BY <1>2 DEF Upsert, Upserted
  <2> QED BY <2>2, <2>3 DEF ServicesInv, ServicesTypeOK
<1>6. /\ answer' \in [Clients -> [live: BOOLEAN, since: 0..MaxEvents, asked: 0..MaxEvents]]
      /\ \A q \in Clients : answer'[q] # answer[q] => 
           (answer'[q].live => answer'[q].since >= answer'[q].asked)
  <2>1. CASE p = Job
    BY <2>1 DEF Upsert, ServicesInv, ServicesTypeOK
  <2>2. CASE p # Job
    <3>1. p \in Clients
      BY <2>2 DEF Procs
    <3> PICK yes \in BOOLEAN : yes = TRUE
      OBVIOUS
    <3>2. Tell(p, x, yes, r)
      BY <1>2, <2>2 DEF Upsert
    <3>3. a[x] <= r.since
      <4>1. call[p].pc = "upsert"
        BY DEF Upsert
      <4> QED BY <1>2, <3>1, <4>1 DEF ServicesInv, AskedBefore
    <3>4. r.since >= call[p].asked[x]
      <4>1. a[x] \in Nat
        BY BoundsAssumption
      <4> QED BY <1>2, <1>4, <3>3, <4>1
    <3> QED BY <1>4, <3>1, <3>2, <3>4, TellKeeps
  <2> QED BY <2>1, <2>2
<1> QED BY <1>1, <1>3, <1>5, <1>6, ProcessMoves DEF LeftAt

\* The processes begin anew with the panel.
LEMMA DieKeeps ==
  ASSUME ProcessInv, ServicesInv, ProcessInv', events <= events', ServicesDie PROVE ServicesInv'
<1>1. call' \in [Procs -> Calls] /\ \A q \in Procs : call'[q] = Resting
  BY RestingCall DEF ServicesDie
<1>2. UNCHANGED <<unit, cache, answer>>
  BY DEF ServicesDie
<1>3. ServicesTypeOK' 
  BY <1>1, <1>2 DEF ServicesInv, ServicesTypeOK, Calls
<1>4. UnitsPast'
  <2>1. events \in Nat /\ events' \in Nat /\ \A s \in Services : unit[s].since \in Nat
    BY AskedNow DEF ServicesInv, ProcessInv
  <2> QED BY <1>2, <2>1 DEF ServicesInv, UnitsPast
<1>5. AskedBefore'
  <2>1. Honest(Resting, unit)
    BY RestingHonest DEF ServicesInv
  <2> QED BY <1>1, <1>2, <2>1 DEF AskedBefore, Honest, Procs
<1>6. LiveAnswersFresh'
  BY <1>2 DEF ServicesInv, LiveAnswersFresh
<1> QED BY <1>3, <1>4, <1>5, <1>6 DEF ServicesInv

LEMMA ServicesKeep ==
  ASSUME ProcessInv, ServicesInv, ServicesNext PROVE ProcessInv' /\ ServicesInv'
<1>1. Job \in Procs /\ \A p \in Clients : p \in Procs
  BY DEF Procs
<1>2. CASE ServicePollStep
  BY <1>1, <1>2, StartKeeps, ShowKeeps, JobFailsKeeps, VersionKeeps, UpsertKeeps DEF ServicePollStep
<1>3. CASE \E p \in Clients : OpenAny(p)
  <2>1. PICK p \in Clients : OpenAny(p)
    BY <1>3
  <2>2. CASE Open(p, "list", Services)
    <3> PICK list \in {"poll", "list", "get", "action"}, S \in SUBSET Services : 
             list = "list" /\ S = Services
      OBVIOUS
    <3>1. Open(p, list, S)
      BY <2>2
    <3> QED BY <3>1, OpenKeeps
  <2>3. ASSUME NEW s \in Services, Open(p, "get", {s}) PROVE ProcessInv' /\ ServicesInv'
    <3> PICK get \in {"poll", "list", "get", "action"}, S \in SUBSET Services : 
             get = "get" /\ S = {s}
      OBVIOUS
    <3>1. Open(p, get, S)
      BY <2>3
    <3> QED BY <3>1, OpenKeeps
  <2> QED BY <2>1, <2>2, <2>3, CommandKeeps DEF OpenAny
<1>4. CASE \E p \in Clients : Serve(p)
  BY <1>1, <1>4, ShowKeeps, ShowFailsKeeps, UpsertKeeps DEF Serve
<1>5. CASE \E s \in Services : UnitChanges(s)
  BY <1>5, UnitKeeps
<1> QED BY <1>2, <1>3, <1>4, <1>5 DEF ServicesNext
-----------------------------------------------------------------------------
(* The panel.                                                              *)

LEMMA InitHolds == Init => IInv
<1> SUFFICES ASSUME Init PROVE IInv
  OBVIOUS
<1>1. ProcessInv
  BY BoundsAssumption DEF Init, ProcessInv
<1>2. /\ users \in [Users -> [name: Names, enabled: {TRUE}, seen: {0}] \cup {NoUser}]
      /\ issued = Present /\ snaps = [u \in Users |-> NoSnapshots]
      /\ late = [u \in Users |-> 0] /\ api = Zero /\ poll = Idle /\ events = 0
  BY DEF Init, TrafficInit
<1>3. ASSUME NEW u \in Users PROVE users[u] \in User \cup {NoUser} /\ (users[u] # NoUser => users[u].seen = 0)
  <2>1. 0 \in 0..MaxEvents
    BY BoundsAssumption
  <2>2. [name: Names, enabled: {TRUE}, seen: {0}] \subseteq User
    BY <2>1 DEF User
  <2> QED BY <1>2, <2>2
<1>4. TrafficTypeOK
  <2>1. NoSnapshots \in Snapshots /\ Zero \in Counters /\ 0 \in 0..MaxKept
    BY BoundsAssumption DEF NoSnapshots, Snapshots, Zero, Counters
  <2>2. users \in [Users -> User \cup {NoUser}]
    BY <1>2, <1>3
  <2>3. Present \subseteq Users
    BY DEF Present
  <2> QED BY <1>2, <2>1, <2>2, <2>3, IdleType DEF TrafficTypeOK, Polls5
<1>5. Idle.pc = "idle" /\ Idle.at = 0 /\ Idle.todo = {}
  BY DEF Idle
<1>6. VisitsPast /\ PollInTime /\ LateOnce
  BY <1>2, <1>3, <1>5 DEF VisitsPast, PollInTime, LateOnce, Present
<1>7. unit \in [Services -> [state: States, since: {0}]] /\ cache = [s \in Services |-> NoState]
      /\ call = [p \in Procs |-> Resting] /\ answer = [p \in Clients |-> NoAnswer]
  BY DEF Init, ServicesInit
<1>8. unit \in [Services -> Reading] /\ \A s \in Services : unit[s].since = 0
  <2>1. [state: States, since: {0}] \subseteq Reading
    BY BoundsAssumption DEF Reading
  <2> QED BY <1>7, <2>1
<1>9. ServicesTypeOK
  <2>1. NoAnswer \in [live: BOOLEAN, since: 0..MaxEvents, asked: 0..MaxEvents]
    BY BoundsAssumption DEF NoAnswer
  <2> QED BY <1>7, <1>8, <2>1, RestingCall DEF ServicesTypeOK, Calls
<1>10. UnitsPast
  BY <1>2, <1>8 DEF UnitsPast
<1>11. AskedBefore
  <2>1. Honest(Resting, unit)
    BY <1>9, RestingHonest
  <2> QED BY <1>7, <2>1 DEF AskedBefore, Honest, Procs
<1>12. LiveAnswersFresh
  BY <1>7 DEF LiveAnswersFresh, NoAnswer
<1> QED BY <1>1, <1>4, <1>6, <1>9, <1>10, <1>11, <1>12 DEF IInv, TrafficInv, ServicesInv

LEMMA NextKeeps == IInv /\ [Next]_vars => IInv'
<1> SUFFICES ASSUME IInv, [Next]_vars PROVE IInv'
  OBVIOUS
<1> USE DEF IInv
<1>1. CASE TrafficNext /\ UNCHANGED services
  <2>1. ProcessInv' /\ TrafficInv'
    BY <1>1, PollKeeps, RequestKeeps, ServerKeeps DEF TrafficNext
  <2>2. events <= events'
    <3>1. CASE PollStep
      BY <3>1, CallCounts DEF PollStep, StartPoll, GivesUp, FetchTraffic, FetchOnline, List, Touch, Insert
    <3>2. CASE Request
      BY <3>2, EventKeeps DEF Request, Create, Update, SetEnabled, Delete
    <3>3. CASE Server
      BY <3>3, EventKeeps DEF Server, Transfer, Connect, ServerRestart
    <3> QED BY <1>1, <3>1, <3>2, <3>3 DEF TrafficNext
  <2> QED BY <1>1, <2>1, <2>2, ServicesRest
<1>2. CASE ServicesNext /\ UNCHANGED traffic
  <2>1. ProcessInv' /\ ServicesInv'
    BY <1>2, ServicesKeep
  <2>2. events <= events'
    BY <1>2, CallCounts, EventKeeps DEF ServicesNext, ServicePollStep, OpenAny, Serve, UnitChanges, 
       StartServicePoll, Show, ShowFailsJob, Version, Upsert, Fails, ShowFails, Open, Command
  <2> QED BY <1>2, <2>1, <2>2, TrafficRests
<1>3. CASE Shutdown
  <2>1. ProcessInv' /\ events <= events' /\ UNCHANGED <<traffic, services>>
    BY <1>3, EventCounts DEF Shutdown, ProcessInv
  <2> QED BY <2>1, TrafficRests, ServicesRest
<1>4. CASE Restart
  <2>1. ProcessInv' /\ events <= events' 
    BY <1>4, EventCounts, BoundsAssumption DEF Restart, ProcessInv
  <2>2. PollDies /\ ServicesDie
    BY <1>4 DEF Restart
  <2> QED BY <2>1, <2>2, TrafficRests, DieKeeps
<1>5. CASE UNCHANGED vars
  <2>1. UNCHANGED <<process, traffic, services>>
    BY <1>5 DEF vars
  <2>2. ProcessInv' /\ events <= events'
    BY <2>1, CallCounts
  <2> QED BY <2>1, <2>2, TrafficRests, ServicesRest
<1> QED BY <1>1, <1>2, <1>3, <1>4, <1>5 DEF Next

LEMMA Invariant == Spec => []IInv
BY InitHolds, NextKeeps, PTL DEF Spec

\* Every variable has its type: in particular every snapshot is of a user that 
\* was issued an identifier, and there is no record of one that was not.
THEOREM TypeCorrect == Spec => []TypeOK
<1>1. IInv => TypeOK
  BY DEF IInv, ProcessInv, TrafficInv, ServicesInv, TypeOK
<1> QED BY <1>1, Invariant, PTL

\* A poll that was under way when a user was deleted may write one snapshot of
\* it; no later poll does, however polls, requests, failures and restarts meet
\* (InsertHysteriaSnapshots, DeleteHysteriaUser).
THEOREM OneLateSnapshot == Spec => []LateSnapshots
<1>1. IInv => LateSnapshots
  BY DEF IInv, TrafficInv, LateOnce, LateSnapshots
<1> QED BY <1>1, Invariant, PTL

\* A state that ListServices, GetService, RestartService or ReloadService give
\* as live began no earlier than the one the service was in when they were
\* asked: a restart that succeeded is seen by its own answer.
THEOREM NoOldStateIsLive == Spec => []LiveAnswersFresh
<1>1. IInv => LiveAnswersFresh
  BY DEF IInv, ServicesInv
<1> QED BY <1>1, Invariant, PTL
-----------------------------------------------------------------------------
(* What becomes of a record in a step.                                     *)

Kept(u) ==
  /\ u \in Deleted => users'[u] = NoUser
  /\ users[u] # NoUser /\ users'[u] # NoUser => users'[u].seen >= users[u].seen
  /\ poll' # poll => \/ users'[u] = users[u]
                     \/ /\ NoUser \notin {users[u], users'[u]}
                        /\ users'[u] = [users[u] EXCEPT !.seen = users'[u].seen]

LEMMA SeenNow ==
  ASSUME TrafficInv, NEW u \in Users
  PROVE  /\ users[u] # NoUser => users[u] \in User /\ users[u].seen \in Nat /\ u \in issued
         /\ u \in Deleted => users[u] = NoUser /\ u \in issued
BY BoundsAssumption DEF TrafficInv, TrafficTypeOK, User, Deleted, Present

LEMMA SameKept == 
  ASSUME TrafficInv, NEW u \in Users, users'[u] = users[u] PROVE Kept(u)
BY SeenNow DEF Kept

LEMMA TouchKept ==
  ASSUME TrafficInv, NEW v \in Users, Touch(v), NEW u \in Users PROVE Kept(u)
<1>1. CASE users'[u] = users[u]
  BY <1>1, SameKept
<1>2. CASE users'[u] # users[u]
  <2>0. users \in [Users -> User \cup {NoUser}] /\ poll.at \in 0..MaxEvents
    BY DEF TrafficInv, TrafficTypeOK
  <2>1. users' = [users EXCEPT ![v].seen = poll.at] /\ users[v] # NoUser
    BY <1>2 DEF Touch, Touched
  <2>2. u = v
    BY <1>2, <2>0, <2>1
  <2>3. users[u] \in User /\ users[u].seen \in Nat /\ poll.at \in Nat /\ u \in Present
    BY <2>0, <2>1, <2>2, SeenNow, BoundsAssumption DEF Present
  <2>4. users'[u] = [users[u] EXCEPT !.seen = poll.at]
    BY <2>0, <2>1, <2>2
  <2>5. users'[u] = [name |-> users[u].name, enabled |-> users[u].enabled, seen |-> poll.at]
    BY <2>3, <2>4 DEF User
  <2>6. users'[u].seen = poll.at /\ users'[u] \in User
    BY <2>0, <2>3, <2>5 DEF User
  <2>7. users[u].seen <= poll.at
    BY <2>2, <2>3 DEF TrafficInv, VisitsPast, PollInTime, Touch
  <2>8. users'[u] # NoUser /\ users[u] # NoUser
    BY <2>3, <2>6, NullAssumption
  <2>9. u \notin Deleted
    BY <2>8, SeenNow
  <2>10. users'[u] = [users[u] EXCEPT !.seen = users'[u].seen]
    BY <2>4, <2>6
  <2>11. users'[u].seen >= users[u].seen
    BY <2>3, <2>6, <2>7
  <2> QED BY <2>8, <2>9, <2>10, <2>11 DEF Kept
<1> QED BY <1>1, <1>2

LEMMA RequestKept ==
  ASSUME TrafficInv, Request, NEW u \in Users PROVE Kept(u)
<1>0. users \in [Users -> User \cup {NoUser}] 
  BY DEF TrafficInv, TrafficTypeOK
<1>1. PICK v \in Users : (\E n \in Names : Create(v, n) \/ Update(v, n)) \/ SetEnabled(v) \/ Delete(v)
  BY DEF Request
<1>2. poll' = poll
  BY <1>1 DEF Create, Update, SetEnabled, Delete
<1>3. CASE u # v
  <2>1. users'[u] = users[u]
    BY <1>0, <1>1, <1>3 DEF Create, Update, SetEnabled, Delete
  <2> QED BY <2>1, SameKept
<1>4. ASSUME u = v, NEW n \in Names, Create(v, n) PROVE Kept(u)
  <2>1. u \notin issued
    BY <1>4 DEF Create
  <2> QED BY <1>2, <2>1, SeenNow DEF Kept
<1>5. ASSUME u = v, NEW n \in Names, Update(v, n) PROVE Kept(u)
  <2>1. u \in Present /\ users' = [users EXCEPT ![u].name = n]
    BY <1>5 DEF Update
  <2>2. users'[u] = [users[u] EXCEPT !.name = n]
    BY <1>0, <2>1
  <2>3. users'[u].seen = users[u].seen
    BY <1>5, <2>1, <2>2, UserChanged
  <2>4. u \notin Deleted
    BY <2>1 DEF Deleted
  <2> QED BY <1>2, <2>3, <2>4, SeenNow DEF Kept
<1>6. ASSUME u = v, SetEnabled(v) PROVE Kept(u)
  <2>1. u \in Present /\ users' = [users EXCEPT ![u].enabled = ~users[u].enabled]
    BY <1>0, <1>6 DEF SetEnabled
  <2>2. users'[u] = [users[u] EXCEPT !.enabled = ~users[u].enabled]
    BY <1>0, <2>1
  <2>3. users'[u].seen = users[u].seen
    BY <1>6, <2>1, <2>2, UserChanged
  <2>4. u \notin Deleted
    BY <2>1 DEF Deleted
  <2> QED BY <1>2, <2>3, <2>4, SeenNow DEF Kept
<1>7. ASSUME u = v, Delete(v) PROVE Kept(u)
  <2>1. users'[u] = NoUser
    BY <1>0, <1>7 DEF Delete
  <2> QED BY <1>2, <2>1 DEF Kept
<1> QED BY <1>1, <1>3, <1>4, <1>5, <1>6, <1>7

LEMMA StepKept ==
  ASSUME IInv, Next, NEW u \in Users PROVE Kept(u)
<1>1. CASE users' = users
  BY <1>1, SameKept DEF IInv
<1>2. CASE \E v \in Users : Touch(v)
  BY <1>2, TouchKept DEF IInv
<1>3. CASE Request
  BY <1>3, RequestKept DEF IInv
<1>4. ASSUME Next, users' # users PROVE Request \/ \E v \in Users : Touch(v)
  BY <1>4 DEF Next, TrafficNext, PollStep, StartPoll, GivesUp, FetchTraffic, FetchOnline, List, Insert,
     Server, ServerRestart, Transfer, Connect, traffic, Shutdown, Restart, PollDies
<1> QED BY <1>1, <1>2, <1>3, <1>4

\* A deleted user stays deleted, no last visit goes back, and a poll changes
\* nothing of a record but its last visit: what a request writes between the
\* poll's list and its writes is never written over
\* (TouchHysteriaUserLastSeen).
THEOREM PollsKeepRecords == Spec => RecordsKept
<1>1. IInv /\ [Next]_vars => [\A u \in Users : Kept(u)]_vars
  BY StepKept
<1>2. Spec => [][\A u \in Users : Kept(u)]_vars
  BY <1>1, Invariant, PTL DEF Spec
<1> QED BY <1>2 DEF RecordsKept, Kept
=============================================================================
