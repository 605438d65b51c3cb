----------------------------- MODULE TrafficPoll -----------------------------
(***************************************************************************)
(* The job that polls the Hysteria server's statistics beside requests     *)
(* that change users.  A poll asks the server for the bytes and then the   *)
(* connections of each name, lists the users, stores the time of the last  *)
(* visit of each user online and at last one snapshot for each user listed.*)
(* Each of these is one call; the repository is locked for one operation   *)
(* at a time, so users may be renamed or deleted between any two of them.  *)
(***************************************************************************)
EXTENDS PanelProcess, FiniteSets, FiniteSetsExt

CONSTANTS
  Users,      \* identifiers
  Names,
  NoUser,     \* no record
  MaxBytes,   \* bound: the server's counters
  MaxKept     \* bound: snapshots of one user that are counted one by one

VARIABLES
  users,    \* users[u]: the record of u
  issued,   \* identifiers drawn so far, never drawn again
  snaps,    \* snaps[u]: the directory of u's snapshots
  late,     \* history: snapshots written for u after it was deleted
  api,      \* what the Hysteria server counts for each name
  poll      \* the local variables of the poll

traffic == <<users, issued, snaps, late, api, poll>>

User == [name: Names, enabled: BOOLEAN, seen: 0..MaxEvents]
Counters == [bytes: [Names -> 0..MaxBytes], online: [Names -> 0..1]]

\* A directory of snapshots: how many there are and the newest of them.
Snapshots == [count: 0..MaxKept, bytes: 0..MaxBytes, online: 0..1]
NoSnapshots == [count |-> 0, bytes |-> 0, online |-> 0]

Labels == {"idle", "traffic", "online", "list", "touch"}

Zero == [bytes |-> [n \in Names |-> 0], online |-> [n \in Names |-> 0]]

\* A poll that has not asked for anything.
Idle == [pc |-> "idle", stats |-> Zero, listed |-> [u \in Users |-> NoUser],
         todo |-> {}, at |-> 0]

Present == {u \in Users : users[u] # NoUser}
Deleted == issued \ Present

NameFree(u, n) == \A v \in Present \ {u} : users[v].name # n

-----------------------------------------------------------------------------
(* The job.                                                                *)

\* runTicker: the next run starts at a tick, after the one before it ended.
StartPoll ==
  /\ poll.pc = "idle"
  /\ running
  /\ poll' = [Idle EXCEPT !.pc = "traffic"]
  /\ UNCHANGED <<users, issued, snaps, late, api, process>>

\* A call whose error ends the poll.
GivesUp ==
  /\ poll.pc \in {"traffic", "online", "list"}
  /\ CallFails
  /\ poll' = Idle
  /\ UNCHANGED <<users, issued, snaps, late, api>>

FetchTraffic ==
  /\ poll.pc = "traffic"
  /\ running
  /\ poll' = [poll EXCEPT !.pc = "online", !.stats.bytes = api.bytes]
  /\ UNCHANGED <<users, issued, snaps, late, api, process>>

FetchOnline ==
  /\ poll.pc = "online"
  /\ running
  /\ poll' = [poll EXCEPT !.pc = "list", !.stats.online = api.online]
  /\ UNCHANGED <<users, issued, snaps, late, api, process>>

\* ListHysteriaUsers, and the clock read after it.  `todo' is the users
\* found online; the loop takes them newest first, the model in any order.
List ==
  /\ poll.pc = "list"
  /\ running
  /\ poll' = [poll EXCEPT
       !.pc = "touch",
       !.listed = users,
       !.todo = {u \in Present : poll.stats.online[users[u].name] > 0},
       !.at = events]
  /\ UNCHANGED <<users, issued, snaps, late, api, process>>

\* Variant: the record that was listed is written back.
TouchedListed(u) == [users EXCEPT ![u] = [poll.listed[u] EXCEPT !.seen = poll.at]]

\* The record as it is now, with the new time; none if there is none.
Touched(u) == 
  IF users[u] = NoUser THEN users ELSE [users EXCEPT ![u].seen = poll.at]

\* TouchHysteriaUserLastSeen loads the record under the lock; a record that
\* is gone is no error, and an error is no reason to stop.
Touch(u) ==
  /\ u \in poll.todo
  /\ \/ running /\ users' = Touched(u) /\ UNCHANGED process
     \/ CallFails /\ UNCHANGED users
  /\ poll' = [poll EXCEPT !.todo = @ \ {u}]
  /\ UNCHANGED <<issued, snaps, late, api>>

Listed == {u \in Users : poll.listed[u] # NoUser}

\* Variant: users who are not online keep their last snapshot.
AddedOnline(u) ==
  IF poll.stats.online[poll.listed[u].name] = 0 THEN snaps[u] ELSE
  [count |-> Min({snaps[u].count + 1, MaxKept}),
   bytes |-> poll.stats.bytes[poll.listed[u].name],
   online |-> 1]

\* What the poll found for u, added to the snapshots there are.
Added(u) ==
  [count |-> Min({snaps[u].count + 1, MaxKept}),
   bytes |-> poll.stats.bytes[poll.listed[u].name],
   online |-> poll.stats.online[poll.listed[u].name]]

\* The snapshots of the users in S are written, MkdirAll making a directory
\* where there is none.
Write(S) ==
  /\ snaps' = [u \in Users |-> IF u \in S THEN Added(u) ELSE snaps[u]]
  /\ late' = [u \in Users |->
       IF u \in S \cap Deleted THEN Min({late[u] + 1, MaxKept}) ELSE late[u]]

\* Variant: the next poll goes on with the users this one listed.
InsertAgain ==
  /\ poll.pc = "touch"
  /\ poll.todo = {}
  /\ \/ running /\ Write(Listed) /\ UNCHANGED process
     \/ CallFails /\ UNCHANGED <<snaps, late>>
  /\ poll' = [poll EXCEPT !.todo = Listed]
  /\ UNCHANGED <<users, issued, api>>

\* InsertHysteriaSnapshots: one operation, which may stop at any of its
\* writes.
Insert ==
  /\ poll.pc = "touch"
  /\ poll.todo = {}
  /\ \/ running /\ Write(Listed) /\ UNCHANGED process
     \/ CallFails /\ \E S \in SUBSET Listed : (running \/ S = {}) /\ Write(S)
  /\ poll' = Idle
  /\ UNCHANGED <<users, issued, api>>

PollStep ==
  \/ StartPoll \/ GivesUp \/ FetchTraffic \/ FetchOnline \/ List
  \/ \E u \in Users : Touch(u)
  \/ Insert

-----------------------------------------------------------------------------
(* Requests: one repository operation each.  A rollback is one more of     *)
(* them, and how handlers string them together is in HysteriaAccess.       *)

Create(u, n) ==
  /\ u \notin issued
  /\ NameFree(u, n)
  /\ Event
  /\ users' = [users EXCEPT ![u] = [name |-> n, enabled |-> TRUE, seen |-> 0]]
  /\ issued' = issued \cup {u}
  /\ UNCHANGED <<snaps, late, api, poll, running>>

\* An update that changes the name; any other changes nothing a poll reads.
Update(u, n) ==
  /\ u \in Present
  /\ NameFree(u, n)
  /\ n # users[u].name
  /\ Event
  /\ users' = [users EXCEPT ![u].name = n]
  /\ UNCHANGED <<issued, snaps, late, api, poll, running>>

SetEnabled(u) ==
  /\ u \in Present
  /\ Event
  /\ users' = [users EXCEPT ![u].enabled = ~@]
  /\ UNCHANGED <<issued, snaps, late, api, poll, running>>

\* The record is removed, then the directory of its snapshots, which may fail.
Delete(u) ==
  /\ u \in Present
  /\ Event
  /\ users' = [users EXCEPT ![u] = NoUser]
  /\ \/ snaps' = [snaps EXCEPT ![u] = NoSnapshots]
     \/ UNCHANGED snaps
  /\ UNCHANGED <<issued, late, api, poll, running>>

Request ==
  \E u \in Users :
    \/ \E n \in Names : Create(u, n) \/ Update(u, n)
    \/ SetEnabled(u)
    \/ Delete(u)

-----------------------------------------------------------------------------
(* The Hysteria server.                                                    *)

Transfer(n) ==
  /\ api.bytes[n] < MaxBytes
  /\ Event
  /\ api' = [api EXCEPT !.bytes[n] = @ + 1]
  /\ UNCHANGED <<users, issued, snaps, late, poll, running>>

Connect(n) ==
  /\ Event
  /\ api' = [api EXCEPT !.online[n] = 1 - @]
  /\ UNCHANGED <<users, issued, snaps, late, poll, running>>

\* A restarted server counts from zero.
ServerRestart ==
  /\ api # Zero
  /\ Event
  /\ api' = Zero
  /\ UNCHANGED <<users, issued, snaps, late, poll, running>>

Server == ServerRestart \/ \E n \in Names : Transfer(n) \/ Connect(n)

\* The process ends, or starts again.
PollDies == poll' = Idle /\ UNCHANGED <<users, issued, snaps, late, api>>

-----------------------------------------------------------------------------

\* The panel starts on the records it finds, with distinct names.
TrafficInit ==
  /\ users \in [Users -> [name: Names, enabled: {TRUE}, seen: {0}] \cup {NoUser}]
  /\ \A u \in Present : NameFree(u, users[u].name)
  /\ issued = Present
  /\ snaps = [u \in Users |-> NoSnapshots]
  /\ late = [u \in Users |-> 0]
  /\ api = Zero
  /\ poll = Idle

TrafficNext == PollStep \/ Request \/ Server

TrafficTypeOK ==
  /\ users \in [Users -> User \cup {NoUser}]
  /\ issued \subseteq Users
  /\ Present \subseteq issued
  /\ snaps \in [Users -> Snapshots]
  /\ late \in [Users -> 0..MaxKept]
  /\ api \in Counters
  /\ poll \in [pc: Labels, stats: Counters, listed: [Users -> User \cup {NoUser}],
               todo: SUBSET Users, at: 0..MaxEvents]

\* hysteriaUserViewNoLock: a user is shown with its newest snapshot, which
\* is the last one written since polls follow one another.
View(u) == [bytes |-> snaps[u].bytes, online |-> snaps[u].online]

\* GetHysteriaStatsOverview: the sums over the users there are.
Overview ==
  [enabled |-> Cardinality({u \in Present : users[u].enabled}),
   bytes |-> MapThenSumSet(LAMBDA u : snaps[u].bytes, Present),
   online |-> MapThenSumSet(LAMBDA u : snaps[u].online, Present)]
=============================================================================
