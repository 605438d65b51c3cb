---------------------------- MODULE SystemSamples ----------------------------
(***************************************************************************)
(* The readings behind the panel's rates.  Three readings of the kernel's  *)
(* counters are kept in memory, each behind a mutex: one of the network's  *)
(* bytes, one of the packets by protocol, one of the processor's time.  A  *)
(* rate is the growth since the reading kept, which the new one replaces.  *)
(* The collector and every request for the live page read on their own,    *)
(* before they take the mutex, so a reading may be stored after a younger  *)
(* one.  The clock of a reading is read after its counters: of two         *)
(* readings, one may have the greater counters and the other the later     *)
(* clock.                                                                  *)
(*                                                                         *)
(* The kernel's counters grow by one each tick: counters read at t say t.  *)
(* The code adds up several interfaces; the sum never falls here.          *)
(***************************************************************************)
EXTENDS Integers

CONSTANTS
  Collector,   \* the goroutine that collects the history
  Live,        \* goroutines serving the live page
  MaxTime,     \* bound: the clock
  MaxRounds,   \* bound: rounds of readings begun
  MaxFaults    \* bound: readings that fail, and restarts of the panel

ASSUME GoroutinesAssumption == Collector \notin Live
ASSUME TimeAssumption == MaxTime \in Nat /\ MaxRounds \in Nat /\ MaxFaults \in Nat

VARIABLES
  now,      \* the clock
  net,      \* networkSample
  packets,  \* protocolSample
  cpu,      \* lastCPUSample
  usage,    \* hasLastCPU: a usage was computed before
  told,     \* history: how often each tick was counted in a rate, by counter
  back,     \* history: how often a reading replaced a greater one
  pc,       \* pc[p]: the next step of goroutine p
  read,     \* read[p]: what p has read and not stored
  taken,    \* when the collector's last metrics of the host were complete
  rounds,   \* rounds of readings begun so far
  faults    \* failures so far

samples == <<net, packets, cpu, usage>>
history == <<told, back>>
svars == <<now, samples, history, pc, read, taken, rounds, faults>>

Goroutines == {Collector} \cup Live
Ticks == 0..MaxTime
Counter == {"net", "packets", "cpu"}

\* A reading: the counter and the clock.  The zero value of the Go structs
\* has no clock.
Reading == [count: Ticks, at: Ticks]
None == [count |-> 0, at |-> -1]

\* A reading on the way: the counters come first.
Partial == [count: Ticks, at: Ticks \cup {-1}]

Labels == {"idle", "cpu", "cpu kept", "usage", "memory", "net", "net clock", "net kept",
           "insert", "packets", "packets clock", "packets kept"}

\* The counters are read first, and then the clock.
ReadCounters(p) == read' = [read EXCEPT ![p].count = now]
ReadClock(p) == read' = [read EXCEPT ![p].at = now]

\* The reading kept of a counter.
Kept(c) == IF c = "net" THEN net ELSE IF c = "cpu" THEN cpu ELSE packets

\* What a goroutine does after the metrics of the host: the collector
\* stores them, a request goes on to the packets.
AfterHost(p) == IF p = Collector THEN "insert" ELSE "packets"
\* The same when there are none.
NoHost(p) == IF p = Collector THEN "idle" ELSE "packets"

Go(p, l) == pc' = [pc EXCEPT ![p] = l]

\* What p has read is a local variable, gone when the function returns.
Forget(p) == read' = [read EXCEPT ![p] = None]

Fault == faults < MaxFaults /\ faults' = faults + 1

\* The growth from reading a to reading b of counter c is told in a rate.
Tell(c, a, b) ==
  told' = [told EXCEPT ![c] =
    [t \in Ticks |-> IF a.count <= t /\ t < b.count THEN @[t] + 1 ELSE @[t]]]

\* Reading b takes the place of reading a of counter c.
Replace(c, a, b) == 
  back' = IF b.count < a.count THEN [back EXCEPT ![c] = @ + 1] ELSE back

\* Variant: a rate is told for readings close to one another only.
AfterShortly(a, b) == a.at >= 0 /\ b.at = a.at + 1

\* Only a reading younger than the one kept makes a rate.
After(a, b) == a.at >= 0 /\ b.at > a.at

-----------------------------------------------------------------------------
(* The processor.                                                          *)

Begin(p) ==
  /\ pc[p] = "idle"
  /\ rounds < MaxRounds
  /\ rounds' = rounds + 1
  /\ Go(p, "cpu")
  /\ UNCHANGED <<now, samples, history, read, faults, taken>>

\* readCPUSample; when it fails the last usage does, if there is one.  The
\* counters are the processor's time, no other clock is read.
ReadCPU(p) ==
  /\ pc[p] = "cpu"
  /\ \/ /\ read' = [read EXCEPT ![p] = [count |-> now, at |-> now]]
        /\ Go(p, "cpu kept")
        /\ UNCHANGED faults
     \/ /\ Fault
        /\ Go(p, IF usage THEN "memory" ELSE NoHost(p))
        /\ UNCHANGED read
  /\ UNCHANGED <<now, samples, history, taken, rounds>>

\* Variant: a reading of a time that has not moved on is stored as well.
KeepCPUAny(p) ==
  /\ pc[p] = "cpu kept"
  /\ cpu' = read[p]
  /\ IF cpu.at >= 0 THEN Tell("cpu", cpu, read[p]) ELSE UNCHANGED told
  /\ Go(p, IF cpu.at >= 0 THEN "usage" ELSE "memory")
  /\ Forget(p)
  /\ UNCHANGED <<now, net, packets, usage, back, faults, taken, rounds>>

\* readCPUUsage under the mutex: a reading that is not ahead of the one
\* kept is dropped, the first makes no usage.
KeepCPU(p) ==
  /\ pc[p] = "cpu kept"
  /\ IF cpu.at >= 0 /\ read[p].count <= cpu.count
     THEN /\ Go(p, "memory")
          /\ UNCHANGED <<cpu, told>>
     ELSE /\ cpu' = read[p]
          /\ IF cpu.at >= 0 THEN Tell("cpu", cpu, read[p]) ELSE UNCHANGED told
          /\ Go(p, IF cpu.at >= 0 THEN "usage" ELSE "memory")
  /\ Forget(p)
  /\ UNCHANGED <<now, net, packets, usage, back, faults, taken, rounds>>

\* setLastCPUValue, which takes the mutex once more.
SetUsage(p) ==
  /\ pc[p] = "usage"
  /\ usage' = TRUE
  /\ Go(p, "memory")
  /\ UNCHANGED <<now, net, packets, cpu, history, read, faults, taken, rounds>>

\* The rest of Snapshot: memory and uptime, either of which may fail, and
\* the clock.
ReadMemory(p) ==
  /\ pc[p] = "memory"
  /\ \/ Go(p, "net") /\ UNCHANGED faults
     \/ Fault /\ Go(p, NoHost(p))
  /\ taken' = IF p = Collector /\ pc'[p] = "net" THEN now ELSE taken
  /\ UNCHANGED <<now, samples, history, read, rounds>>

-----------------------------------------------------------------------------
(* The network.                                                            *)

\* ReadNetworkTrafficSnapshot, up to the end of the file; without it the
\* rates are zero.
ReadNet(p) ==
  /\ pc[p] = "net"
  /\ \/ /\ ReadCounters(p)
        /\ Go(p, "net clock")
        /\ UNCHANGED faults
     \/ /\ Fault
        /\ Go(p, AfterHost(p))
        /\ UNCHANGED read
  /\ UNCHANGED <<now, samples, history, taken, rounds>>

\* The time it notes beside the totals.
StampNet(p) ==
  /\ pc[p] = "net clock"
  /\ ReadClock(p)
  /\ Go(p, "net kept")
  /\ UNCHANGED <<now, samples, history, faults, taken, rounds>>

\* collectProcNetworkRates under the mutex.
KeepNet(p) ==
  /\ pc[p] = "net kept"
  /\ net' = read[p]
  /\ Replace("net", net, read[p])
  /\ IF After(net, read[p]) THEN Tell("net", net, read[p]) ELSE UNCHANGED told
  /\ Go(p, AfterHost(p))
  /\ Forget(p)
  /\ UNCHANGED <<now, packets, cpu, usage, faults, taken, rounds>>

-----------------------------------------------------------------------------
(* The packets.                                                            *)

\* ReadProtocolPacketSnapshot, up to the end of the file; when that fails,
\* the reading is one of zero packets.
ReadPackets(p) ==
  /\ pc[p] = "packets"
  /\ \/ ReadCounters(p) /\ UNCHANGED faults
     \/ Fault /\ UNCHANGED read
  /\ Go(p, "packets clock")
  /\ UNCHANGED <<now, samples, history, taken, rounds>>

\* The time it notes, or collectProtocolPacketMetrics when it failed.
StampPackets(p) ==
  /\ pc[p] = "packets clock"
  /\ ReadClock(p)
  /\ Go(p, "packets kept")
  /\ UNCHANGED <<now, samples, history, faults, taken, rounds>>

\* calculateProtocolPacketRates under the mutex.
KeepPackets(p) ==
  /\ pc[p] = "packets kept"
  /\ packets' = read[p]
  /\ Replace("packets", packets, read[p])
  /\ IF After(packets, read[p]) THEN Tell("packets", packets, read[p]) ELSE UNCHANGED told
  /\ Go(p, "idle")
  /\ Forget(p)
  /\ UNCHANGED <<now, net, cpu, usage, faults, taken, rounds>>

-----------------------------------------------------------------------------

Tick ==
  /\ now < MaxTime
  /\ now' = now + 1
  /\ UNCHANGED <<samples, history, pc, read, faults, taken, rounds>>

\* What the memory of a new process holds.
NothingTold == [c \in Counter |-> [t \in Ticks |-> 0]]
NoneBack == [c \in Counter |-> 0]
AllIdle == [p \in Goroutines |-> "idle"]
NothingRead == [p \in Goroutines |-> None]

SamplesInit ==
  /\ now = 0 /\ rounds = 0 /\ faults = 0 /\ taken = 0
  /\ net = None /\ packets = None /\ cpu = None /\ usage = FALSE
  /\ told = NothingTold /\ back = NoneBack
  /\ pc = AllIdle /\ read = NothingRead

\* The panel is started again: memory is fresh, the kernel counts on.
Restart ==
  /\ Fault
  /\ net' = None /\ packets' = None /\ cpu' = None /\ usage' = FALSE
  /\ told' = NothingTold /\ back' = NoneBack
  /\ pc' = AllIdle /\ read' = NothingRead
  /\ taken' = 0
  /\ UNCHANGED <<now, rounds>>

\* A step of p, up to the point where the collector stores what it has.
Step(p) ==
  \/ ReadCPU(p) \/ KeepCPU(p) \/ SetUsage(p) \/ ReadMemory(p)
  \/ ReadNet(p) \/ StampNet(p) \/ KeepNet(p)
  \/ ReadPackets(p) \/ StampPackets(p) \/ KeepPackets(p)

SamplesTypeOK ==
  /\ now \in Ticks
  /\ net \in Reading \cup {None}
  /\ packets \in Reading \cup {None}
  /\ cpu \in Reading \cup {None}
  /\ usage \in BOOLEAN
  /\ told \in [Counter -> [Ticks -> Nat]]
  /\ back \in [Counter -> Nat]
  /\ pc \in [Goroutines -> Labels]
  /\ read \in [Goroutines -> Partial]
  /\ taken \in Ticks
  /\ rounds \in 0..MaxRounds
  /\ faults \in 0..MaxFaults
=============================================================================
