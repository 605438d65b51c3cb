-------------------------- MODULE SystemHistoryProofs --------------------------
(***************************************************************************)
(* Proofs about SystemHistory: what its rates count twice, and what they   *)
(* leave out, for any goroutines, times and numbers of failures.           *)
(***************************************************************************)
EXTENDS SystemHistory, TLAPS

\* A tick is told once more than readings went back, and not yet that often
\* if the reading kept, k, is from before it.
Bounded(k, n, f) ==
  \A t \in Ticks : f[t] <= n + 1 /\ (t >= k.count => f[t] <= n)

\* Nothing was told before the first reading was kept.
Untold(k, f) == k.at < 0 => \A t \in Ticks : f[t] = 0

\* The clock of a reading is not before its counters.
Timed(k) == k.at >= 0 => k.count <= k.at

\* What the ticks between two readings are told as.
Grown(a, b, f) == [t \in Ticks |-> IF a.count <= t /\ t < b.count THEN f[t] + 1 ELSE f[t]]

\* What LeftOut says of a counter with the reading k kept and f told.
Left(k, f, u) == f[u] = 0 /\ u < k.count /\ \E t \in Ticks : t < u /\ f[t] >= 1

KeptLabels == {"net kept", "cpu kept", "packets kept"}

Ready(k) == k.at >= 0 /\ k.count <= k.at

ReadingsTimed ==
  /\ Timed(net) /\ Timed(packets) /\ Timed(cpu)
  /\ \A p \in Goroutines : /\ read[p].count <= now
                           /\ pc[p] \in KeptLabels => Ready(read[p])

Counted ==
  /\ Bounded(net, back["net"], told["net"])
  /\ Bounded(packets, back["packets"], told["packets"])
  /\ Bounded(cpu, 0, told["cpu"])
  /\ Untold(net, told["net"])
  /\ Untold(packets, told["packets"])
  /\ Untold(cpu, told["cpu"])

Inv == SamplesTypeOK /\ ReadingsTimed /\ Counted

-----------------------------------------------------------------------------
(* One reading takes the place of another.                                 *)

LEMMA ReadingInt ==
  \A k \in Reading \cup {None} : k.count \in Int /\ k.at \in Int
  BY TimeAssumption DEF Reading, None, Ticks

LEMMA BoundedTell ==
  ASSUME NEW a \in Reading \cup {None}, NEW b \in Reading \cup {None}, NEW n \in Nat,
         NEW f \in [Ticks -> Nat], Bounded(a, n, f)
  PROVE  LET m == IF b.count < a.count THEN n + 1 ELSE n
         IN  Bounded(b, m, f) /\ Bounded(b, m, Grown(a, b, f))
<1>1. a.count \in Int /\ b.count \in Int
  BY TimeAssumption DEF Reading, None, Ticks
<1>2. \A t \in Ticks : /\ t \in Int /\ f[t] \in Nat
                       /\ f[t] <= n + 1 /\ (t >= a.count => f[t] <= n)
                       /\ Grown(a, b, f)[t] =
                            IF a.count <= t /\ t < b.count THEN f[t] + 1 ELSE f[t]
  BY DEF Bounded, Grown, Ticks
<1>3. CASE b.count < a.count
  BY <1>1, <1>2, <1>3 DEF Bounded
<1>4. CASE ~(b.count < a.count)
  BY <1>1, <1>2, <1>4 DEF Bounded
<1> QED BY <1>3, <1>4

\* Growth that is left out from now on lies in the gap of the reading replaced.
LEMMA LeftTell ==
  ASSUME NEW a \in Reading \cup {None}, NEW b \in Reading, Timed(b), NEW f \in [Ticks -> Nat],
         Untold(a, f), NEW g, g = IF After(a, b) THEN Grown(a, b, f) ELSE f,
         NEW u \in Ticks, Left(b, g, u), ~Left(a, f, u)
  PROVE  a.count <= u /\ u < a.at
<1>1. /\ a.count \in Int /\ b.count \in Int /\ a.at \in Int
      /\ b.at \in Int /\ b.at >= 0 /\ b.count <= b.at /\ u \in Int
  BY TimeAssumption DEF Reading, None, Ticks, Timed
<1>2. PICK t \in Ticks : t < u /\ g[t] >= 1
  BY DEF Left
<1>3. f[t] \in Nat /\ f[u] \in Nat /\ t \in Int
  BY DEF Ticks
<1>4. CASE After(a, b)
  <2>1. /\ g[u] = IF a.count <= u /\ u < b.count THEN f[u] + 1 ELSE f[u]
        /\ g[t] = IF a.count <= t /\ t < b.count THEN f[t] + 1 ELSE f[t]
    BY <1>4 DEF Grown
  <2>2. g[u] = 0 /\ u < b.count
    BY DEF Left
  <2>3. u < a.count /\ f[u] = 0
    BY <1>1, <1>3, <2>1, <2>2
  <2>4. f[t] >= 1
    BY <1>1, <1>2, <1>3, <2>1, <2>3
  <2> QED
    BY <1>2, <2>3, <2>4 DEF Left
<1>5. CASE ~After(a, b)
  <2>1. g = f
    BY <1>5
  <2>2. a.at >= 0
    BY <1>1, <1>2, <2>1 DEF Untold
  <2>3. b.at <= a.at
    BY <1>1, <1>5, <2>2 DEF After
  <2>4. a.count <= u /\ u < b.count
    BY <1>1, <1>2, <2>1 DEF Left
  <2> QED
    BY <1>1, <2>3, <2>4
<1> QED BY <1>4, <1>5

-----------------------------------------------------------------------------
(* The types.                                                              *)

LEMMA LocalTypes ==
  ASSUME SamplesTypeOK
  PROVE  /\ now \in Ticks /\ now \in Int /\ now >= 0 /\ 0 \in Ticks
         /\ \A k \in Partial : /\ [k EXCEPT !.count = now] \in Partial
                              /\ [k EXCEPT !.at = now] \in Partial
         /\ [count |-> now, at |-> now] \in Partial
         /\ Reading \cup {None} \subseteq Partial
         /\ \A k \in Partial : Ready(k) => k \in Reading
<1>1. now \in Ticks /\ now >= 0 /\ 0 \in Ticks /\ now \in Int
  BY TimeAssumption DEF SamplesTypeOK, Ticks
<1>2. \A t \in Ticks : t \in Int /\ t >= 0
  BY DEF Ticks
<1>3. \A k \in Partial : [k EXCEPT !.count = now] \in Partial /\ [k EXCEPT !.at = now] \in Partial
  BY <1>1 DEF Partial
<1>4. [count |-> now, at |-> now] \in Partial
  BY <1>1 DEF Partial
<1>5. Reading \cup {None} \subseteq Partial
  BY <1>1 DEF Reading, None, Partial
<1>6. ASSUME NEW k \in Partial, Ready(k) PROVE k \in Reading
  BY <1>2, <1>6 DEF Partial, Ready, Reading
<1> QED BY <1>1, <1>3, <1>4, <1>5, <1>6

LEMMA GoType ==
  ASSUME SamplesTypeOK, NEW p \in Goroutines, NEW l \in Labels, Go(p, l)
  PROVE  /\ pc' \in [Goroutines -> Labels]
         /\ \A q \in Goroutines : pc'[q] = IF q = p THEN l ELSE pc[q]
  BY DEF SamplesTypeOK, Go

LEMMA TellType ==
  ASSUME SamplesTypeOK, NEW c \in Counter, NEW a, NEW b, Tell(c, a, b)
  PROVE  /\ told' \in [Counter -> [Ticks -> Nat]]
         /\ \A d \in Counter : told'[d] = IF d = c THEN Grown(a, b, told[c]) ELSE told[d]
<1>1. told \in [Counter -> [Ticks -> Nat]]
  BY DEF SamplesTypeOK
<1>2. told[c] \in [Ticks -> Nat]
  BY <1>1
<1>3. Grown(a, b, told[c]) \in [Ticks -> Nat]
  BY <1>2 DEF Grown
<1>4. told' = [told EXCEPT ![c] = Grown(a, b, told[c])]
  BY DEF Tell, Grown
<1> QED BY <1>1, <1>3, <1>4

LEMMA ReplaceType ==
  ASSUME SamplesTypeOK, NEW c \in Counter, NEW a, NEW b, Replace(c, a, b)
  PROVE  /\ back' \in [Counter -> Nat]
         /\ \A d \in Counter : back'[d] = IF d = c /\ b.count < a.count THEN back[c] + 1 ELSE back[d]
  BY DEF SamplesTypeOK, Replace

-----------------------------------------------------------------------------
(* The steps that store no reading.                                        *)

\* Nothing is counted.
LEMMA QuietCounted ==
  ASSUME Inv, UNCHANGED <<net, packets, cpu, history>>
  PROVE  Counted'
  BY DEF Inv, Counted, history

\* One goroutine goes on; what it has read it has by now.
LEMMA QuietStep ==
  ASSUME Inv, NEW p \in Goroutines, NEW l \in Labels, Go(p, l),
         NEW k \in Partial, read' = [read EXCEPT ![p] = k], k.count <= now,
         l \in KeptLabels => Ready(k),
         now' = now, UNCHANGED <<net, packets, cpu, history>>, usage' \in BOOLEAN,
         taken' \in Ticks, rounds' \in 0..MaxRounds, faults' \in 0..MaxFaults
  PROVE  Inv'
<1>1. SamplesTypeOK /\ ReadingsTimed
  BY DEF Inv
<1>2. read \in [Goroutines -> Partial]
  BY <1>1 DEF SamplesTypeOK
<1>3. SamplesTypeOK'
  BY <1>1, <1>2, GoType DEF SamplesTypeOK, history
<1>4. ReadingsTimed'
  <2>1. ASSUME NEW q \in Goroutines
        PROVE  read'[q].count <= now' /\ (pc'[q] \in KeptLabels => Ready(read'[q]))
    <3>1. CASE q # p
      <4>1. pc'[q] = pc[q] /\ read'[q] = read[q]
        BY <1>1, <1>2, <3>1, GoType
      <4> QED BY <1>1, <4>1 DEF ReadingsTimed
    <3>2. CASE q = p
      <4>1. pc'[q] = l /\ read'[q] = k
        BY <1>1, <1>2, <3>2, GoType
      <4> QED BY <4>1
    <3> QED BY <3>1, <3>2
  <2>2. net' = net /\ packets' = packets /\ cpu' = cpu
    OBVIOUS
  <2> QED BY <1>1, <2>1, <2>2 DEF ReadingsTimed, Timed
<1> QED BY <1>3, <1>4, QuietCounted DEF Inv

\* It goes on without reading.
LEMMA QuietGo ==
  ASSUME Inv, NEW p \in Goroutines, NEW l \in Labels \ KeptLabels, Go(p, l), read' = read,
         now' = now, UNCHANGED <<net, packets, cpu, history>>, usage' \in BOOLEAN,
         taken' \in Ticks, rounds' \in 0..MaxRounds, faults' \in 0..MaxFaults
  PROVE  Inv'
<1>1. read[p] \in Partial /\ read[p].count <= now /\ read \in [Goroutines -> Partial]
  BY DEF Inv, SamplesTypeOK, ReadingsTimed
<1>2. read' = [read EXCEPT ![p] = read[p]]
  BY <1>1
<1> QED BY <1>1, <1>2, QuietStep

LEMMA FaultType == SamplesTypeOK /\ Fault => faults' \in 0..MaxFaults
  BY TimeAssumption DEF SamplesTypeOK, Fault

LEMMA QuietSteps ==
  ASSUME Inv, NEW p \in Goroutines,
         Begin(p) \/ ReadCPU(p) \/ SetUsage(p) \/ ReadMemory(p) \/ ReadNet(p) \/ StampNet(p)
         \/ ReadPackets(p) \/ StampPackets(p)
  PROVE  Inv'
<1>1. /\ SamplesTypeOK /\ faults \in 0..MaxFaults /\ rounds \in 0..MaxRounds
      /\ usage \in BOOLEAN /\ taken \in Ticks /\ now \in Ticks
  BY DEF Inv, SamplesTypeOK
<1>2. Fault => faults' \in 0..MaxFaults
  BY <1>1, FaultType
<1>3. \A l \in {AfterHost(p), NoHost(p)} : l \in Labels \ KeptLabels
  BY DEF AfterHost, NoHost, Labels, KeptLabels
<1>4. /\ {"cpu", "memory", "net", "net clock", "packets clock"} \subseteq Labels \ KeptLabels
      /\ {"cpu kept", "net kept", "packets kept"} \subseteq Labels
  BY DEF Labels, KeptLabels
\* The counters are read, ...
<1>5. ASSUME NEW l \in Labels \ KeptLabels, Go(p, l), ReadCounters(p),
             UNCHANGED <<now, net, packets, cpu, usage, history, taken, rounds, faults>>
      PROVE  Inv'
  <2> DEFINE k == [read[p] EXCEPT !.count = now]
  <2>1. k \in Partial /\ k.count <= now
    BY <1>1, LocalTypes DEF SamplesTypeOK, Partial
  <2>2. read' = [read EXCEPT ![p] = k]
    BY <1>5 DEF ReadCounters
  <2> HIDE DEF k
  <2> QED BY <1>1, <1>5, <2>1, <2>2, QuietStep
\* ... and the clock.
<1>6. ASSUME NEW l \in Labels, Go(p, l), ReadClock(p),
             UNCHANGED <<now, net, packets, cpu, usage, history, taken, rounds, faults>>
      PROVE  Inv'
  <2> DEFINE k == [read[p] EXCEPT !.at = now]
  <2>1. k \in Partial /\ k.count <= now /\ Ready(k)
    <3>1. read[p] \in Partial /\ read[p].count <= now
      BY DEF Inv, SamplesTypeOK, ReadingsTimed
    <3>2. k \in Partial /\ now >= 0
      BY <1>1, <3>1, LocalTypes
    <3>3. k.count = read[p].count /\ k.at = now
      BY <3>1 DEF Partial
    <3> QED BY <3>1, <3>2, <3>3 DEF Ready
  <2>2. read' = [read EXCEPT ![p] = k]
    BY <1>6 DEF ReadClock
  <2> HIDE DEF k
  <2> QED BY <1>1, <1>6, <2>1, <2>2, QuietStep
<1>7. CASE Begin(p)
  <2>1. rounds' \in 0..MaxRounds
    BY <1>1, <1>7, TimeAssumption DEF Begin
  <2> QED BY <1>1, <1>4, <1>7, <2>1, QuietGo DEF Begin, samples
<1>8. CASE ReadCPU(p)
  <2>1. UNCHANGED <<now, net, packets, cpu, usage, history, taken, rounds>>
    BY <1>8 DEF ReadCPU, samples
  <2>2. CASE read' = [read EXCEPT ![p] = [count |-> now, at |-> now]] /\ Go(p, "cpu kept")
             /\ UNCHANGED faults
    <3>1. PICK k \in Partial : k = [count |-> now, at |-> now]
      BY <1>1, LocalTypes
    <3>2. k.count <= now /\ Ready(k)
      BY <1>1, <3>1, LocalTypes DEF Ready
    <3> QED BY <1>1, <1>4, <2>1, <2>2, <3>1, <3>2, QuietStep
  <2>3. CASE Fault /\ Go(p, IF usage THEN "memory" ELSE NoHost(p)) /\ UNCHANGED read
    <3>1. PICK l \in Labels \ KeptLabels : l = IF usage THEN "memory" ELSE NoHost(p)
      BY <1>3, <1>4
    <3> QED BY <1>1, <1>2, <2>1, <2>3, <3>1, QuietGo
  <2> QED BY <1>8, <2>2, <2>3 DEF ReadCPU
<1>9. CASE SetUsage(p)
  BY <1>1, <1>4, <1>9, QuietGo DEF SetUsage
<1>10. CASE ReadMemory(p)
  <2>1. UNCHANGED <<now, net, packets, cpu, usage, history, read, rounds>> /\ taken' \in Ticks
    BY <1>1, <1>10 DEF ReadMemory, samples
  <2>2. CASE Go(p, "net") /\ UNCHANGED faults
    BY <1>1, <1>4, <2>1, <2>2, QuietGo
  <2>3. CASE Fault /\ Go(p, NoHost(p))
    BY <1>1, <1>2, <1>3, <2>1, <2>3, QuietGo
  <2> QED BY <1>10, <2>2, <2>3 DEF ReadMemory
<1>11. CASE ReadNet(p)
  <2>1. UNCHANGED <<now, net, packets, cpu, usage, history, taken, rounds>>
    BY <1>11 DEF ReadNet, samples
  <2>2. CASE ReadCounters(p) /\ Go(p, "net clock") /\ UNCHANGED faults
    BY <1>4, <1>5, <2>1, <2>2
  <2>3. CASE Fault /\ Go(p, AfterHost(p)) /\ UNCHANGED read
    BY <1>1, <1>2, <1>3, <2>1, <2>3, QuietGo
  <2> QED BY <1>11, <2>2, <2>3 DEF ReadNet
<1>12. CASE StampNet(p)
  BY <1>4, <1>6, <1>12 DEF StampNet, samples
<1>13. CASE ReadPackets(p)
  <2>1. UNCHANGED <<now, net, packets, cpu, usage, history, taken, rounds>>
        /\ Go(p, "packets clock")
    BY <1>13 DEF ReadPackets, samples
  <2>2. CASE ReadCounters(p) /\ UNCHANGED faults
    BY <1>4, <1>5, <2>1, <2>2
  <2>3. CASE Fault /\ UNCHANGED read
    BY <1>1, <1>2, <1>4, <2>1, <2>3, QuietGo
  <2> QED BY <1>13, <2>2, <2>3 DEF ReadPackets
<1>14. CASE StampPackets(p)
  BY <1>4, <1>6, <1>14 DEF StampPackets, samples
<1> QED BY <1>7, <1>8, <1>9, <1>10, <1>11, <1>12, <1>13, <1>14

-----------------------------------------------------------------------------
(* The steps that store a reading.                                         *)

\* What such a step leaves to show: the reading kept and what was told.
LEMMA KeepStep ==
  ASSUME Inv, NEW p \in Goroutines, NEW l \in Labels \ KeptLabels, Go(p, l), Forget(p),
         net' \in Reading \cup {None}, packets' \in Reading \cup {None},
         cpu' \in Reading \cup {None}, Timed(net'), Timed(packets'), Timed(cpu'),
         told' \in [Counter -> [Ticks -> Nat]], back' \in [Counter -> Nat],
         UNCHANGED <<now, usage, faults, taken, rounds>>
  PROVE  SamplesTypeOK' /\ ReadingsTimed'
<1>1. SamplesTypeOK /\ ReadingsTimed /\ None \in Partial /\ None.count <= now
  BY LocalTypes DEF Inv, None
<1>2. read' \in [Goroutines -> Partial] /\ read \in [Goroutines -> Partial]
  BY <1>1 DEF SamplesTypeOK, Forget
<1>3. SamplesTypeOK'
  BY <1>1, <1>2, GoType DEF SamplesTypeOK
<1>4. ASSUME NEW q \in Goroutines
      PROVE  read'[q].count <= now' /\ (pc'[q] \in KeptLabels => Ready(read'[q]))
  <2>1. CASE q = p
    <3>1. pc'[q] = l /\ read'[q] = None
      BY <1>1, <1>2, <2>1, GoType DEF Forget
    <3> QED BY <1>1, <3>1
  <2>2. CASE q # p
    <3>1. pc'[q] = pc[q] /\ read'[q] = read[q]
      BY <1>1, <1>2, <2>2, GoType DEF Forget
    <3> QED BY <1>1, <3>1 DEF ReadingsTimed
  <2> QED BY <2>1, <2>2
<1> QED BY <1>3, <1>4 DEF ReadingsTimed, Timed

\* What a goroutine is about to store, and what is kept.
LEMMA KeptTypes ==
  ASSUME Inv, NEW p \in Goroutines
  PROVE  /\ net \in Reading \cup {None} /\ packets \in Reading \cup {None}
         /\ cpu \in Reading \cup {None}
         /\ pc[p] \in KeptLabels => read[p] \in Reading /\ Ready(read[p])
         /\ told \in [Counter -> [Ticks -> Nat]] /\ back \in [Counter -> Nat]
         /\ \A c \in Counter : told[c] \in [Ticks -> Nat] /\ back[c] \in Nat
         /\ {"net", "packets", "cpu"} \subseteq Counter
         /\ Timed(net) /\ Timed(packets) /\ Timed(cpu)
<1>1. SamplesTypeOK /\ ReadingsTimed
  BY DEF Inv
<1>2. pc[p] \in KeptLabels => read[p] \in Reading /\ Ready(read[p])
  BY <1>1, LocalTypes DEF SamplesTypeOK, ReadingsTimed
<1> QED BY <1>1, <1>2 DEF SamplesTypeOK, ReadingsTimed, Counter

LEMMA KeepNetInv ==
  ASSUME Inv, NEW p \in Goroutines, KeepNet(p)
  PROVE  Inv'
<1> DEFINE r == read[p]
<1>1. SamplesTypeOK /\ ReadingsTimed /\ Counted
  BY DEF Inv
<1>2. r \in Reading /\ Ready(r)
  BY KeptTypes DEF KeepNet, KeptLabels
<1>3. /\ told' \in [Counter -> [Ticks -> Nat]]
      /\ told'["packets"] = told["packets"] /\ told'["cpu"] = told["cpu"]
      /\ told'["net"] = IF After(net, r) THEN Grown(net, r, told["net"]) ELSE told["net"]
  <2>1. CASE After(net, r)
    BY <1>1, <2>1, TellType, KeptTypes DEF KeepNet, Counter
  <2>2. CASE ~After(net, r)
    BY <2>2, KeptTypes DEF KeepNet
  <2> QED BY <2>1, <2>2
<1>4. /\ back' \in [Counter -> Nat] /\ back'["packets"] = back["packets"]
      /\ back'["net"] = IF r.count < net.count THEN back["net"] + 1 ELSE back["net"]
  BY <1>1, ReplaceType, KeptTypes DEF KeepNet, Counter
<1>5. net' = r /\ packets' = packets /\ cpu' = cpu
  BY DEF KeepNet
<1>6. AfterHost(p) \in Labels \ KeptLabels
  BY DEF AfterHost, Labels, KeptLabels
<1>7. Timed(net') /\ Timed(packets') /\ Timed(cpu')
  BY <1>2, <1>5, KeptTypes DEF Timed, Ready
<1>8. Go(p, AfterHost(p)) /\ Forget(p) /\ UNCHANGED <<now, usage, faults, taken, rounds>>
  BY DEF KeepNet
<1>9. SamplesTypeOK' /\ ReadingsTimed'
  BY <1>2, <1>3, <1>4, <1>5, <1>6, <1>7, <1>8, KeepStep, KeptTypes
<1>10. Bounded(r, back'["net"], told'["net"])
  <2>1. /\ net \in Reading \cup {None} /\ r \in Reading \cup {None}
        /\ back["net"] \in Nat /\ told["net"] \in [Ticks -> Nat]
        /\ Bounded(net, back["net"], told["net"])
    BY <1>1, <1>2, KeptTypes DEF Counted
  <2> HIDE DEF r
  <2> QED BY <1>3, <1>4, <2>1, BoundedTell
<1>11. Untold(r, told'["net"])
  BY <1>2 DEF Untold, Ready, Reading, Ticks
<1>12. Counted'
  BY <1>1, <1>3, <1>4, <1>5, <1>10, <1>11 DEF Counted, Bounded, Untold
<1> QED BY <1>9, <1>12 DEF Inv

LEMMA KeepPacketsInv ==
  ASSUME Inv, NEW p \in Goroutines, KeepPackets(p)
  PROVE  Inv'
<1> DEFINE r == read[p]
<1>1. SamplesTypeOK /\ ReadingsTimed /\ Counted
  BY DEF Inv
<1>2. r \in Reading /\ Ready(r)
  BY KeptTypes DEF KeepPackets, KeptLabels
<1>3. /\ told' \in [Counter -> [Ticks -> Nat]]
      /\ told'["net"] = told["net"] /\ told'["cpu"] = told["cpu"]
      /\ told'["packets"] = IF After(packets, r) THEN Grown(packets, r, told["packets"]) ELSE told["packets"]
  <2>1. CASE After(packets, r)
    BY <1>1, <2>1, TellType, KeptTypes DEF KeepPackets, Counter
  <2>2. CASE ~After(packets, r)
    BY <2>2, KeptTypes DEF KeepPackets
  <2> QED BY <2>1, <2>2
<1>4. /\ back' \in [Counter -> Nat] /\ back'["net"] = back["net"]
      /\ back'["packets"] = IF r.count < packets.count THEN back["packets"] + 1 ELSE back["packets"]
  BY <1>1, ReplaceType, KeptTypes DEF KeepPackets, Counter
<1>5. net' = net /\ packets' = r /\ cpu' = cpu
  BY DEF KeepPackets
<1>6. "idle" \in Labels \ KeptLabels
  BY DEF Labels, KeptLabels
<1>7. Timed(net') /\ Timed(packets') /\ Timed(cpu')
  BY <1>2, <1>5, KeptTypes DEF Timed, Ready
<1>8. Go(p, "idle") /\ Forget(p) /\ UNCHANGED <<now, usage, faults, taken, rounds>>
  BY DEF KeepPackets
<1>9. SamplesTypeOK' /\ ReadingsTimed'
  BY <1>2, <1>3, <1>4, <1>5, <1>6, <1>7, <1>8, KeepStep, KeptTypes
<1>10. Bounded(r, back'["packets"], told'["packets"])
  <2>1. /\ packets \in Reading \cup {None} /\ r \in Reading \cup {None}
        /\ back["packets"] \in Nat /\ told["packets"] \in [Ticks -> Nat]
        /\ Bounded(packets, back["packets"], told["packets"])
    BY <1>1, <1>2, KeptTypes DEF Counted
  <2> HIDE DEF r
  <2> QED BY <1>3, <1>4, <2>1, BoundedTell
<1>11. Untold(r, told'["packets"])
  BY <1>2 DEF Untold, Ready, Reading, Ticks
<1>12. Counted'
  BY <1>1, <1>3, <1>4, <1>5, <1>10, <1>11 DEF Counted, Bounded, Untold
<1> QED BY <1>9, <1>12 DEF Inv

LEMMA KeepCPUInv ==
  ASSUME Inv, NEW p \in Goroutines, KeepCPU(p)
  PROVE  Inv'
<1> DEFINE r == read[p]
<1>1. SamplesTypeOK /\ ReadingsTimed /\ Counted
  BY DEF Inv
<1>2. r \in Reading /\ Ready(r)
  BY KeptTypes DEF KeepCPU, KeptLabels
<1>3. /\ net' = net /\ packets' = packets /\ back' = back
      /\ Forget(p) /\ UNCHANGED <<now, usage, faults, taken, rounds>>
  BY DEF KeepCPU
<1>4. {"usage", "memory"} \subseteq Labels \ KeptLabels
  BY DEF Labels, KeptLabels
<1>5. CASE cpu.at >= 0 /\ r.count <= cpu.count
  <2>1. cpu' = cpu /\ told' = told /\ Go(p, "memory")
    BY <1>5 DEF KeepCPU
  <2>2. Timed(net') /\ Timed(packets') /\ Timed(cpu')
    BY <1>3, <2>1, KeptTypes
  <2>3. SamplesTypeOK' /\ ReadingsTimed'
    BY <1>3, <1>4, <2>1, <2>2, KeepStep, KeptTypes
  <2>4. Counted'
    BY <1>1, <1>3, <2>1 DEF Counted, Bounded, Untold
  <2> QED BY <2>3, <2>4 DEF Inv
<1>6. CASE ~(cpu.at >= 0 /\ r.count <= cpu.count)
  <2>1. cpu' = r /\ Go(p, IF cpu.at >= 0 THEN "usage" ELSE "memory")
    BY <1>6 DEF KeepCPU
  <2>2. /\ told' \in [Counter -> [Ticks -> Nat]]
        /\ told'["net"] = told["net"] /\ told'["packets"] = told["packets"]
        /\ told'["cpu"] = IF cpu.at >= 0 THEN Grown(cpu, r, told["cpu"]) ELSE told["cpu"]
    <3>1. CASE cpu.at >= 0
      <4>1. Tell("cpu", cpu, r)
        BY <1>6, <3>1 DEF KeepCPU
      <4> QED BY <1>1, <3>1, <4>1, TellType, KeptTypes DEF Counter
    <3>2. CASE ~(cpu.at >= 0)
      BY <1>6, <3>2, KeptTypes DEF KeepCPU
    <3> QED BY <3>1, <3>2
  <2>3. Timed(net') /\ Timed(packets') /\ Timed(cpu')
    BY <1>2, <1>3, <2>1, KeptTypes DEF Timed, Ready
  <2>4. SamplesTypeOK' /\ ReadingsTimed'
    BY <1>2, <1>3, <1>4, <2>1, <2>2, <2>3, KeepStep, KeptTypes
  <2>5. Untold(r, told'["cpu"])
    BY <1>2 DEF Untold, Ready, Reading, Ticks
  <2>6. Bounded(r, 0, told'["cpu"])
    <3>1. cpu.at \in Int /\ r.count \in Int /\ cpu.count \in Int
      BY <1>2, KeptTypes, ReadingInt
    <3>2. CASE cpu.at >= 0
      <4>1. ~(r.count < cpu.count)
        BY <1>6, <3>1, <3>2
      <4>2. /\ cpu \in Reading \cup {None} /\ r \in Reading \cup {None}
            /\ told["cpu"] \in [Ticks -> Nat] /\ Bounded(cpu, 0, told["cpu"])
        BY <1>1, <1>2, KeptTypes DEF Counted
      <4> HIDE DEF r
      <4> QED BY <2>2, <3>2, <4>1, <4>2, BoundedTell
    <3>3. CASE cpu.at < 0
      <4>1. told'["cpu"] = told["cpu"] /\ \A t \in Ticks : told["cpu"][t] = 0
        BY <1>1, <2>2, <3>1, <3>3 DEF Counted, Untold
      <4> QED BY <4>1 DEF Bounded
    <3> QED BY <3>1, <3>2, <3>3
  <2>7. Counted'
    BY <1>1, <1>3, <2>1, <2>2, <2>5, <2>6 DEF Counted, Bounded, Untold
  <2> QED BY <2>4, <2>7 DEF Inv
<1> QED BY <1>5, <1>6

-----------------------------------------------------------------------------
(* The specification.                                                      *)

LEMMA FreshMemory ==
  ASSUME net' = None, packets' = None, cpu' = None, told' = NothingTold, back' = NoneBack,
         pc' = AllIdle, read' = NothingRead, usage' = FALSE, taken' = 0,
         now' \in Ticks, faults' \in 0..MaxFaults, rounds' \in 0..MaxRounds
  PROVE  Inv'
<1>1. /\ told' \in [Counter -> [Ticks -> Nat]] /\ back' \in [Counter -> Nat]
      /\ \A c \in Counter : \A t \in Ticks : told'[c][t] = 0
      /\ \A c \in Counter : back'[c] = 0
  BY DEF NothingTold, NoneBack
<1>2. {"net", "packets", "cpu"} \subseteq Counter
  BY DEF Counter
<1>4. 0 \in Ticks /\ \A t \in Ticks : t >= 0
  BY TimeAssumption DEF Ticks
<1>3. /\ pc' \in [Goroutines -> Labels] /\ read' \in [Goroutines -> Partial]
      /\ \A q \in Goroutines : pc'[q] = "idle" /\ read'[q] = None
  BY <1>4 DEF AllIdle, NothingRead, Labels, None, Partial
<1>5. SamplesTypeOK'
  BY <1>1, <1>3, <1>4 DEF SamplesTypeOK
<1>6. ReadingsTimed'
  <2>1. Timed(None) /\ None.count <= now'
    BY <1>4 DEF Timed, None
  <2>2. Timed(net') /\ Timed(packets') /\ Timed(cpu')
    BY <2>1
  <2>3. \A q \in Goroutines : read'[q].count <= now' /\ pc'[q] \notin KeptLabels
    BY <1>3, <2>1 DEF KeptLabels
  <2> QED BY <2>2, <2>3 DEF ReadingsTimed, Timed
<1>7. \A c \in Counter : Bounded(None, 0, told'[c]) /\ Untold(None, told'[c])
  BY <1>1 DEF Bounded, Untold, None
<1>8. Counted'
  BY <1>1, <1>2, <1>7 DEF Counted, Bounded, Untold
<1> QED BY <1>5, <1>6, <1>8 DEF Inv

LEMMA InitInv == Init => Inv
<1> SUFFICES ASSUME Init PROVE Inv
  OBVIOUS
<1>1. /\ net = None /\ packets = None /\ cpu = None
      /\ told = NothingTold /\ back = NoneBack
      /\ pc = AllIdle /\ read = NothingRead
      /\ now = 0 /\ rounds = 0 /\ faults = 0 /\ taken = 0 /\ usage = FALSE
  BY DEF Init, SamplesInit
<1>2. /\ told \in [Counter -> [Ticks -> Nat]] /\ back \in [Counter -> Nat]
      /\ \A c \in Counter : \A t \in Ticks : told[c][t] = 0
      /\ \A c \in Counter : back[c] = 0
  BY <1>1 DEF NothingTold, NoneBack
<1>3. {"net", "packets", "cpu"} \subseteq Counter
  BY DEF Counter
<1>5. 0 \in Ticks /\ 0 \in 0..MaxFaults /\ 0 \in 0..MaxRounds
  BY TimeAssumption DEF Ticks
<1>4. /\ pc \in [Goroutines -> Labels] /\ read \in [Goroutines -> Partial]
      /\ \A q \in Goroutines : pc[q] = "idle" /\ read[q] = None
  BY <1>1, <1>5 DEF AllIdle, NothingRead, Labels, None, Partial
<1>6. SamplesTypeOK
  BY <1>1, <1>2, <1>4, <1>5 DEF SamplesTypeOK
<1>7. ReadingsTimed
  <2>1. Timed(None) /\ None.count <= now
    BY <1>1 DEF Timed, None
  <2>2. \A q \in Goroutines : read[q].count <= now /\ pc[q] \notin KeptLabels
    BY <1>4, <2>1 DEF KeptLabels
  <2> QED BY <1>1, <2>1, <2>2 DEF ReadingsTimed
<1>8. \A c \in Counter : Bounded(None, 0, told[c]) /\ Untold(None, told[c])
  BY <1>2 DEF Bounded, Untold, None
<1>9. Counted
  BY <1>1, <1>2, <1>3, <1>8 DEF Counted
<1> QED BY <1>6, <1>7, <1>9 DEF Inv

LEMMA InsertInv ==
  ASSUME Inv, Insert
  PROVE  Inv'
<1>1. SamplesTypeOK /\ 0 \in Ticks
  BY TimeAssumption DEF Inv, SamplesTypeOK, Ticks
<1>2. faults' \in 0..MaxFaults
  BY <1>1, FaultType DEF Insert, SamplesTypeOK
<1>3. Collector \in Goroutines /\ "idle" \in Labels \ KeptLabels
  BY DEF Goroutines, Labels, KeptLabels
<1>4. usage' \in BOOLEAN /\ rounds' \in 0..MaxRounds
  BY <1>1 DEF Insert, samples, SamplesTypeOK
<1> QED BY <1>1, <1>2, <1>3, <1>4, QuietGo DEF Insert, samples

LEMMA TickInv ==
  ASSUME Inv, Tick
  PROVE  Inv'
<1>1. now' \in Ticks /\ now' >= now /\ now \in Int /\ now' \in Int
  BY TimeAssumption DEF Inv, SamplesTypeOK, Tick, Ticks
<1>2. UNCHANGED <<net, packets, cpu, usage, told, back, pc, read, rounds, faults, taken>>
  BY DEF Tick, samples, history
<1>3. SamplesTypeOK'
  BY <1>1, <1>2 DEF Inv, SamplesTypeOK
<1>4. ReadingsTimed'
  <2>1. \A q \in Goroutines : read[q].count \in Int
    BY DEF Inv, SamplesTypeOK, Partial, Ticks
  <2> QED BY <1>1, <1>2, <2>1 DEF Inv, ReadingsTimed, Timed
<1>5. Counted'
  BY <1>2, QuietCounted DEF history
<1> QED BY <1>3, <1>4, <1>5 DEF Inv

LEMMA RestartInv ==
  ASSUME Inv, Restart
  PROVE  Inv'
<1>1. now' \in Ticks /\ faults' \in 0..MaxFaults /\ rounds' \in 0..MaxRounds
  BY FaultType DEF Inv, Restart, SamplesTypeOK
<1> QED BY <1>1, FreshMemory DEF Restart

\* The invariant is inductive.
LEMMA NextInv ==
  ASSUME Inv, [Next]_vars
  PROVE  Inv'
<1>1. ASSUME NEW p \in Goroutines, Start(p) \/ Step(p)
      PROVE  Inv'
  BY <1>1, QuietSteps, KeepNetInv, KeepPacketsInv, KeepCPUInv DEF Start, Step
<1>2. CASE UNCHANGED vars
  <2>1. UNCHANGED <<now, net, packets, cpu, usage, told, back, pc, read, rounds, faults, taken>>
    BY <1>2 DEF vars, svars, samples, history
  <2>2. SamplesTypeOK'
    BY <2>1 DEF Inv, SamplesTypeOK
  <2>3. ReadingsTimed'
    BY <2>1 DEF Inv, ReadingsTimed, Timed
  <2>4. Counted'
    BY <2>1, QuietCounted DEF history
  <2> QED BY <2>2, <2>3, <2>4 DEF Inv
<1> QED BY <1>1, <1>2, InsertInv, TickInv, RestartInv DEF Next

\* A tick before the reading kept was told at most once more than readings
\* went back, one after it not even that often; the clock of a reading is not
\* before its counters (system.go:190-232).
THEOREM Invariant == Spec => []Inv
<1>1. Inv /\ [Next]_vars => Inv'
  BY NextInv
<1> QED BY InitInv, <1>1, PTL DEF Spec

LEMMA InvTold == Inv => ToldTwiceForCause
<1> SUFFICES ASSUME Inv PROVE ToldTwiceForCause
  OBVIOUS
<1>1. /\ told["net"] \in [Ticks -> Nat] /\ told["packets"] \in [Ticks -> Nat]
      /\ told["cpu"] \in [Ticks -> Nat]
      /\ back["net"] \in Nat /\ back["packets"] \in Nat
  BY DEF Inv, SamplesTypeOK, Counter
<1>2. \A t \in Ticks : /\ told["net"][t] <= 1 + back["net"]
                       /\ told["packets"][t] <= 1 + back["packets"]
                       /\ told["cpu"][t] <= 1
  BY <1>1 DEF Inv, Counted, Bounded
<1> QED BY <1>2 DEF ToldTwiceForCause

-----------------------------------------------------------------------------
(* What the rates leave out.                                               *)

\* A counter whose reading stays has nothing more left out.
LEMMA SameLeft ==
  ASSUME NEW c \in Counter, NEW u, Kept(c)' = Kept(c), told'[c] = told[c]
  PROVE  LeftOut(c, u)' => LeftOut(c, u)
  BY DEF LeftOut

LEMMA NetLeft ==
  ASSUME Inv, NEW p \in Goroutines, KeepNet(p), NEW c \in Counter, NEW u \in Ticks,
         LeftOut(c, u)', ~LeftOut(c, u)
  PROVE  Kept(c).count <= u /\ u < Kept(c).at
<1>1. SamplesTypeOK
  BY DEF Inv
<1>2. /\ net' = read[p] /\ packets' = packets /\ cpu' = cpu
      /\ \A d \in Counter :
           told'[d] = IF d = "net" /\ After(net, read[p]) THEN Grown(net, read[p], told["net"])
                                                        ELSE told[d]
  <2>1. CASE After(net, read[p])
    BY <1>1, <2>1, TellType DEF KeepNet, Counter
  <2>2. CASE ~After(net, read[p])
    BY <2>2 DEF KeepNet
  <2> QED BY <2>1, <2>2 DEF KeepNet
<1>3. c = "net"
  <2>1. CASE c # "net"
    <3>1. Kept(c)' = Kept(c) /\ told'[c] = told[c]
      BY <1>2, <2>1 DEF Kept
    <3> QED BY <3>1, SameLeft
  <2> QED BY <2>1
<1>4. PICK b \in Reading : b = read[p] /\ Timed(b)
  BY KeptTypes DEF KeepNet, KeptLabels, Timed, Ready
<1>5. PICK f \in [Ticks -> Nat], g \in {told'["net"]} :
        f = told["net"] /\ g = told'["net"] /\ g = IF After(net, b) THEN Grown(net, b, f) ELSE f
  BY <1>2, <1>4, KeptTypes
<1>6. Left(b, g, u) /\ ~Left(net, f, u) /\ Untold(net, f)
  BY <1>2, <1>3, <1>4, <1>5 DEF Left, LeftOut, Kept, Inv, Counted
<1>7. net.count <= u /\ u < net.at
  BY <1>4, <1>5, <1>6, LeftTell, KeptTypes
<1> QED BY <1>3, <1>7 DEF Kept

LEMMA PacketsLeft ==
  ASSUME Inv, NEW p \in Goroutines, KeepPackets(p), NEW c \in Counter, NEW u \in Ticks,
         LeftOut(c, u)', ~LeftOut(c, u)
  PROVE  Kept(c).count <= u /\ u < Kept(c).at
<1>1. SamplesTypeOK
  BY DEF Inv
<1>2. /\ net' = net /\ packets' = read[p] /\ cpu' = cpu
      /\ \A d \in Counter :
           told'[d] = IF d = "packets" /\ After(packets, read[p])
                        THEN Grown(packets, read[p], told["packets"]) ELSE told[d]
  <2>1. CASE After(packets, read[p])
    BY <1>1, <2>1, TellType DEF KeepPackets, Counter
  <2>2. CASE ~After(packets, read[p])
    BY <2>2 DEF KeepPackets
  <2> QED BY <2>1, <2>2 DEF KeepPackets
<1>3. c = "packets"
  <2>1. CASE c # "packets"
    <3>1. Kept(c)' = Kept(c) /\ told'[c] = told[c]
      BY <1>2, <2>1 DEF Kept, Counter
    <3> QED BY <3>1, SameLeft
  <2> QED BY <2>1
<1>4. PICK b \in Reading : b = read[p] /\ Timed(b)
  BY KeptTypes DEF KeepPackets, KeptLabels, Timed, Ready
<1>5. PICK f \in [Ticks -> Nat], g \in {told'["packets"]} :
        /\ f = told["packets"] /\ g = told'["packets"]
        /\ g = IF After(packets, b) THEN Grown(packets, b, f) ELSE f
  BY <1>2, <1>4, KeptTypes
<1>6. Left(b, g, u) /\ ~Left(packets, f, u) /\ Untold(packets, f)
  BY <1>2, <1>3, <1>4, <1>5 DEF Left, LeftOut, Kept, Inv, Counted
<1>7. packets.count <= u /\ u < packets.at
  BY <1>4, <1>5, <1>6, LeftTell, KeptTypes
<1> QED BY <1>3, <1>7 DEF Kept

\* Nothing of the processor's time is left out.
LEMMA CPULeft ==
  ASSUME Inv, NEW p \in Goroutines, KeepCPU(p), NEW c \in Counter, NEW u \in Ticks,
         LeftOut(c, u)'
  PROVE  LeftOut(c, u)
<1>1. SamplesTypeOK
  BY DEF Inv
<1>2. net' = net /\ packets' = packets
  BY DEF KeepCPU
<1>3. CASE cpu.at >= 0 /\ read[p].count <= cpu.count
  <2>1. Kept(c)' = Kept(c) /\ told'[c] = told[c]
    BY <1>2, <1>3 DEF KeepCPU, Kept
  <2> QED BY <2>1, SameLeft
<1>4. CASE ~(cpu.at >= 0 /\ read[p].count <= cpu.count)
  <2>1. /\ cpu' = read[p]
        /\ \A d \in Counter :
             told'[d] = IF d = "cpu" /\ cpu.at >= 0 THEN Grown(cpu, read[p], told["cpu"])
                                                   ELSE told[d]
    <3>1. CASE cpu.at >= 0
      BY <1>1, <1>4, <3>1, TellType DEF KeepCPU, Counter
    <3>2. CASE ~(cpu.at >= 0)
      BY <1>4, <3>2 DEF KeepCPU
    <3> QED BY <1>4, <3>1, <3>2 DEF KeepCPU
  <2>2. CASE c # "cpu"
    <3>1. Kept(c)' = Kept(c) /\ told'[c] = told[c]
      BY <1>2, <2>1, <2>2 DEF Kept
    <3> QED BY <3>1, SameLeft
  <2>3. CASE c = "cpu"
    <3>1. PICK b \in Reading : b = read[p]
      BY KeptTypes DEF KeepCPU, KeptLabels
    <3>2. PICK f \in [Ticks -> Nat], g \in {told'["cpu"]} :
            /\ f = told["cpu"] /\ g = told'["cpu"]
            /\ g = IF cpu.at >= 0 THEN Grown(cpu, b, f) ELSE f
      BY <2>1, <3>1, KeptTypes
    <3>3. cpu.at \in Int /\ cpu.count \in Int /\ b.count \in Int /\ u \in Int
      BY KeptTypes, ReadingInt DEF Ticks
    <3>4. g[u] = 0 /\ u < b.count
      BY <2>1, <2>3, <3>1, <3>2 DEF LeftOut, Kept
    <3>5. PICK t \in Ticks : t < u /\ g[t] >= 1
      BY <2>3, <3>2 DEF LeftOut
    <3>6. f[t] \in Nat /\ f[u] \in Nat /\ t \in Int
      BY DEF Ticks
    <3>7. cpu.at >= 0
      BY <3>2, <3>3, <3>5 DEF Inv, Counted, Untold
    <3>8. /\ g[u] = IF cpu.count <= u /\ u < b.count THEN f[u] + 1 ELSE f[u]
          /\ g[t] = IF cpu.count <= t /\ t < b.count THEN f[t] + 1 ELSE f[t]
      BY <3>2, <3>7 DEF Grown
    <3>9. u < cpu.count /\ f[u] = 0
      BY <3>3, <3>4, <3>6, <3>8
    <3>10. f[t] >= 1
      BY <3>3, <3>5, <3>6, <3>8, <3>9
    <3> QED BY <2>3, <3>2, <3>5, <3>9, <3>10 DEF LeftOut, Kept
  <2> QED BY <2>2, <2>3
<1> QED BY <1>3, <1>4

\* Every other step keeps what is kept and told, or forgets it.
LEMMA NextLeft ==
  ASSUME Inv, [Next]_vars, NEW c \in Counter, NEW u \in Ticks, LeftOut(c, u)', ~LeftOut(c, u)
  PROVE  Kept(c).count <= u /\ u < Kept(c).at
<1>1. ASSUME UNCHANGED <<net, packets, cpu, told>> PROVE FALSE
  BY <1>1, SameLeft DEF Kept
<1>2. ASSUME NEW p \in Goroutines, Start(p) \/ Step(p)
      PROVE  Kept(c).count <= u /\ u < Kept(c).at
  <2>1. ~Start(p)
    BY <1>1 DEF Start, Begin, samples, history
  <2>2. /\ ~ReadCPU(p) /\ ~SetUsage(p) /\ ~ReadMemory(p) /\ ~ReadNet(p) /\ ~StampNet(p)
        /\ ~ReadPackets(p) /\ ~StampPackets(p)
    BY <1>1 DEF ReadCPU, SetUsage, ReadMemory, ReadNet, StampNet, ReadPackets, StampPackets,
       samples, history
  <2> QED BY <1>2, <2>1, <2>2, NetLeft, PacketsLeft, CPULeft DEF Step
<1>3. ~Insert /\ ~Tick /\ ~UNCHANGED vars
  BY <1>1 DEF Insert, Tick, vars, svars, samples, history
<1>4. ~Restart
  <2>1. Restart => told' = NothingTold
    BY DEF Restart
  <2>2. ASSUME told' = NothingTold PROVE FALSE
    <3>1. \A t \in Ticks : told'[c][t] = 0
      BY <2>2 DEF NothingTold
    <3> QED BY <3>1 DEF LeftOut
  <2> QED BY <2>1, <2>2
<1> QED BY <1>2, <1>3, <1>4 DEF Next

\* No tick is told in two rates without cause, however many requests sample
\* beside the collector (system.go:190-232, system_metrics.go:116-150).
THEOREM ToldTwiceForCauseTheorem == Spec => []ToldTwiceForCause
<1> QED BY Invariant, InvTold, PTL

\* Growth is left out of the rates only where a reader let time pass between
\* the counters and the clock (network_traffic.go:69-78, system.go:195-207),
\* whatever fails and in whatever order the readings are stored.
THEOREM LostInGapsTheorem == Spec => LostInGaps
<1>1. Inv /\ [Next]_vars =>
        [samples' # samples =>
           \A c \in Counter, u \in Ticks :
             LeftOut(c, u)' /\ ~LeftOut(c, u) => Kept(c).count <= u /\ u < Kept(c).at]_vars
  BY NextLeft
<1> QED BY <1>1, Invariant, PTL DEF Spec, LostInGaps
=============================================================================
