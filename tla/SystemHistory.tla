---------------------------- MODULE SystemHistory ----------------------------
(***************************************************************************)
(* The history of the host: the collector stores what it sampled as        *)
(* numbered snapshots, beside requests for the live page that sample the   *)
(* same counters; the history handler reads the snapshots.                 *)
(***************************************************************************)
EXTENDS SystemSamples, SystemTrend

CONSTANTS Limits, Windows, Steps   \* the parameters a page may send

VARIABLE snaps   \* the times of the stored snapshots, by number

vars == <<svars, snaps>>

Init == SamplesInit /\ snaps = <<>>

\* The collector's ticks are apart: it does not start in the tick in which
\* it stored its last snapshot.
Start(p) ==
  /\ p = Collector /\ snaps # <<>> => now > Last(snaps)
  /\ Begin(p)
  /\ UNCHANGED snaps

\* InsertSystemSnapshot, with the time at which the metrics of the host were
\* complete; an error is logged, and the point is missing.
Insert ==
  /\ pc[Collector] = "insert"
  /\ Go(Collector, "idle")
  /\ \/ snaps' = Append(snaps, taken) /\ UNCHANGED faults
     \/ Fault /\ UNCHANGED snaps
  /\ taken' = 0
  /\ UNCHANGED <<now, samples, history, read, rounds>>

Next ==
  \/ \E p \in Goroutines : Start(p) \/ (Step(p) /\ UNCHANGED snaps)
  \/ Insert
  \/ Tick /\ UNCHANGED snaps
  \/ Restart /\ UNCHANGED snaps

Spec == Init /\ [][Next]_vars

-----------------------------------------------------------------------------
(* Properties.                                                             *)

\* No tick of a counter is told in two rates without cause: a tick is told
\* once, and once more for each time that a reading replaced a greater one
\* (stored out of order, or failed and kept as zero).  The processor's are
\* told once at most, whatever the order.
ToldTwiceForCause ==
  /\ \A c \in {"net", "packets"}, t \in Ticks : told[c][t] <= 1 + back[c]
  /\ \A t \in Ticks : told["cpu"][t] <= 1

\* A tick of counter c that the reading kept has behind it and that was told
\* in no rate, although an earlier one was.
LeftOut(c, u) ==
  /\ told[c][u] = 0 /\ u < Kept(c).count
  /\ \E t \in Ticks : t < u /\ told[c][t] >= 1

\* However readings fail and overtake one another, growth is left out of the
\* rates only if it came between the counters and the clock of the reading
\* that is replaced: another reader then had the greater counters and the
\* earlier clock, and makes no rate.  (A failed reading of the packets says
\* zero; all there ever was came after that.)  The processor's time is its
\* own clock: nothing of it is left out.
LostInGaps ==
  [][samples' # samples =>
       \A c \in Counter, u \in Ticks :
         LeftOut(c, u)' /\ ~LeftOut(c, u) => Kept(c).count <= u /\ u < Kept(c).at]_vars

\* The history shown is the newest point of each step of the window, for
\* every query a page may send: that is so whenever a snapshot is stored,
\* however late it comes and whichever are missing.
HistoryRight ==
  [][snaps' # snaps =>
       \A limit \in Limits, window \in Windows, step \in Steps :
         RightFor(snaps', now', limit, window, step)]_vars
=============================================================================
