----------------------------- MODULE SystemTrend -----------------------------
(***************************************************************************)
(* What the history handler makes of the stored snapshots: it takes the    *)
(* newest of a window, up to a limit, and keeps the last of each step of   *)
(* time.  Of a snapshot only the time it was taken matters here, so the    *)
(* snapshots are a sequence of times in the order of their numbers.        *)
(***************************************************************************)
EXTENDS Integers, SequencesExt

CONSTANTS
  Missing,                          \* a query parameter that is absent or no number
  DefaultLimit, MaxPoints,          \* systemTrendDefaultLimit, systemTrendMaxPoints
  Retention, MinWindow, MaxWindow,  \* the default window, a minute, seven days
  DefaultStep, MaxStep,             \* systemTrendDefaultStepSec, systemTrendMaxStepSec
  LongWindow, LongStep              \* from twelve hours on, thirty seconds

\* parseSystemHistoryLimit
LimitOf(raw) ==
  IF raw = Missing \/ raw <= 0 THEN DefaultLimit
  ELSE IF raw > MaxPoints THEN MaxPoints ELSE raw

\* parseSystemHistoryWindow
WindowOf(raw) ==
  IF raw = Missing THEN Retention
  ELSE IF raw < MinWindow THEN MinWindow
  ELSE IF raw > MaxWindow THEN MaxWindow ELSE raw

\* parseSystemHistoryStepSeconds
StepOf(raw, window) ==
  IF raw = Missing \/ raw <= 0 THEN IF window >= LongWindow THEN LongStep ELSE DefaultStep
  ELSE IF raw > MaxStep THEN MaxStep ELSE raw

InWindow(x, from, to) == from <= x /\ x <= to

\* Variant: the reading stops one snapshot late.
SelectedOneMore(snaps, from, to, limit) ==
  LET all == SelectSeq(snaps, LAMBDA x : InWindow(x, from, to))
  IN  SubSeq(all, IF Len(all) > limit + 1 THEN Len(all) - limit ELSE 1, Len(all))

\* ListSystemSnapshots reads the files from the newest, takes those in the
\* window until it has enough, and turns them round.
Selected(snaps, from, to, limit) ==
  LET all == SelectSeq(snaps, LAMBDA x : InWindow(x, from, to))
  IN  SubSeq(all, IF Len(all) > limit THEN Len(all) - limit + 1 ELSE 1, Len(all))

\* Variant: the first point of a bucket stays.
TrendFirst(snaps, step) ==
  LET sorted == SetToSortSeq(ToSet(snaps), <)
      stays == {i \in DOMAIN sorted :
                  i = 1 \/ sorted[i] \div step # sorted[i - 1] \div step}
  IN  IF step <= DefaultStep THEN sorted ELSE SetToSortSeq({sorted[i] : i \in stays}, <)

\* toSystemTrendSamples: sorted by time and, if the step is coarser than the
\* collector's, grouped: a point waits until the next one, which takes its
\* place if it is of the same bucket.
Trend(snaps, step) ==
  LET sorted == SetToSortSeq(ToSet(snaps), <)
      stays == {i \in DOMAIN sorted :
                  i = Len(sorted) \/ sorted[i] \div step # sorted[i + 1] \div step}
  IN  IF step <= DefaultStep THEN sorted ELSE SetToSortSeq({sorted[i] : i \in stays}, <)

\* GetSystemHistory at time `now'.
History(snaps, now, limit, window, step) ==
  LET w == WindowOf(window)
  IN  Trend(Selected(snaps, now - w, now, LimitOf(limit)), StepOf(step, w))

-----------------------------------------------------------------------------
(* What the page is promised, said without the algorithm.                  *)

\* The points are the newest of their steps among all snapshots of the
\* window; every snapshot the limit admits has a point in its step; they
\* are in the order of time and no more than asked for.
RightFor(snaps, now, limit, window, step) ==
  LET w == WindowOf(window)
      s == StepOf(step, w)
      points == History(snaps, now, limit, window, step)
      seen == {x \in ToSet(snaps) : now - w <= x /\ x <= now}
      newest == {x \in seen : Cardinality({y \in seen : y > x}) < LimitOf(limit)}
  IN  /\ Len(points) <= LimitOf(limit)
      /\ \A i, j \in DOMAIN points : i < j => points[i] < points[j]
      /\ ToSet(points) =
           {x \in newest :
              \A y \in seen : y > x => s <= DefaultStep \/ y \div s # x \div s}
=============================================================================
