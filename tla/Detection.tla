----------------------------- MODULE Detection -----------------------------
(***************************************************************************)
(* The anomaly detectors (analysis/anomaly.ts) over a metric's series that *)
(* grows by one sample per tick: robust-z with dwell, the slow-ramp trend, *)
(* and the seasonal baseline preferred over both when the series spans     *)
(* enough periods.                                                         *)
(*                                                                         *)
(* The code works in floating point.  Here a median is doubled and a       *)
(* deviation quadrupled so that both are integers, thresholds are in       *)
(* tenths, and a comparison of z with a threshold is multiplied out.       *)
(***************************************************************************)
EXTENDS Integers, Sequences, FiniteSets, SequencesExt

CONSTANTS Values,           \* sample values
          Kinds,            \* metric kinds looked at
          MinSamples, RecentWindow, Dwell, Threshold,   \* Threshold in tenths
          Period, PhaseTolerance, MinPhaseSamples,      \* in ticks
          MaxLength         \* bound: samples in the window asked for

VARIABLES series, kind

vars == <<series, kind>>

OneSidedUp(k) == k \in {"error_rate", "latency", "saturation"}

Abs(x) == IF x < 0 THEN -x ELSE x

-----------------------------------------------------------------------------
(* median and mad: the code sorts a copy, so a median is that of samples in
   any order, here a function from their ticks *)

Kth(s, k) ==
  CHOOSE x \in ToSet(s) :
    /\ Cardinality({i \in DOMAIN s : s[i] < x}) < k
    /\ Cardinality({i \in DOMAIN s : s[i] <= x}) >= k

TwiceMedian(s) ==
  LET n == Cardinality(DOMAIN s)
      mid == n \div 2
  IN  IF n % 2 = 0 THEN Kth(s, mid) + Kth(s, mid + 1) ELSE 2 * Kth(s, mid + 1)

(* Four times the median deviation from a doubled center, before the factor
   1.4826 of the code. *)
FourMad(s, center) == TwiceMedian([i \in DOMAIN s |-> Abs(2 * s[i] - center)])

(* (x - center) / scale >= threshold, x and center doubled: the scale is
   1.4826 mad, or a thousandth of the center when the mad is 0. *)
Above(diff, center, mad, threshold) ==
  IF mad > 0 THEN 200000 * diff >= threshold * 14826 * mad
  ELSE IF center # 0 THEN 10000 * diff >= threshold * Abs(center)
  ELSE diff > 0

TwoSided(k, diff, center, mad) == Above(Abs(diff), center, mad, Threshold)   \* slip: a drop counts as well

Breaches(k, diff, center, mad) ==
  Above(IF OneSidedUp(k) THEN diff ELSE Abs(diff), center, mad, Threshold)

Recent(s, n) == SubSeq(s, Len(s) - n + 1, Len(s))

-----------------------------------------------------------------------------
(* detectRobustAnomaly *)

Warm(s) == Len(s) >= (IF MinSamples > 3 * RecentWindow THEN MinSamples ELSE 3 * RecentWindow)

BaselineEnd(s) ==
  LET half == Len(s) \div 2
      margin == Len(s) - 3 * RecentWindow
  IN  IF half > margin THEN half ELSE margin

Baseline(s) == SubSeq(s, 1, BaselineEnd(s))

DwellMet(k, s, center, mad) ==
  \A i \in DOMAIN Recent(s, Dwell) : Breaches(k, 2 * Recent(s, Dwell)[i] - center, center, mad)

Rising(s) ==
  10 * Cardinality({i \in 2..Len(s) : s[i] > s[i - 1]}) >= 7 * (Len(s) - 1)

RobustAnomaly(k, s) ==
  /\ Warm(s)
  /\ Len(Baseline(s)) >= 3
  /\ LET center == TwiceMedian(Baseline(s))
         mad == FourMad(Baseline(s), center)
         shift == TwiceMedian(Recent(s, RecentWindow)) - center
     IN  \/ Breaches(k, shift, center, mad) /\ DwellMet(k, s, center, mad)
         \/ k \in {"saturation", "latency"} /\ Rising(s) /\ Above(shift, center, mad, 20)

-----------------------------------------------------------------------------
(* detectSeasonalAnomaly: tick i has phase i % Period *)

History(s) == SubSeq(s, 1, Len(s) - RecentWindow)

InPhase(i, j) ==
  LET d == Abs((i % Period) - (j % Period))
  IN  d <= PhaseTolerance \/ Period - d <= PhaseTolerance

SamePhase(s) == [i \in {i \in DOMAIN History(s) : InPhase(i, Len(s))} |-> s[i]]

Seasonal(s) ==
  /\ Len(s) >= RecentWindow + 2
  /\ Len(s) - 1 >= 2 * Period
  /\ Cardinality(DOMAIN SamePhase(s)) >= MinPhaseSamples

SeasonalAnomaly(k, s) ==
  LET center == TwiceMedian(SamePhase(s))
  IN  Breaches(k, TwiceMedian(Recent(s, RecentWindow)) - center, center, FourMad(SamePhase(s), center))

(* detectAnomaly *)
IsAnomaly(k, s) == IF Seasonal(s) THEN SeasonalAnomaly(k, s) ELSE RobustAnomaly(k, s)

-----------------------------------------------------------------------------
Init == series = <<>> /\ kind \in Kinds

Sample(v) ==
  /\ Len(series) < MaxLength
  /\ series' = Append(series, v)
  /\ UNCHANGED kind

Next == (\E v \in Values : Sample(v)) \/ (Len(series) = MaxLength /\ UNCHANGED vars)

Spec == Init /\ [][Next]_vars

-----------------------------------------------------------------------------
(* A recovery is good news (anomaly.ts:153 and get-service-health.ts:182):
   a latency, an error rate or a saturation whose recent samples are no
   higher than any before them is never an anomaly, whichever detector
   judged it. *)
RecoveryIsQuiet ==
  OneSidedUp(kind) /\ Len(series) > RecentWindow
    /\ (\A i \in DOMAIN History(series) : \A j \in DOMAIN Recent(series, RecentWindow) :
          Recent(series, RecentWindow)[j] <= series[i])
  => ~IsAnomaly(kind, series)
=============================================================================
