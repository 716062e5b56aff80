----------------------------- MODULE FocusScoring -----------------------------
(***************************************************************************)
(* The arithmetic of the focus estimate: focusScoring.js of apps/api,      *)
(* which reads no table.                                                   *)
(*                                                                         *)
(* A reading's quality - what the logistic of scoreMotion and the bell of  *)
(* scoreHeartRate make of it - is a number of 0 .. Quality here; all that  *)
(* follows is fractions, kept as whole numbers over a common denominator.  *)
(* A score is a whole number of 0 .. 100, as in the code.                  *)
(***************************************************************************)
EXTENDS Integers, Sequences, FiniteSetsExt, SequencesExt

CONSTANTS
    Quality,        \* of one reading: 0 .. Quality stands for 0 .. 1
    MinRatings,     \* RATING_MIN_SAMPLES
    MaxOffset,      \* MAX_CALIBRATION_OFFSET, in points
    Grain           \* the fractions of a point an offset is counted in

ASSUME ScoringAssumption ==
    Quality \in Nat \ {0} /\ MinRatings \in Nat \ {0} /\ MaxOffset \in Nat
      /\ Grain \in Nat \ {0}

NoHeartRate == -1
NoScore == -1
Within(low, x, high) == IF x < low THEN low ELSE IF x > high THEN high ELSE x

\* Fractions of 0 .. 1, and clamp01 of one.
Fraction(n, d) == [n |-> n, d |-> d]
Clamp01(n, d) == Fraction(Within(0, n, d), d)

\* Math.round of n / d, which is not negative.
Rounded(n, d) == (2 * n + d) \div (2 * d)

\* SIGNAL_WEIGHTS; SAMPLE_WEIGHT, COMPLETION_WEIGHT, TASK_WEIGHT; in hundredths.
Weight == [motion |-> 35, presence |-> 45, heartRate |-> 20,
           samples |-> 70, completion |-> 15, tasks |-> 15]

\* What a composite is a fraction of; both sums of weights divide it.
Whole == 400 * Quality

\* scoreSample: a heart rate that was not read leaves its weight to the others.
ScoreSample(x) ==
    LET seen == Weight.motion * x.motion + Weight.presence * (IF x.inApp THEN Quality ELSE 0)
    IN  IF x.hr = NoHeartRate THEN 5 * seen
                              ELSE 4 * (seen + Weight.heartRate * x.hr)

\* computeCompletionFactor: against the plan when there was one, else the span of
\* the samples against the session.
CompletionFactor(x) ==
    LET times == {x.samples[i].at : i \in DOMAIN x.samples}
    IN  CASE x.elapsed = 0 -> Fraction(0, 1)
          [] x.elapsed > 0 /\ x.planned > 0 -> Clamp01(x.elapsed, x.planned)
          [] x.elapsed > 0 /\ x.planned = 0 /\ Len(x.samples) < 2 -> Fraction(0, 1)
          [] OTHER -> Clamp01(Max(times) - Min(times), x.elapsed)

\* computeAwayFraction.
AwayFraction(x) == IF x.elapsed = 0 THEN Fraction(0, 1) ELSE Clamp01(x.away, x.elapsed)

\* Slip: a session without a checklist is scored as one with nothing done.
ScoreSessionAllWeights(x) ==
    IF x.samples = <<>> THEN NoScore
    ELSE LET mean == FoldFunction(LAMBDA a, sum : ScoreSample(a) + sum, 0, x.samples)
             a == AwayFraction(x)   c == CompletionFactor(x)
             p == Fraction(mean * (a.d - a.n), Len(x.samples) * Whole * a.d)
             t == IF x.total = 0 THEN Fraction(0, 1) ELSE Clamp01(x.done, x.total)
         IN  Rounded(100 * (Weight.samples * p.n * c.d * t.d
                            + Weight.completion * c.n * p.d * t.d
                            + Weight.tasks * t.n * p.d * c.d),
                     100 * p.d * c.d * t.d)

\* scoreSession: the readings' mean over the time that was present, how much of
\* the session was seen through, and the checklist - whose weight the other two
\* share when there is none (computeTaskCompletion).
ScoreSession(x) ==
    IF x.samples = <<>> THEN NoScore
    ELSE LET sum == FoldFunction(LAMBDA r, rest : ScoreSample(r) + rest, 0, x.samples)
             a == AwayFraction(x)   c == CompletionFactor(x)
             p == Fraction(sum * (a.d - a.n), Len(x.samples) * Whole * a.d)
             t == IF x.total = 0 THEN Fraction(0, 1) ELSE Clamp01(x.done, x.total)
             weights == Weight.samples + Weight.completion
                          + (IF x.total = 0 THEN 0 ELSE Weight.tasks)
         IN  Rounded(100 * (Weight.samples * p.n * c.d * t.d
                            + Weight.completion * c.n * p.d * t.d
                            + Weight.tasks * t.n * p.d * c.d),
                     weights * p.d * c.d * t.d)

\* ratingToScore: 1 .. 5 on the scale of a score.
RatingToScore(verdict) == 25 * (verdict - 1)

\* nextCalibrationOffset for n rated sessions whose scores exceed their verdicts
\* by `excess' together: half the mean of it is taken off.
NextCalibrationOffset(offset, excess, n) ==
    Within(-MaxOffset * Grain, offset - (Grain * excess) \div (2 * n), MaxOffset * Grain)

\* applyCalibration.
ApplyCalibration(raw, offset, ratings) ==
    IF raw = NoScore \/ ratings < MinRatings THEN raw
    ELSE Rounded(Within(0, raw * Grain + offset, 100 * Grain), Grain)

\* Exact fractions, for the means the code keeps as doubles.
Plus(a, b) == Fraction(a.n * b.d + b.n * a.d, a.d * b.d)
Minus(a, b) == Plus(a, Fraction(-b.n, b.d))
Times(a, b) == Fraction(a.n * b.n, a.d * b.d)
Equal(a, b) == a.n * b.d = b.n * a.d

\* updateBaseline: one reading more (Welford), from what the row keeps - the count,
\* the mean and the variance, of which the sum of squares is made again.
NoBaseline == [count |-> 0, mean |-> Fraction(0, 1), variance |-> Fraction(0, 1)]
UpdateBaseline(current, values) ==
    LET Fold(b, v) ==
            LET count == b.count + 1
                delta == Minus(Fraction(v, 1), b.mean)
                mean == Plus(b.mean, Times(delta, Fraction(1, count)))
            IN  [count |-> count, mean |-> mean,
                 squares |-> Plus(b.squares, Times(delta, Minus(Fraction(v, 1), mean)))]
        end == FoldLeft(Fold, [count |-> current.count, mean |-> current.mean,
                               squares |-> Times(current.variance, Fraction(current.count, 1))],
                        values)
    IN  [count |-> end.count, mean |-> end.mean,
         variance |-> IF end.count = 0 THEN Fraction(0, 1)
                                       ELSE Times(end.squares, Fraction(1, end.count))]

-----------------------------------------------------------------------------
\* Sessions to compare scores of: up to two readings, good or bad, with a heart
\* rate or without; lengths, plans, time away and checklists of every relation.
SampleReading == [at : {0, 2}, motion : {0, Quality}, inApp : BOOLEAN,
            hr : {NoHeartRate, 0, Quality}]
Scored == [samples : {<<>>} \cup {<<r>> : r \in SampleReading}
                      \cup {<<q, r>> : q \in SampleReading, r \in {s \in SampleReading : s.at = 2}},
           elapsed : {0, 2}, planned : {0, 1, 3}, away : {0, 1, 3},
           done : 0 .. 1, total : 0 .. 2]
Perfect(r) == [r EXCEPT !.motion = Quality, !.inApp = TRUE,
                        !.hr = IF @ = NoHeartRate THEN @ ELSE Quality]
Improved(x) == [x EXCEPT !.samples = [i \in DOMAIN @ |-> Perfect(@[i])], !.away = 0,
                         !.elapsed = 2, !.planned = 1, !.done = x.total]

\* A score is of 0 .. 100, and there is none without a reading; nobody's falls
\* for ticking a task, for better readings or for less time away; and a session
\* without a fault scores 100, with a watch or without, with a checklist or without
\* (scoreSample, scoreSession: "every user who ignores the feature is scored as
\* though they failed at it" is what the shared weights are against).
ScoringIsFair ==
    \A x \in Scored : x.done <= x.total =>
        LET score == ScoreSession(x) IN
          IF x.samples = <<>> THEN score = NoScore
          ELSE /\ score \in 0 .. 100
               /\ x.done < x.total => score <= ScoreSession([x EXCEPT !.done = @ + 1])
               /\ x.away > 0 => score <= ScoreSession([x EXCEPT !.away = 0])
               /\ score <= ScoreSession([x EXCEPT !.samples[1] = Perfect(@)])
               /\ ScoreSession(Improved(x)) = 100

\* However the readings are spread over sessions, the baseline is the mean and the
\* population variance of all of them (updateBaseline: "population variance, so
\* that M2 can be reconstructed as variance * sampleCount on the next call").
BaselineIsOfAllReadings ==
    \A first, second \in UNION {[1 .. n -> 0 .. 2] : n \in 0 .. 2} :
        LET all == first \o second
            sum == FoldFunction(LAMBDA v, rest : v + rest, 0, all)
            squares == FoldFunction(LAMBDA v, rest : v * v + rest, 0, all)
            b == UpdateBaseline(UpdateBaseline(NoBaseline, first), second)
        IN  /\ b.count = Len(all)
            /\ Len(all) > 0 =>
                 /\ Equal(b.mean, Fraction(sum, Len(all)))
                 /\ Equal(b.variance, Fraction(Len(all) * squares - sum * sum,
                                               Len(all) * Len(all)))
===============================================================================
