---------------------------- MODULE FocusEstimate ----------------------------
(***************************************************************************)
(* What a person's sessions leave behind of their focus: focus.service.js  *)
(* of apps/api over its repository.  A session gathers readings and a      *)
(* checklist while it is open; its close takes them into a score and into  *)
(* the person's baseline; their verdict on it moves the correction that    *)
(* later scores are given.                                                 *)
(*                                                                         *)
(* Readings and tasks are refused once the session has ended, by a check   *)
(* that comes a call before the write.  Baseline and correction are read,  *)
(* worked out and written by different calls.                              *)
(***************************************************************************)
EXTENDS FocusScoring

CONSTANTS
    Sitting, Item,      \* one person's sessions; items of a checklist
    Duty,               \* requests in flight
    NoSitting,
    Verdicts,           \* of the ratings 1 .. 5
    MaxReadings,        \* bound: readings of a session
    MaxPlaces,          \* bound: places of a checklist
    MaxVerdicts         \* bound: ratings given

ASSUME EstimateAssumption ==
    /\ NoSitting \notin Sitting /\ Verdicts \subseteq 1 .. 5
    /\ IsFiniteSet(Sitting) /\ IsFiniteSet(Item)
    /\ MaxReadings \in Nat /\ MaxPlaces \in Nat /\ MaxVerdicts \in Nat
    /\ \A n \in 1 .. Cardinality(Sitting) : Grain % (2 * n) = 0

VARIABLES
    sitting,    \* sessions: whether it has ended, its score, its tasks counted
    readings,   \* focus_samples: good and bad ones of each session
    checklist,  \* session_tasks: the session, the place and the tick of each
    baseline,   \* focus_baselines: the readings of each session in it
    verdict,    \* focus_ratings, 0 for none
    correction, \* focus_calibrations
    duty,
    given,      \* how many verdicts were given
    mingled,    \* history: two closes were under way at once
    missed,       \* history: sessions written to after their close, or whose
                \* estimate failed
    shuffled    \* history: sessions an item was removed from, or two were added at once

estimateVars == <<sitting, readings, checklist, baseline, verdict, correction, duty,
                  given, mingled, missed, shuffled>>

NotListed == [of |-> NoSitting, place |-> 0, done |-> FALSE]
NewSitting == [st |-> "new", score |-> NoScore, total |-> 0, done |-> 0]
AtEase == [at |-> "ease", s |-> NoSitting, on |-> "none", was |-> "open", place |-> 0,
           good |-> 0, bad |-> 0, known |-> [s \in Sitting |-> 0],
           total |-> 0, done |-> 0, excess |-> 0, n |-> 0, offset |-> 0]
Closing == {"end", "look", "list", "score", "fold"}
Rating == {"measure", "recall", "adjust"}

EstimateInit ==
    /\ sitting = [s \in Sitting |-> NewSitting]
    /\ readings = [s \in Sitting |-> [good |-> 0, bad |-> 0]]
    /\ checklist = [i \in Item |-> NotListed]
    /\ baseline = [s \in Sitting |-> 0]
    /\ verdict = [s \in Sitting |-> 0]
    /\ correction = [offset |-> 0, n |-> 0]
    /\ duty = [d \in Duty |-> AtEase]
    /\ given = 0 /\ mingled = FALSE /\ missed = {} /\ shuffled = {}

-----------------------------------------------------------------------------
tables == <<sitting, readings, checklist, baseline, verdict, correction>>
remembered == <<given, mingled, missed, shuffled>>

IsOpen(s) == sitting[s].st = "open"
Listed(s) == {i \in Item : checklist[i].of = s}
Ticked(s) == {i \in Listed(s) : checklist[i].done}
Doing(d, at) == duty[d].at = at
Eases(d) == duty' = [duty EXCEPT ![d] = AtEase]
Enters(d, at, s) ==
    /\ Doing(d, "ease") /\ sitting[s].st # "new"
    /\ duty' = [duty EXCEPT ![d] = [AtEase EXCEPT !.at = at, !.s = s, !.was = sitting[s].st]]

\* Another request of the same person stands at one of these steps.
Amid(d, steps) == \E e \in Duty \ {d} : duty[e].at \in steps

\* A write of d to its session, allowed when it looked, after the close.
LateWrite(d) == missed' = IF duty[d].was = "open" /\ ~ IsOpen(duty[d].s)
                          THEN missed \cup {duty[d].s} ELSE missed

\* startSession and joinSession settle what is open before they insert.
StartSitting(s) ==
    /\ sitting[s].st = "new" /\ \A q \in Sitting : ~ IsOpen(q)
    /\ sitting' = [sitting EXCEPT ![s].st = "open"]
    /\ UNCHANGED <<readings, checklist, baseline, verdict, correction, duty, remembered>>

\* ingestSamples: the session and its check, and the insert of a reading.
BeginIngest(d, s) ==
    /\ IsOpen(s)
    /\ Enters(d, "reading", s)
    /\ UNCHANGED <<tables, remembered>>

CreateSample(d, kind) ==
    /\ Doing(d, "reading")
    /\ LET s == duty[d].s IN
         /\ readings[s].good + readings[s].bad < MaxReadings
         /\ readings' = [readings EXCEPT ![s][kind] = @ + 1]
    /\ LateWrite(d) /\ Eases(d)
    /\ UNCHANGED <<sitting, checklist, baseline, verdict, correction, given, mingled, shuffled>>

\* addTasks counts the items there are, and gives the new one that place.
BeginAddTask(d, s) ==
    /\ IsOpen(s) /\ Cardinality(Listed(s)) < MaxPlaces
    /\ Doing(d, "ease")
    /\ duty' = [duty EXCEPT ![d] = [AtEase EXCEPT !.at = "add", !.s = s,
                                                  !.place = Cardinality(Listed(s))]]
    /\ shuffled' = IF Amid(d, {"add"}) THEN shuffled \cup {s} ELSE shuffled
    /\ UNCHANGED <<tables, given, mingled, missed>>

CreateTask(d, i) ==
    /\ Doing(d, "add") /\ checklist[i] = NotListed
    /\ checklist' = [checklist EXCEPT ![i] = [of |-> duty[d].s, place |-> duty[d].place,
                                              done |-> FALSE]]
    /\ LateWrite(d) /\ Eases(d)
    /\ UNCHANGED <<sitting, readings, baseline, verdict, correction, given, mingled, shuffled>>

\* Slip: the checklist of a session that has ended may still be ticked.
BeginTickAnytime(d, i, at) ==
    /\ checklist[i] # NotListed
    /\ Doing(d, "ease")
    /\ LET s == checklist[i].of IN
         duty' = [duty EXCEPT ![d] = [AtEase EXCEPT !.at = at, !.s = s, !.on = i,
                                                    !.was = sitting[s].st]]
    /\ UNCHANGED <<tables, remembered>>

\* setTaskComplete and removeTask up to their write.
BeginTick(d, i, at) ==
    /\ checklist[i] # NotListed /\ IsOpen(checklist[i].of)
    /\ Doing(d, "ease")
    /\ LET s == checklist[i].of IN
         duty' = [duty EXCEPT ![d] = [AtEase EXCEPT !.at = at, !.s = s, !.on = i,
                                                    !.was = sitting[s].st]]
    /\ UNCHANGED <<tables, remembered>>

\* updateMany and deleteMany by id and session: 404 when the item is gone.
SetTaskComplete(d) ==
    /\ Doing(d, "tick")
    /\ LET i == duty[d].on IN
         IF checklist[i].of = duty[d].s
           THEN /\ \E done \in BOOLEAN : checklist' = [checklist EXCEPT ![i].done = done]
                /\ LateWrite(d)
           ELSE UNCHANGED <<checklist, missed>>
    /\ Eases(d)
    /\ UNCHANGED <<sitting, readings, baseline, verdict, correction, given, mingled, shuffled>>

DeleteTask(d) ==
    /\ Doing(d, "remove")
    /\ LET i == duty[d].on IN
         IF checklist[i].of = duty[d].s
           THEN /\ checklist' = [checklist EXCEPT ![i] = NotListed]
                /\ shuffled' = shuffled \cup {duty[d].s}
                /\ LateWrite(d)
           ELSE UNCHANGED <<checklist, shuffled, missed>>
    /\ Eases(d)
    /\ UNCHANGED <<sitting, readings, baseline, verdict, correction, given, mingled>>

-----------------------------------------------------------------------------
\* A closer has read the session open, and writes its end whatever it is by now
\* (closeSession).
BeginClose(d, s) ==
    /\ IsOpen(s)
    /\ Enters(d, "end", s)
    /\ mingled' = (mingled \/ Amid(d, Closing))
    /\ UNCHANGED <<tables, given, missed, shuffled>>

WriteClosed(d) ==
    /\ Doing(d, "end")
    /\ sitting' = [sitting EXCEPT ![duty[d].s].st = "ended"]
    /\ duty' = [duty EXCEPT ![d].at = "look"]
    /\ UNCHANGED <<readings, checklist, baseline, verdict, correction, remembered>>

\* finaliseSessionFocus: readings, baseline and correction, asked for together.
FindSamples(d) ==
    /\ Doing(d, "look")
    /\ LET s == duty[d].s IN
         duty' = [duty EXCEPT ![d] = [@ EXCEPT !.at = "list",
                    !.good = readings[s].good, !.bad = readings[s].bad,
                    !.known = baseline, !.offset = correction.offset, !.n = correction.n]]
    /\ UNCHANGED <<tables, remembered>>

\* ... then the checklist.
FindTasks(d) ==
    /\ Doing(d, "list")
    /\ LET s == duty[d].s IN
         duty' = [duty EXCEPT ![d] = [@ EXCEPT !.at = "score",
                    !.total = Cardinality(Listed(s)), !.done = Cardinality(Ticked(s))]]
    /\ UNCHANGED <<tables, remembered>>

\* The readings as scoreSession gets them; the session was a planned one, kept to
\* its plan or left half-way, with nothing between.
Sample(good) == [at |-> 0, motion |-> IF good THEN Quality ELSE 0, inApp |-> good,
                 hr |-> NoHeartRate]
Facts(d, elapsed) ==
    [samples |-> [i \in 1 .. duty[d].good + duty[d].bad |-> Sample(i <= duty[d].good)],
     elapsed |-> elapsed, planned |-> 2, away |-> 0,
     done |-> duty[d].done, total |-> duty[d].total]

\* Without a reading there is neither a score nor a count of the checklist.
UpdateSessionFocus(d) ==
    /\ Doing(d, "score")
    /\ IF duty[d].good + duty[d].bad > 0
         THEN /\ \E elapsed \in 1 .. 2 :
                   sitting' = [sitting EXCEPT ![duty[d].s] =
                      [@ EXCEPT !.total = duty[d].total, !.done = duty[d].done,
                                !.score = ApplyCalibration(ScoreSession(Facts(d, elapsed)),
                                                           duty[d].offset, duty[d].n)]]
              /\ duty' = [duty EXCEPT ![d].at = "fold"]
         ELSE /\ sitting' = [sitting EXCEPT ![duty[d].s].score = NoScore]
              /\ Eases(d)
    /\ UNCHANGED <<readings, checklist, baseline, verdict, correction, remembered>>

\* updateBaselinesFromSamples: the baseline as it was read, and these readings.
UpsertBaseline(d) ==
    /\ Doing(d, "fold")
    /\ baseline' = [duty[d].known EXCEPT ![duty[d].s] = @ + duty[d].good + duty[d].bad]
    /\ Eases(d)
    /\ UNCHANGED <<sitting, readings, checklist, verdict, correction, remembered>>

\* A call fails, which neither the close nor the rating answers for.
EstimateFails(d) ==
    /\ duty[d].at \in (Closing \cup Rating) \ {"end"}
    /\ missed' = IF duty[d].at \in Closing THEN missed \cup {duty[d].s} ELSE missed
    /\ Eases(d)
    /\ UNCHANGED <<tables, given, mingled, shuffled>>

-----------------------------------------------------------------------------
\* rateSession: the verdict, given again or anew.
Rate(d, s, v) ==
    /\ given < MaxVerdicts /\ given' = given + 1
    /\ Enters(d, "measure", s)
    /\ verdict' = [verdict EXCEPT ![s] = v]
    /\ UNCHANGED <<sitting, readings, checklist, baseline, correction, mingled, missed, shuffled>>

Usable == {s \in Sitting : verdict[s] # 0 /\ sitting[s].score # NoScore}
Excess == MapThenSumSet(LAMBDA s : sitting[s].score - RatingToScore(verdict[s]), Usable)

\* recalibrate: findRatedSessions and computeAccuracy ...
FindRated(d) ==
    /\ Doing(d, "measure")
    /\ IF Cardinality(Usable) < MinRatings THEN Eases(d)
       ELSE duty' = [duty EXCEPT ![d] = [@ EXCEPT !.at = "recall",
                                            !.n = Cardinality(Usable), !.excess = Excess]]
    /\ UNCHANGED <<tables, remembered>>

\* ... findCalibration ...
FindCalibration(d) ==
    /\ Doing(d, "recall")
    /\ duty' = [duty EXCEPT ![d] = [@ EXCEPT !.at = "adjust", !.offset = correction.offset]]
    /\ UNCHANGED <<tables, remembered>>

\* ... and upsertCalibration.
UpsertCalibration(d) ==
    /\ Doing(d, "adjust")
    /\ correction' = [offset |-> NextCalibrationOffset(duty[d].offset, duty[d].excess, duty[d].n),
                      n |-> duty[d].n]
    /\ Eases(d)
    /\ UNCHANGED <<sitting, readings, checklist, baseline, verdict, remembered>>

EstimateNext ==
    \/ \E s \in Sitting : StartSitting(s)
    \/ \E d \in Duty :
         \/ \E s \in Sitting : BeginIngest(d, s) \/ BeginAddTask(d, s) \/ BeginClose(d, s)
         \/ \E kind \in {"good", "bad"} : CreateSample(d, kind)
         \/ \E i \in Item : CreateTask(d, i)
         \/ \E i \in Item, at \in {"tick", "remove"} : BeginTick(d, i, at)
         \/ SetTaskComplete(d) \/ DeleteTask(d)
         \/ WriteClosed(d) \/ FindSamples(d) \/ FindTasks(d) \/ UpdateSessionFocus(d)
         \/ UpsertBaseline(d) \/ EstimateFails(d)
         \/ \E s \in Sitting, v \in Verdicts : Rate(d, s, v)
         \/ FindRated(d) \/ FindCalibration(d) \/ UpsertCalibration(d)

EstimateSpec == EstimateInit /\ [][EstimateNext]_estimateVars

-----------------------------------------------------------------------------
\* Every variable keeps its type; a score and an offset keep their range.
EstimateTypeOK ==
    /\ \A s \in Sitting :
         /\ sitting[s].st \in {"new", "open", "ended"}
         /\ sitting[s].score \in {NoScore} \cup 0 .. 100
         /\ sitting[s].done <= sitting[s].total
         /\ readings[s].good + readings[s].bad <= MaxReadings
    /\ \A i \in Item : checklist[i].of \in Sitting \cup {NoSitting}
    /\ correction.offset \in -MaxOffset * Grain .. MaxOffset * Grain
    /\ missed \subseteq Sitting /\ shuffled \subseteq Sitting

\* Once a session is closed, its row counts the checklist as it stands, and the
\* baseline has its readings, all of them and once - whatever was added, ticked
\* and removed while it ran, and unless two closes were under way at once, a write
\* that was checked before the close landed after it, or the estimate failed.  A
\* session without a reading is given no counts (finaliseSessionFocus,
\* updateBaselinesFromSamples).
EstimateIsOfTheSession ==
    \A s \in Sitting :
        sitting[s].st = "ended" /\ ~ mingled /\ s \notin missed
          /\ (\A d \in Duty : ~ (duty[d].at \in Closing /\ duty[d].s = s)) =>
            /\ baseline[s] = readings[s].good + readings[s].bad
            /\ baseline[s] > 0 =>
                 /\ sitting[s].total = Cardinality(Listed(s))
                 /\ sitting[s].done = Cardinality(Ticked(s))

\* Two items of a checklist stand at different places, until one is removed or two
\* are added at once (createTasks).
ItemsStandApart ==
    \A i, j \in Item :
        i # j /\ checklist[i] # NotListed /\ checklist[i].of = checklist[j].of
          /\ checklist[i].of \notin shuffled => checklist[i].place # checklist[j].place

\* Scores are corrected only for verdicts on sessions that have one: a verdict given
\* while a session runs, or on one that was never measured, moves nothing.  Of two
\* closes under way at once the one that read first may take the score away again
\* (computeAccuracy, recalibrate).
CorrectionIsOfScores ==
    ~ mingled /\ correction.n > 0 => MinRatings <= correction.n /\ correction.n <= Cardinality(Usable)

\* What a session leaves behind of its readings, its checklist and its rating, put
\* together (focus.service.js).
EstimateIsKept == EstimateIsOfTheSession /\ ItemsStandApart /\ CorrectionIsOfScores
=============================================================================
