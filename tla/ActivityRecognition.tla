------------------------- MODULE ActivityRecognition -------------------------
(***************************************************************************)
(* The activity recogniser (ar.c, nb.c, hmm.c) from the log it has read to *)
(* the confusion matrix: ranges for the features, cross validation,        *)
(* training, the model file, and the prediction of each occurrence.        *)
(* Option `stream' is never set, so its branches are left out; the         *)
(* features sensor and day of week are counted as the time is, without     *)
(* ranges, and are left out too.                                           *)
(***************************************************************************)
EXTENDS ActivityLog, LargeNumbers, FiniteSetsExt

CONSTANTS
  Modes,                    \* of the first session: "TRAIN", "TEST", "BOTH"
  Models,                   \* "NB" and "HMM"
  CROSS_VALIDATION_FOLDS,
  numfeaturevalues,         \* [TIME, LENGTH]
  Terms,                    \* bound: the products prior * transition * emission
  LinesOf,                  \* bound: per mode, lines of a log
  LinesUsed                 \* bound: lines of a log that a session goes on with

ASSUME RecognitionAssumption ==
  /\ Modes \subseteq {"TRAIN", "TEST", "BOTH"} /\ Models \subseteq {"NB", "HMM"}
  /\ CROSS_VALIDATION_FOLDS \in Nat \ {0}
  /\ numfeaturevalues.TIME \in Nat \ {0} /\ numfeaturevalues.LENGTH \in Nat \ {0}

Folds == 0 .. CROSS_VALIDATION_FOLDS - 1

VARIABLES
  mode, model,
  phase,        \* read, partition, train, test, done, or exit
  partition,    \* per occurrence, in order, its fold
  fold,
  thresholds,   \* [TIME, LENGTH], the upper ends of the ranges but the last
  trained,      \* [stotal, evidence, tr]
  num, visited, \* occurrences tested or passed over; events used of the next
  likelihood,
  freq, right, wrong,
  file          \* the model files written: at most one, [thresholds, trained]

testVars == <<num, visited, likelihood, freq, right, wrong>>
vars == <<logVars, mode, model, phase, partition, fold, thresholds, trained, testVars, file>>

-----------------------------------------------------------------------------
(* Occurrences, in the order of the loops over them.                         *)

Total == MapThenSumSet(afreq, Activities)
Before(a) == MapThenSumSet(afreq, 0 .. a - 1)
Position(a, j) == Before(a) + j
Occurrences == UNION {{<<a, j>> : j \in 1 .. afreq(a)} : a \in Activities}
NthOccurrence(n) == CHOOSE o \in Occurrences : Position(o[1], o[2]) = n

-----------------------------------------------------------------------------
(* Ranges.                                                                   *)

DefaultThreshold ==
  [f \in {"TIME", "LENGTH"} |->
     [k \in 1 .. numfeaturevalues[f] - 1 |->
        IF f = "TIME" THEN IF k < 4 THEN 5 * k ELSE 20
        ELSE IF k = 1 THEN 150 ELSE 500]]

\* data sorted, from 0.
Sorted(data, k) ==
  CHOOSE v \in {data[i] : i \in DOMAIN data} :
    /\ Cardinality({i \in DOMAIN data : data[i] < v}) <= k
    /\ k < Cardinality({i \in DOMAIN data : data[i] <= v})

\* Ranges of equal frequency.  Without data the program reads the word after an
\* empty array: unread is what it finds there.
EqualFrequency(data, n, unread) ==
  [k \in 1 .. n - 1 |-> IF data = <<>> THEN unread ELSE Sorted(data, k * (Len(data) \div n))]

Lengths ==
  [n \in 1 .. Total |-> LET o == NthOccurrence(n) IN finished[o[1]][o[2]].length]

Data(f) == IF f = "LENGTH" THEN Lengths ELSE [i \in 1 .. evnum |-> aevents[i].time]

Selected(f, select, unread) ==
  IF select = 0 THEN DefaultThreshold[f]
  ELSE EqualFrequency(Data(f), numfeaturevalues[f], unread)

\* The loop: up to the first threshold that is not exceeded.
RangeOf(th, v) ==
  Min({k \in 0 .. Len(th) : k = Len(th) \/ v <= th[k + 1]})

Ranged(th) == [i \in 1 .. evnum |-> [aevents[i] EXCEPT !.time = RangeOf(th, @)]]

sizes(a, j) == RangeOf(thresholds.LENGTH, finished[a][j].length)

SelectFeatures ==
  /\ phase = "read" /\ mode # "TEST" /\ lines <= LinesUsed
  /\ \E select \in [{"TIME", "LENGTH"} -> {0, 1}], unread \in {0, 10} :
       /\ thresholds' = [f \in {"TIME", "LENGTH"} |-> Selected(f, select[f], unread)]
       /\ aevents' = Ranged(thresholds'.TIME)
  /\ phase' = IF mode = "BOTH" THEN "partition" ELSE "train"
  /\ UNCHANGED <<lines, open, current, finished, same, previous>>
  /\ UNCHANGED <<mode, model, partition, fold, trained, testVars, file>>

-----------------------------------------------------------------------------
(* Partition and training.                                                   *)

InTurn == [n \in 1 .. Total |-> (n - 1) % CROSS_VALIDATION_FOLDS]

\* Mutant of Partitions: one fold too many.
PartitionsOfOneMore == {[n \in 1 .. Total |-> (n - 1) % (CROSS_VALIDATION_FOLDS + 1)]}

\* By turns, or at random.
Partitions == {InTurn} \cup [1 .. Total -> Folds]

Partition ==
  /\ phase = "partition"
  /\ partition' \in Partitions
  /\ phase' = "train"
  /\ UNCHANGED <<logVars, mode, model, fold, thresholds, trained, testVars, file>>

\* Mutant of InFold: the occurrences are numbered within their activity.
InFoldByActivity(a, j) == CROSS_VALIDATION_FOLDS # 1 /\ partition[j] = fold

InFold(a, j) == CROSS_VALIDATION_FOLDS # 1 /\ partition[Position(a, j)] = fold

TrainingSet == {o \in Occurrences : mode = "TRAIN" \/ ~ InFold(o[1], o[2])}

\* The events of an activity that train it, each with its occurrence.
TrainingEvents(a) ==
  UNION {{<<o[2], i>> : i \in IF finished[a][o[2]].length = 0 THEN {}
                              ELSE Visited(a, finished[a][o[2]])}
         : o \in {x \in TrainingSet : x[1] = a}}

\* svalues of an event of an occurrence.
calculateState(a, j, i) ==
  [TIME |-> aevents[i].time, PREVIOUS |-> finished[a][j].previous, LENGTH |-> sizes(a, j)]

FeatureValues ==
  [TIME |-> 0 .. numfeaturevalues.TIME - 1, PREVIOUS |-> Activities,
   LENGTH |-> 0 .. numfeaturevalues.LENGTH - 1]

calculateEvidence(a) ==
  [f \in DOMAIN FeatureValues |->
     [v \in FeatureValues[f] |->
        Cardinality({e \in TrainingEvents(a) : calculateState(a, e[1], e[2])[f] = v})]]

\* stotal, evidence and, for the Markov model, tr.
Counted ==
  [stotal   |-> [a \in Activities |-> Cardinality(TrainingEvents(a))],
   evidence |-> [a \in Activities |-> calculateEvidence(a)],
   tr       |-> [pa \in Activities \X Activities |->
                   IF model = "NB" THEN 0
                   ELSE Cardinality({o \in TrainingSet :
                          o[1] = pa[2] /\ finished[o[1]][o[2]].previous = pa[1]})]]

ToTest == num' = 0 /\ visited' = 0

One == [a \in Activities |-> makeLargeNumber(1)]

\* The file holds the thresholds and the counts.
saveModel == file' = {[thresholds |-> thresholds, trained |-> trained']}

Train ==
  /\ phase = "train"
  /\ trained' = Counted
  /\ IF mode = "TRAIN"
     THEN phase' = "done" /\ saveModel
     ELSE phase' = "test" /\ UNCHANGED file
  /\ ToTest /\ likelihood' = One
  /\ UNCHANGED <<logVars, mode, model, partition, fold, thresholds, freq, right, wrong>>

\* Mutant of readModel: the times stay hours.
ReadModelKeepsHours ==
  /\ phase = "read" /\ mode = "TEST" /\ file # {}
  /\ \E saved \in file : thresholds' = saved.thresholds /\ trained' = saved.trained
  /\ phase' = "test" /\ ToTest /\ likelihood' = One
  /\ UNCHANGED <<logVars, mode, model, partition, fold, freq, right, wrong, file>>

readModel ==
  /\ phase = "read" /\ mode = "TEST"
  /\ IF file = {}
     THEN phase' = "exit" /\ UNCHANGED <<aevents, thresholds, trained, num, visited, likelihood>>
     ELSE /\ \E saved \in file :
               /\ thresholds' = saved.thresholds
               /\ trained' = saved.trained
               /\ aevents' = Ranged(saved.thresholds.TIME)
          /\ phase' = "test" /\ ToTest /\ likelihood' = One
  /\ UNCHANGED <<lines, open, current, finished, same, previous>>
  /\ UNCHANGED <<mode, model, partition, fold, freq, right, wrong, file>>

-----------------------------------------------------------------------------
(* Testing.                                                                  *)

Next1 == NthOccurrence(num + 1)
Testing == phase = "test" /\ num < Total
Tests(o) ==
  IF mode = "TEST" \/ CROSS_VALIDATION_FOLDS = 1 THEN TRUE ELSE InFold(o[1], o[2])

PassOver ==
  /\ Testing /\ ~ Tests(Next1)
  /\ num' = num + 1
  /\ UNCHANGED <<visited, likelihood, freq, right, wrong>>
  /\ UNCHANGED <<logVars, mode, model, phase, partition, fold, thresholds, trained, file>>

\* One more event of the occurrence: each activity gains a term for each activity it
\* may follow.  What lprior carries over from event to event is in the choice of terms.
updateLikelihood ==
  /\ Testing /\ Tests(Next1) /\ model = "HMM"
  /\ visited < finished[Next1[1]][Next1[2]].length
  /\ visited' = visited + 1
  /\ \E term \in [Activities \X Activities -> Terms] :
       likelihood' = [i \in Activities |->
         LET Gained[n \in 0 .. numactivities] ==
               IF n = 0 THEN likelihood[i] ELSE add(Gained[n - 1], term[<<n - 1, i>>])
         IN  Gained[numactivities]]
  /\ UNCHANGED <<num, freq, right, wrong>>
  /\ UNCHANGED <<logVars, mode, model, phase, partition, fold, thresholds, trained, file>>

\* The activity of the greatest likelihood, the first of several.
getMax ==
  LET Best[n \in 0 .. numactivities] ==
        IF n = 0 THEN [max |-> makeLargeNumber(0), activity |-> 0]
        ELSE IF isGreaterThan(likelihood[n - 1], Best[n - 1].max)
             THEN [max |-> likelihood[n - 1], activity |-> n - 1]
             ELSE Best[n - 1]
  IN  Best[numactivities].activity

Predict(class) ==
  LET actual == Next1[1]
  IN  /\ freq' = [freq EXCEPT ![<<actual, class>>] = @ + 1]
      /\ IF actual = class THEN right' = right + 1 /\ UNCHANGED wrong
                           ELSE wrong' = wrong + 1 /\ UNCHANGED right
      /\ num' = num + 1 /\ visited' = 0 /\ likelihood' = One
      /\ UNCHANGED <<logVars, mode, model, phase, partition, fold, thresholds, trained, file>>

HMMTest ==
  /\ Testing /\ Tests(Next1) /\ model = "HMM"
  /\ visited = finished[Next1[1]][Next1[2]].length
  /\ Predict(getMax)

\* Sums of logarithms: any of the activities may have the least.
NBCTest ==
  /\ Testing /\ Tests(Next1) /\ model = "NB"
  /\ \E class \in Activities : Predict(class)

FoldDone ==
  /\ phase = "test" /\ num = Total
  /\ IF mode = "BOTH" /\ fold + 1 \in Folds
     THEN fold' = fold + 1 /\ phase' = "train"
     ELSE phase' = "done" /\ UNCHANGED fold
  /\ UNCHANGED <<logVars, mode, model, partition, thresholds, trained, testVars, file>>

-----------------------------------------------------------------------------
(* Sessions: a run of the program, and after a training one of mode TEST.    *)

NoCounts ==
  [stotal |-> [a \in Activities |-> 0],
   evidence |-> [a \in Activities |->
                   [f \in DOMAIN FeatureValues |-> [v \in FeatureValues[f] |-> 0]]],
   tr |-> [pa \in Activities \X Activities |-> 0]]

Init ==
  /\ LogInit
  /\ mode \in Modes /\ model \in Models
  /\ phase = "read" /\ fold = 0 /\ partition = <<>>
  /\ thresholds = [TIME |-> <<>>, LENGTH |-> <<>>]
  /\ trained = NoCounts
  /\ num = 0 /\ visited = 0 /\ likelihood = One
  /\ freq = [ab \in Activities \X Activities |-> 0]
  /\ right = 0 /\ wrong = 0
  /\ file = {}

ReadData ==
  /\ phase = "read" /\ lines < LinesOf[mode] /\ ReadLine
  /\ UNCHANGED <<mode, model, phase, partition, fold, thresholds, trained, testVars, file>>

NextSession ==
  /\ phase = "done" /\ mode = "TRAIN"
  /\ mode' = "TEST" /\ phase' = "read"
  /\ lines' = 0 /\ aevents' = <<>> /\ open' = {} /\ same' = 0 /\ previous' = 0
  /\ current' = [a \in Activities |-> NoOccurrence]
  /\ finished' = [a \in Activities |-> <<>>]
  /\ thresholds' = [TIME |-> <<>>, LENGTH |-> <<>>] /\ trained' = NoCounts
  /\ UNCHANGED <<model, partition, fold, testVars, file>>

Next ==
  \/ ReadData \/ SelectFeatures \/ Partition \/ Train \/ readModel
  \/ PassOver \/ updateLikelihood \/ HMMTest \/ NBCTest \/ FoldDone
  \/ NextSession

Spec == Init /\ [][Next]_vars

-----------------------------------------------------------------------------

\* The fold of the occurrence an event was added to; none for an activity still open.
FoldOf(i) ==
  LET e == aevents[i]
  IN  IF e.occurrence <= afreq(e.label) THEN partition[Position(e.label, e.occurrence)]
      ELSE CROSS_VALIDATION_FOLDS

\* The range an hour belongs to: the number of thresholds it exceeds.
InRange(th, hour) == Cardinality({k \in DOMAIN th : hour > th[k]})

OfOtherFolds(a) ==
  {i \in 1 .. evnum : aevents[i].label = a /\ FoldOf(i) \in Folds \ {fold}}

\* In cross validation a fold is tested with counts of exactly the events of the other
\* folds: nothing that is tested was trained with, and nothing else is missing.
TrainedOnOthers ==
  phase = "test" /\ mode = "BOTH" /\ CROSS_VALIDATION_FOLDS # 1 =>
    \A a \in Activities :
      /\ trained.stotal[a] = Cardinality(OfOtherFolds(a))
      /\ \A v \in FeatureValues.TIME :
           trained.evidence[a].TIME[v] =
             Cardinality({i \in OfOtherFolds(a) : InRange(thresholds.TIME, aevents[i].hour) = v})

\* When the confusion matrix is printed, every occurrence was tested once: its rows add
\* up to the occurrences of the activities, and right and wrong to all.
EachTestedOnce ==
  phase = "done" /\ mode # "TRAIN" =>
    /\ \A a \in Activities :
         MapThenSumSet(LAMBDA b : freq[<<a, b>>], Activities) = afreq(a)
    /\ right = MapThenSumSet(LAMBDA a : freq[<<a, a>>], Activities)
    /\ right + wrong = Total

\* A test uses the times in the ranges that the counts it compares them with were made
\* for, in the session that trained or in one that read the model.
RangesOfTraining ==
  phase = "test" =>
    \A i \in 1 .. evnum :
      aevents[i].time = InRange((IF mode = "TEST" THEN (CHOOSE f \in file : TRUE).thresholds
                                 ELSE thresholds).TIME, aevents[i].hour)

\* The predicted activity has the greatest likelihood, as numbers compare; the
\* comparison of exponents and mantissas needs them in standard form, and above zero.
PredictsMostLikely ==
  \A a \in Activities : Units(likelihood[getMax], 8) >= Units(likelihood[a], 8)
=============================================================================
