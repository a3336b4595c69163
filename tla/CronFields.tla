----------------------------- MODULE CronFields ----------------------------
(***************************************************************************)
(* The fields of a line of the cron file, SYSTEM_LAB/CRON_OS_MMU/CRON: how *)
(* cron.cpp decides whether they are valid and whether they match a time.  *)
(* A field is a sequence of tokens (separated by commas in the file).  A   *)
(* token is a record of its kind:                                          *)
(*   [kind |-> "num", v |-> n]            a number                         *)
(*   [kind |-> "name", v |-> n]           the name of a month or weekday   *)
(*   [kind |-> "star"]                    *                                *)
(*   [kind |-> "range", lo, hi]           lo-hi                            *)
(*   [kind |-> "step", lo, by]            lo/by                            *)
(* where lo, hi and by are tokens of the first three kinds.                *)
(***************************************************************************)
EXTENDS Integers, Sequences

CONSTANTS MAX_MIN, MAX_HOUR, MAX_MONTH, MAX_DATE, MAX_DAYS_WEEK

ASSUME FieldsAssumption ==
  /\ {MAX_MIN, MAX_HOUR, MAX_MONTH, MAX_DATE, MAX_DAYS_WEEK} \subseteq Nat \ {0}
  /\ MAX_MONTH > 1 /\ MAX_DATE > 1

EndToken == [kind : {"num", "name"}, v : Int] \cup [kind : {"star"}]
Token == EndToken \cup [kind : {"range"}, lo : EndToken, hi : EndToken]
                  \cup [kind : {"step"}, lo : EndToken, by : EndToken]

\* The broken-down times; a month is one more than tm_mon.
Times == [min : 0 .. MAX_MIN - 1, hour : 0 .. MAX_HOUR - 1, date : 1 .. MAX_DATE - 1,
          month : 1 .. MAX_MONTH, week : 0 .. MAX_DAYS_WEEK - 1]

\* The range of a field, its end excluded, and whether names are values of it.
Minute  == [min |-> 0, max |-> MAX_MIN,       named |-> FALSE]
Hour    == [min |-> 0, max |-> MAX_HOUR,      named |-> FALSE]
Month   == [min |-> 1, max |-> MAX_MONTH,     named |-> TRUE]
Date    == [min |-> 1, max |-> MAX_DATE,      named |-> FALSE]
WeekDay == [min |-> 0, max |-> MAX_DAYS_WEEK, named |-> TRUE]

NoValue == -1

getActualValue(t, f) ==
  IF t.kind = "num" \/ (t.kind = "name" /\ f.named) THEN t.v ELSE NoValue

checkRange(v, f) == v >= f.min /\ v < f.max

\* The values checkAllPossibilitiesForToken may return.  For a name that is not
\* a value of the field it ends without a return: any value.
checkAllPossibilitiesForToken(t, f) ==
  CASE t.kind = "num"   -> {checkRange(t.v, f)}
    [] t.kind = "star"  -> {TRUE}
    [] t.kind = "range" -> {checkRange(getActualValue(t.lo, f), f)
                              /\ checkRange(getActualValue(t.hi, f), f)}
    [] t.kind = "step"  -> {(t.lo.kind = "star" \/ checkRange(getActualValue(t.lo, f), f))
                              /\ checkRange(getActualValue(t.by, f), f)}
    [] t.kind = "name"  -> IF getActualValue(t, f) # NoValue THEN {TRUE} ELSE BOOLEAN

\* A field is valid if all its tokens are.
validateToken(field, f) ==
  {ok \in BOOLEAN :
     IF ok THEN \A i \in DOMAIN field : TRUE \in checkAllPossibilitiesForToken(field[i], f)
           ELSE \E i \in DOMAIN field : FALSE \in checkAllPossibilitiesForToken(field[i], f)}

\* A line: its five fields and its command, NoCommand if it has fewer fields.
validateFields(line) ==
  {ok \in BOOLEAN :
     LET Can(b) == <<b \in validateToken(line.min, Minute), b \in validateToken(line.hour, Hour),
                     b \in validateToken(line.date, Date), b \in validateToken(line.month, Month),
                     b \in validateToken(line.week, WeekDay)>>
     IN  IF ok THEN \A i \in 1 .. 5 : Can(TRUE)[i] ELSE \E i \in 1 .. 5 : Can(FALSE)[i]}

-----------------------------------------------------------------------------
\* Mutant of checkIfValuesMatches: steps are counted from 0.
MatchesFromZero(t, current, f) ==
  IF t.kind = "step" /\ getActualValue(t.by, f) > 0
  THEN IF current % getActualValue(t.by, f) = 0 THEN "yes" ELSE "no"
  ELSE IF t.kind = "num" /\ current # t.v THEN "no" ELSE "yes"

\* checkIfValuesMatches returns, or its loop over a step of 0 does not end.
checkIfValuesMatches(t, current, f) ==
  LET low  == IF t.lo.kind = "star" THEN f.min ELSE getActualValue(t.lo, f)
      step == getActualValue(t.by, f)
      Answer(b) == IF b THEN "yes" ELSE "no"
  IN  CASE t.kind = "num"   -> Answer(current = t.v)
        [] t.kind = "star"  -> "yes"
        [] t.kind = "range" -> Answer(getActualValue(t.lo, f) <= current
                                        /\ current <= getActualValue(t.hi, f))
        [] t.kind = "step"  -> IF step = 0 /\ low < current THEN "loops"
                               ELSE Answer(current \in low .. f.max - 1
                                             /\ (current = low \/ (current - low) % step = 0))
        [] t.kind = "name"  -> Answer(getActualValue(t, f) # NoValue)

\* The tokens are tried in order; the first that matches, or loops, decides.
validate(field, current, f) ==
  LET Result(i) == checkIfValuesMatches(field[i], current, f)
      Decisive  == {i \in DOMAIN field : Result(i) # "no"}
  IN  IF Decisive = {} THEN "no"
      ELSE Result(CHOOSE i \in Decisive : \A j \in Decisive : i <= j)

\* Minute, hour and month in this order, then the date or else the weekday.
checkIfCurrentTimeMatches(line, time) ==
  LET results == <<validate(line.min, time.min, Minute), validate(line.hour, time.hour, Hour),
                   validate(line.month, time.month, Month)>>
      date    == validate(line.date, time.date, Date)
      Failed  == {i \in 1 .. 3 : results[i] # "yes"}
  IN  IF Failed # {} THEN results[CHOOSE i \in Failed : \A j \in Failed : i <= j]
      ELSE IF date # "no" THEN date ELSE validate(line.week, time.week, WeekDay)

-----------------------------------------------------------------------------
(***************************************************************************)
(* The meaning of a line, for comparison: each token names a set of values.*)
(* (The time has a month MAX_MONTH; no other field has its max as a value.) *)
(***************************************************************************)
Means(t, f) ==
  LET all == f.min .. f.max
  IN  CASE t.kind = "star"  -> all
        [] t.kind = "num"   -> {t.v} \cap all
        [] t.kind = "name"  -> IF f.named THEN {t.v} \cap all ELSE {}
        [] t.kind = "range" -> all \cap (t.lo.v .. t.hi.v)
        [] t.kind = "step"  -> {v \in all : \E k \in 0 .. f.max :
                                  v = (IF t.lo.kind = "star" THEN f.min ELSE t.lo.v) + k * t.by.v}

Names(field, value, f) == \E i \in DOMAIN field : value \in Means(field[i], f)

Due(line, time) ==
  /\ Names(line.min, time.min, Minute)
  /\ Names(line.hour, time.hour, Hour)
  /\ Names(line.month, time.month, Month)
  /\ Names(line.date, time.date, Date) \/ Names(line.week, time.week, WeekDay)
=============================================================================
