------------------------------- MODULE MCCron ------------------------------
(***************************************************************************)
(* A calendar with 3 minutes an hour, 1 hour a day, 2 days a month and 2   *)
(* months, and cron files of one or two lines.                             *)
(***************************************************************************)
EXTENDS CronDaemon

Num(n)   == [kind |-> "num", v |-> n]
Name(n)  == [kind |-> "name", v |-> n]
Star     == [kind |-> "star"]
To(a, b) == [kind |-> "range", lo |-> a, hi |-> b]
By(a, b) == [kind |-> "step", lo |-> a, by |-> b]

MCClock(m) ==
  LET day == m \div MAX_MIN
  IN  [min |-> m % MAX_MIN, hour |-> 0, date |-> 1 + (day % (MAX_DATE - 1)),
       month |-> 1 + ((day \div (MAX_DATE - 1)) % MAX_MONTH), week |-> day % MAX_DAYS_WEEK]

Always == [min |-> <<Star>>, hour |-> <<Star>>, date |-> <<Star>>, month |-> <<Star>>,
        week |-> <<Star>>, command |-> "a"]

\* Lines whose times differ in one field or another, and lines with an error.
ByMinute == {[Always EXCEPT !.min = f] : f \in
  {<<Num(1)>>, <<Num(0), Num(2)>>, <<To(Num(1), Num(2))>>, <<By(Star, Num(2))>>,
   <<By(Num(1), Num(1))>>, <<By(Num(1), Num(2))>>}}
ByDay == {[Always EXCEPT !.date = <<Num(2)>>, !.week = <<To(Name(0), Name(0))>>],
          [Always EXCEPT !.date = <<Num(2)>>, !.week = <<Num(5)>>],
          [Always EXCEPT !.month = <<To(Name(1), Name(1))>>],
          [Always EXCEPT !.month = <<By(Star, Num(1))>>],
          [Always EXCEPT !.month = <<Name(1)>>]}
Odd == {[Always EXCEPT !.min = <<By(Star, Num(0))>>],
        [Always EXCEPT !.min = <<Num(0), Num(3)>>],
        [Always EXCEPT !.min = <<Name(0)>>],
        [Always EXCEPT !.command = NoCommand]}

\* The files that are edited: one line, and two lines.
Edited == {<<[Always EXCEPT !.min = <<Num(1)>>]>>, <<Always, [Always EXCEPT !.command = "b"]>>}

MCFiles == {<<line>> : line \in ByMinute \cup ByDay \cup Odd} \cup Edited

\* The whole calendar for the files that are not edited.
MCMaxTime(f) == IF f \in Edited THEN 2 ELSE 24
MCMayBecome(f) == IF f \in Edited THEN Edited \ {f} ELSE {}
MCMixedLines == {[Always EXCEPT !.date = <<Num(1)>>, !.week = <<Num(0)>>, !.command = "b"]}
=============================================================================
