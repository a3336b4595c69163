----------------------------- MODULE CronProofs -----------------------------
(***************************************************************************)
(* The schedulers of the cron daemon: one works, the others have been      *)
(* cancelled; it works on the whole list; and two passes through the list  *)
(* are in different minutes.  For every content of the file, every clock   *)
(* and any number of modifications.                                        *)
(***************************************************************************)
EXTENDS CronDaemon, ListLemmas, SequenceTheorems, TLAPS

\* The main thread reads the file, and nobody is to read the list meanwhile.
Refilling == pc \in {"clear", "parse"}

AtMost(b) == IF b THEN 1 ELSE 0

\* Each scheduler but the first was started for a modification of its own.
Counted == tid + AtMost(event) + AtMost(pc \in {"cancel", "clear", "parse"}) <= edits + 1

\* Only the last scheduler may be at work, and none while the list is refilled.
Retired(n) ==
  /\ n > tid => thread[n] = NoThread
  /\ n < tid \/ (n = tid /\ Refilling) => thread[n].cancelled

\* What a scheduler is about to start is in the list.
Listed(n) ==
  thread[n].place = "run" /\ ~thread[n].cancelled => ToSet(thread[n].line) \subseteq ToSet(conf_list)

\* A sleep ends after the minute in which it began, or it is the first of a scheduler
\* that was started with a minute; the passes of the others are not later than it began.
Sleeps(n) ==
  thread[n].place = "sleep" =>
    /\ thread[n].since <= now
    /\ \/ /\ thread[n].wake = thread[n].since + SecondsPerMinute
          /\ thread[n].last <= MinuteOf(thread[n].since)
       \/ /\ thread[n].wake = thread[n].since + ((-thread[n].since) % SecondsPerMinute)
          /\ thread[n].last = -1
    /\ ~thread[n].cancelled => \A m \in Threads \ {n} : thread[m].last <= MinuteOf(thread[n].since)

Passed(n) ==
  /\ thread[n].last <= MinuteOf(now)
  /\ thread[n].place \in {"none", "new"} => thread[n].last = -1

CInv ==
  /\ TypeOK
  /\ Counted
  /\ \A n \in Threads : Retired(n) /\ Listed(n) /\ Sleeps(n) /\ Passed(n)

-----------------------------------------------------------------------------
(***************************************************************************)
(* Minutes.                                                                *)
(***************************************************************************)

LEMMA Division ==
  ASSUME NEW a \in Int, NEW s \in Nat \ {0}
  PROVE  /\ a \div s \in Int /\ a % s \in 0 .. s - 1
         /\ a = s * (a \div s) + (a % s)
OBVIOUS

LEMMA QuotientUnique ==
  ASSUME NEW s \in Nat \ {0}, NEW q \in Int, NEW p \in Int, NEW r \in 0 .. s - 1, NEW t \in 0 .. s - 1,
         s * q + r <= s * p + t
  PROVE  q <= p
<1> SUFFICES ASSUME p + 1 <= q PROVE FALSE
  OBVIOUS
<1>1. s * (p + 1) <= s * q
  OBVIOUS
<1>2. s * (p + 1) = s * p + s
  OBVIOUS
<1> DEFINE x == s * p
           y == s * q
<1>3. x \in Int /\ y \in Int /\ x + s <= y /\ y + r <= x + t
  BY <1>1, <1>2
<1> HIDE DEF x, y
<1> QED BY <1>3

LEMMA MinuteProperties ==
  ASSUME NEW a \in Nat
  PROVE  /\ MinuteOf(a) \in Nat
         /\ a % SecondsPerMinute \in Nat /\ (-a) % SecondsPerMinute \in Nat
         /\ \A b \in Nat : a <= b => MinuteOf(a) <= MinuteOf(b)
         /\ MinuteOf(a + SecondsPerMinute) = MinuteOf(a) + 1
         /\ a % SecondsPerMinute # 0 =>
              MinuteOf(a + ((-a) % SecondsPerMinute)) > MinuteOf(a)
<1> DEFINE s == SecondsPerMinute
<1>0. s \in Nat \ {0}
  BY CronAssumption
<1>1. /\ MinuteOf(a) \in Int /\ a % s \in 0 .. s - 1 /\ a = s * MinuteOf(a) + (a % s)
      /\ (-a) % s \in 0 .. s - 1 /\ (-a) \div s \in Int /\ -a = s * ((-a) \div s) + ((-a) % s)
  BY <1>0, Division DEF MinuteOf
<1>2. MinuteOf(a) \in Nat
  <2>1. s * 0 + 0 <= s * MinuteOf(a) + (a % s)
    BY <1>0, <1>1
  <2>2. 0 \in 0 .. s - 1
    BY <1>0
  <2>3. 0 <= MinuteOf(a)
    BY <1>0, <1>1, <2>1, <2>2, QuotientUnique
  <2> QED BY <1>1, <2>3
<1>3. ASSUME NEW b \in Nat, a <= b PROVE MinuteOf(a) <= MinuteOf(b)
  <2>1. MinuteOf(b) \in Int /\ b % s \in 0 .. s - 1 /\ b = s * MinuteOf(b) + (b % s)
    BY <1>0, Division DEF MinuteOf
  <2> QED BY <1>0, <1>1, <1>3, <2>1, QuotientUnique
<1>4. MinuteOf(a + s) = MinuteOf(a) + 1
  <2> DEFINE b == a + s
             q == MinuteOf(a) + 1
  <2>1. MinuteOf(b) \in Int /\ b % s \in 0 .. s - 1 /\ b = s * MinuteOf(b) + (b % s)
    <3>1. b \in Int /\ MinuteOf(b) = b \div s
      BY <1>0 DEF MinuteOf
    <3> HIDE DEF b, s
    <3> QED BY <1>0, <3>1, Division
  <2>2. q \in Int /\ b = s * q + (a % s)
    BY <1>0, <1>1
  <2> HIDE DEF b, q, s
  <2>3. MinuteOf(b) <= q /\ q <= MinuteOf(b)
    <3>1. s * q + (a % s) <= s * MinuteOf(b) + (b % s)
      BY <1>0, <1>1, <2>1, <2>2
    <3>2. s * MinuteOf(b) + (b % s) <= s * q + (a % s)
      BY <1>0, <1>1, <2>1, <2>2
    <3> QED BY <1>0, <1>1, <2>1, <2>2, <3>1, <3>2, QuotientUnique
  <2> QED BY <2>1, <2>2, <2>3 DEF b, q
<1>5. ASSUME a % s # 0 PROVE MinuteOf(a + ((-a) % s)) > MinuteOf(a)
  <2> DEFINE d == (-a) % s
             r == a % s
             m == MinuteOf(a)
             n == (-a) \div s
             b == a + d
  <2>1. /\ d \in 0 .. s - 1 /\ r \in 1 .. s - 1 /\ m \in Int /\ n \in Int
        /\ a = s * m + r /\ -a = s * n + d
    BY <1>0, <1>1, <1>5
  <2>2. MinuteOf(b) \in Int /\ b % s \in 0 .. s - 1 /\ b = s * MinuteOf(b) + (b % s)
    <3>1. b \in Int /\ MinuteOf(b) = b \div s
      BY <1>0, <2>1 DEF MinuteOf
    <3> HIDE DEF b, s
    <3> QED BY <1>0, <3>1, Division
  <2> HIDE DEF s, d, r, m, n
  <2>3. s * m + r + s * n + d = 0
    BY <1>0, <2>1
  <2>4. n <= -m - 1
    <3>1. s * (m + n) = s * m + s * n
      BY <1>0, <2>1
    <3>2. s * (m + n) < 0
      <4> DEFINE x == s * m
                 y == s * n
      <4>1. x \in Int /\ y \in Int /\ x + r + y + d = 0
        BY <1>0, <2>1, <2>3
      <4>2. s * (m + n) = x + y
        BY <3>1
      <4> HIDE DEF x, y
      <4> QED BY <1>0, <2>1, <4>1, <4>2
    <3>3. ~(0 <= m + n)
      <4> SUFFICES ASSUME 0 <= m + n PROVE FALSE
        OBVIOUS
      <4>1. 0 <= s * (m + n)
        BY <1>0, <2>1
      <4>2. s * (m + n) \in Int
        BY <1>0, <2>1
      <4> QED BY <3>2, <4>1, <4>2
    <3> QED BY <2>1, <3>3
  <2>5. b = s * (-n) + 0
    BY <1>0, <2>1 DEF b
  <2>6. -n <= MinuteOf(b)
    <3>1. 0 \in 0 .. s - 1 /\ -n \in Int
      BY <1>0, <2>1
    <3>2. s * (-n) + 0 <= s * MinuteOf(b) + (b % s)
      BY <1>0, <2>1, <2>2, <2>5 DEF b
    <3> QED BY <1>0, <2>2, <3>1, <3>2, QuotientUnique
  <2>7. MinuteOf(b) > m
    BY <2>1, <2>2, <2>4, <2>6
  <2> QED BY <2>7 DEF b, d, m
<1> QED BY <1>0, <1>1, <1>2, <1>3, <1>4, <1>5

-----------------------------------------------------------------------------
(***************************************************************************)
(* Steps that change no scheduler.                                         *)
(***************************************************************************)

LEMMA NoThreadState == NoThread \in SchedulerState
<1>1. <<>> \in Seq(Lines)
  BY EmptySeq
<1> QED BY <1>1 DEF NoThread, SchedulerState

LEMMA SameThreads ==
  ASSUME CInv, TypeOK', Counted', thread' = thread, tid' = tid, now <= now',
         Refilling' => Refilling,
         conf_list' = conf_list \/ Refilling
  PROVE  CInv'
<1>1. now \in Nat /\ now' \in Nat /\ tid \in Nat /\ \A n \in Threads : n \in Nat
  BY CronAssumption DEF CInv, TypeOK, Threads
<1> SUFFICES ASSUME NEW n \in Threads
             PROVE  Retired(n)' /\ Listed(n)' /\ Sleeps(n)' /\ Passed(n)'
  BY DEF CInv
<1>2. Retired(n) /\ Listed(n) /\ Sleeps(n) /\ Passed(n)
  BY DEF CInv
<1>3. thread[n] \in SchedulerState
  BY DEF CInv, TypeOK
<1>4. Retired(n)'
  BY <1>2 DEF Retired
<1>5. Listed(n)'
  <2>1. CASE conf_list' = conf_list
    BY <1>2, <2>1 DEF Listed
  <2>2. CASE Refilling
    <3>1. n > tid \/ n < tid \/ n = tid
      BY <1>1
    <3>2. thread[n].cancelled \/ thread[n].place = "none"
      BY <1>2, <2>2, <3>1 DEF Retired, NoThread
    <3> QED BY <3>2 DEF Listed
  <2> QED BY <2>1, <2>2
<1>6. Sleeps(n)'
  <2>1. thread[n].since \in Nat
    BY <1>3 DEF SchedulerState
  <2> QED BY <1>1, <1>2, <2>1 DEF Sleeps, MinuteOf
<1>7. Passed(n)'
  <2>1. thread[n].last \in Int /\ MinuteOf(now) \in Nat /\ MinuteOf(now') \in Nat
    BY <1>1, <1>3, MinuteProperties DEF SchedulerState
  <2>2. MinuteOf(now) <= MinuteOf(now')
    BY <1>1, MinuteProperties
  <2>3. thread[n].last <= MinuteOf(now')
    BY <1>2, <2>1, <2>2 DEF Passed
  <2> QED BY <1>2, <2>3 DEF Passed, MinuteOf
<1> QED BY <1>4, <1>5, <1>6, <1>7

LEMMA ClockAndUserSteps ==
  ASSUME CInv, Tick \/ Edit
  PROVE  CInv'
<1>1. CASE Tick
  <2>1. now' = now + 1 /\ UNCHANGED <<disk, main, conf_list, thread>> /\ now \in Nat
    BY <1>1 DEF Tick, CInv, TypeOK
  <2>2. TypeOK' /\ Counted'
    BY <2>1 DEF CInv, TypeOK, Counted, disk, main
  <2> QED BY <2>1, <2>2, SameThreads DEF main, Refilling
<1>2. CASE Edit
  <2>1. /\ edits < MaxEdits /\ edits' = edits + 1 /\ file' \in MayBecome(file)
        /\ event' = (event \/ watching) /\ missed' = (missed \/ ~watching)
        /\ UNCHANGED <<clock, main, conf_list, thread>>
    BY <1>2 DEF Edit
  <2>2. /\ event \in BOOLEAN /\ file \in Files /\ edits \in 0 .. MaxEdits /\ tid \in Nat /\ now \in Nat
        /\ watching \in BOOLEAN /\ missed \in BOOLEAN
    BY CronAssumption DEF CInv, TypeOK
  <2>3. TypeOK'
    <3>1. file' \in Files /\ edits' \in 0 .. MaxEdits
      BY <2>1, <2>2, CronAssumption
    <3>2. event' \in BOOLEAN /\ missed' \in BOOLEAN
      BY <2>1, <2>2
    <3> QED BY <2>1, <3>1, <3>2 DEF CInv, TypeOK, clock, main
  <2>4. Counted'
    <3>1. AtMost(event') <= AtMost(event) + 1 /\ AtMost(event') \in Nat /\ AtMost(event) \in Nat
      BY <2>1, <2>2 DEF AtMost
    <3>2. AtMost(pc \in {"cancel", "clear", "parse"}) \in Nat
      BY DEF AtMost
    <3>3. tid + AtMost(event) + AtMost(pc \in {"cancel", "clear", "parse"}) <= edits + 1
      BY DEF CInv, Counted
    <3>4. tid' = tid /\ pc' = pc /\ edits' = edits + 1
      BY <2>1 DEF main
    <3>5. tid + AtMost(event') + AtMost(pc \in {"cancel", "clear", "parse"}) <= edits' + 1
      BY <2>2, <3>1, <3>2, <3>3, <3>4
    <3> QED BY <3>4, <3>5 DEF Counted, AtMost
  <2>5. now <= now' /\ tid' = tid /\ pc' = pc /\ conf_list' = conf_list /\ thread' = thread
    BY <2>1, <2>2 DEF clock, main
  <2> QED BY <2>3, <2>4, <2>5, SameThreads DEF Refilling
<1> QED BY <1>1, <1>2

\* The main thread while it reads, watches and listens.
LEMMA ReadingSteps ==
  ASSUME CInv, Clear \/ ReadLine \/ AddWatch \/ ReadEvent
  PROVE  CInv'
<1>0. /\ now \in Nat /\ tid \in Nat /\ edits \in Nat /\ line_no \in Nat /\ event \in BOOLEAN
      /\ file \in Seq(Lines) /\ conf_list \in Seq(Lines)
      /\ tid + AtMost(event) + AtMost(pc \in {"cancel", "clear", "parse"}) <= edits + 1
  BY CronAssumption DEF CInv, TypeOK, Counted
<1>1. CASE Clear
  <2>1. /\ pc = "clear" /\ conf_list' = <<>> /\ line_no' = 0 /\ pc' = "parse"
        /\ UNCHANGED <<clock, disk, tid, watching, raced, thread>>
    BY <1>1 DEF Clear
  <2>2. TypeOK'
    <3>1. conf_list' \in Seq(Lines)
      BY <2>1, EmptySeq
    <3> QED BY <2>1, <3>1 DEF CInv, TypeOK, clock, disk
  <2>3. Counted'
    BY <1>0, <2>1 DEF Counted, AtMost, disk
  <2> QED BY <1>0, <2>1, <2>2, <2>3, SameThreads DEF Refilling, clock
<1>2. CASE ReadLine
  <2>1. /\ pc = "parse" /\ line_no < Len(file) /\ line_no' = line_no + 1
        /\ raced' \in BOOLEAN /\ pc' \in {"parse", "crashed"}
        /\ UNCHANGED <<clock, disk, tid, watching, thread>>
    BY <1>2 DEF ReadLine
  <2>2. conf_list' \in Seq(Lines)
    <3>1. file[line_no + 1] \in Lines
      <4>1. line_no + 1 \in 1 .. Len(file)
        BY <1>0, <2>1, LenProperties
      <4> QED BY <1>0, <4>1, ElementOfSeq
    <3>2. \A mixed \in MixedLines : mixed \in Lines
      BY DEF Lines
    <3>3. \/ conf_list' = conf_list
          \/ conf_list' = Append(conf_list, file[line_no + 1])
          \/ \E mixed \in MixedLines : conf_list' = Append(conf_list, mixed)
      BY <1>2 DEF ReadLine
    <3>4. \A line \in Lines : Append(conf_list, line) \in Seq(Lines)
      BY <1>0, AppendProperties
    <3> QED BY <1>0, <3>1, <3>2, <3>3, <3>4
  <2>3. TypeOK'
    BY <1>0, <2>1, <2>2 DEF CInv, TypeOK, clock, disk
  <2>4. Counted'
    BY <1>0, <2>1 DEF Counted, AtMost, disk
  <2> QED BY <1>0, <2>1, <2>3, <2>4, SameThreads DEF Refilling, clock
<1>3. CASE AddWatch
  <2>1. /\ pc = "watch" /\ watching' = TRUE /\ pc' \in {"listen", "exited"}
        /\ UNCHANGED <<clock, disk, line_no, tid, raced, conf_list, thread>>
    BY <1>3 DEF AddWatch
  <2>2. TypeOK'
    BY <2>1 DEF CInv, TypeOK, clock, disk
  <2>3. Counted'
    BY <1>0, <2>1 DEF Counted, AtMost, disk
  <2> QED BY <1>0, <2>1, <2>2, <2>3, SameThreads DEF Refilling, clock
<1>4. CASE ReadEvent
  <2>1. /\ pc = "listen" /\ event /\ event' = FALSE /\ pc' \in {"cancel", "crashed"}
        /\ UNCHANGED <<clock, file, edits, missed, line_no, tid, watching, raced, conf_list, thread>>
    BY <1>4 DEF ReadEvent
  <2>2. TypeOK'
    BY <2>1 DEF CInv, TypeOK, clock
  <2>3. Counted'
    BY <1>0, <2>1 DEF Counted, AtMost
  <2> QED BY <1>0, <2>1, <2>2, <2>3, SameThreads DEF Refilling, clock
<1> QED BY <1>1, <1>2, <1>3, <1>4

LEMMA RaceStep ==
  ASSUME CInv, NEW n \in Threads, Race(n)
  PROVE  CInv'
<1>1. /\ Refilling /\ pc' = "crashed"
      /\ UNCHANGED <<clock, disk, line_no, tid, watching, raced, conf_list, thread>>
  BY DEF Race, Refilling
<1>2. /\ now \in Nat /\ tid \in Nat /\ edits \in Nat /\ event \in BOOLEAN
      /\ tid + AtMost(event) + AtMost(pc \in {"cancel", "clear", "parse"}) <= edits + 1
  BY CronAssumption DEF CInv, TypeOK, Counted
<1>3. TypeOK'
  BY <1>1 DEF CInv, TypeOK, clock, disk
<1>4. Counted'
  BY <1>1, <1>2 DEF Counted, AtMost, disk
<1> QED BY <1>1, <1>2, <1>3, <1>4, SameThreads DEF clock

-----------------------------------------------------------------------------
(***************************************************************************)
(* The main thread starts and cancels schedulers.                          *)
(***************************************************************************)

LEMMA StartStep ==
  ASSUME CInv, StartScheduler
  PROVE  CInv'
<1>1. /\ pc = "parse" /\ tid' = tid + 1 /\ pc' = "watch"
      /\ thread' = [thread EXCEPT ![tid + 1].place = "new"]
      /\ UNCHANGED <<clock, disk, line_no, watching, raced, conf_list>>
  BY DEF StartScheduler
<1>2. /\ now \in Nat /\ tid \in Nat /\ edits \in 0 .. MaxEdits /\ event \in BOOLEAN /\ MaxEdits \in Nat
      /\ tid + AtMost(event) + AtMost(pc \in {"cancel", "clear", "parse"}) <= edits + 1
      /\ thread \in [Threads -> SchedulerState]
  BY CronAssumption DEF CInv, TypeOK, Counted
<1>3. tid + 1 \in 1 .. MaxEdits + 1 /\ Counted'
  BY <1>1, <1>2 DEF Counted, AtMost, disk
<1>4. tid + 1 \in Threads /\ \A n \in Threads : n \in Nat /\ n >= 1
  BY <1>2, <1>3 DEF Threads
<1>5. thread[tid + 1] = NoThread
  <2>1. Retired(tid + 1) /\ tid + 1 > tid
    BY <1>2, <1>4 DEF CInv
  <2> QED BY <2>1 DEF Retired
<1>6. /\ thread'[tid + 1] = [NoThread EXCEPT !.place = "new"]
      /\ \A n \in Threads \ {tid + 1} : thread'[n] = thread[n]
      /\ [NoThread EXCEPT !.place = "new"] \in SchedulerState
  <2>1. [NoThread EXCEPT !.place = "new"] \in SchedulerState
    BY NoThreadState DEF SchedulerState
  <2> QED BY <1>1, <1>2, <1>4, <1>5, <2>1
<1>7. thread' \in [Threads -> SchedulerState]
  BY <1>1, <1>2, <1>6
<1>8. TypeOK'
  <2>1. tid' \in 0 .. MaxEdits + 1
    BY <1>1, <1>2, <1>3
  <2> QED BY <1>1, <1>7, <2>1 DEF CInv, TypeOK, clock, disk
<1> SUFFICES ASSUME NEW n \in Threads
             PROVE  Retired(n)' /\ Listed(n)' /\ Sleeps(n)' /\ Passed(n)'
  BY <1>3, <1>8 DEF CInv
<1>9. now' = now /\ conf_list' = conf_list /\ ~Refilling'
  BY <1>1 DEF clock, Refilling
<1>10. /\ Retired(n) /\ Listed(n) /\ Sleeps(n) /\ Passed(n) /\ thread[n] \in SchedulerState
       /\ MinuteOf(now) \in Nat
  BY <1>2, MinuteProperties DEF CInv
<1>11. CASE n = tid + 1
  <2>1. /\ thread'[n].place = "new" /\ thread'[n].last = -1 /\ n = tid'
    BY <1>1, <1>6, <1>11 DEF NoThread
  <2>2. Retired(n)'
    BY <1>1, <1>2, <1>9, <1>11 DEF Retired
  <2> QED BY <1>9, <1>10, <2>1, <2>2 DEF Listed, Sleeps, Passed, MinuteOf
<1>12. CASE n # tid + 1
  <2>1. thread'[n] = thread[n]
    BY <1>6, <1>12
  <2>2. n > tid' => n > tid
    BY <1>1, <1>2, <1>4
  <2>3. n < tid' => n < tid \/ n = tid
    BY <1>1, <1>2, <1>4
  <2>4. Refilling
    BY <1>1 DEF Refilling
  <2>5. Retired(n)'
    BY <1>9, <1>10, <2>1, <2>2, <2>3, <2>4 DEF Retired
  <2>6. thread'[n].place \in {"none"} \/ thread'[n].cancelled
    <3>1. n > tid \/ n = tid \/ n < tid
      BY <1>2, <1>4
    <3> QED BY <1>10, <2>1, <2>4, <3>1 DEF Retired, NoThread
  <2>7. Listed(n)'
    BY <1>9, <1>10, <2>1 DEF Listed
  <2>8. Sleeps(n)'
    BY <1>9, <1>10, <2>1, <2>6 DEF Sleeps, MinuteOf
  <2>9. Passed(n)'
    BY <1>9, <1>10, <2>1 DEF Passed, MinuteOf
  <2> QED BY <2>5, <2>7, <2>8, <2>9
<1> QED BY <1>11, <1>12

LEMMA CancelStep ==
  ASSUME CInv, Cancel
  PROVE  CInv'
<1>1. /\ pc = "cancel" /\ pc' = "clear"
      /\ thread' = [thread EXCEPT ![tid].cancelled = TRUE]
      /\ UNCHANGED <<clock, disk, line_no, tid, watching, raced, conf_list>>
  BY DEF Cancel
<1>2. /\ now \in Nat /\ tid \in Nat /\ edits \in Nat /\ event \in BOOLEAN
      /\ tid + AtMost(event) + AtMost(pc \in {"cancel", "clear", "parse"}) <= edits + 1
      /\ thread \in [Threads -> SchedulerState]
  BY CronAssumption DEF CInv, TypeOK, Counted
<1>3. \A n \in Threads :
        /\ thread'[n] = IF n = tid THEN [thread[n] EXCEPT !.cancelled = TRUE] ELSE thread[n]
        /\ thread'[n] \in SchedulerState
  BY <1>1, <1>2 DEF SchedulerState
<1>4. thread' \in [Threads -> SchedulerState]
  BY <1>1, <1>2, <1>3
<1>5. TypeOK' /\ Counted'
  <2>1. TypeOK'
    BY <1>1, <1>4 DEF CInv, TypeOK, clock, disk
  <2>2. Counted'
    BY <1>1, <1>2 DEF Counted, AtMost, disk
  <2> QED BY <2>1, <2>2
<1>6. \A n \in Threads :
        /\ thread'[n].place = thread[n].place /\ thread'[n].since = thread[n].since
        /\ thread'[n].wake = thread[n].wake /\ thread'[n].last = thread[n].last
        /\ thread'[n].line = thread[n].line
        /\ n = tid => thread'[n].cancelled
        /\ n # tid => thread'[n] = thread[n]
  <2> SUFFICES ASSUME NEW n \in Threads
               PROVE  /\ thread'[n].place = thread[n].place /\ thread'[n].since = thread[n].since
                      /\ thread'[n].wake = thread[n].wake /\ thread'[n].last = thread[n].last
                      /\ thread'[n].line = thread[n].line
                      /\ n = tid => thread'[n].cancelled
                      /\ n # tid => thread'[n] = thread[n]
    OBVIOUS
  <2>1. thread[n] \in SchedulerState
    BY <1>2
  <2>2. CASE n = tid
    <3>1. thread'[n] = [thread[n] EXCEPT !.cancelled = TRUE]
      BY <1>3, <2>2
    <3> QED BY <2>1, <2>2, <3>1 DEF SchedulerState
  <2>3. CASE n # tid
    BY <1>3, <2>3
  <2> QED BY <2>2, <2>3
<1>7. now' = now /\ tid' = tid /\ conf_list' = conf_list
  BY <1>1 DEF clock
<1> SUFFICES ASSUME NEW n \in Threads
             PROVE  Retired(n)' /\ Listed(n)' /\ Sleeps(n)' /\ Passed(n)'
  BY <1>5 DEF CInv
<1>8. Retired(n) /\ Listed(n) /\ Sleeps(n) /\ Passed(n) /\ n \in Nat
  BY CronAssumption DEF CInv, Threads
<1>9. Retired(n)'
  <2>1. n > tid => n # tid
    BY <1>2, <1>8
  <2> QED BY <1>3, <1>6, <1>7, <1>8, <2>1 DEF Retired
<1>10. Listed(n)'
  BY <1>6, <1>7, <1>8 DEF Listed
<1>11. Sleeps(n)'
  BY <1>6, <1>7, <1>8 DEF Sleeps, MinuteOf
<1>12. Passed(n)'
  BY <1>6, <1>7, <1>8 DEF Passed, MinuteOf
<1> QED BY <1>9, <1>10, <1>11, <1>12

-----------------------------------------------------------------------------
(***************************************************************************)
(* A scheduler.                                                            *)
(***************************************************************************)

\* One that is not cancelled is the last that was started, and reads a whole list.
LEMMA AliveIsLast ==
  ASSUME CInv, NEW n \in Threads, thread[n].place # "none", ~thread[n].cancelled
  PROVE  n = tid /\ ~Refilling
<1>1. n \in Nat /\ tid \in Nat /\ Retired(n)
  BY CronAssumption DEF CInv, TypeOK, Threads
<1>2. ~(n > tid)
  BY <1>1 DEF Retired, NoThread
<1> QED BY <1>1, <1>2 DEF Retired

LEMMA OneThread ==
  ASSUME CInv, UNCHANGED Others, NEW n \in Threads, NEW new \in SchedulerState,
         thread' = [thread EXCEPT ![n] = new],
         thread[n].place # "none", new.place \notin {"none", "new"},
         thread[n].cancelled => new.cancelled,
         new.place = "run" /\ ~new.cancelled => ToSet(new.line) \subseteq ToSet(conf_list),
         new.last = thread[n].last \/ (~thread[n].cancelled /\ new.last = MinuteOf(now)),
         new.place = "sleep" =>
           /\ new.since = now
           /\ \/ new.wake = now + SecondsPerMinute
              \/ new.wake = now + ((-now) % SecondsPerMinute) /\ new.last = -1
  PROVE  CInv'
<1>1. UNCHANGED <<now, file, edits, event, missed, pc, line_no, tid, watching, raced, conf_list>>
  BY DEF Others, clock, disk, main
<1>2. /\ thread'[n] = new /\ thread' \in [Threads -> SchedulerState]
      /\ \A m \in Threads \ {n} : thread'[m] = thread[m]
  BY DEF CInv, TypeOK
<1>3. TypeOK' /\ Counted'
  BY <1>1, <1>2 DEF CInv, TypeOK, Counted, AtMost
<1>4. /\ now \in Nat /\ tid \in Nat /\ \A m \in Threads : m \in Nat /\ thread[m] \in SchedulerState
      /\ \A m \in Threads : Retired(m) /\ Listed(m) /\ Sleeps(m) /\ Passed(m)
      /\ MinuteOf(now) \in Nat
  <2>1. now \in Nat /\ tid \in Nat /\ \A m \in Threads : m \in Nat /\ thread[m] \in SchedulerState
    BY CronAssumption DEF CInv, TypeOK, Threads
  <2>2. MinuteOf(now) \in Nat
    BY <2>1, MinuteProperties
  <2> QED BY <2>1, <2>2 DEF CInv
<1>5. new.last \in Int /\ thread[n].last \in Int /\ new.last <= MinuteOf(now)
  <2>1. new.last \in Int /\ thread[n].last \in Int
    BY <1>4 DEF SchedulerState
  <2>2. thread[n].last <= MinuteOf(now)
    BY <1>4 DEF Passed
  <2> QED BY <1>4, <2>1, <2>2
<1> SUFFICES ASSUME NEW m \in Threads
             PROVE  Retired(m)' /\ Listed(m)' /\ Sleeps(m)' /\ Passed(m)'
  BY <1>3 DEF CInv
<1>6. CASE m = n
  <2>1. Retired(n)'
    <3>1. ~(n > tid)
      BY <1>4 DEF Retired, NoThread
    <3> QED BY <1>1, <1>2, <1>4, <3>1 DEF Retired, Refilling
  <2>2. Listed(n)'
    BY <1>1, <1>2 DEF Listed
  <2>3. Sleeps(n)'
    <3> SUFFICES ASSUME new.place = "sleep"
                 PROVE  /\ new.since <= now
                        /\ \/ /\ new.wake = new.since + SecondsPerMinute
                              /\ new.last <= MinuteOf(new.since)
                           \/ /\ new.wake = new.since + ((-new.since) % SecondsPerMinute)
                              /\ new.last = -1
                        /\ \A k \in Threads \ {n} : thread[k].last <= MinuteOf(new.since)
      BY <1>1, <1>2 DEF Sleeps, MinuteOf
    <3>1. new.since = now
      OBVIOUS
    <3>2. \A k \in Threads \ {n} : thread[k].last <= MinuteOf(now)
      BY <1>4 DEF Passed
    <3> QED BY <1>4, <1>5, <3>1, <3>2
  <2>4. Passed(n)'
    BY <1>1, <1>2, <1>5 DEF Passed, MinuteOf
  <2> QED BY <1>6, <2>1, <2>2, <2>3, <2>4
<1>7. CASE m # n
  <2>1. thread'[m] = thread[m]
    BY <1>2, <1>7
  <2>2. Retired(m)' /\ Listed(m)' /\ Passed(m)'
    BY <1>1, <1>4, <2>1 DEF Retired, Listed, Passed, Refilling, MinuteOf
  <2>3. Sleeps(m)'
    <3> SUFFICES ASSUME thread[m].place = "sleep", ~thread[m].cancelled,
                        NEW k \in Threads \ {m}
                 PROVE  thread'[k].last <= MinuteOf(thread[m].since)
      BY <1>1, <1>4, <2>1 DEF Sleeps, MinuteOf
    <3>1. thread[k].last <= MinuteOf(thread[m].since)
      BY <1>4 DEF Sleeps
    <3>2. thread[n].cancelled
      BY <1>7, AliveIsLast
    <3>3. thread'[k].last = thread[k].last
      BY <1>2, <3>2
    <3> QED BY <3>1, <3>3
  <2> QED BY <2>2, <2>3
<1> QED BY <1>6, <1>7

\* What the steps of a scheduler make of its state.
LEMMA ToPass ==
  ASSUME NEW t \in SchedulerState, NEW minute \in Int
  PROVE  LET u == [t EXCEPT !.place = "pass", !.wake = 0, !.last = minute]
         IN  /\ u \in SchedulerState /\ u.last = minute /\ (t.cancelled => u.cancelled)
             /\ u.place = "pass"
BY DEF SchedulerState

LEMMA AfterRun ==
  ASSUME NEW t \in SchedulerState
  PROVE  LET u == [t EXCEPT !.place = "pass", !.i = @ + 1, !.line = <<>>]
         IN  /\ u \in SchedulerState /\ u.last = t.last /\ (t.cancelled => u.cancelled)
             /\ u.place = "pass"
<1>1. <<>> \in Seq(Lines) /\ t.i + 1 \in Nat \ {0}
  BY EmptySeq DEF SchedulerState
<1>2. \A next \in Nat \ {0}, none \in Seq(Lines) :
        LET u == [t EXCEPT !.place = "pass", !.i = next, !.line = none]
        IN  /\ u \in SchedulerState /\ u.last = t.last /\ (t.cancelled => u.cancelled)
            /\ u.place = "pass"
  BY DEF SchedulerState
<1> QED BY <1>1, <1>2

LEMMA ToNextLine ==
  ASSUME NEW t \in SchedulerState
  PROVE  LET u == [t EXCEPT !.i = @ + 1]
         IN  /\ u \in SchedulerState /\ u.last = t.last /\ (t.cancelled => u.cancelled)
             /\ u.place = t.place
BY DEF SchedulerState

LEMMA ToStuck ==
  ASSUME NEW t \in SchedulerState
  PROVE  LET u == [t EXCEPT !.place = "stuck"]
         IN  /\ u \in SchedulerState /\ u.last = t.last /\ (t.cancelled => u.cancelled)
             /\ u.place = "stuck"
BY DEF SchedulerState

LEMMA ToRun ==
  ASSUME NEW t \in SchedulerState, NEW found \in Seq(Lines)
  PROVE  LET u == [t EXCEPT !.place = "run", !.line = found]
         IN  /\ u \in SchedulerState /\ u.last = t.last /\ (t.cancelled => u.cancelled)
             /\ u.place = "run" /\ u.line = found
BY DEF SchedulerState

LEMMA SchedulerStep ==
  ASSUME CInv, NEW n \in Threads, Scheduler(n)
  PROVE  CInv'
<1>1. /\ thread \in [Threads -> SchedulerState] /\ thread[n] \in SchedulerState
      /\ now \in Nat /\ conf_list \in Seq(Lines) /\ SecondsPerMinute \in Nat
      /\ MinuteOf(now) \in Nat /\ (-now) % SecondsPerMinute \in Nat
      /\ thread[n].place = "new" => thread[n].last = -1
  BY CronAssumption, MinuteProperties DEF CInv, TypeOK, Passed
<1>2. CASE BeginSleep(n)
  <2> DEFINE new == [thread[n] EXCEPT !.place = "sleep", !.since = now, !.wake = now + Delay]
  <2>1. /\ ~thread[n].cancelled /\ thread[n].place = "new" /\ UNCHANGED Others
        /\ thread' = [thread EXCEPT ![n] = new]
    BY <1>1, <1>2 DEF BeginSleep, Alive
  <2>2. /\ new \in SchedulerState /\ new.place = "sleep" /\ new.since = now
        /\ new.wake = now + ((-now) % SecondsPerMinute) /\ new.last = -1
        /\ thread[n].last = -1
    <3> DEFINE until == now + Delay
               t == thread[n]
    <3>1. until \in Nat /\ until = now + ((-now) % SecondsPerMinute)
      BY <1>1 DEF Delay
    <3>2. new = [t EXCEPT !.place = "sleep", !.since = now, !.wake = until]
      OBVIOUS
    <3>3. t \in SchedulerState /\ now \in Nat /\ t.last = -1
      BY <1>1, <2>1
    <3> HIDE DEF until, t, new
    <3>4. LET u == [t EXCEPT !.place = "sleep", !.since = now, !.wake = until]
          IN  /\ u \in SchedulerState /\ u.last = t.last
              /\ u.place = "sleep" /\ u.since = now /\ u.wake = until
      BY <3>1, <3>3 DEF SchedulerState
    <3>5. /\ new \in SchedulerState /\ new.last = t.last
          /\ new.place = "sleep" /\ new.since = now /\ new.wake = until
      BY <3>2, <3>4
    <3> QED BY <3>1, <3>3, <3>5 DEF t
  <2> HIDE DEF new
  <2> QED BY <2>1, <2>2, OneThread
<1>3. CASE BeginPass(n)
  <2> DEFINE new == [thread[n] EXCEPT !.place = "pass", !.wake = 0, !.last = MinuteOf(now)]
  <2>1. /\ ~thread[n].cancelled /\ thread[n].place = "sleep" /\ UNCHANGED Others
        /\ thread' = [thread EXCEPT ![n] = new]
    BY <1>1, <1>3 DEF BeginPass, Alive
  <2>2. /\ new \in SchedulerState /\ new.place = "pass" /\ new.last = MinuteOf(now)
    <3> DEFINE minute == MinuteOf(now)
               t == thread[n]
    <3>1. minute \in Int /\ t \in SchedulerState
      BY <1>1
    <3>2. new = [t EXCEPT !.place = "pass", !.wake = 0, !.last = minute]
      OBVIOUS
    <3> HIDE DEF minute, t, new
    <3>3. new \in SchedulerState /\ new.place = "pass" /\ new.last = minute
      BY <3>1, <3>2, ToPass
    <3> QED BY <3>3 DEF minute
  <2> HIDE DEF new
  <2> QED BY <2>1, <2>2, OneThread
<1>4. CASE RunCommand(n)
  <2> DEFINE new == [thread[n] EXCEPT !.place = "pass", !.i = @ + 1, !.line = <<>>]
  <2>1. thread[n].place = "run" /\ UNCHANGED Others /\ thread' = [thread EXCEPT ![n] = new]
    BY <1>1, <1>4 DEF RunCommand
  <2>2. /\ new \in SchedulerState /\ new.place = "pass" /\ new.last = thread[n].last
        /\ thread[n].cancelled => new.cancelled
    BY <1>1, <2>1, AfterRun
  <2> HIDE DEF new
  <2> QED BY <2>1, <2>2, OneThread
<1>5. CASE EndPass(n)
  <2> DEFINE new == [thread[n] EXCEPT !.place = "sleep", !.i = 1, !.since = now,
                                      !.wake = now + SecondsPerMinute]
  <2>1. thread[n].place = "pass" /\ UNCHANGED Others /\ thread' = [thread EXCEPT ![n] = new]
    BY <1>1, <1>5 DEF EndPass
  <2>2. /\ new \in SchedulerState /\ new.place = "sleep" /\ new.last = thread[n].last
        /\ new.since = now /\ new.wake = now + SecondsPerMinute
        /\ thread[n].cancelled => new.cancelled
    <3> DEFINE until == now + SecondsPerMinute
               t == thread[n]
    <3>1. until \in Nat /\ t \in SchedulerState /\ now \in Nat
      BY <1>1
    <3>2. new = [t EXCEPT !.place = "sleep", !.i = 1, !.since = now, !.wake = until]
      OBVIOUS
    <3> HIDE DEF until, t, new
    <3>3. /\ new \in SchedulerState /\ new.last = t.last /\ (t.cancelled => new.cancelled)
          /\ new.place = "sleep" /\ new.since = now /\ new.wake = until
      <4>1. LET u == [t EXCEPT !.place = "sleep", !.i = 1, !.since = now, !.wake = until]
            IN  /\ u \in SchedulerState /\ u.last = t.last /\ (t.cancelled => u.cancelled)
                /\ u.place = "sleep" /\ u.since = now /\ u.wake = until
        <5>1. \A one \in Nat \ {0} :
                LET u == [t EXCEPT !.place = "sleep", !.i = one, !.since = now, !.wake = until]
                IN  /\ u \in SchedulerState /\ u.last = t.last /\ (t.cancelled => u.cancelled)
                    /\ u.place = "sleep" /\ u.since = now /\ u.wake = until
          BY <3>1 DEF SchedulerState
        <5>2. 1 \in Nat \ {0}
          OBVIOUS
        <5> QED BY <5>1, <5>2
      <4> QED BY <3>2, <4>1
    <3> QED BY <3>3 DEF until, t
  <2> HIDE DEF new
  <2> QED BY <2>1, <2>2, OneThread
<1>6. ASSUME thread' = Ended(n), UNCHANGED Others, thread[n].place # "none"
      PROVE  CInv'
  <2> DEFINE new == [NoThread EXCEPT !.place = "ended", !.last = thread[n].last, !.cancelled = TRUE]
  <2>1. thread' = [thread EXCEPT ![n] = new]
    BY <1>6 DEF Ended
  <2>2. new \in SchedulerState /\ new.place = "ended" /\ new.last = thread[n].last /\ new.cancelled
    BY <1>1, NoThreadState DEF SchedulerState
  <2> HIDE DEF new
  <2> QED BY <1>6, <2>1, <2>2, OneThread
<1>7. CASE Die(n)
  BY <1>6, <1>7 DEF Die
<1>8. CASE CheckLine(n)
  <2> DEFINE line == conf_list[thread[n].i]
  <2>1. /\ thread[n].place = "pass" /\ UNCHANGED Others /\ thread[n].i \in 1 .. Len(conf_list)
        /\ \/ thread' = [thread EXCEPT ![n].i = @ + 1]
           \/ thread' = [thread EXCEPT ![n].place = "stuck"]
           \/ thread' = Ended(n)
           \/ /\ ~thread[n].cancelled
              /\ thread' = [thread EXCEPT ![n].place = "run", ![n].line = <<line>>]
    <3>1. thread[n].i \in Nat \ {0} /\ Len(conf_list) \in Nat
      BY <1>1, LenProperties DEF SchedulerState
    <3> HIDE DEF line
    <3>2. \E result :
            thread' = CASE result = "no"    -> [thread EXCEPT ![n].i = @ + 1]
                        [] result = "loops" -> [thread EXCEPT ![n].place = "stuck"]
                        [] OTHER            -> IF thread[n].cancelled THEN Ended(n)
                                               ELSE [thread EXCEPT ![n].place = "run",
                                                                   ![n].line = <<line>>]
      BY <1>8 DEF CheckLine, line
    <3>3. PICK result :
            thread' = CASE result = "no"    -> [thread EXCEPT ![n].i = @ + 1]
                        [] result = "loops" -> [thread EXCEPT ![n].place = "stuck"]
                        [] OTHER            -> IF thread[n].cancelled THEN Ended(n)
                                               ELSE [thread EXCEPT ![n].place = "run",
                                                                   ![n].line = <<line>>]
      BY <3>2
    <3>4. \/ thread' = [thread EXCEPT ![n].i = @ + 1]
          \/ thread' = [thread EXCEPT ![n].place = "stuck"]
          \/ thread' = Ended(n)
          \/ /\ ~thread[n].cancelled
             /\ thread' = [thread EXCEPT ![n].place = "run", ![n].line = <<line>>]
      <4>1. CASE result = "no"
        BY <3>3, <4>1
      <4>2. CASE result = "loops"
        BY <3>3, <4>2
      <4>3. CASE result # "no" /\ result # "loops" /\ thread[n].cancelled
        BY <3>3, <4>3
      <4>4. CASE result # "no" /\ result # "loops" /\ ~thread[n].cancelled
        BY <3>3, <4>4
      <4> QED BY <4>1, <4>2, <4>3, <4>4
    <3>5. thread[n].place = "pass" /\ UNCHANGED Others /\ thread[n].i <= Len(conf_list)
      BY <1>8 DEF CheckLine
    <3> QED BY <3>1, <3>4, <3>5
  <2>2. line \in Lines /\ ToSet(<<line>>) \subseteq ToSet(conf_list)
    <3>1. line \in Lines
      BY <1>1, <2>1, ElementOfSeq
    <3>2. line \in ToSet(conf_list)
      BY <1>1, <2>1, LenProperties DEF ToSet
    <3> QED BY <3>1, <3>2 DEF ToSet
  <2> HIDE DEF line
  <2>3. CASE thread' = [thread EXCEPT ![n].i = @ + 1]
    <3> DEFINE new == [thread[n] EXCEPT !.i = @ + 1]
    <3>1. /\ thread' = [thread EXCEPT ![n] = new] /\ new \in SchedulerState /\ new.place = "pass"
          /\ new.last = thread[n].last /\ (thread[n].cancelled => new.cancelled)
      BY <1>1, <2>1, <2>3, ToNextLine
    <3> HIDE DEF new
    <3> QED BY <2>1, <3>1, OneThread
  <2>4. CASE thread' = [thread EXCEPT ![n].place = "stuck"]
    <3> DEFINE new == [thread[n] EXCEPT !.place = "stuck"]
    <3>1. /\ thread' = [thread EXCEPT ![n] = new] /\ new \in SchedulerState /\ new.place = "stuck"
          /\ new.last = thread[n].last /\ (thread[n].cancelled => new.cancelled)
      BY <1>1, <2>1, <2>4, ToStuck
    <3> HIDE DEF new
    <3> QED BY <2>1, <3>1, OneThread
  <2>5. CASE thread' = Ended(n)
    BY <1>6, <2>1, <2>5
  <2>6. CASE /\ ~thread[n].cancelled
             /\ thread' = [thread EXCEPT ![n].place = "run", ![n].line = <<line>>]
    <3> DEFINE new == [thread[n] EXCEPT !.place = "run", !.line = <<line>>]
    <3>1. <<line>> \in Seq(Lines)
      BY <2>2
    <3>2. /\ thread' = [thread EXCEPT ![n] = new] /\ new \in SchedulerState /\ new.place = "run"
          /\ new.last = thread[n].last /\ new.line = <<line>>
      BY <1>1, <2>1, <2>6, <3>1, ToRun
    <3> HIDE DEF new
    <3> QED BY <2>1, <2>2, <2>6, <3>2, OneThread
  <2> QED BY <2>1, <2>3, <2>4, <2>5, <2>6
<1>9. CASE Race(n)
  BY <1>9, RaceStep
<1> QED BY <1>2, <1>3, <1>4, <1>5, <1>7, <1>8, <1>9 DEF Scheduler

-----------------------------------------------------------------------------
(***************************************************************************)
(* The theorems.                                                           *)
(***************************************************************************)

\* The main thread, the schedulers, the clock and the user keep the daemon consistent
\* (processCronFile, fileChangeListener and runCurrentCommandsCopy in cron.cpp).
THEOREM CronInvariant == Spec => []CInv
<1>1. Init => CInv
  <2> SUFFICES ASSUME Init PROVE CInv
    OBVIOUS
  <2>1. now \in Nat
    BY CronAssumption DEF Init
  <2>2. TypeOK
    <3>1. conf_list \in Seq(Lines) /\ thread \in [Threads -> SchedulerState]
      BY EmptySeq, NoThreadState DEF Init
    <3>2. edits \in 0 .. MaxEdits /\ tid \in 0 .. MaxEdits + 1 /\ line_no \in Nat
      BY CronAssumption DEF Init
    <3> QED BY <2>1, <3>1, <3>2 DEF Init, TypeOK
  <2>3. Counted
    BY DEF Init, Counted, AtMost
  <2>4. ASSUME NEW n \in Threads PROVE Retired(n) /\ Listed(n) /\ Sleeps(n) /\ Passed(n)
    <3>1. n \in Nat /\ n >= 1 /\ thread[n] = NoThread /\ tid = 0
      BY CronAssumption DEF Init, Threads
    <3>2. MinuteOf(now) \in Nat
      BY <2>1, MinuteProperties
    <3> QED BY <3>1, <3>2 DEF Retired, Listed, Sleeps, Passed, NoThread
  <2> QED BY <2>2, <2>3, <2>4 DEF CInv
<1>2. CInv /\ [Next]_vars => CInv'
  <2> SUFFICES ASSUME CInv, [Next]_vars PROVE CInv'
    OBVIOUS
  <2>1. CASE UNCHANGED vars
    <3>1. TypeOK' /\ Counted'
      BY <2>1 DEF CInv, TypeOK, Counted, AtMost, vars, clock, disk, main
    <3>2. now <= now'
      BY <2>1 DEF CInv, TypeOK, vars, clock
    <3> QED BY <2>1, <3>1, <3>2, SameThreads DEF vars, main, Refilling
  <2> QED BY <2>1, ClockAndUserSteps, ReadingSteps, StartStep, CancelStep, SchedulerStep
        DEF Next, Main
<1> QED BY <1>1, <1>2, PTL DEF Spec

\* The threads, the list, the flags and the clock keep their types whatever main, its
\* readers and the scheduler threads interleave (cron.cpp, main and find_jobs).
THEOREM CronTypeCorrect == Spec => []TypeOK
<1>1. CInv => TypeOK
  BY DEF CInv
<1> QED BY <1>1, CronInvariant, PTL

\* At most one scheduler is not cancelled, however the modifications of the file and the
\* cancellations interleave: pthread_cancel (cron.cpp:811) comes before the next start.
THEOREM OnlyOneScheduler == Spec => []OneScheduler
<1>1. CInv => OneScheduler
  <2> SUFFICES ASSUME CInv, NEW m \in Threads, NEW n \in Threads,
                      thread[m].place # "none", ~thread[m].cancelled,
                      thread[n].place # "none", ~thread[n].cancelled
               PROVE  m = n
    BY DEF OneScheduler
  <2> QED BY AliveIsLast
<1> QED BY <1>1, CronInvariant, PTL

\* A command is started by the last scheduler only (cron.cpp:710 and 718 print before
\* system()): one that was cancelled starts none, though it may still go through the list.
THEOREM CancelledStartNothing == Spec => OnlyLastStarts
<1>1. ASSUME CInv, Next, NEW n \in Threads, thread[n].place # "run", thread'[n].place = "run"
      PROVE  n = tid
  <2>1. thread \in [Threads -> SchedulerState] /\ thread' # thread
    BY <1>1 DEF CInv, TypeOK
  <2>2. CASE Tick \/ Edit \/ Main
    <3>1. CASE StartScheduler
      BY <1>1, <2>1, <3>1 DEF StartScheduler
    <3>2. CASE Cancel
      BY <1>1, <2>1, <3>2 DEF Cancel
    <3>3. CASE ~StartScheduler /\ ~Cancel
      BY <2>1, <2>2, <3>3 DEF Tick, Edit, Main, Clear, ReadLine, AddWatch, ReadEvent
    <3> QED BY <3>1, <3>2, <3>3
  <2>3. ASSUME NEW m \in Threads, Scheduler(m) PROVE n = tid
    <3>1. CASE m # n
      <4>1. thread'[n] = thread[n]
        BY <2>1, <2>3, <3>1 DEF Scheduler, BeginSleep, BeginPass, CheckLine, Race, RunCommand,
           EndPass, Die, Ended
      <4> QED BY <1>1, <4>1
    <3>2. CASE m = n /\ thread[n].place = "pass" /\ ~thread[n].cancelled
      BY <1>1, <3>2, AliveIsLast
    <3>3. CASE m = n /\ ~(thread[n].place = "pass" /\ ~thread[n].cancelled)
      <4>1. Ended(n)[n].place = "ended"
        BY <2>1 DEF Ended, NoThread
      <4>2. CASE CheckLine(n)
        <5>1. PICK result :
                thread' = CASE result = "no"    -> [thread EXCEPT ![n].i = @ + 1]
                            [] result = "loops" -> [thread EXCEPT ![n].place = "stuck"]
                            [] OTHER            -> Ended(n)
          BY <3>3, <4>2 DEF CheckLine
        <5>2. CASE result = "no"
          BY <1>1, <2>1, <5>1, <5>2
        <5>3. CASE result = "loops"
          BY <1>1, <2>1, <5>1, <5>3
        <5>4. CASE result # "no" /\ result # "loops"
          BY <1>1, <4>1, <5>1, <5>4
        <5> QED BY <5>2, <5>3, <5>4
      <4>3. CASE Die(n)
        BY <1>1, <4>1, <4>3 DEF Die
      <4>4. CASE BeginSleep(n)
        BY <1>1, <2>1, <4>4 DEF BeginSleep
      <4>5. CASE BeginPass(n)
        BY <1>1, <2>1, <4>5 DEF BeginPass
      <4>6. CASE Race(n) \/ RunCommand(n)
        BY <1>1, <2>1, <4>6 DEF Race, RunCommand
      <4>7. CASE EndPass(n)
        BY <1>1, <2>1, <4>7 DEF EndPass
      <4> QED BY <2>3, <3>3, <4>2, <4>3, <4>4, <4>5, <4>6, <4>7 DEF Scheduler
    <3> QED BY <3>1, <3>2, <3>3
  <2> QED BY <1>1, <2>2, <2>3 DEF Next
<1>2. CInv /\ [Next]_vars =>
        [\A n \in Threads : thread[n].place # "run" /\ thread'[n].place = "run" => n = tid]_vars
  BY <1>1
<1> QED BY <1>2, CronInvariant, PTL DEF Spec, OnlyLastStarts

\* A scheduler that is not cancelled reads a list that is whole, and what it starts is in
\* it: it is cancelled before parseCronFile clears the list (cron.cpp:415).
THEOREM ListIsWhole == Spec => []WholeList
<1>1. CInv => WholeList
  <2> SUFFICES ASSUME CInv, NEW n \in Threads, Alive(n), thread[n].place \in {"pass", "run"}
               PROVE  /\ pc \in {"watch", "listen", "cancel"}
                      /\ thread[n].place = "run" => ToSet(thread[n].line) \subseteq ToSet(conf_list)
    BY DEF WholeList
  <2>1. ~thread[n].cancelled /\ pc \notin {"crashed", "exited"} /\ ~Refilling
    BY AliveIsLast DEF Alive, Up
  <2>2. Listed(n) /\ TypeOK
    BY DEF CInv
  <2> QED BY <2>1, <2>2 DEF Listed, TypeOK, Refilling
<1> QED BY <1>1, CronInvariant, PTL

\* A scheduler begins a pass by one step only.
LEMMA PassBegins ==
  ASSUME CInv, Next, NEW n \in Threads, thread[n].place = "sleep", thread'[n].place = "pass"
  PROVE  BeginPass(n)
<1>1. thread \in [Threads -> SchedulerState]
  BY DEF CInv, TypeOK
<1>2. thread' # thread
  OBVIOUS
<1>3. ~(Tick \/ Edit)
  BY <1>2 DEF Tick, Edit
<1>4. ~(Clear \/ ReadLine \/ AddWatch \/ ReadEvent)
  BY <1>2 DEF Clear, ReadLine, AddWatch, ReadEvent
<1>5. ~StartScheduler
  <2> SUFFICES ASSUME thread' = [thread EXCEPT ![tid + 1].place = "new"] PROVE FALSE
    BY DEF StartScheduler
  <2>1. CASE n = tid + 1
    BY <1>1, <2>1 DEF SchedulerState
  <2>2. CASE n # tid + 1
    BY <1>1, <2>2
  <2> QED BY <2>1, <2>2
<1>6. ~Cancel
  <2> SUFFICES ASSUME thread' = [thread EXCEPT ![tid].cancelled = TRUE] PROVE FALSE
    BY DEF Cancel
  <2>1. CASE n = tid
    BY <1>1, <2>1 DEF SchedulerState
  <2>2. CASE n # tid
    BY <1>1, <2>2
  <2> QED BY <2>1, <2>2
<1>7. ASSUME NEW m \in Threads, Scheduler(m)
      PROVE  BeginPass(n)
  <2>1. ASSUME m # n, NEW new, thread' = [thread EXCEPT ![m] = new]
        PROVE  FALSE
    BY <1>1, <2>1
  <2>2. CASE Race(m)
    BY <1>2, <2>2 DEF Race
  <2>3. CASE BeginSleep(m)
    <3>1. \E new : thread' = [thread EXCEPT ![m] = new]
      BY <2>3 DEF BeginSleep
    <3>2. thread[m].place = "new"
      BY <2>3 DEF BeginSleep
    <3> QED BY <2>1, <3>1, <3>2
  <2>4. CASE CheckLine(m)
    <3>1. thread[m].place = "pass"
      BY <2>4 DEF CheckLine
    <3>2. \E new : thread' = [thread EXCEPT ![m] = new]
      <4> DEFINE line == conf_list[thread[m].i]
      <4> HIDE DEF line
      <4>1. PICK result :
              thread' = CASE result = "no"    -> [thread EXCEPT ![m].i = @ + 1]
                          [] result = "loops" -> [thread EXCEPT ![m].place = "stuck"]
                          [] OTHER            -> IF thread[m].cancelled THEN Ended(m)
                                                 ELSE [thread EXCEPT ![m].place = "run",
                                                                     ![m].line = <<line>>]
        BY <2>4 DEF CheckLine, line
      <4>2. CASE result = "no"
        BY <4>1, <4>2
      <4>3. CASE result = "loops"
        BY <4>1, <4>3
      <4>4. CASE result # "no" /\ result # "loops" /\ thread[m].cancelled
        BY <4>1, <4>4 DEF Ended
      <4>5. CASE result # "no" /\ result # "loops" /\ ~thread[m].cancelled
        BY <1>1, <4>1, <4>5
      <4> QED BY <4>2, <4>3, <4>4, <4>5
    <3> QED BY <2>1, <3>1, <3>2
  <2>5. CASE RunCommand(m)
    <3>1. thread[m].place = "run" /\ \E new : thread' = [thread EXCEPT ![m] = new]
      BY <1>1, <2>5 DEF RunCommand
    <3> QED BY <2>1, <3>1
  <2>6. CASE EndPass(m)
    <3>1. thread[m].place = "pass" /\ \E new : thread' = [thread EXCEPT ![m] = new]
      BY <1>1, <2>6 DEF EndPass
    <3> QED BY <2>1, <3>1
  <2>7. CASE Die(m)
    <3> DEFINE new == [NoThread EXCEPT !.place = "ended", !.last = thread[m].last, !.cancelled = TRUE]
    <3>1. thread' = [thread EXCEPT ![m] = new]
      BY <2>7 DEF Die, Ended
    <3>2. m = n => thread'[n].place = "ended"
      BY <1>1, <3>1 DEF NoThread
    <3> HIDE DEF new
    <3> QED BY <2>1, <3>1, <3>2
  <2>8. CASE BeginPass(m)
    <3>1. \E new : thread' = [thread EXCEPT ![m] = new]
      BY <1>1, <2>8 DEF BeginPass
    <3> QED BY <2>1, <2>8, <3>1
  <2> QED BY <1>7, <2>2, <2>3, <2>4, <2>5, <2>6, <2>7, <2>8 DEF Scheduler
<1> QED BY <1>3, <1>4, <1>5, <1>6, <1>7 DEF Next, Main

\* Between two passes a minute goes by, also when the second is of another scheduler
\* (getDelayForTheStartOfVeryNextMin and the sleep of 60 seconds at cron.cpp:780).
THEOREM MinutesDiffer == Spec => OncePerMinute
<1>1. ASSUME CInv, Next, NEW n \in Threads,
             thread[n].place = "sleep", thread'[n].place = "pass", NEW m \in Threads
      PROVE  \/ thread[m].last < thread'[n].last
             \/ m # n /\ thread[n].since % SecondsPerMinute = 0
  <2> DEFINE since == thread[n].since
             wake == thread[n].wake
             late == thread[m].last
  <2>1. BeginPass(n)
    BY <1>1, PassBegins
  <2>2. /\ ~thread[n].cancelled /\ now >= wake /\ thread'[n].last = MinuteOf(now)
    BY <1>1, <2>1 DEF BeginPass, Alive, CInv, TypeOK, SchedulerState
  <2>3. /\ since \in Nat /\ wake \in Nat /\ late \in Int /\ now \in Nat /\ SecondsPerMinute \in Nat
        /\ thread[n].last \in Int
    BY <1>1, CronAssumption DEF CInv, TypeOK, SchedulerState
  <2>4. /\ \/ wake = since + SecondsPerMinute /\ thread[n].last <= MinuteOf(since)
           \/ wake = since + ((-since) % SecondsPerMinute) /\ thread[n].last = -1
        /\ m # n => late <= MinuteOf(since)
    BY <1>1, <2>2 DEF CInv, Sleeps
  <2> HIDE DEF since, wake
  <2>5. MinuteOf(since) \in Nat /\ MinuteOf(wake) \in Nat /\ MinuteOf(now) \in Nat
    BY <2>3, MinuteProperties
  <2>6. MinuteOf(wake) <= MinuteOf(now)
    BY <2>2, <2>3, MinuteProperties
  <2>7. wake = since + SecondsPerMinute => MinuteOf(wake) = MinuteOf(since) + 1
    BY <2>3, MinuteProperties
  <2>8. wake = since + ((-since) % SecondsPerMinute) /\ since % SecondsPerMinute # 0 =>
          MinuteOf(wake) > MinuteOf(since)
    BY <2>3, MinuteProperties
  <2>9. CASE m = n
    BY <2>2, <2>3, <2>4, <2>5, <2>6, <2>7, <2>9
  <2>10. CASE m # n
    BY <2>2, <2>3, <2>4, <2>5, <2>6, <2>7, <2>8, <2>10 DEF since
  <2> QED BY <2>9, <2>10
<1> DEFINE Later ==
      \A n \in Threads : thread[n].place = "sleep" /\ thread'[n].place = "pass" =>
        \A m \in Threads : \/ thread[m].last < thread'[n].last
                           \/ m # n /\ thread[n].since % SecondsPerMinute = 0
<1>2. CInv /\ [Next]_vars => [Later]_vars
  BY <1>1
<1> QED BY <1>2, CronInvariant, PTL DEF Spec, OncePerMinute

-----------------------------------------------------------------------------
(***************************************************************************)
(* The matching of fields: what the code answers for a token, a field and  *)
(* a line that it has found valid is what they mean.                       *)
(***************************************************************************)

\* The multiples of a step are those that leave no remainder.
LEMMA Multiples ==
  ASSUME NEW d \in Nat, NEW s \in Nat \ {0}, NEW b \in Nat, d <= b
  PROVE  d % s = 0 <=> \E k \in 0 .. b : d = k * s
<1> DEFINE q == d \div s
           r == d % s
<1>1. q \in Int /\ r \in 0 .. s - 1 /\ d = s * q + r
  BY Division
<1> HIDE DEF q, r
<1>2. ASSUME r = 0 PROVE \E k \in 0 .. b : d = k * s
  <2>1. d = q * s
    BY <1>1, <1>2
  <2>2. 0 <= q
    <3> SUFFICES ASSUME q <= -1 PROVE FALSE
      BY <1>1
    <3>1. q * s <= (-1) * s
      BY <1>1
    <3> QED BY <2>1, <3>1
  <2>3. q <= q * s
    <3>1. q * 1 <= q * s
      BY <1>1, <2>2
    <3> QED BY <1>1, <3>1
  <2> QED BY <1>1, <2>1, <2>2, <2>3
<1>3. ASSUME NEW k \in 0 .. b, d = k * s PROVE r = 0
  <2>1. s * k = k * s /\ s * k \in Int /\ s * q \in Int
    BY <1>1
  <2>2. 0 \in 0 .. s - 1 /\ s * k + 0 <= s * q + r /\ s * q + r <= s * k + 0
    BY <1>1, <1>3, <2>1
  <2>3. k <= q
    BY <1>1, <2>2, QuotientUnique
  <2>4. q <= k
    BY <1>1, <2>2, QuotientUnique
  <2>5. q = k
    BY <1>1, <2>3, <2>4
  <2> QED BY <1>1, <1>3, <2>1, <2>5
<1> QED BY <1>2, <1>3 DEF r

IsField(f) ==
  /\ f.min \in Nat /\ f.max \in Nat /\ f.named \in BOOLEAN

LEMMA FieldRanges ==
  /\ IsField(Minute) /\ IsField(Hour) /\ IsField(Month) /\ IsField(Date) /\ IsField(WeekDay)
BY FieldsAssumption DEF IsField, Minute, Hour, Month, Date, WeekDay

\* A value that is in the range is one of a number, or of a name where names are values.
LEMMA ActualValue ==
  ASSUME NEW f, IsField(f), NEW t \in EndToken, checkRange(getActualValue(t, f), f)
  PROVE  /\ getActualValue(t, f) = t.v /\ t.kind # "star" /\ t.v \in Nat
         /\ f.min <= t.v /\ t.v < f.max
<1>1. getActualValue(t, f) # NoValue
  BY DEF IsField, checkRange, NoValue
<1>2. t \in [kind : {"num", "name"}, v : Int]
  BY <1>1 DEF getActualValue, EndToken
<1> QED BY <1>1, <1>2 DEF getActualValue, checkRange, IsField

Answers == {"yes", "no", "loops"}

LEMMA RangeMatches ==
  ASSUME NEW f, IsField(f), NEW t \in Token, t.kind = "range",
         TRUE \in checkAllPossibilitiesForToken(t, f), NEW c \in f.min .. f.max
  PROVE  checkIfValuesMatches(t, c, f) = IF c \in Means(t, f) THEN "yes" ELSE "no"
<1>1. t \in [kind : {"range"}, lo : EndToken, hi : EndToken]
  BY DEF Token, EndToken
<1>2. checkRange(getActualValue(t.lo, f), f) /\ checkRange(getActualValue(t.hi, f), f)
  BY DEF checkAllPossibilitiesForToken
<1>3. /\ getActualValue(t.lo, f) = t.lo.v /\ getActualValue(t.hi, f) = t.hi.v
      /\ t.lo.v \in Nat /\ t.hi.v \in Nat
  <2>1. t.lo \in EndToken /\ t.hi \in EndToken
    BY <1>1
  <2> QED BY <1>2, <2>1, ActualValue
<1>4. checkIfValuesMatches(t, c, f) = IF t.lo.v <= c /\ c <= t.hi.v THEN "yes" ELSE "no"
  BY <1>3 DEF checkIfValuesMatches
<1>5. Means(t, f) = (f.min .. f.max) \cap (t.lo.v .. t.hi.v)
  BY DEF Means
<1>6. c \in Means(t, f) <=> t.lo.v <= c /\ c <= t.hi.v
  BY <1>3, <1>5 DEF IsField
<1> QED BY <1>4, <1>6

LEMMA StepMatches ==
  ASSUME NEW f, IsField(f), NEW t \in Token, t.kind = "step",
         TRUE \in checkAllPossibilitiesForToken(t, f), NEW c \in f.min .. f.max, c < f.max
  PROVE  \/ checkIfValuesMatches(t, c, f) = "loops"
         \/ checkIfValuesMatches(t, c, f) = IF c \in Means(t, f) THEN "yes" ELSE "no"
<1> DEFINE lo == IF t.lo.kind = "star" THEN f.min ELSE getActualValue(t.lo, f)
           step == getActualValue(t.by, f)
<1>1. t \in [kind : {"step"}, lo : EndToken, by : EndToken]
  BY DEF Token, EndToken
<1>2. /\ t.lo.kind = "star" \/ checkRange(getActualValue(t.lo, f), f)
      /\ checkRange(getActualValue(t.by, f), f)
  BY DEF checkAllPossibilitiesForToken
<1>3. t.lo \in EndToken /\ t.by \in EndToken
  BY <1>1
<1>4. step = t.by.v /\ step \in Nat
  BY <1>2, <1>3, ActualValue
<1>5. lo = (IF t.lo.kind = "star" THEN f.min ELSE t.lo.v) /\ lo \in Nat /\ f.min <= lo
  <2>1. CASE t.lo.kind = "star"
    BY <2>1 DEF IsField
  <2>2. CASE t.lo.kind # "star"
    BY <1>2, <1>3, <2>2, ActualValue
  <2> QED BY <2>1, <2>2
<1>6. c \in Nat /\ f.max \in Nat /\ c <= f.max - 1
  BY DEF IsField
<1>7. c \in Means(t, f) <=> \E k \in 0 .. f.max : c = lo + k * step
  BY <1>4, <1>5 DEF Means
<1>8. checkIfValuesMatches(t, c, f) =
        IF step = 0 /\ lo < c THEN "loops"
        ELSE IF c \in lo .. f.max - 1 /\ (c = lo \/ (c - lo) % step = 0) THEN "yes" ELSE "no"
  BY DEF checkIfValuesMatches
<1> HIDE DEF lo, step
<1>9. CASE step = 0
  <2>1. \A k \in 0 .. f.max : lo + k * step = lo
    BY <1>5, <1>6, <1>9
  <2>2. 0 \in 0 .. f.max
    BY <1>6
  <2>3. c \in Means(t, f) <=> c = lo
    BY <1>7, <2>1, <2>2
  <2>4. ~ (lo < c) => (c \in lo .. f.max - 1 <=> c = lo)
    BY <1>5, <1>6
  <2> QED BY <1>8, <1>9, <2>3, <2>4
<1>10. CASE step # 0
  <2>1. CASE c < lo
    <3>1. \A k \in 0 .. f.max : lo + k * step >= lo
      BY <1>4, <1>5, <1>6
    <3>2. c \notin Means(t, f)
      BY <1>5, <1>6, <1>7, <2>1, <3>1
    <3>3. c \notin lo .. f.max - 1
      BY <1>5, <1>6, <2>1
    <3> QED BY <1>8, <1>10, <3>2, <3>3
  <2>2. CASE lo <= c
    <3>1. c - lo \in Nat /\ step \in Nat \ {0} /\ c - lo <= f.max /\ c \in lo .. f.max - 1
      BY <1>4, <1>5, <1>6, <1>10, <2>2
    <3>2. (c - lo) % step = 0 <=> \E k \in 0 .. f.max : c - lo = k * step
      BY <1>6, <3>1, Multiples
    <3>3. \A k \in 0 .. f.max : c - lo = k * step <=> c = lo + k * step
      <4> TAKE k \in 0 .. f.max
      <4>1. k * step \in Int
        BY <1>4, <1>6
      <4> QED BY <1>5, <1>6, <4>1
    <3>4. c = lo => (c - lo) % step = 0
      <4> SUFFICES ASSUME c = lo PROVE \E k \in 0 .. f.max : c - lo = k * step
        BY <3>2
      <4>1. 0 \in 0 .. f.max /\ c - lo = 0 /\ 0 * step = 0
        BY <1>4, <1>5, <1>6
      <4> QED BY <4>1
    <3>5. c \in Means(t, f) <=> (c - lo) % step = 0
      BY <1>7, <3>2, <3>3
    <3> QED BY <1>8, <1>10, <3>1, <3>4, <3>5
  <2> QED BY <1>5, <1>6, <2>1, <2>2
<1> QED BY <1>9, <1>10

\* A bare name is no value where names are none, and steps end before the last value.
LEMMA TokenMatches ==
  ASSUME NEW f, IsField(f), NEW t \in Token, TRUE \in checkAllPossibilitiesForToken(t, f),
         NEW c \in f.min .. f.max, t.kind = "name" => ~ f.named, t.kind = "step" => c < f.max
  PROVE  \/ checkIfValuesMatches(t, c, f) = "loops"
         \/ checkIfValuesMatches(t, c, f) = IF c \in Means(t, f) THEN "yes" ELSE "no"
<1>1. t.kind \in {"num", "name", "star", "range", "step"}
  BY DEF Token, EndToken
<1>2. CASE t.kind = "num"
  BY <1>2 DEF checkIfValuesMatches, Means
<1>3. CASE t.kind = "name"
  BY <1>3 DEF checkIfValuesMatches, Means, getActualValue
<1>4. CASE t.kind = "star"
  BY <1>4 DEF checkIfValuesMatches, Means
<1>5. CASE t.kind = "range"
  BY <1>5, RangeMatches
<1>6. CASE t.kind = "step"
  BY <1>6, StepMatches
<1> QED BY <1>1, <1>2, <1>3, <1>4, <1>5, <1>6

ValidField(field, f) ==
  \A i \in DOMAIN field : TRUE \in checkAllPossibilitiesForToken(field[i], f)

LEMMA FieldMatches ==
  ASSUME NEW f, IsField(f), NEW field \in Seq(Token), ValidField(field, f),
         NEW c \in f.min .. f.max,
         \A i \in DOMAIN field : /\ field[i].kind = "name" => ~ f.named
                                 /\ field[i].kind = "step" => c < f.max
  PROVE  \/ validate(field, c, f) = "loops"
         \/ validate(field, c, f) = IF Names(field, c, f) THEN "yes" ELSE "no"
<1> DEFINE Result(i) == checkIfValuesMatches(field[i], c, f)
           Decisive == {i \in DOMAIN field : Result(i) # "no"}
<1>1. ASSUME NEW i \in DOMAIN field
      PROVE  Result(i) = "loops" \/ Result(i) = IF c \in Means(field[i], f) THEN "yes" ELSE "no"
  <2>1. field[i] \in Token
    BY <1>1, ElementOfSeq, LenProperties
  <2>2. TRUE \in checkAllPossibilitiesForToken(field[i], f)
    BY <1>1 DEF ValidField
  <2> QED BY <1>1, <2>1, <2>2, TokenMatches
<1>2. validate(field, c, f) =
        IF Decisive = {} THEN "no"
        ELSE Result(CHOOSE i \in Decisive : \A j \in Decisive : i <= j)
  BY DEF validate
<1>3. CASE Decisive = {}
  <2>1. ~ Names(field, c, f)
    BY <1>1, <1>3 DEF Names
  <2> QED BY <1>2, <1>3, <2>1
<1>4. CASE Decisive # {}
  <2> DEFINE first == CHOOSE i \in Decisive : \A j \in Decisive : i <= j
  <2>1. Decisive \subseteq Nat
    BY LenProperties
  <2>2. \E i \in Decisive : \A j \in Decisive : i <= j
    <3> HIDE DEF Decisive
    <3> QED BY <1>4, <2>1, LeastNat
  <2>3. first \in Decisive
    BY <2>2
  <2>4. Result(first) # "no" /\ first \in DOMAIN field /\ validate(field, c, f) = Result(first)
    BY <1>2, <1>4, <2>3
  <2> HIDE DEF first
  <2> QED BY <1>1, <2>4 DEF Names
<1> QED BY <1>3, <1>4

TimeIn(time) ==
  /\ time.min \in 0 .. MAX_MIN /\ time.hour \in 0 .. MAX_HOUR /\ time.month \in 1 .. MAX_MONTH
  /\ time.date \in 1 .. MAX_DATE /\ time.week \in 0 .. MAX_DAYS_WEEK
  /\ time.min < MAX_MIN /\ time.hour < MAX_HOUR /\ time.date < MAX_DATE /\ time.week < MAX_DAYS_WEEK

LEMMA TimesIn == \A time \in Times : TimeIn(time)
BY FieldsAssumption DEF Times, TimeIn

LEMMA LineMatches ==
  ASSUME NEW line \in Lines, TRUE \in validateFields(line), ~ BareName(line), ~ MonthStep(line),
         NEW time \in Times
  PROVE  \/ checkIfCurrentTimeMatches(line, time) = "loops"
         \/ checkIfCurrentTimeMatches(line, time) = IF Due(line, time) THEN "yes" ELSE "no"
<1>1. /\ line.min \in Seq(Token) /\ line.hour \in Seq(Token) /\ line.month \in Seq(Token)
      /\ line.date \in Seq(Token) /\ line.week \in Seq(Token)
  BY LinesAssumption
<1>2. /\ ValidField(line.min, Minute) /\ ValidField(line.hour, Hour) /\ ValidField(line.month, Month)
      /\ ValidField(line.date, Date) /\ ValidField(line.week, WeekDay)
  <2> DEFINE Can == <<TRUE \in validateToken(line.min, Minute), TRUE \in validateToken(line.hour, Hour),
                      TRUE \in validateToken(line.date, Date), TRUE \in validateToken(line.month, Month),
                      TRUE \in validateToken(line.week, WeekDay)>>
  <2>1. \A i \in 1 .. 5 : Can[i]
    BY DEF validateFields
  <2>2. Can[1] /\ Can[2] /\ Can[3] /\ Can[4] /\ Can[5]
    <3> HIDE DEF Can
    <3> QED BY <2>1
  <2> QED BY <2>2 DEF validateToken, ValidField
<1>3. TimeIn(time)
  BY TimesIn
<1> DEFINE Right(field, c, f) == \/ validate(field, c, f) = "loops"
                               \/ validate(field, c, f) = IF Names(field, c, f) THEN "yes" ELSE "no"
<1>4. Right(line.min, time.min, Minute)
  <2>1. time.min \in Minute.min .. Minute.max /\ time.min < Minute.max /\ ~ Minute.named
    BY <1>3 DEF Minute, TimeIn
  <2> QED BY <1>1, <1>2, <2>1, FieldRanges, FieldMatches
<1>5. Right(line.hour, time.hour, Hour)
  <2>1. time.hour \in Hour.min .. Hour.max /\ time.hour < Hour.max /\ ~ Hour.named
    BY <1>3 DEF Hour, TimeIn
  <2> QED BY <1>1, <1>2, <2>1, FieldRanges, FieldMatches
<1>6. Right(line.date, time.date, Date)
  <2>1. time.date \in Date.min .. Date.max /\ time.date < Date.max /\ ~ Date.named
    BY <1>3 DEF Date, TimeIn
  <2> QED BY <1>1, <1>2, <2>1, FieldRanges, FieldMatches
<1>7. Right(line.month, time.month, Month)
  <2>1. time.month \in Month.min .. Month.max
    BY <1>3 DEF Month, TimeIn
  <2>2. \A i \in DOMAIN line.month : line.month[i].kind # "name" /\ line.month[i].kind # "step"
    BY DEF BareName, MonthStep
  <2> QED BY <1>1, <1>2, <2>1, <2>2, FieldRanges, FieldMatches
<1>8. Right(line.week, time.week, WeekDay)
  <2>1. time.week \in WeekDay.min .. WeekDay.max /\ time.week < WeekDay.max
    BY <1>3 DEF WeekDay, TimeIn
  <2>2. \A i \in DOMAIN line.week : line.week[i].kind # "name"
    BY DEF BareName
  <2> QED BY <1>1, <1>2, <2>1, <2>2, FieldRanges, FieldMatches
<1> DEFINE a == validate(line.min, time.min, Minute)
           b == validate(line.hour, time.hour, Hour)
           c == validate(line.month, time.month, Month)
           d == validate(line.date, time.date, Date)
           e == validate(line.week, time.week, WeekDay)
           results == <<a, b, c>>
           Failed == {i \in 1 .. 3 : results[i] # "yes"}
           first == CHOOSE i \in Failed : \A j \in Failed : i <= j
<1>9. checkIfCurrentTimeMatches(line, time) =
        IF Failed # {} THEN results[first] ELSE IF d # "no" THEN d ELSE e
  BY DEF checkIfCurrentTimeMatches
<1>10. Due(line, time) <=> /\ Names(line.min, time.min, Minute) /\ Names(line.hour, time.hour, Hour)
                           /\ Names(line.month, time.month, Month)
                           /\ Names(line.date, time.date, Date) \/ Names(line.week, time.week, WeekDay)
  BY DEF Due
<1>11. CASE Failed = {}
  <2>1. results[1] = "yes" /\ results[2] = "yes" /\ results[3] = "yes"
    BY <1>11
  <2>2. a = "yes" /\ b = "yes" /\ c = "yes"
    BY <2>1
  <2> HIDE DEF a, b, c, d, e, Failed, first
  <2>3. /\ Names(line.min, time.min, Minute) /\ Names(line.hour, time.hour, Hour)
        /\ Names(line.month, time.month, Month)
    BY <1>4, <1>5, <1>7, <2>2 DEF a, b, c
  <2> QED BY <1>6, <1>8, <1>9, <1>10, <1>11, <2>3 DEF d, e
<1>12. CASE Failed # {}
  <2>1. \E i \in Failed : \A j \in Failed : i <= j
    <3>1. Failed \subseteq Nat
      OBVIOUS
    <3> HIDE DEF Failed
    <3> QED BY <1>12, <3>1, LeastNat
  <2>2. first \in Failed
    BY <2>1
  <2> HIDE DEF first
  <2>3. first \in {1, 2, 3} /\ results[first] # "yes"
    BY <2>2
  <2>4. results[1] = a /\ results[2] = b /\ results[3] = c
    OBVIOUS
  <2> HIDE DEF results, Failed, d, e
  <2> QED BY <1>4, <1>5, <1>7, <1>9, <1>10, <1>12, <2>3, <2>4
<1> QED BY <1>11, <1>12

-----------------------------------------------------------------------------
(***************************************************************************)
(* What is in the list was found valid, or came out of a race in strtok.   *)
(***************************************************************************)

Accepted == MixedLines \cup {line \in Lines : TRUE \in validateFields(line)}

ValidList == \A i \in DOMAIN conf_list : conf_list[i] \in Accepted

InCalendar == \E f \in Files : now <= MaxTime(f) + SecondsPerMinute

LEMMA CalendarKept == CInv /\ InCalendar /\ [Next]_vars => InCalendar'
<1> SUFFICES ASSUME CInv, InCalendar, [Next]_vars PROVE InCalendar'
  OBVIOUS
<1>1. CASE Tick
  <2>1. now < MaxTime(file) /\ now' = now + 1 /\ file \in Files /\ now \in Nat
    BY <1>1 DEF Tick, CInv, TypeOK
  <2>2. MaxTime(file) \in Nat /\ SecondsPerMinute \in Nat
    BY <2>1, CronAssumption
  <2>3. now' <= MaxTime(file) + SecondsPerMinute
    BY <2>1, <2>2
  <2> QED BY <2>1, <2>3 DEF InCalendar
<1>2. CASE ~ Tick
  <2>1. now' = now
    BY <1>2 DEF Next, vars, clock, Others, Edit, Main, Clear, ReadLine, StartScheduler, AddWatch, ReadEvent,
                Cancel, Scheduler, BeginSleep, BeginPass, CheckLine, Race, RunCommand, EndPass, Die
  <2> QED BY <2>1 DEF InCalendar
<1> QED BY <1>1, <1>2

LEMMA ValidListKept == CInv /\ ValidList /\ [Next]_vars => ValidList'
<1> SUFFICES ASSUME CInv, ValidList, [Next]_vars PROVE ValidList'
  OBVIOUS
<1>1. conf_list \in Seq(Lines) /\ file \in Seq(Lines)
  BY CronAssumption DEF CInv, TypeOK
<1>2. ASSUME NEW line \in Lines, line \in Accepted,
             conf_list' = Append(conf_list, line)
      PROVE  ValidList'
  <2>1. /\ DOMAIN conf_list = 1 .. Len(conf_list) /\ Len(conf_list) \in Nat
        /\ DOMAIN conf_list' = 1 .. Len(conf_list) + 1
        /\ \A i \in 1 .. Len(conf_list) : conf_list'[i] = conf_list[i]
        /\ conf_list'[Len(conf_list) + 1] = line
    BY <1>1, <1>2, AppendProperties, LenProperties
  <2> SUFFICES ASSUME NEW i \in 1 .. Len(conf_list) + 1
               PROVE  conf_list'[i] \in Accepted
    BY <2>1 DEF ValidList
  <2> QED BY <1>2, <2>1 DEF ValidList
<1>3. CASE Clear
  <2>1. conf_list' = <<>>
    BY <1>3 DEF Clear
  <2> QED BY <2>1 DEF ValidList
<1>4. CASE ReadLine
  <2> DEFINE line == file[line_no + 1]
  <2>1. line_no \in Nat /\ line_no < Len(file)
    BY <1>4 DEF ReadLine, CInv, TypeOK
  <2>2. line \in Lines
    BY <1>1, <2>1, ElementOfSeq, LenProperties
  <2>3. \/ conf_list' = conf_list
        \/ TRUE \in validateFields(line) /\ conf_list' = Append(conf_list, line)
        \/ \E mixed \in MixedLines : conf_list' = Append(conf_list, mixed)
    <3> HIDE DEF line
    <3>1. \/ conf_list' = conf_list
          \/ \E ok \in validateFields(line) :
               conf_list' = IF ok THEN Append(conf_list, line) ELSE conf_list
          \/ \E mixed \in MixedLines : conf_list' = Append(conf_list, mixed)
      BY <1>4 DEF ReadLine, line
    <3>2. \A ok \in validateFields(line) : ok \in BOOLEAN
      BY DEF validateFields
    <3>3. ASSUME NEW ok \in validateFields(line),
                 conf_list' = IF ok THEN Append(conf_list, line) ELSE conf_list
          PROVE  \/ conf_list' = conf_list
                 \/ TRUE \in validateFields(line) /\ conf_list' = Append(conf_list, line)
      <4>1. CASE ok = TRUE
        BY <3>3, <4>1
      <4>2. CASE ok = FALSE
        BY <3>3, <4>2
      <4> QED BY <3>2, <4>1, <4>2
    <3> QED BY <3>1, <3>3
  <2>4. MixedLines \subseteq Lines
    BY DEF Lines
  <2> HIDE DEF line
  <2>5. CASE conf_list' = conf_list
    BY <2>5 DEF ValidList
  <2>6. CASE TRUE \in validateFields(line) /\ conf_list' = Append(conf_list, line)
    BY <1>2, <2>2, <2>6 DEF Accepted
  <2>7. CASE \E mixed \in MixedLines : conf_list' = Append(conf_list, mixed)
    BY <1>2, <2>4, <2>7 DEF Accepted
  <2> QED BY <2>3, <2>5, <2>6, <2>7
<1>5. CASE ~ Clear /\ ~ ReadLine
  <2>1. conf_list' = conf_list
    BY <1>5 DEF Next, vars, Others, Tick, Edit, Main, StartScheduler, AddWatch, ReadEvent,
                Cancel, Scheduler, BeginSleep, BeginPass, CheckLine, Race, RunCommand, EndPass, Die
  <2> QED BY <2>1 DEF ValidList
<1> QED BY <1>3, <1>4, <1>5

LEMMA ListInvariant == Spec => [](CInv /\ ValidList /\ InCalendar)
<1>1. Init => ValidList
  BY DEF Init, ValidList
<1>2. Init => InCalendar
  <2> SUFFICES ASSUME Init PROVE InCalendar
    OBVIOUS
  <2>1. file \in Files /\ now \in 0 .. SecondsPerMinute - 1
    BY DEF Init
  <2>2. MaxTime(file) \in Nat /\ SecondsPerMinute \in Nat
    BY <2>1, CronAssumption
  <2> QED BY <2>1, <2>2 DEF InCalendar
<1> QED BY <1>1, <1>2, CalendarKept, ValidListKept, CronInvariant, PTL DEF Spec

\* While a scheduler is in its pass only its own step moves it on to the next line or starts
\* the command.
LEMMA PassMoves ==
  ASSUME CInv, Next, NEW n \in Threads, thread[n].place = "pass",
         thread[n].i <= Len(conf_list), thread'[n].place # "ended",
         thread'[n].place # "pass" \/ thread'[n].i # thread[n].i
  PROVE  CheckLine(n)
<1>1. thread \in [Threads -> SchedulerState]
  BY DEF CInv, TypeOK
<1>2. thread' # thread /\ thread'[n] # thread[n]
  OBVIOUS
<1>3. ~(Tick \/ Edit)
  BY <1>2 DEF Tick, Edit
<1>4. ~(Clear \/ ReadLine \/ AddWatch \/ ReadEvent)
  BY <1>2 DEF Clear, ReadLine, AddWatch, ReadEvent
<1>5. ~StartScheduler
  <2> SUFFICES ASSUME thread' = [thread EXCEPT ![tid + 1].place = "new"] PROVE FALSE
    BY DEF StartScheduler
  <2>1. CASE n = tid + 1
    <3>1. tid \in Int /\ n > tid
      BY <2>1 DEF CInv, TypeOK
    <3>2. thread[n] = NoThread
      BY <3>1 DEF CInv, Retired
    <3> QED BY <3>2 DEF NoThread
  <2>2. CASE n # tid + 1
    BY <1>1, <1>2, <2>2
  <2> QED BY <2>1, <2>2
<1>6. ~Cancel
  <2> SUFFICES ASSUME thread' = [thread EXCEPT ![tid].cancelled = TRUE] PROVE FALSE
    BY DEF Cancel
  <2>1. CASE n = tid
    BY <1>1, <2>1 DEF SchedulerState
  <2>2. CASE n # tid
    BY <1>1, <1>2, <2>2
  <2> QED BY <2>1, <2>2
<1>7. ASSUME NEW m \in Threads, Scheduler(m) PROVE CheckLine(n)
  <2>1. CASE m # n
    <3>1. \A new : thread' = [thread EXCEPT ![m] = new] => thread'[n] = thread[n]
      BY <1>1, <2>1
    <3>2. CASE CheckLine(m)
      <4> DEFINE line == conf_list[thread[m].i]
      <4> HIDE DEF line
      <4>1. PICK result :
              thread' = CASE result = "no"    -> [thread EXCEPT ![m].i = @ + 1]
                          [] result = "loops" -> [thread EXCEPT ![m].place = "stuck"]
                          [] OTHER            -> IF thread[m].cancelled THEN Ended(m)
                                                 ELSE [thread EXCEPT ![m].place = "run",
                                                                     ![m].line = <<line>>]
        BY <3>2 DEF CheckLine, line
      <4>2. CASE result = "no"
        BY <1>2, <3>1, <4>1, <4>2
      <4>3. CASE result = "loops"
        BY <1>2, <3>1, <4>1, <4>3
      <4>4. CASE result # "no" /\ result # "loops" /\ thread[m].cancelled
        BY <1>2, <3>1, <4>1, <4>4 DEF Ended
      <4>5. CASE result # "no" /\ result # "loops" /\ ~thread[m].cancelled
        BY <1>1, <1>2, <2>1, <4>1, <4>5
      <4> QED BY <4>2, <4>3, <4>4, <4>5
    <3>3. CASE BeginSleep(m)
      BY <1>1, <1>2, <2>1, <3>3 DEF BeginSleep
    <3>4. CASE BeginPass(m)
      BY <1>1, <1>2, <2>1, <3>4 DEF BeginPass
    <3>5. CASE Race(m)
      BY <1>2, <3>5 DEF Race
    <3>6. CASE RunCommand(m)
      BY <1>1, <1>2, <2>1, <3>6 DEF RunCommand
    <3>7. CASE EndPass(m)
      BY <1>1, <1>2, <2>1, <3>7 DEF EndPass
    <3>8. CASE Die(m)
      BY <1>2, <3>1, <3>8 DEF Die, Ended
    <3> QED BY <1>7, <3>2, <3>3, <3>4, <3>5, <3>6, <3>7, <3>8 DEF Scheduler
  <2>2. CASE m = n
    <3>1. ~ BeginSleep(n) /\ ~ BeginPass(n) /\ ~ RunCommand(n)
      BY DEF BeginSleep, BeginPass, RunCommand
    <3>2. ~ Race(n)
      BY <1>2 DEF Race
    <3>3. ~ EndPass(n)
      <4>1. thread[n].i \in Nat /\ Len(conf_list) \in Nat
        BY <1>1, LenProperties DEF SchedulerState, CInv, TypeOK
      <4> QED BY <4>1 DEF EndPass
    <3>4. ~ Die(n)
      <4> SUFFICES ASSUME thread' = Ended(n) PROVE FALSE
        BY DEF Die
      <4>1. thread'[n] = [NoThread EXCEPT !.place = "ended", !.last = thread[n].last, !.cancelled = TRUE]
        BY <1>1 DEF Ended
      <4>2. thread'[n].place = "ended"
        BY <4>1 DEF NoThread
      <4> QED BY <4>2
    <3> QED BY <1>7, <2>2, <3>1, <3>2, <3>3, <3>4 DEF Scheduler
  <2> QED BY <2>1, <2>2
<1> QED BY <1>3, <1>4, <1>5, <1>6, <1>7 DEF Next, Main

\* For every valid line of the file without a bare month or weekday name and without a
\* step of months, and every time, a scheduler that no other thread disturbs starts the
\* command in the minutes the line names and passes over it in the others (validate,
\* checkIfValuesMatches), unless a step of 0 never ends.
THEOREM StartedWhenDue == Spec => DueExactly
<1>1. ASSUME CInv, ValidList, InCalendar, [Next]_vars
      PROVE  [\A n \in Threads : Decides(n) =>
                LET line == conf_list[thread[n].i]
                IN  \/ BareName(line) \/ MonthStep(line) \/ line \in MixedLines
                    \/ RunsIfDue(n, line)]_vars
  <2> SUFFICES ASSUME Next, NEW n \in Threads,
                      thread[n].place = "pass", thread[n].i <= Len(conf_list),
                      thread'[n].place # "pass" \/ thread'[n].i # thread[n].i,
                      ~Racing(n), thread'[n].place # "ended"
               PROVE  LET line == conf_list[thread[n].i]
                      IN  \/ BareName(line) \/ MonthStep(line) \/ line \in MixedLines
                          \/ thread'[n].place = "stuck"
                          \/ (thread'[n].place = "run") = Due(line, Clock(MinuteOf(now)))
    BY <1>1 DEF Decides, RunsIfDue
  <2> DEFINE line == conf_list[thread[n].i]
             time == Clock(MinuteOf(now))
             answer == checkIfCurrentTimeMatches(line, time)
  <2>1. CheckLine(n)
    BY <1>1, PassMoves
  <2>2. thread' = CASE answer = "no"    -> [thread EXCEPT ![n].i = @ + 1]
                    [] answer = "loops" -> [thread EXCEPT ![n].place = "stuck"]
                    [] OTHER            -> IF thread[n].cancelled THEN Ended(n)
                                           ELSE [thread EXCEPT ![n].place = "run", ![n].line = <<line>>]
    BY <2>1 DEF CheckLine
  <2>3. thread \in [Threads -> SchedulerState] /\ now \in Nat
    BY <1>1 DEF CInv, TypeOK
  <2>4. line \in Lines /\ (line \in MixedLines \/ TRUE \in validateFields(line))
    <3>1. conf_list \in Seq(Lines) /\ thread[n].i \in Nat \ {0}
      BY <1>1, <2>3 DEF CInv, TypeOK, SchedulerState
    <3>2. thread[n].i \in 1 .. Len(conf_list) /\ DOMAIN conf_list = 1 .. Len(conf_list)
      BY <3>1, LenProperties
    <3> QED BY <1>1, <3>1, <3>2, ElementOfSeq DEF ValidList, Accepted
  <2>5. time \in Times
    <3>1. PICK f \in Files : now <= MaxTime(f) + SecondsPerMinute
      BY <1>1 DEF InCalendar
    <3>2. now \in 0 .. MaxTime(f) + SecondsPerMinute
      BY <2>3, <3>1, CronAssumption
    <3> QED BY <3>1, <3>2, ClockAssumption
  <2> HIDE DEF line, time, answer
  <2> SUFFICES ASSUME ~ BareName(line), ~ MonthStep(line), line \notin MixedLines,
                      thread'[n].place # "stuck"
               PROVE  (thread'[n].place = "run") = Due(line, time)
    BY DEF line, time
  <2>6. answer = "loops" \/ answer = IF Due(line, time) THEN "yes" ELSE "no"
    BY <2>4, <2>5, LineMatches DEF answer
  <2>7. CASE answer = "loops"
    BY <2>2, <2>3, <2>7
  <2>8. CASE answer = "no" /\ ~ Due(line, time)
    <3>1. thread'[n].place = "pass"
      BY <2>2, <2>3, <2>8
    <3> QED BY <2>8, <3>1 DEF Due
  <2>9. CASE answer = "yes" /\ Due(line, time)
    <3>1. CASE thread[n].cancelled
      <4>1. thread' = Ended(n)
        BY <2>2, <2>9, <3>1
      <4>2. thread'[n] = [NoThread EXCEPT !.place = "ended", !.last = thread[n].last, !.cancelled = TRUE]
        BY <2>3, <4>1 DEF Ended
      <4>3. thread'[n].place = "ended"
        BY <4>2 DEF NoThread
      <4> QED BY <4>3
    <3>2. CASE ~ thread[n].cancelled
      <4>1. thread' = [thread EXCEPT ![n].place = "run", ![n].line = <<line>>]
        BY <2>2, <2>9, <3>2
      <4>2. thread'[n].place = "run"
        BY <2>3, <4>1 DEF SchedulerState
      <4> QED BY <2>9, <4>2 DEF Due
    <3> QED BY <3>1, <3>2
  <2> QED BY <2>6, <2>7, <2>8, <2>9
<1> QED BY <1>1, ListInvariant, PTL DEF Spec, DueExactly
=============================================================================
