----------------------------- MODULE CronDaemon ----------------------------
(***************************************************************************)
(* The cron daemon, SYSTEM_LAB/CRON_OS_MMU/CRON/cron.cpp.  The main thread *)
(* reads the cron file, starts a scheduler thread, and waits for the file  *)
(* to be modified; then it cancels the scheduler, reads the file again and *)
(* starts another one.  A scheduler goes through the list of lines at the  *)
(* beginning of each minute and starts the commands that are due.  The     *)
(* threads share the list; pthread_cancel takes effect when its target     *)
(* next sleeps or prints, and nobody waits for it.                         *)
(***************************************************************************)
EXTENDS CronFields, SequencesExt

CONSTANTS
  SecondsPerMinute,  \* 60
  Clock(_),          \* external: the broken-down time of a minute
  Files,             \* the contents the cron file may have
  MayBecome(_),      \* bound: the files an edit turns a file into
  MixedLines,        \* bound: lines that come out of a race in strtok
  NoCommand,         \* the command of a line with fewer than six fields
  MaxTime(_),        \* bound: the last second, given the file
  MaxEdits           \* bound: modifications of the file

Lines == (UNION {ToSet(f) : f \in Files}) \cup MixedLines

ASSUME CronAssumption ==
  /\ SecondsPerMinute \in Nat \ {0} /\ MaxEdits \in Nat
  /\ \A f \in Files : f \in Seq(Lines) /\ MayBecome(f) \subseteq Files /\ MaxTime(f) \in Nat

VARIABLES
  now,         \* the time in seconds
  file,        \* the content of the cron file
  edits,       \* how often it has been modified
  event,       \* an inotify event is queued; equal events are one
  watching,    \* inotify_add_watch has been called
  missed,      \* history: the file was modified before that
  raced,       \* history: the list was read again while a thread went through it
  pc,          \* where the main thread is
  line_no,     \* lines of the file read so far
  conf_list,   \* the list of valid lines
  tid,         \* the last scheduler started; there were tid of them
  thread       \* per scheduler, its state

clock == <<now>>
disk  == <<file, edits, event, missed>>
main  == <<pc, line_no, tid, watching, raced>>
vars  == <<clock, disk, main, conf_list, thread>>

Threads == 1 .. MaxEdits + 1
MinuteOf(t) == t \div SecondsPerMinute

ASSUME LinesAssumption ==
  \A line \in Lines :
    {line.min, line.hour, line.date, line.month, line.week} \subseteq Seq(Token)

ASSUME ClockAssumption ==
  \A f \in Files : \A t \in 0 .. MaxTime(f) + SecondsPerMinute : Clock(MinuteOf(t)) \in Times

\* place: none, new, sleep, pass, run, stuck, ended; wake: end of its sleep;
\* since: its beginning; i: position in the list; line: the line it found due, if any;
\* last: minute of its last pass; cancelled: a cancellation is pending.
NoThread == [place |-> "none", since |-> 0, wake |-> 0, i |-> 1, line |-> <<>>, last |-> -1,
             cancelled |-> FALSE]

Init ==
  /\ now \in 0 .. SecondsPerMinute - 1
  /\ file \in Files /\ edits = 0 /\ event = FALSE /\ missed = FALSE
  /\ pc = "clear" /\ line_no = 0 /\ tid = 0 /\ watching = FALSE /\ raced = FALSE
  /\ conf_list = <<>>
  /\ thread = [n \in Threads |-> NoThread]

-----------------------------------------------------------------------------
(***************************************************************************)
(* Time, and the user who edits the file in place.                         *)
(***************************************************************************)
Up == pc \notin {"crashed", "exited"}

Tick == Up /\ now < MaxTime(file) /\ now' = now + 1 /\ UNCHANGED <<disk, main, conf_list, thread>>

Edit ==
  /\ Up /\ edits < MaxEdits
  /\ edits' = edits + 1
  /\ file' \in MayBecome(file)
  /\ event' = (event \/ watching)
  /\ missed' = (missed \/ ~watching)
  /\ UNCHANGED <<clock, main, conf_list, thread>>

-----------------------------------------------------------------------------
(***************************************************************************)
(* The main thread: processCronFile, then fileChangeListener.              *)
(***************************************************************************)
\* Mutant of Clear: the old lines are kept.
ClearNothing ==
  /\ pc = "clear"
  /\ line_no' = 0
  /\ pc' = "parse"
  /\ UNCHANGED <<clock, disk, tid, watching, raced, conf_list, thread>>

Clear ==
  /\ pc = "clear"
  /\ conf_list' = <<>>
  /\ line_no' = 0
  /\ pc' = "parse"
  /\ UNCHANGED <<clock, disk, tid, watching, raced, thread>>

\* The other threads that are in strtok's string or in the list.
Reading(n) == {m \in Threads \ {n} : thread[m].place = "pass"}

\* One line of the file as it is now, processTheLine.  A line without a command
\* makes a string of a null pointer, an exception that ends the daemon.  While a
\* thread matches a line the two share the state of strtok: the line may be
\* lost, or be replaced by a mix of others.
ReadLine ==
  /\ pc = "parse" /\ line_no < Len(file)
  /\ line_no' = line_no + 1
  /\ raced' = (raced \/ Reading(0) # {})
  /\ LET line == file[line_no + 1]
     IN  IF line.command = NoCommand
         THEN pc' = "crashed" /\ conf_list' = conf_list
         ELSE /\ pc' = pc
              /\ \/ \E ok \in validateFields(line) :
                      conf_list' = IF ok THEN Append(conf_list, line) ELSE conf_list
                 \/ /\ Reading(0) # {}
                    /\ \/ conf_list' = conf_list
                       \/ \E mixed \in MixedLines : conf_list' = Append(conf_list, mixed)
  /\ UNCHANGED <<clock, disk, tid, watching, thread>>

StartScheduler ==
  /\ pc = "parse" /\ line_no >= Len(file)
  /\ tid' = tid + 1
  /\ thread' = [thread EXCEPT ![tid + 1].place = "new"]
  /\ pc' = "watch"
  /\ UNCHANGED <<clock, disk, line_no, watching, raced, conf_list>>

\* The first inotify_add_watch.  Later it adds the watch again; then the loop
\* may end: from the second event on its index has grown by a length read at an
\* offset where no event was put.  Or the next event is looked for too far away.
AddWatch ==
  /\ pc = "watch"
  /\ watching' = TRUE
  /\ pc' \in (IF tid > 2 THEN {"listen", "exited"} ELSE {"listen"})
  /\ UNCHANGED <<clock, disk, line_no, tid, raced, conf_list, thread>>

ReadEvent ==
  /\ pc = "listen" /\ event
  /\ event' = FALSE
  /\ pc' \in (IF tid > 2 THEN {"cancel", "crashed"} ELSE {"cancel"})
  /\ UNCHANGED <<clock, file, edits, missed, line_no, tid, watching, raced, conf_list, thread>>

\* Mutant of Cancel: the first scheduler is cancelled, not the last.
CancelFirst ==
  /\ pc = "cancel"
  /\ thread' = [thread EXCEPT ![1].cancelled = TRUE]
  /\ pc' = "clear"
  /\ UNCHANGED <<clock, disk, line_no, tid, watching, raced, conf_list>>

\* Mutant of Cancel: pthread_cancel is not called.
CancelNobody ==
  /\ pc = "cancel"
  /\ pc' = "clear"
  /\ UNCHANGED <<clock, disk, line_no, tid, watching, raced, conf_list, thread>>

Cancel ==
  /\ pc = "cancel"
  /\ thread' = [thread EXCEPT ![tid].cancelled = TRUE]
  /\ pc' = "clear"
  /\ UNCHANGED <<clock, disk, line_no, tid, watching, raced, conf_list>>

Main == Clear \/ ReadLine \/ StartScheduler \/ AddWatch \/ ReadEvent \/ Cancel

-----------------------------------------------------------------------------
(***************************************************************************)
(* A scheduler thread, runCurrentCommandsCopy.                             *)
(***************************************************************************)
Others == <<clock, disk, main, conf_list>>

\* Mutant of Delay: the first pass is at once.
NoDelay == 0

\* Mutant of Delay: back to the beginning of the minute.
DelayBack == -(now % SecondsPerMinute)

\* getDelayForTheStartOfVeryNextMin.
Delay == (-now) % SecondsPerMinute

\* A cancelled thread ends when it next sleeps or prints.
Alive(n) == Up /\ ~thread[n].cancelled

Ended(n) == [thread EXCEPT ![n] = [NoThread EXCEPT !.place = "ended", !.last = thread[n].last,
                                                    !.cancelled = TRUE]]

BeginSleep(n) ==
  /\ Alive(n) /\ thread[n].place = "new"
  /\ thread' = [thread EXCEPT ![n].place = "sleep",
                                   ![n].since = now, ![n].wake = now + Delay]
  /\ UNCHANGED Others

BeginPass(n) ==
  /\ Alive(n) /\ thread[n].place = "sleep" /\ now >= thread[n].wake
  /\ thread' = [thread EXCEPT ![n].place = "pass", ![n].wake = 0, ![n].last = MinuteOf(now)]
  /\ UNCHANGED Others

\* The next line of the list is copied and compared with the time.  Until it
\* prints a cancelled thread does this too.  If another thread uses strtok at the
\* same time the answer may be any.
Racing(n) == pc \in {"clear", "parse"} \/ Reading(n) # {}

CheckLine(n) ==
  /\ Up /\ thread[n].place = "pass" /\ thread[n].i <= Len(conf_list)
  /\ LET line   == conf_list[thread[n].i]
         answer == checkIfCurrentTimeMatches(line, Clock(MinuteOf(now)))
     IN  \E result \in {answer} \cup (IF Racing(n) THEN {"yes", "no"} ELSE {}) :
           thread' = CASE result = "no"    -> [thread EXCEPT ![n].i = @ + 1]
                       [] result = "loops" -> [thread EXCEPT ![n].place = "stuck"]
                       [] OTHER            -> IF thread[n].cancelled THEN Ended(n)
                                              ELSE [thread EXCEPT ![n].place = "run",
                                                                  ![n].line = <<line>>]
  /\ UNCHANGED Others

\* While the main thread clears or fills the list, a thread that reads it may
\* read freed memory.
Race(n) ==
  /\ pc \in {"clear", "parse"} /\ thread[n].place = "pass"
  /\ pc' = "crashed"
  /\ UNCHANGED <<clock, disk, line_no, tid, watching, raced, conf_list, thread>>

\* system() of a command that ends in &.
RunCommand(n) ==
  /\ Up /\ thread[n].place = "run"
  /\ thread' = [thread EXCEPT ![n].place = "pass", ![n].i = @ + 1, ![n].line = <<>>]
  /\ UNCHANGED Others

EndPass(n) ==
  /\ Up /\ thread[n].place = "pass" /\ thread[n].i > Len(conf_list)
  /\ thread' = [thread EXCEPT ![n].place = "sleep", ![n].i = 1,
                                   ![n].since = now, ![n].wake = now + SecondsPerMinute]
  /\ UNCHANGED Others

\* A pending cancellation takes effect: in sleep, in system(), or where a pass
\* prints, which it does for steps and for weekdays.
Die(n) ==
  /\ Up /\ thread[n].cancelled /\ thread[n].place \in {"new", "sleep", "pass", "run"}
  /\ thread' = Ended(n)
  /\ UNCHANGED Others

Scheduler(n) ==
  BeginSleep(n) \/ BeginPass(n) \/ CheckLine(n) \/ Race(n) \/ RunCommand(n) \/ EndPass(n) \/ Die(n)

Next == Tick \/ Edit \/ Main \/ \E n \in Threads : Scheduler(n)

Spec == Init /\ [][Next]_vars

\* The kernel schedules the main thread; nothing is assumed of the others.
FairSpec == Spec /\ WF_vars(Main)

-----------------------------------------------------------------------------
SchedulerState ==
  [place : {"none", "new", "sleep", "pass", "run", "stuck", "ended"},
   since : Nat, wake : Nat, i : Nat \ {0}, line : Seq(Lines), last : Int, cancelled : BOOLEAN]

TypeOK ==
  /\ now \in Nat /\ file \in Files /\ edits \in 0 .. MaxEdits
  /\ event \in BOOLEAN /\ watching \in BOOLEAN /\ missed \in BOOLEAN /\ raced \in BOOLEAN
  /\ pc \in {"clear", "parse", "watch", "listen", "cancel", "crashed", "exited"}
  /\ tid \in 0 .. MaxEdits + 1 /\ line_no \in Nat
  /\ conf_list \in Seq(Lines)
  /\ thread \in [Threads -> SchedulerState]

\* At most one scheduler is not cancelled, whatever the modifications.  (One that
\* is cancelled may still go through the list.)
OneScheduler ==
  \A m, n \in Threads :
    /\ thread[m].place # "none" /\ ~thread[m].cancelled
    /\ thread[n].place # "none" /\ ~thread[n].cancelled
    => m = n

\* Only the last scheduler starts commands.  One that was replaced may still go
\* through the list beside it, but it does not get past the output before system(),
\* so that no command is started twice for two schedulers at work.
OnlyLastStarts ==
  [][\A n \in Threads : thread[n].place # "run" /\ thread'[n].place = "run" => n = tid]_vars

\* A scheduler that is not cancelled never works on a list that is being
\* cleared or read again, and starts only commands of the list.
WholeList ==
  \A n \in Threads : Alive(n) /\ thread[n].place \in {"pass", "run"} =>
    /\ pc \in {"watch", "listen", "cancel"}
    /\ thread[n].place = "run" => ToSet(thread[n].line) \subseteq ToSet(conf_list)

\* No two passes through the list are in the same minute, whichever threads make
\* them and however late they are: a command would be started twice.  Except that
\* a scheduler started in the first second of a minute does not wait.
OncePerMinute ==
  [][\A n \in Threads : thread[n].place = "sleep" /\ thread'[n].place = "pass" =>
       \A m \in Threads :
         \/ thread[m].last < thread'[n].last
         \/ m # n /\ thread[n].since % SecondsPerMinute = 0]_vars

\* A line is found due exactly in the minutes it names (validate,
\* checkIfValuesMatches).  There are exceptions: the code takes a single name for
\* any month and any weekday, steps do not reach the last month, and while
\* another thread uses strtok the answer may be any, and a line read then too.
BareName(line) ==
  \E field \in {line.month, line.week} : \E i \in DOMAIN field : field[i].kind = "name"
MonthStep(line) == \E i \in DOMAIN line.month : line.month[i].kind = "step"

Decides(n) ==
  /\ thread[n].place = "pass" /\ thread[n].i <= Len(conf_list)
  /\ thread'[n].place # "pass" \/ thread'[n].i # thread[n].i
  /\ ~Racing(n) /\ thread'[n].place # "ended"

RunsIfDue(n, line) ==
  \/ thread'[n].place = "stuck"
  \/ (thread'[n].place = "run") = Due(line, Clock(MinuteOf(now)))

DueExactly ==
  [][\A n \in Threads : Decides(n) =>
       LET line == conf_list[thread[n].i]
       IN  \/ BareName(line) \/ MonthStep(line) \/ line \in MixedLines
           \/ RunsIfDue(n, line)]_vars

\* The lines of the file that can be in the list.
Loaded ==
  /\ \A i \in DOMAIN conf_list : conf_list[i] \in ToSet(file)
  /\ \A i \in DOMAIN file : validateFields(file[i]) = {TRUE} => file[i] \in ToSet(conf_list)

Stopped == ~Up

\* The last modification is loaded, also when it comes while the file is being
\* read, unless the file was modified before the daemon watched it or read while
\* a cancelled thread was still in the list.
LoadedOnceWatched == <>[](Loaded \/ Stopped \/ missed \/ raced)
=============================================================================
