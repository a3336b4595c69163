# Verification of MTECH-PROJECTS

TLA+ models, TLC runs and TLAPS proofs for the programs of this repository. The
repository is a collection of independent programs; the models follow the ones
whose logic is concurrent or stateful. Paths below are relative to the
repository's root.

## 1. The system's parts

| Part | State it keeps | Operations | Talks to | What is hard | Correct when |
|---|---|---|---|---|---|
| **OS process** of the page-table simulation, `SYSTEM_LAB/CRON_OS_MMU/OS_MEM/OS.cpp` | the page table (shared memory), free list, FIFO queue, LFU counters, disk-access count | start-up, SIGUSR1 (page fault), SIGUSR2 (page hit), SIGINT | the MMU, by shared memory and signals | two handlers that may nest; signals that merge; write-back of dirty victims | frames are neither lost nor shared, a victim always exists, the process that asked is woken, dirty pages are written back before their frame is reused |
| **MMU process**, `.../OS_MEM/MMU.cpp` | position in the trace, hit/fault counters, `isSleepEnabled` | attach, access (fault or hit), wait for SIGCONT, finish | the OS | check-then-sleep wait, start before the OS, kill and restart, address conversion | every wait ends, the statistics are right, an address maps to its page |
| **Cron daemon**, `SYSTEM_LAB/CRON_OS_MMU/CRON/cron.cpp` | the list of valid lines, two threads | parse and validate lines, match the time, start commands, watch the file | the file system (inotify), the shell | list cleared while the other thread iterates, cancellation without join, drift of the minute timer | a valid line's command starts exactly in the minutes it names |
| **TCP transfer 3.1 / 3.2**, `SYSTEM_LAB/TCP/3.{1,2}/{Client,Server}.cpp` | client: window, threshold, in-flight packets, timers; server: receive buffer and out-of-order buffers | handshake, send, acknowledge, retransmit, (3.2) CUBIC window | each other over UDP | loss, duplication, reordering, timers racing answers | the receiver gets the data in order, the sender never skips a byte and ends |
| **Shell**, `SYSTEM_LAB/SHELL/{CS558Assign1,child_executor}.cpp` | the line's arguments, the files and directories it works on | read, validate, help, exit; in a child: redirect, then cat, mkdir, top, cd | a child process | files are opened while the line is still being checked; indices into the line; what a child changes is its own | a command does what its help file says and touches no other file |
| **Verilog generator**, `CAD/generateVerilog.cpp` | tables of registers, units, multiplexers, states and control assertions; the modules it writes | read the input file section by section, code the states, wire the data path, write `fsm.v` | files; what it writes is run by a Verilog simulator | several sections are tied together only by the order of their lines; two counts of the states; order of assignments in a clock | the controller follows the flow graph of the file and each of its states computes its register transfers |
| **Speech-based playlist**, `SpeechBasedPlaylist/...` | recordings, code book, HMM models | split a recording into words, LPC, LBG, train and test HMMs | files | floating-point numerics | recognition quality |
| **Activity recognition**, `Activity Recognition/src` | array of sensor events, occurrences of activities in it, ranges, counts, model file | read the log, partition, find ranges, train, save, load, test | files | occurrences overlap in one array; occurrences are counted again by each loop; numbers of extended range | each occurrence is its own events, is tested once and by a model trained without it, and the prediction is the most likely activity |
| **Incremental linear discriminant analysis**, `MTP/*.py` | class means, scatter matrices | update with a batch of samples | files | floating-point numerics | agreement with the batch computation |

## 2. Modules

| Module | Models | Checked or proved by |
|---|---|---|
| `DemandPaging` | what the page-table simulation promises: a sequential demand pager with FIFO or LFU replacement and write-back | refined by `PageTableSim` in `pt_fifo`; `PageTableProofs` |
| `PageTableSim` | OS.cpp and MMU.cpp as two processes | `MCPageTable`, runs `pt_*`; `PageTableProofs` |
| `PageTableRefinement` | the refinement mapping from `PageTableSim` to `DemandPaging` | property `ImplementsDemandPaging` |
| `AddressTranslation` | the address conversion of MMU.cpp | used by `TraceAddress` |
| `TraceAddress` | an address of the trace, converted as it grows character by character | `MCAddress`, run `address`; `PageTableProofs` |
| `InOrderReceiver` | what the TCP server's window promises: a set of kept segments and a cumulative acknowledgement | refined by `TcpReceiver` in `tcp_receiver`; `TcpReceiverProofs` |
| `TcpReceiver` | the receive window of Server.cpp | `MCTcpReceiver`, run `tcp_receiver`; `TcpReceiverProofs`; used by `TcpTransfer` |
| `TcpConnection` | what the next two share: the client's place and next number, and a path that loses datagrams | extended by them |
| `TcpTransfer` | a whole transfer: the client's main, receive and timer threads, and `TcpReceiver` | `MCTcpTransfer`, runs `tcp_transfer`, `tcp_stuck`; `TcpTransferProofs` |
| `TcpHandshake` | the three-way handshake, its threads and the beginning of the transfer | `MCTcpHandshake`, runs `hs`, `hs_stuck`; `TcpTransferProofs` |
| `CronFields` | validation and matching of the fields of a line of the cron file | used by `CronDaemon` |
| `CronDaemon` | the cron daemon's main thread and its schedulers | `MCCron`, run `cron`; `CronProofs` |
| `DatapathTables` | the tables of the Verilog generator and what each line of its input does to them | used by `VerilogGenerator` |
| `VerilogGenerator` | reading the file, completing the tables, and the modules that are written | extended by `GeneratedFsm` |
| `GeneratedFsm` | the written controller, run clock by clock, and the data path it selects | `MCVerilog`, run `verilog`; `GeneratedFsmProofs` |
| `Schedule` | what the input file describes: a flow graph of control steps | refined by `GeneratedFsm` in `verilog` |
| `ActivityLog` | reading a sensor log into the array of events | extended by `ActivityRecognition`; `ActivityProofs` |
| `LargeNumbers` | the numbers of extended range the recogniser computes with | used by `ActivityRecognition` |
| `ActivityRecognition` | ranges, partition, training, model file and testing | `MCActivity`, run `ar`; `ActivityProofs` |
| `Shell` | the command loop and the child that executes a line | `MCShell`, run `shell`; `ShellProofs` |
| `ListLemmas` | facts the proofs share: least and greatest elements, `RemoveAt` and `Append`, sums over finite sets, induction over a set of naturals, functions defined by recursion | TLAPS |
| `PageTableProofs` | the frame invariant, for every use; the request/continue protocol, the refinement of `DemandPaging` and the statistics, for the documented use; the address conversion, for every trace | TLAPS |
| `TcpReceiverProofs` | the receive window's invariant, and that it implements `InOrderReceiver` | TLAPS |
| `TcpTransferProofs` | that both sides of the handshake number the stream alike and one waiter reads at a time; that a transfer loses and skips nothing and what it sends fits the advertised window | TLAPS |
| `CronProofs` | one scheduler, cancelled ones that start nothing, a whole list, different minutes, a command started exactly when it is due | TLAPS |
| `ActivityProofs` | the occurrences of activities, the ranges, and the soundness of the cross validation | TLAPS |
| `ShellProofs` | what a command leaves in the files and makes of directories | TLAPS |
| `GeneratedFsmProofs` | that each state of the generated controller has a code of its own, that the controller follows the flow graph of its file, and that every name the written module uses is declared | TLAPS |

### 2.1 The page-table simulation

**State.** `table` is the array in the shared segment (`struct pageTable`);
`freeFrames`, `fifoList`, `lfuList`, `disk_access` are the OS's globals of the same
names; `mpc`, `access`, `lineNo`, `page_hits`, `page_faults`, `isSleepEnabled` are
the MMU's. `pending` is the set of signals pending at the OS, `cont` says whether a
SIGCONT is pending at the MMU: a pending signal is one bit, so signals may merge.
`act[sig]` is the activation of the handler of `sig` with its locals and `top` the
handler that runs: `signal()` of glibc blocks a handler's own signal only, so the
handler of SIGUSR2 may interrupt the handler of SIGUSR1 and the other way round.

**Granularity.** A handler is cut where another process can see or change what it
works on: after the search for the request, after the victim is taken from the queue
and unmapped (then it sleeps if the victim is dirty), after the write-back, after the
installation, after `kill`. The MMU's loop is cut at each read or write of shared
state, and the `while(isSleepEnabled) sleep(3)` is the two steps it is: the test and
the sleep.

**Users and kernel.** `CtrlC`, `KillMmu`, `Attach` (a new MMU process) and `StrayCont`
(a SIGCONT sent by somebody else) are the environment's steps. `PatientStart` and
`MaxStray` restrict it to the documented use; `DocumentedUse` in `PageTableProofs` is
that restriction as a formula.

**Left out.** Output, the length of the simulated disk access, the splitting of a
trace line. Pages outside the table are not accesses of the model: `address` shows
that the conversion yields none from a clean buffer. An instance with 0 frames, which
`validateArgs` accepts, is excluded: `fifo_victim` then erases from an empty vector.

### 2.2 TCP over UDP

Versions 3.1 and 3.2 have the same server and the same handshake; the models follow
3.1.

**`TcpReceiver`** is the server after the handshake. `supportBuffer` is its list of slots,
one per segment of the window, each with a sequence number and a mark. `initiateFlow` is
one turn of the server's loop: `Marked` (a slot is marked only for its own number),
`getSeqNoBlankSupportBuffer` (the number of the ACK), and the three ways the front of
the window is replaced. `arrived` is a history variable: all segments ever received.

**`TcpTransfer`** composes that server with the client. The client's threads share
`isPacketReceived` (the marks), `ack_counter`, `FAST_RETRANSMIT_MODE` and `ACK_TIMEOUT`,
none of them under a lock, so each thread's step is cut where it reads or writes them:
the receive thread marks one segment at a time (`MarkAckReceived`), and cancels its timer in
a step of its own (`CancelMarkedTimer`). Segments are their sequence numbers, ACKs their acknowledgement numbers. Cancelling
a timer thread takes effect when it sleeps or prints. `pthread_cancel` of a thread that
does not exist is undefined: both outcomes of a real build are in the model, it is
ignored or the client ends (`Crash`).

**`TcpHandshake`** has for each SYN the two threads the client starts, the waiter and the
timer, and the server up to the first data segments, because the server is established
before the client's ACK arrives and takes whatever comes next for data.

**Assumed.** The path is UDP on one host: datagrams may be lost but arrive in order and
once. Timers wake in the order they went to sleep (all sleep equally long). The user
answers the prompt after the cancelled threads have ended. In the handshake each thread
builds its packets in its own `msg` (in the code it is one global).

**Left out.** The payload, the header fields nobody reads, the printed statistics, and
the CUBIC window of 3.2.

### 2.3 The cron daemon

**`CronFields`** has a field as a sequence of tokens, and one operator per function of
cron.cpp. A token is what `isNum`, `isSlashPresent`, `isHiphenPresent` and
`isWildCardCharacter` make of a string: cutting strings is left out. An end of a function
without a return is any value. `checkIfValuesMatches` answers yes, no, or *loops* (a step
of 0). `Due` is the reference definition: what each token means as a set of values.
`DueExactly` compares the two for every line that was read without a race; a line mixed
from two (`MixedLines`) has not been validated.

**`CronDaemon`** has the main thread (`pc`: clear the list, read lines, start a
scheduler, watch the file, wait for an event, cancel) and one record per scheduler
thread. The main thread cancels a scheduler and does not wait for its end, so up to three
are alive; a cancelled one works until it next sleeps or prints. `conf_list` and the
hidden state of `strtok` are shared without a lock: while a thread is in its pass and the
main thread clears or refills the list, the model lets the process crash, a line be lost
or be mixed with another, and a comparison have any result. `missed` and `raced` are
history variables that let properties exclude exactly these cases.

**Left out.** Editors that replace the file instead of writing to it, comments and empty
lines, and the functions nothing calls (`checkIfValuesexceeds`, `checkIfSchedulable`,
`isAnyExecutionLeft`, `scheduleCheckerCopy`, and `killThreads`, whose list is always
empty). A command is started in one step: it ends in `&`, so `system` returns at once.

### 2.4 The Verilog generator

**`DatapathTables`** has one operator per kind of input line; a table is a function from
names, as the `std::map` of the code is. A name is the sequence of the parts it was glued
from, a string of digits is the sequence of the digits. The bits of a multiplexer or a unit
are not initialized: when its line is read they become any value of `Indeterminate`, until a
line stores them.

**`VerilogGenerator`** reads `input` line by line (`IdentifySection`, `ParseLine`,
`EndSection`, one action per branch of the loop), completes the tables
(`PostProcess`), and has one operator for each function that writes: which names
are declared, which register each instance is wired to, the arms of the `case` (`WriteFile`).
The program ends early (`Ended`) with an exception, `exit` or a crash, as the code does for a
wrong line. It does not look for a header inside a section: one that no blank line precedes
is a line of the section before. Among the multiplexers it becomes a multiplexer, and so do
the lines of its own section up to the next blank line (`AsMultiplexer`); in the other
sections it ends the program for want of a field. Which parts of such a line `find_first_of`
and `substr` take for its name, inputs and codes is left out: the line stands for each.

**`GeneratedFsm`** runs what was written. The written block is sensitive to the clock and
to the reset, and its assignments are non-blocking: a step takes all right-hand sides
from the old state. Of registers only whether they are zero is kept, and only for those a
state tests: an assigned one may become either.

**`Schedule`** is the flow graph of the file, on its own: `ImplementsSchedule` says that
the coded controller, reset at any clock, always is at a step of it and takes the arm its
register calls for.

**Conditions of the properties.** `Separated`: a blank line ends every section; it is part
of `Consistent` and of `NamesGiven`. `Consistent`: there is a state, every state that is
entered has a line, and a control state does the comparison only and its CAP line enables
no register but the one the comparison is stored in. `Expressible` and `InOperandOrder`: the
data path can be right only if the select codes have one digit, operations are known, the
multiplexer of the first operand stands first, there are at most two, and a direct
operand is named by no multiplexer beside its unit. `NamesGiven`: the names of a file
agree with each other. A multiplexer or a unit has one line and one number of bits, a
multiplexer connects registers and, in front of a register, also units, an operation is
done on registers by a unit above, and each unit is used and knows an operation. The code
checks none of this but the names in the sections that give the bits: a name that is
nowhere declared is copied to what is written, and a unit that no operation uses gets empty
inputs. Section 4 says where the code restricts its input so; the designs of the run include
the ones beyond.

**Left out.** Widths, cutting lines into strings, console output, and
`initiateRequiredValues` and `writeMuxOutputToreg`, which nothing calls.

### 2.5 Activity recognition

**`ActivityLog`** is `ReadData`. A line without a name, one with a name, and one with a
mark are the actions `Unlabelled`, `LabelledInside` or `Independent`, and `Mark`; the
code does not look at the word `begin` or `end`, so `Mark` opens or closes. Fields
`hour` and `occurrence` of an event are history variables.

**`ActivityRecognition`** goes on from there: `phase` is the place in `main`; each
session may train, test, or do both by cross validation, and a testing session starts
from the `file` a training one saved. Occurrences are visited in the order of the code's
nested loops. Training sums counts in one step per fold; a test is one step per event and
one for the result.

**`LargeNumbers`** is a mantissa and an exponent, with the code's normalisation, product,
sum and comparison.

**Abstractions.** The probabilities themselves: each factor is any of `Terms`, and the
question is what becomes of them (`PredictsMostLikely`). The features sensor and day of
week are counted like the time and have no ranges. The option `stream` is never set.

**Left out.** Options, headers, printing, the fuzzy rules, and `get_distinct.cpp`, a
program of its own.

### 2.6 The shell

A line is a sequence of words, the content of a file a sequence of blocks. `Enter` is one
turn of the loop, with `help` rewritten to `cat` of the help file; the child first
prepares the redirections (`calculateRedirectionIndicesIfPresent`, which opens the files
one after the other until a word is misplaced), then executes in `Execute`.

**Assumed.** `./exec` exists, standard input is a terminal, and no line consists of blanks
or of `help` alone (the shell then reads past its arguments). A program of the system,
which runs whenever there is a redirection and the command is not `cat` or `top`, only
prints.

**Left out.** The pages of `top`, the end of input at the prompt, and the working
directory: `cd` changes that of the child, which then ends, so the names of the next line
mean the same files.

### 2.7 Runs

| Run | Shows | Bounds and why they are enough |
|---|---|---|
| `pt_fifo` | in the documented use: `QueueMatchesFrames`, `NoSharedFrame`, `OneRequest`, `StopsOnlyWhenDone`, `StatisticsAgree`, that the two processes implement `DemandPaging`, `WaitEnds` and `OsEnds` | 3 pages, 2 frames, traces of 5 accesses (`TraceLength`), each read or write: two evictions, a clean and a dirty victim, a page that comes back |
| `pt_wild` | the queue still matches the frames under undocumented use, with LFU | two MMU processes one after the other, started at any time (`PatientStart` false), one stray SIGCONT (`MaxStray`); 2 accesses each |
| `address` | the address conversion, with a clean and with a stale buffer | 6 + 6 bits, up to 4 characters from 6 digits and one other character: too short, right and too long addresses; one stale character |
| `tcp_receiver` | the receive window: its safety, and that it implements `InOrderReceiver` | 4 slots of 2 bytes, sequence numbers from below the stream to beyond two windows, also ones that start inside a slot |
| `tcp_transfer` | the transfer skips nothing, every segment on its way ends within `AWS` of the server's acknowledgement, the window never moves back and the waits end | `AWS` of 3 segments and 4 in all (`MaxSeq`): windows of 1, 2 and 3 segments (slow start, avoidance, halving), `MaxLosses` 2 for a loss of a segment and of its repetition, `MaxInFlight` 1 at each answer of the user, so that one late ACK of the last iteration is read in the next; `DupAcks` 1 instead of 3 brings fast retransmission into windows of 2 |
| `hs` | both sides number the stream alike; the wait ends, unless a waiter of an earlier attempt has set the flag of this one | 3 SYNs (`Attempts`), 3 losses, 2 data segments (`MaxData`): a thread of the first attempt may live to the third |
| `cron` | one scheduler, cancelled ones that start nothing, a whole list, no minute twice, the right minutes, the last edit loaded once the file is watched | a calendar of 12 minutes; 17 kinds of lines followed through all of it; for two files, two edits (`MaxEdits`) at any moment of the first two minutes (`MaxTime`): an edit during the reading for another edit |
| `verilog` | distinct codes, resolved names, the controller follows its flow graph, each state entered computes its transfers | 30 files in the manner of `CAD/input.txt`: five or six states with a loop, two units, up to four multiplexers; 17 designs that each vary one thing and 13 files with a wrong, missing or misplaced line, among them headers without a blank line and structures whose bits nobody gives, which are -1 or 1 then (`Indeterminate`) |
| `ar` | occurrences are their events, cross validation is sound, ranges come from the training, the prediction is the most likely activity | 2 activities, logs of 5 lines (3 with what follows), an array of 6 events so that it overflows, 2 folds instead of 3; radix 2 and digits up to 3 instead of 10 and 15 keep the numbers few and reach every normalisation |
| `shell` | which file a line may change, what it then holds, the directories `mkdir` makes | 2 lines (`MaxCommands`), each any of the forms of `MCLines`: the second meets every state the first can leave |
| `tcp_stuck` (violation) | a lost fast retransmission is waited for forever | 2 segments |
| `hs_stuck` (violation) | a late waiter of an earlier attempt keeps the wait of the next one from ending | 2 SYNs, 1 loss |

That the least used frame is the victim under LFU is in no run: `pt_wild` checks the frames under
that policy, and that the processes implement the pager is proved for both policies
(`SimulationImplementsPaging`).

Deadlock is not checked where the system may stop: after the conversion (`address`), when
the user ends the transfer or the client or daemon crashes (`tcp_*`, `hs`, `hs_stuck`, `cron`), when a
design without a reset is written or the generator fails (`verilog`), when the sessions are
over (`ar`), and after `exit` or the last line (`shell`).

**Fairness.** Always weak, never strong, and never of the users, of the network's losses,
of the clock or of an edit.
* `pt_fifo`: the OS's handler steps, the delivery of each signal, the MMU's steps and the
  delivery of SIGCONT. The kernel schedules both processes and delivers an unblocked
  pending signal; both properties allow for a process that the user ends.
* `tcp_transfer`, `tcp_stuck`: the main thread, the receive thread, the timers (a sleep
  ends) and the server. A datagram that is not lost arrives.
* `hs`, `hs_stuck`: the main thread, the server, and each waiter and timer.
* `cron`: the main thread only.

**Mutants.** Each property has an operator next to the definition it alters, named in its
comment as a mutant (`CancelFirst`, `OneBitLess`, `TruncatesAll`...): with that
operator in the place of the code's, the run finds the property violated.

## 3. Proofs

All theorems hold for every value of the constants. The assumptions are
* `SimAssumption`: what `validateArgs` enforces, and at least one frame;
  `LinesAssumption` of `PageTableSim`: the trace has lines; `BitsAssumption` (an address
  has at least one bit of a page number) and `AlphabetAssumption` (its characters are
  digits or others);
* `ReceiverAssumption` (the window holds at least one segment), `TransferAssumption`
  (segments of at least one byte, two of which fit `AWS`; the rest are bounds) and
  `HandshakeAssumption` and `ConnectionAssumption` (at least one attempt, and bounds);
* `LogAssumption` (at least one activity, and room for an event) and
  `RecognitionAssumption` (the `#define`s and command-line limits of the program);
* for cron, `FieldsAssumption` (the ranges of the fields are not empty), `CronAssumption`
  (a minute has seconds, an edit leaves one of the files), `LinesAssumption` of
  `CronDaemon` (a field is a sequence of tokens), and `ClockAssumption` (what `localtime`
  promises: a broken-down time is in the calendar);
* `ShellAssumption`: lines are sequences of words and none is `help` alone, help files
  exist, no file has the name of an operator (help of `>` and `>>` there is, as in
  `commandsArray`); and `NamesAssumption`: the words
  of a line that name files or paths name those of the model;
* `FilesAssumption`: the lines of an input file of the generator are numbered; what stands
  below a header, up to a blank line or another header, is data of that section, and other
  text stands outside the sections; a line that is not blank has a text; a state is a number,
  an arm a truth value and a state, the register digits of a CAP line are 0 or 1, the inputs,
  operations and pairs of a line are lists, numbers of bits are natural, and the name of a
  multiplexer is not empty (else the wire behind it may be, and an input it feeds looks as if
  nothing did). A blank line at the end of a section is not assumed: the theorems that need it have `Separated` among
  their premises, within `Consistent` or `NamesGiven`. `IndeterminateAssumption`: what is not
  initialized is some integer.

**The page table**, `PageTableProofs`, in four parts.
* The first needs nothing else: the environment may start, kill and wake
  processes at will. `QueueMatchesFrames`, `NoSharedFrame` and `VictimExists` are not
  inductive. `FrameInv` adds that nothing is mapped before the table exists
  (`BootState`), that only resident pages have a frame (`LinkedEntries`), that the
  frame in the fault handler's hands is mapped nowhere (`HeldUnmapped`), and that a
  victim is sought only when no frame is free (`FullWhenEvicting`). `SomeCandidate` then
  shows that both policies find a victim: every frame is queued, so the queue has a
  head and holds a frame with the smallest counter.
* The second assumes `DocumentedUse`. Its invariant `ProtocolInv` is about a
  token that is always in one place: the request in the table, a SIGCONT about to be
  sent, a pending SIGCONT, or the cleared flag (`RequestPlace`, `ResumePlace`,
  `WakePlace`); a signal is outstanding exactly for a request of its kind
  (`SignalPlace`); once served, the page stays until the access is over
  (`ServedStays`). The seven theorems about the handlers follow from it, among them
  that they never work at the same time although they may nest.
* The third, the refinement of `DemandPaging` and the statistics, assumes `DocumentedUse`
  too. `PagingInv` adds to the two
  invariants above that every queued frame has a page in memory (`QueueOwned`), so the
  queue of frames is a queue of pages (`QueueOfPages`). By counting, the queue has
  `FrameCount` elements exactly when no frame is free (`QueueLength`), which is when the
  pager may evict; then the least used of all frames, which `lfu_victim` looks for, is the
  frame of the least used page in memory (`SameCandidates`). Each handler step is one step
  of the pager, and `Unseen` covers the rest. `StatInv`, for `StatisticsAgree`, says how
  far the counters are apart while a fault is served: a fault that is counted and not
  installed (`Missing`), a disk access ahead of it, a frame in the handler's hands.
* The fourth is the conversion of an address. The digits of a number are followed from the
  first to the last (`NumberIs`, `BinaryIs`), so a character appended to the address appends
  four bits (`BitsOfAddress`); the number of the first bits is that of all bits without the
  others (`HighBits`), and is less than two to the power of how many they are
  (`BitsBound`). `PowerOfTwo` is a product of twos, because nothing is known to the prover of
  powers.

**The receive window**, `TcpReceiverProofs`: `TypeOK`, `SlotsConsecutive`,
`AcksCoverArrivals` and `AckNeverFalls` follow from `ReceiverInvariant`. Acknowledged bytes
having arrived is not inductive: the invariant adds that a marked slot's segment has
arrived, that everything before the window has, that the slots are consecutive (so the
slot found by distance modulo the window is the segment's own), and that the last ACK
names the first slot without a mark. Each way of replacing the front keeps all four.
That `TcpReceiver` implements `InOrderReceiver` is in the same module. The
mapping erases the places of the segments: what is promised is a set of numbers. Its
invariant `RInv` adds that the window starts at a segment of the
stream (`Aligned`) and that at most one filled slot is left at the front when an ACK
has gone (`AtMostOneFilled`). Erasing the front keeps the set of numbers from the window
on, and the code's walk over the slots stops at the first number that is not in it.

**The handshake**, in `TcpTransferProofs`. That both sides number the stream alike needs that
an answer with number 1 exists only once the server has left its first state, and that
whoever has read it hands on its number (`Unanswered`, `Answered`). That the waiters of
earlier attempts do not read needs that only the last timer thread runs, and that it
cancels its waiter before it reports the timeout that lets the next attempt begin
(`ThreadsInv`). `HandshakeGivesFirst` says that the number from which the transfer starts is
one that the transfer's theorems assume.

**The transfer**, `TcpTransferProofs`, for every window, segment size, number of losses
and interleaving of the client's threads. Nothing being skipped when a window starts is
about six parties, and `TransferInv` says how their numbers are ordered: acknowledgements
under way never decrease and lie between the last one read and the last one sent
(`AcksInOrder`); a mark in the client's window was given for an acknowledgement that has
been read, and the counter counts the marks (`MarksAcked`), so a window that is left has
been acknowledged to its end, and so has one left by a fast retransmission, which goes on
from acknowledgement to acknowledgement (`RetransmissionInv`) - except on a timeout, when
the window starts again where it was (`StartsAcked`). All numbers are multiples of the
segment size from the first (`OnGrid`), and the congestion window lies between a segment
and `AWS` (`WindowLimits`). `WindowFits` is about the segments on their way, also late ones
and those sent again: a window starts at or below what the server has acknowledged, and the
acknowledgement never falls, so that what was within `AWS` of it when it was sent stays so. The server is the receiver of `TcpReceiverProofs`
(`TransferUsesReceiver`), whose theorem that acknowledged bytes have arrived then gives
`NoByteLost`: between two windows, every byte the client will not send again is there.

**The cron daemon**, `CronProofs`, for every clock, file, set of edits and way the
threads interleave; but for `StartedWhenDue` the matching of fields may give any answer.
`CInv` says that each scheduler after the first used up a modification (`Counted`, so
there is a thread for it), that only the last scheduler is not cancelled, and not even
that while the list is refilled (`Retired`), that a command about to be started is in
the list (`Listed`), and what a sleep knows of the minutes: it ends one minute or, at a
start, at the next full minute after it began, and no other scheduler's pass is later
than its beginning (`Sleeps`). `OnlyLastStarts` follows step by step: a scheduler that finds
a line due prints before it starts the command, and there one that is cancelled ends.
`OncePerMinute` follows with the arithmetic of
`MinuteProperties`; its exception is the case in which the wait at the start is 0
seconds.

`StartedWhenDue` is about the answer itself. For a token that was found valid, each kind
answers what the token means (`RangeMatches`; `StepMatches`, where a loop of the code has
to reach exactly the multiples, `Multiples`); a field answers with its first token that
does not say no (`FieldMatches`), a line field by field (`LineMatches`). In the daemon the
lines of the list were accepted when they were read, or are mixed (`ValidList`), the time
is in the calendar (`InCalendar`), and a scheduler leaves a line of the list only by
`CheckLine` (`PassMoves`).

**Activity recognition**, `ActivityProofs`, in two parts.
* The log: the occurrences of all activities lie mixed in one array. An occurrence being
  its events is not inductive: `LogInv` adds that
  an event is of a finished or an open occurrence (`NumberedIn`), that the events of an
  activity follow the order of its occurrences (`NumbersRise`), that the start of an
  occurrence, open ones included, separates its events from the earlier ones
  (`Separates`), and that an open occurrence has an event unless the array is full
  (`OpenHasEvent`): else its start would be an event of another. Then as many events of
  the activity as the length, from the start, are those of the occurrence
  (`VisitedAreAdded`, by counting). That the previous activity had finished
  (`PreviousInv`) also needs that the open activities are counted right.
* The recogniser: training, cross validation and testing each number the occurrences anew
  with a loop over activities and occurrences; `Positions` shows that this is a bijection,
  so a fold means the same occurrences wherever it is looked up. Every event of the array is
  of one occurrence, so counting the visited events of all occurrences outside a fold is
  counting all events whose occurrence is outside it (`CountedIsOthers`), which is
  `TrainedOnOthers`. `TestedInv` keeps the matrix, row by row, equal to the number of
  occurrences tested so far, across the folds. For the ranges, the thresholds rise
  (`EqualFrequencyRises`, `DefaultRises`), so looking for the first one not
  exceeded is counting those exceeded (`RangeCounts`).

**The shell**, `ShellProofs`, for every line, every content of the files and every
directory. The four properties are about a command that has ended; what makes them
inductive is `ShellInv`: between the shell and its child the line is handed on as it was
entered, with `cat` and the help file in place of its first two words
(`Executed`; the second may be `>` or `>>`, which then redirects nothing), so the operators of the line are those the child finds
(`OperatorsFound`); and until the child executes, a file differs from what it was at most
by having been created empty (`AtMostCreated`). `FileHoldsSources` follows the copying:
the target grows with every source while it is no source itself, so each source adds the
blocks it had when the line was entered (`SameBlocksRead`, `CopiedTo`); a file that the
redirections created, and one that is missing, add none. `PathsAreMade` follows the
parents of a path: after the k-th turn the first k components are a directory or a file
is in the way (`DirectoryMade`). `AppendLosesNothing` is the one that holds though the
file is also read.

**The Verilog generator**, `GeneratedFsmProofs`, for every input file; what is said of the
tables beyond the codes of the states needs a blank line at the end of every section. Numbers that the bits
suffice for and that have the same binary digits are the same (`CodesDiffer`, from the
lowest digit that is left when the number has been shifted away); shifting keeps the
order, so the bits of a number suffice for every smaller one (`BitsSuffice`). The bits are
those of the number of *lines*, the codes are the places of the *states* in the order of
the map, and there are at most as many states as lines have been counted (`StatesOK`).

That the controller implements the flow graph (`ControllerImplementsSchedule`) needs to
know what is in the tables. `GeneratorInv` says it of the lines read so far
(`TablesRead`): each state is as its first line says and the first one is the first of the
file (`StatesRead`), the registers stand in the order of their lines (`RegistersRead`), each
destination is assigned when its line says (`TransfersRead`), and a register is enabled in
a state only by a CAP line with its digit (`EnablesRead`); a CAP line is cut by the order
of the registers, so this is where the order of two sections has to agree (`EnabledDigit`).
A line is read by the operator of the section its header opened, for which the section's
flag has to follow the headers and blank lines: it does if the sections are separated
(`OwnSection`); else it may still be that of the multiplexers (`SectionFlag`). Each kind of line has a
lemma of its own, and so has each way the rest of the tables is completed. `TablesAreFlow`
then finds the successors, the assignments and the tested register of each state of a
consistent file in its tables, and `PositionIs` decodes the state register, by the distinct
codes. `StepImplements` goes through the ways of a state: none, one, two with a register to
test; a control state that enables no register stays where it is, which is a stutter.

That every name is declared (`NamesAreDeclared`) needs the same of the data path.
`DataPathInv` says that the registers, multiplexers, units and operations in the tables are
those of the lines so far (`DataPathRead`). A multiplexer is as its line says, but for inputs
of high impedance, and has an input for each code of its bits once these are read
(`MuxBitsNamed`); a unit has its output and no inputs yet; and what an operation names is a
register, a port that has been entered or the output of a unit, for which the line of the
unit has to come first (`TransferLineNamed`). Completing the tables then gives names to the
wires. `populateMuxFuLinkNames` goes through the multiplexers in file order and fills the
first free input of the unit behind each; in the model a unit takes the wires of the first two
places among the multiplexers in front of it (`MuxesWired`). What is left for
`populateRegFuLinkNames` depends on how many there are (`UnitInputs`): with none, both inputs
are the registers of the unit's first operation; with one, the first operand is among its
inputs, so the second input is the second operand, which the code takes only if no
multiplexer names it beside the unit, as `InOperandOrder` says; with two, nothing is left. The
invariant's second half (`MuxesResolve`, `UnitsResolve`, `WritesResolve`) is what was proved of
the completed tables, which the controller does not change.

**`ListLemmas`** has what several of these need: the least-number principle, from the
well-foundedness of the strict subset order on finite sets, which says what `Min` returns;
`RemoveAt` and `Append`; induction stated for a *set* of naturals (`NatInductionSet`)
in place of an operator, from which the sums over finite sets and the existence of functions
defined by recursion (`RecursionExists`) follow.

The theorems without a run are proved for every
constant, which says more than a run of one instance would: `TypeOK` of the simulation, of
the receive window and of the cron daemon, `VictimExists`, `ResumesRequester`,
`LfuIndexInRange`, `NestsOnlyInTail`, `DirtyIsResident`, `CleanedOnlyByWriteBack`,
`SameCountsOpen`, `OnlyLastReader`, `MarkedArrived`, `StreamArrived`,
`TransferUsesReceiver`, `HandshakeGivesFirst` and `AppendKeeps`, and the inductive invariants.

**Only model-checked**, and why:
* all liveness properties: the prover does not handle fairness;
* of the Verilog generator `EnteredStatesCompute`: it depends on the digits of the CAP lines
  being those the register transfers call for, which the inputs of the run are built to have
  and no assumption on a file says without repeating the generator, and on glued names being
  different from each other;
* `PredictsMostLikely`: numbers with exponents, normalised digit by digit.

## 4. Disagreements between the code and what it says

Two runs have a property that TLC refutes:

* `tcp_stuck`: the comment 3.1/Client.cpp:676 says retransmitting stops on a timeout; the new
  timer of a segment sent again reads a wrong record, so none comes.
* `hs_stuck`: the comment 3.1/Client.cpp:243 says the wait ends with a timeout or a
  connection; a cancelled waiter of the attempt before that lives on to line 188 sets
  `IS_SYN_ACK_RECEIVED` and dies before it sets `CONNECTION_ESTABLISHED`, and the waiter and
  the timer of the next attempt both give up. `WaitEndsUnlessLate` leaves out exactly this,
  by a history variable that says who set the flag (`answeredBy`).

The others are in the models, and the properties are stated around them:

* **Page table.** The comment OS.cpp:157 says there is one request at a time; a request of
  an MMU that was killed (MMU.cpp:191) stays in the table beside the next one's, which is
  why `OneRequest` is about the documented use. ReadMe.txt:19 says the MMU attaches to the
  table created by the OS; it may attach to a new one, and `pt_wild` shows what still
  holds. ReadMe.txt:26 says `getPageNumber` converts the address; with a buffer that is
  not clear (MMU.cpp:95) the number may be another. `validateArgs` (OS.cpp:254) accepts 0
  frames, with which `fifo_victim` erases from an empty vector.
* **TCP.** 3.1/ReadMe:6 says "independent
  acknowledgement for each received segment"; every ACK carries the first number that is
  missing (Server.cpp:396). 3.1/Server.cpp:133 answers a repeated SYN only if its number
  is the same. Client.cpp:669 and 511 may cancel a timer thread that never existed. The
  receive thread is cancelled and not joined (Client.cpp:637), and the handshake's threads
  share one `msg` (line 192): both are outside the models. In 3.2 the reduced window
  (Client.cpp:93) is truncated and may become 0.
* **Cron.** The comment cron.cpp:784 says the file is loaded whenever it is modified; it is
  read at line 71 before it is watched at line 799, and an edit between the two is not
  loaded: `LoadedOnceWatched` starts with the watch. CRON/ReadMe.txt:28 says
  `checkIfValuesMatches` compares with the current time; a single month or weekday name
  matches every month and weekday (line 491), and `DueExactly` is about the other tokens.
  December is refused as a value (line 251), and steps of months end before the last
  one; `*/0` is accepted and never ends (464); a weekday is not looked at when the date
  matches, which `*` always does; a line of fewer than six fields ends the daemon. A
  cancelled scheduler that is still in its pass reads the list while it is cleared (419):
  the process may crash, a line be lost or be mixed with another.
* **Verilog generator.** The comment generateVerilog.cpp:1513 says a unit is wired to a
  register if no multiplexer connects the two; a multiplexer that brings the unit's result
  to the register is taken for one (line 1505), and the direct operand stays unconnected:
  `InOperandOrder` leaves such designs out. The modules of wide multiplexers and units declare a select port
  of one bit (lines 1658 and 1812) and compare it with labels of all digits. Operands follow the order of the multiplexers, and a third one
  of a unit is lost. Operations that are not known take no code although the CAP digits
  count them. A state without a CAP line keeps the select lines of the state before; a
  final state's transfers are dropped (1274); the reset does nothing when the first state
  has not exactly one way; a next state without a line is written as an empty assignment;
  a header whose blank line is missing is read as data, after the multiplexers as one more
  multiplexer (976).
* **Activity recognition.** "computing the day of week" (ar.c:585) is wrong from one month
  to the next. A threshold may be looked up one past the last (679). The comment
  hmm.c:155 says the likelihood was initialised to the prior; `TestInit` sets it to 1. A
  last line that does not end in a newline is read as one without a mark (ar.c:419).
* **Shell.** The ReadMe says "If the command is valid, execute it"; an unknown command and
  one of too many arguments are reported and executed. `cd_help` says "Change the shell
  working directory"; it is the child's (child_executor.cpp:299). An empty line starts
  the shell within itself (CS558Assign1.cpp:146), one level deeper each time. `cat f > f`
  empties f before it is read (336).

## 5. Plan

The plan of models and runs is carried out. What is left to prove is that each state of the
written controller computes its register transfers (`EnteredStatesCompute`). It would rest on
`DataPathInvariant`, a condition on the CAP lines that says which digits a state's transfers
call for, and the distinctness of the names the generator glues.

### Not modelled

* **TCP 3.2.** The threads, the timers, the receiver and the handshake are those of 3.1.
  What is new is the size of the window: a cubic function, in floating point, of the
  wall-clock time since the last loss and of each segment's round-trip time. A model
  would have to allow any window, which leaves little to say of it.
* **Speech-based playlist.** Sequential signal processing in floating point behind a
  Windows form; what could be wrong in it is numerical.
* **Incremental linear discriminant analysis.** Matrix updates in floating point.
