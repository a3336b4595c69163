---------------------------- MODULE PageTableSim ----------------------------
(***************************************************************************)
(* The page-table simulation of SYSTEM_LAB/CRON_OS_MMU/OS_MEM: the OS      *)
(* process (OS.cpp), whose work is done in two signal handlers, and the    *)
(* MMU process (MMU.cpp), which reads a trace of memory accesses.  They    *)
(* share the page table (System V shared memory) and talk by signals:      *)
(*   SIGUSR1  MMU -> OS   service my page fault; no request means "stop"   *)
(*   SIGUSR2  MMU -> OS   count this page hit                              *)
(*   SIGCONT  OS -> MMU   go on                                            *)
(* A pending signal is a bit, not a counter; a handler blocks its own      *)
(* signal only (BSD signal(), the semantics of glibc), so the two handlers *)
(* of the OS may nest.                                                     *)
(***************************************************************************)
EXTENDS Integers, FiniteSetsExt, SequencesExt

CONSTANTS
  PageCount,     \* first argument of os.out and mmu.out
  FrameCount,    \* second argument of os.out
  Policy,        \* "FIFO": fifo_victim, called today; "LFU": lfu_victim
  Lines,         \* Lines[n]: the accesses line n of the trace file may hold
  Pids,          \* process ids of the MMU processes the user starts, in turn
  PatientStart,  \* the user starts the MMU once the OS is in its idle loop
  MaxStray       \* SIGCONTs sent by somebody else, e.g. the shell's fg

ASSUME SimAssumption ==
  /\ FrameCount \in Nat \ {0}
  /\ PageCount \in Nat
  /\ PageCount > FrameCount
  /\ Policy \in {"FIFO", "LFU"}
  /\ Pids \subseteq Nat \ {0}
  /\ PatientStart \in BOOLEAN
  /\ MaxStray \in Nat

Pages    == 0 .. PageCount - 1
Frames   == 0 .. FrameCount - 1
Accesses == [page : Pages, write : BOOLEAN]

ASSUME LinesAssumption == Lines \in Seq(SUBSET Accesses)

NoFrame  == -1
NoPage   == -1
NoPid    == 0     \* a zero "requested" field; kill(0) is the sender's group
Everyone == -1    \* kill(-1) reaches every process the sender may signal

Signals == {"USR1", "USR2"}

VARIABLES
  os,             \* "booting" (pid printed), "ready" (idle loop) or "down"
  table,          \* the page table in the shared segment
  freeFrames, fifoList, lfuList, disk_access,
  pending,        \* signals pending at the OS
  act,            \* per signal, the activation of its handler
  top,            \* the handler that is running, or "none"
  mmu_pid,        \* the running MMU process, or NoPid
  fresh,          \* pids not used yet
  mpc,            \* where the MMU process is
  access,         \* the trace line it is processing
  lineNo, page_hits, page_faults,
  isSleepEnabled,
  cont,           \* SIGCONT pending at the MMU
  stray           \* SIGCONTs sent by somebody else so far

osVars  == <<os, freeFrames, fifoList, lfuList, disk_access, act, top>>
mmuVars == <<mmu_pid, fresh, mpc, access, lineNo, page_hits, page_faults,
             isSleepEnabled, stray>>
vars    == <<osVars, table, pending, mmuVars, cont>>

-----------------------------------------------------------------------------
\* struct pageTable, the locals of a handler, and the places of the programs.

Entry ==
  [valid : BOOLEAN, frame : Frames \cup {NoFrame}, dirty : BOOLEAN,
   requested : Pids \cup {NoPid}]

EmptyEntry == [valid |-> FALSE, frame |-> NoFrame, dirty |-> FALSE,
               requested |-> NoPid]
ZeroEntry  == [valid |-> FALSE, frame |-> 0, dirty |-> FALSE,
               requested |-> NoPid]

HandlerPlaces == {"idle", "scan", "evict", "writeback", "install", "resume",
                  "return"}

Activation ==
  [pc : HandlerPlaces, page : Pages \cup {NoPage}, frame : Frames \cup {NoFrame},
   victim : Pages \cup {NoPage}, pid : Pids \cup {NoPid, Everyone}]

Idle == [pc |-> "idle", page |-> NoPage, frame |-> NoFrame, victim |-> NoPage,
         pid |-> NoPid]

MmuPlaces == {"off", "fetch", "fault", "hit", "check", "sleep", "rearm",
              "touch", "done", "killed"}

NoAccess == [page |-> NoPage, write |-> FALSE]

TypeOK ==
  /\ os \in {"booting", "ready", "down"}
  /\ table \in [Pages -> Entry]
  /\ freeFrames \in [Frames -> BOOLEAN]
  /\ fifoList \in Seq(Frames)
  /\ lfuList \in [Frames -> Nat]
  /\ disk_access \in Nat
  /\ pending \subseteq Signals
  /\ act \in [Signals -> Activation]
  /\ top \in Signals \cup {"none"}
  /\ mmu_pid \in Pids \cup {NoPid}
  /\ fresh \subseteq Pids
  /\ mpc \in MmuPlaces
  /\ access \in Accesses \cup {NoAccess}
  /\ lineNo \in Nat
  /\ page_hits \in Nat
  /\ page_faults \in Nat
  /\ isSleepEnabled \in BOOLEAN
  /\ cont \in BOOLEAN
  /\ stray \in 0 .. MaxStray

Init ==
  /\ os = "booting"
  /\ table = [p \in Pages |-> ZeroEntry]
  /\ freeFrames = [f \in Frames |-> TRUE]
  /\ fifoList = <<>>
  /\ lfuList = [f \in Frames |-> 0]
  /\ disk_access = 0
  /\ pending = {}
  /\ act = [s \in Signals |-> Idle]
  /\ top = "none"
  /\ mmu_pid = NoPid
  /\ fresh = Pids
  /\ mpc = "off"
  /\ access = NoAccess
  /\ lineNo = 1
  /\ page_hits = 0
  /\ page_faults = 0
  /\ isSleepEnabled = TRUE
  /\ cont = FALSE
  /\ stray = 0

-----------------------------------------------------------------------------
(***************************************************************************)
(* The OS process.                                                         *)
(***************************************************************************)

\* createSharedMemory and createLFUList: the page table is reset, whatever a
\* process that attached earlier has put in it.
CreateTable ==
  /\ os = "booting"
  /\ os' = "ready"
  /\ table' = [p \in Pages |-> EmptyEntry]
  /\ UNCHANGED <<freeFrames, fifoList, lfuList, disk_access, act, top, pending,
                 mmuVars, cont>>

\* The handlers are registered before the table exists: a signal that arrives
\* in between dereferences a null sharedMemory.
BootCrash ==
  /\ os = "booting"
  /\ pending # {}
  /\ os' = "down"
  /\ UNCHANGED <<freeFrames, fifoList, lfuList, disk_access, act, top,
                 table, pending, mmuVars, cont>>

\* Ctrl+C at the OS: destroySharedMemory(int) ends the process at once, in the
\* middle of a handler or not.
CtrlC ==
  /\ os # "down"
  /\ os' = "down"
  /\ UNCHANGED <<freeFrames, fifoList, lfuList, disk_access, act, top,
                 table, pending, mmuVars, cont>>

Deliver(sig) ==
  /\ os = "ready"
  /\ sig \in pending
  /\ act[sig].pc = "idle"
  /\ pending' = pending \ {sig}
  /\ act' = [act EXCEPT ![sig] = [Idle EXCEPT !.pc = "scan"]]
  /\ top' = sig
  /\ UNCHANGED <<os, freeFrames, fifoList, lfuList, disk_access, table,
                 mmuVars, cont>>

At(sig, place) ==
  /\ os = "ready"
  /\ top = sig
  /\ act[sig].pc = place

RequestedPages == {p \in Pages : table[p].requested # NoPid}

\* Mutants of FreeSet: the used frames; a frame never marked as used; a search
\* that starts at 1.
FreeSetInverted == {f \in Frames : ~freeFrames[f]}
FreeSetStale    == {f \in Frames : TRUE}
FreeSetFromOne  == {f \in Frames : freeFrames[f] /\ f > 0}

\* The frames getFreeFrame looks for; it takes the first one.
FreeSet == {f \in Frames : freeFrames[f]}

\* sigusr1_handler up to getFreeFrame: the first requested page is served.
ScanFault ==
  /\ At("USR1", "scan")
  /\ RequestedPages # {}
  /\ disk_access' = disk_access + 1
  /\ act' = [act EXCEPT !["USR1"] =
       [@ EXCEPT !.page  = Min(RequestedPages),
                 !.frame = IF FreeSet = {} THEN NoFrame ELSE Min(FreeSet),
                 !.pc    = IF FreeSet = {} THEN "evict" ELSE "install",
                 !.pid   = Everyone]]
  /\ UNCHANGED <<os, freeFrames, fifoList, lfuList, top, table,
                 pending, mmuVars, cont>>

\* sigusr1_handler without a request raises SIGINT: the OS process ends.
ScanNothing ==
  /\ At("USR1", "scan")
  /\ RequestedPages = {}
  /\ os' = "down"
  /\ UNCHANGED <<freeFrames, fifoList, lfuList, disk_access, act, top,
                 table, pending, mmuVars, cont>>

\* Mutant of Candidates: the newest element of the queue.
CandidatesNewest == {k \in DOMAIN fifoList : k = Len(fifoList)}

\* fifo_victim takes the head of fifoList; lfu_victim its first element among
\* the frames with the smallest counter.
MinFrames  == {f \in Frames : \A g \in Frames : lfuList[f] <= lfuList[g]}
Candidates == {k \in DOMAIN fifoList : Policy = "LFU" => fifoList[k] \in MinFrames}

\* Mutant of Unmapped: the evicted page keeps its frame number.
UnmappedKeepsFrame(v) == [table EXCEPT ![v].valid = FALSE]
Unmapped(v) == [table EXCEPT ![v].valid = FALSE, ![v].frame = NoFrame]

\* getVictimFrame up to the sleep that simulates the write-back.  Without a
\* candidate lfu_victim answers -1 (fifo_victim would read outside its vector);
\* VictimExists says that this never happens.
Evict ==
  /\ At("USR1", "evict")
  /\ IF Candidates = {}
     THEN /\ act' = [act EXCEPT !["USR1"].pc = "resume"]
          /\ UNCHANGED <<fifoList, table>>
     ELSE LET k == Min(Candidates)
              f == fifoList[k]
              mapped == {p \in Pages : table[p].frame = f}
          IN  /\ fifoList' = RemoveAt(fifoList, k)
              /\ IF mapped = {}
                 THEN /\ act' = [act EXCEPT !["USR1"].frame = f,
                                            !["USR1"].pc = "install"]
                      /\ UNCHANGED table
                 ELSE LET v == Min(mapped)
                      IN  /\ table' = Unmapped(v)
                          /\ act' = [act EXCEPT
                               !["USR1"].frame  = f,
                               !["USR1"].victim = v,
                               !["USR1"].pc =
                                 IF table[v].dirty THEN "writeback" ELSE "install"]
  /\ UNCHANGED <<os, freeFrames, lfuList, disk_access, top, pending,
                 mmuVars, cont>>

\* Mutant of WriteBack: the dirty bit is not reset.
WriteBackKeepsDirty ==
  /\ At("USR1", "writeback")
  /\ disk_access' = disk_access + 1
  /\ act' = [act EXCEPT !["USR1"].pc = "install"]
  /\ UNCHANGED <<os, freeFrames, fifoList, lfuList, top, table, pending,
                 mmuVars, cont>>

\* The rest of getVictimFrame.
WriteBack ==
  /\ At("USR1", "writeback")
  /\ disk_access' = disk_access + 1
  /\ table' = [table EXCEPT ![act["USR1"].victim].dirty = FALSE]
  /\ act' = [act EXCEPT !["USR1"].pc = "install"]
  /\ UNCHANGED <<os, freeFrames, fifoList, lfuList, top, pending,
                 mmuVars, cont>>

\* Mutants: the request is not reset, or reset before it is read.
InstalledEntryRequested(p, f) ==
  [valid |-> TRUE, frame |-> f, dirty |-> FALSE, requested |-> table[p].requested]
RequesterReset(p) == NoPid

InstalledEntry(p, f) ==
  [valid |-> TRUE, frame |-> f, dirty |-> FALSE, requested |-> NoPid]
Requester(p) == table[p].requested

\* The frame is given to the requested page and the request is cleared.
Install ==
  /\ At("USR1", "install")
  /\ LET p == act["USR1"].page
         f == act["USR1"].frame
     IN  /\ fifoList' = Append(fifoList, f)
         /\ lfuList' = [lfuList EXCEPT ![f] = 1]
         /\ freeFrames' = [freeFrames EXCEPT ![f] = FALSE]
         /\ table' = [table EXCEPT ![p] = InstalledEntry(p, f)]
         /\ act' = [act EXCEPT !["USR1"].pid = Requester(p),
                               !["USR1"].pc = "resume"]
  /\ UNCHANGED <<os, disk_access, top, pending, mmuVars, cont>>

\* Mutant of CountFrame: the counter runs down.
CountFrameDown(f) ==
  IF f \in Frames THEN [lfuList EXCEPT ![f] = @ - 1] ELSE lfuList

\* Index -1 (a page without a frame) writes outside the vector and leaves the
\* counters alone; LfuIndexInRange says it never happens.
CountFrame(f) == IF f \in Frames THEN [lfuList EXCEPT ![f] = @ + 1] ELSE lfuList

\* updateLFUList up to its kill: the counter of the requested page's frame is
\* incremented.
CountHit ==
  /\ At("USR2", "scan")
  /\ IF RequestedPages = {}
     THEN /\ act' = [act EXCEPT !["USR2"].pc = "resume"]
          /\ UNCHANGED <<lfuList, table>>
     ELSE LET p == Min(RequestedPages)
          IN  /\ act' = [act EXCEPT !["USR2"].pc = "resume",
                                    !["USR2"].page = p,
                                    !["USR2"].pid = Requester(p)]
              /\ table' = [table EXCEPT ![p].requested = NoPid]
              /\ lfuList' = CountFrame(table[p].frame)
  /\ UNCHANGED <<os, freeFrames, fifoList, disk_access, top, pending,
                 mmuVars, cont>>

\* kill(pid, SIGCONT), the last call of both handlers.
Resume(sig) ==
  /\ At(sig, "resume")
  /\ cont' = (cont \/ (mmu_pid # NoPid /\ act[sig].pid \in {mmu_pid, Everyone}))
  /\ act' = [act EXCEPT ![sig].pc = "return"]
  /\ UNCHANGED <<os, freeFrames, fifoList, lfuList, disk_access, top,
                 table, pending, mmuVars>>

\* The handler returns to the one it interrupted, or to the idle loop.
Return(sig) ==
  /\ At(sig, "return")
  /\ act' = [act EXCEPT ![sig] = Idle]
  /\ top' = LET under == {s \in Signals \ {sig} : act[s].pc # "idle"}
            IN  IF under = {} THEN "none" ELSE CHOOSE s \in under : TRUE
  /\ UNCHANGED <<os, freeFrames, fifoList, lfuList, disk_access, table,
                 pending, mmuVars, cont>>

OsStep ==
  \/ ScanFault
  \/ ScanNothing
  \/ Evict
  \/ WriteBack
  \/ Install
  \/ CountHit
  \/ \E sig \in Signals : Resume(sig) \/ Return(sig)

-----------------------------------------------------------------------------
(***************************************************************************)
(* The MMU process.                                                        *)
(***************************************************************************)

\* main up to processMemTraceFile.  shmget creates the segment if need be.
Attach(pid) ==
  /\ mmu_pid = NoPid
  /\ mpc \in {"off", "killed"}
  /\ pid \in fresh
  /\ os # "down"
  /\ PatientStart => os = "ready"
  /\ mmu_pid' = pid
  /\ fresh' = fresh \ {pid}
  /\ mpc' = "fetch"
  /\ lineNo' = 1
  /\ page_hits' = 0
  /\ page_faults' = 0
  /\ isSleepEnabled' = TRUE
  /\ UNCHANGED <<os, freeFrames, fifoList, lfuList, disk_access, act, top, table,
                 pending, access, cont, stray>>

\* One line of the trace: the page is requested, and the access counted.
Access(a) ==
  /\ mpc = "fetch"
  /\ lineNo <= Len(Lines)
  /\ a \in Lines[lineNo]
  /\ access' = a
  /\ table' = [table EXCEPT ![a.page].requested = mmu_pid]
  /\ \/ /\ ~table[a.page].valid
        /\ page_faults' = page_faults + 1
        /\ mpc' = "fault"
        /\ UNCHANGED page_hits
     \/ /\ table[a.page].valid
        /\ page_hits' = page_hits + 1
        /\ mpc' = "hit"
        /\ UNCHANGED page_faults
  /\ UNCHANGED <<osVars, pending, mmu_pid, fresh, lineNo, isSleepEnabled, cont,
                 stray>>

Send(sig) == pending' = IF os = "down" THEN pending ELSE pending \cup {sig}

\* Mutant of SignalOs: the two signals are swapped.
SignalOsSwapped ==
  /\ \/ mpc = "fault" /\ Send("USR2")
     \/ mpc = "hit" /\ Send("USR1")
  /\ mpc' = "check"
  /\ UNCHANGED <<osVars, table, mmu_pid, fresh, access, lineNo, page_hits,
                 page_faults, isSleepEnabled, cont, stray>>

\* kill(os_pid, SIGUSR1) after a fault, kill(os_pid, SIGUSR2) after a hit.
SignalOs ==
  /\ \/ mpc = "fault" /\ Send("USR1")
     \/ mpc = "hit" /\ Send("USR2")
  /\ mpc' = "check"
  /\ UNCHANGED <<osVars, table, mmu_pid, fresh, access, lineNo, page_hits,
                 page_faults, isSleepEnabled, cont, stray>>

\* Mutant of CheckFlag: the MMU does not wait.
CheckFlagNever ==
  /\ mpc = "check"
  /\ mpc' = "rearm"
  /\ UNCHANGED <<osVars, table, pending, mmu_pid, fresh, access, lineNo,
                 page_hits, page_faults, isSleepEnabled, cont, stray>>

\* while(isSleepEnabled) sleep(3): the test ...
CheckFlag ==
  /\ mpc = "check"
  /\ mpc' = IF isSleepEnabled THEN "sleep" ELSE "rearm"
  /\ UNCHANGED <<osVars, table, pending, mmu_pid, fresh, access, lineNo,
                 page_hits, page_faults, isSleepEnabled, cont, stray>>

\* Mutant of SleepTimeout: the signal is sent again.
SleepTimeoutResends ==
  /\ mpc = "sleep"
  /\ mpc' = "check"
  /\ Send("USR1")
  /\ UNCHANGED <<osVars, table, mmu_pid, fresh, access, lineNo, page_hits,
                 page_faults, isSleepEnabled, cont, stray>>

\* ... and the end of the sleep by its timeout.
SleepTimeout ==
  /\ mpc = "sleep"
  /\ mpc' = "check"
  /\ UNCHANGED <<osVars, table, pending, mmu_pid, fresh, access, lineNo,
                 page_hits, page_faults, isSleepEnabled, cont, stray>>

\* Mutant of TakeCont: the handler leaves the flag alone.
TakeContOnlyWakes ==
  /\ cont
  /\ mmu_pid # NoPid
  /\ cont' = FALSE
  /\ mpc' = IF mpc = "sleep" THEN "check" ELSE mpc
  /\ UNCHANGED <<osVars, table, pending, mmu_pid, fresh, access, lineNo,
                 page_hits, page_faults, isSleepEnabled, stray>>

\* sigcont_handler, wherever the MMU process is; it interrupts the sleep.
TakeCont ==
  /\ cont
  /\ mmu_pid # NoPid
  /\ cont' = FALSE
  /\ isSleepEnabled' = FALSE
  /\ mpc' = IF mpc = "sleep" THEN "check" ELSE mpc
  /\ UNCHANGED <<osVars, table, pending, mmu_pid, fresh, access, lineNo,
                 page_hits, page_faults, stray>>

Rearm ==
  /\ mpc = "rearm"
  /\ isSleepEnabled' = TRUE
  /\ mpc' = "touch"
  /\ UNCHANGED <<osVars, table, pending, mmu_pid, fresh, access, lineNo,
                 page_hits, page_faults, cont, stray>>

\* Mutant of Touch: a read makes the page clean.
TouchAssigns ==
  /\ mpc = "touch"
  /\ table' = [table EXCEPT ![access.page].dirty = access.write]
  /\ lineNo' = lineNo + 1
  /\ mpc' = "fetch"
  /\ UNCHANGED <<osVars, pending, mmu_pid, fresh, access, page_hits,
                 page_faults, isSleepEnabled, cont, stray>>

\* The access itself: a write makes the page dirty.
Touch ==
  /\ mpc = "touch"
  /\ table' = IF access.write THEN [table EXCEPT ![access.page].dirty = TRUE]
                              ELSE table
  /\ lineNo' = lineNo + 1
  /\ mpc' = "fetch"
  /\ UNCHANGED <<osVars, pending, mmu_pid, fresh, access, page_hits,
                 page_faults, isSleepEnabled, cont, stray>>

\* Mutant of Finish: the MMU exits without a word.
FinishSilent ==
  /\ mpc = "fetch"
  /\ lineNo > Len(Lines)
  /\ mpc' = "done"
  /\ mmu_pid' = NoPid
  /\ cont' = FALSE
  /\ UNCHANGED <<osVars, table, pending, fresh, access, lineNo, page_hits,
                 page_faults, isSleepEnabled, stray>>

\* End of the trace: the last SIGUSR1, and the process exits.
Finish ==
  /\ mpc = "fetch"
  /\ lineNo > Len(Lines)
  /\ Send("USR1")
  /\ mpc' = "done"
  /\ mmu_pid' = NoPid
  /\ cont' = FALSE
  /\ UNCHANGED <<osVars, table, fresh, access, lineNo, page_hits, page_faults,
                 isSleepEnabled, stray>>

\* The user ends the MMU process (it has no handler for SIGINT).
KillMmu ==
  /\ mmu_pid # NoPid
  /\ mpc' = "killed"
  /\ mmu_pid' = NoPid
  /\ cont' = FALSE
  /\ UNCHANGED <<osVars, table, pending, fresh, access, lineNo, page_hits,
                 page_faults, isSleepEnabled, stray>>

\* A SIGCONT that the OS did not send.
StrayCont ==
  /\ mmu_pid # NoPid
  /\ stray < MaxStray
  /\ stray' = stray + 1
  /\ cont' = TRUE
  /\ UNCHANGED <<osVars, table, pending, mmu_pid, fresh, mpc, access, lineNo,
                 page_hits, page_faults, isSleepEnabled>>

MmuStep ==
  \/ SignalOs
  \/ CheckFlag
  \/ SleepTimeout
  \/ Rearm
  \/ Touch
  \/ Finish
  \/ \E a \in Accesses : Access(a)

\* Nothing is left to run.
Ended ==
  /\ os = "down"
  /\ mmu_pid = NoPid
  /\ UNCHANGED vars

Next ==
  \/ CreateTable
  \/ BootCrash
  \/ CtrlC
  \/ \E sig \in Signals : Deliver(sig)
  \/ OsStep
  \/ \E pid \in Pids : Attach(pid)
  \/ MmuStep
  \/ TakeCont
  \/ KillMmu
  \/ StrayCont
  \/ Ended

Spec == Init /\ [][Next]_vars

\* The kernel schedules both processes and delivers every pending signal that
\* is not blocked; nothing makes the user start, stop or interrupt a process.
Fairness ==
  /\ WF_vars(OsStep)
  /\ \A sig \in Signals : WF_vars(Deliver(sig))
  /\ WF_vars(MmuStep)
  /\ WF_vars(TakeCont)

FairSpec == Spec /\ Fairness

-----------------------------------------------------------------------------
(***************************************************************************)
(* Safety.  The first three hold whatever the user does; the others are    *)
(* about the use the ReadMe describes: one MMU process, started in time    *)
(* and woken by the OS alone.                                              *)
(***************************************************************************)

\* The frame the fault handler holds: taken from its victim, not yet installed.
HeldFrames ==
  IF act["USR1"].pc \in {"writeback", "install"} THEN {act["USR1"].frame} ELSE {}

\* fifoList lists the frames in use, each once, but for the one in the fault
\* handler's hands: no frame is leaked and none is queued twice (fifo_victim,
\* lfu_victim, sigusr1_handler).
QueueMatchesFrames ==
  /\ IsInjective(fifoList)
  /\ \A f \in Frames : ~freeFrames[f] => f \in ToSet(fifoList) \cup HeldFrames
  /\ \A f \in ToSet(fifoList) : ~freeFrames[f] /\ f \notin HeldFrames

\* Two pages never share a frame, and the frame of a resident page can be
\* chosen as a victim (the page loop of getVictimFrame, sigusr1_handler).
NoSharedFrame ==
  \A p \in Pages : table[p].valid =>
    /\ table[p].frame \in ToSet(fifoList)
    /\ \A q \in Pages : table[q].frame = table[p].frame => q = p

\* getVictimFrame finds a victim: "Error in selecting the victim frame" and the
\* kill(-1) that follows it are unreachable.
VictimExists == At("USR1", "evict") => Candidates # {}

\* The handlers wake the process that asked: never kill(0, SIGCONT), which is
\* the OS's own process group, and never kill(-1, SIGCONT), which is everybody.
ResumesRequester ==
  \A sig \in Signals : act[sig].pc = "resume" => act[sig].pid \in Pids

\* "only 1 non zero request at a time" (OS.cpp:157).
OneRequest ==
  \A p, q \in RequestedPages : p = q

\* updateLFUList never indexes the counters with the frame of an absent page.
LfuIndexInRange ==
  At("USR2", "scan") =>
    \A p \in RequestedPages : table[p].valid /\ table[p].frame \in Frames

\* The OS raises SIGINT on itself only for the MMU's last SIGUSR1.
StopsOnlyWhenDone ==
  At("USR1", "scan") /\ RequestedPages = {} => mpc = "done"

\* A handler interrupts the other one only once that one has served its request
\* and sent its SIGCONT.
NestsOnlyInTail ==
  \A s, t \in Signals :
    s # t /\ act[s].pc \notin {"idle", "return"} => act[t].pc \in {"idle", "return"}

\* A page that was written is in memory, or on its way to the disk.
DirtyIsResident ==
  \A p \in Pages : table[p].dirty =>
    \/ table[p].valid
    \/ act["USR1"].pc = "writeback" /\ act["USR1"].victim = p

\* Between two accesses the statistics of the two processes agree: the faults
\* the MMU counted filled the frames, each cost one disk access, and at most
\* each fault after the FrameCount first ones cost a second one.
StatisticsAgree ==
  mpc = "fetch" =>
    /\ Len(fifoList) = Min({page_faults, FrameCount})
    /\ disk_access >= page_faults
    /\ disk_access <= page_faults + Max({0, page_faults - FrameCount})
    /\ page_hits + page_faults = lineNo - 1

-----------------------------------------------------------------------------
(***************************************************************************)
(* Action and liveness properties.                                         *)
(***************************************************************************)

\* A page is marked clean only after the disk access that saves it.
CleanedOnlyByWriteBack ==
  [][\A p \in Pages : table[p].dirty /\ ~table'[p].dirty =>
       At("USR1", "writeback") /\ act["USR1"].victim = p
       /\ disk_access' = disk_access + 1]_vars

\* The check-then-sleep loop never misses its wake-up: a waiting MMU goes on,
\* unless the user ends one of the two processes.
WaitEnds ==
  (mpc \in {"fault", "hit", "check", "sleep"}) ~>
    (mpc \in {"rearm", "killed"} \/ os = "down")

\* After the trace the OS destroys the table and ends.
OsEnds == (mpc = "done") ~> (os = "down")
=============================================================================
