-------------------------- MODULE PageTableProofs --------------------------
(***************************************************************************)
(* Theorems about PageTableSim, for every number of pages and frames, both *)
(* replacement policies, every trace file and every set of process ids;    *)
(* about the protocol of the two processes and the demand pager they       *)
(* implement, for one MMU process.                                         *)
(***************************************************************************)
EXTENDS PageTableRefinement, TraceAddress, ListLemmas, FunctionTheorems

-----------------------------------------------------------------------------
(***************************************************************************)
(* Type correctness.                                                       *)
(***************************************************************************)

\* The locals of a fault handler that has chosen its page and its frame.
HandlerLocals ==
  /\ act["USR1"].pc \in {"evict", "writeback", "install"} =>
       act["USR1"].page \in Pages
  /\ act["USR1"].pc \in {"writeback", "install"} => act["USR1"].frame \in Frames
  /\ act["USR1"].pc = "writeback" => act["USR1"].victim \in Pages
  /\ act["USR2"].pc \notin {"evict", "writeback", "install"}

LEMMA RequestedPage ==
  ASSUME RequestedPages # {}
  PROVE  Min(RequestedPages) \in RequestedPages /\ Min(RequestedPages) \in Pages
<1>1. RequestedPages \subseteq Nat /\ RequestedPages \subseteq Pages
  BY SimAssumption DEF RequestedPages, Pages
<1> QED BY <1>1, LeastNat

LEMMA FreeFrame ==
  ASSUME FreeSet # {}
  PROVE  Min(FreeSet) \in FreeSet /\ Min(FreeSet) \in Frames
<1>1. FreeSet \subseteq Nat /\ FreeSet \subseteq Frames
  BY SimAssumption DEF FreeSet, Frames
<1> QED BY <1>1, LeastNat

LEMMA CandidateFacts ==
  ASSUME TypeOK, Candidates # {}
  PROVE  /\ Min(Candidates) \in Candidates
         /\ Min(Candidates) \in 1 .. Len(fifoList)
         /\ fifoList[Min(Candidates)] \in Frames
<1>1. Len(fifoList) \in Nat /\ DOMAIN fifoList = 1 .. Len(fifoList)
  BY LenProperties DEF TypeOK
<1>2. Candidates \subseteq Nat /\ Candidates \subseteq 1 .. Len(fifoList)
  BY <1>1 DEF Candidates
<1>3. Min(Candidates) \in Candidates
  BY <1>2, LeastNat
<1> QED BY <1>2, <1>3, ElementOfSeq DEF TypeOK

LEMMA EntryUpdates ==
  ASSUME NEW e \in Entry
  PROVE  /\ [e EXCEPT !.dirty = TRUE] \in Entry
         /\ [e EXCEPT !.dirty = FALSE] \in Entry
         /\ [e EXCEPT !.valid = FALSE, !.frame = NoFrame] \in Entry
         /\ \A pid \in Pids \cup {NoPid} : [e EXCEPT !.requested = pid] \in Entry
  BY DEF Entry

LEMMA TypeInit == Init => TypeOK /\ HandlerLocals
<1>1. <<>> \in Seq(Frames)
  BY EmptySeq
<1> QED
  BY <1>1, SimAssumption DEF Init, TypeOK, HandlerLocals, Entry, ZeroEntry, Activation, Idle,
     HandlerPlaces, MmuPlaces, NoAccess, Accesses, Signals, NoFrame, NoPage,
     NoPid, Everyone, Frames, Pages

LEMMA TypeNext ==
  TypeOK /\ HandlerLocals /\ [Next]_vars => (TypeOK /\ HandlerLocals)'
<1> SUFFICES ASSUME TypeOK, HandlerLocals, [Next]_vars
             PROVE  (TypeOK /\ HandlerLocals)'
  OBVIOUS
<1> USE DEF Signals
<1>1. CASE CreateTable
  BY <1>1 DEF CreateTable, mmuVars, TypeOK, HandlerLocals, Entry, EmptyEntry, NoFrame
<1>2. CASE BootCrash
  BY <1>2 DEF BootCrash, mmuVars, TypeOK, HandlerLocals
<1>3. CASE CtrlC
  BY <1>3 DEF CtrlC, mmuVars, TypeOK, HandlerLocals
<1>4. ASSUME NEW sig \in Signals, Deliver(sig)
      PROVE  (TypeOK /\ HandlerLocals)'
  <2>1. [Idle EXCEPT !.pc = "scan"] \in Activation
    BY DEF Idle, Activation, HandlerPlaces
  <2> QED BY <1>4, <2>1 DEF Deliver, mmuVars, TypeOK, HandlerLocals, Idle
<1>5. CASE ScanFault
  <2>1. Min(RequestedPages) \in Pages
    BY <1>5, RequestedPage DEF ScanFault
  <2>2. FreeSet # {} => Min(FreeSet) \in Frames
    BY FreeFrame
  <2>3. act["USR1"] \in Activation
    BY DEF TypeOK
  <2>4. act' \in [Signals -> Activation] /\ HandlerLocals'
    BY <1>5, <2>1, <2>2, <2>3 DEF ScanFault, TypeOK, HandlerLocals, Activation,
       HandlerPlaces, NoFrame
  <2> QED BY <1>5, <2>4 DEF ScanFault, mmuVars, TypeOK
<1>6. CASE ScanNothing
  BY <1>6 DEF ScanNothing, mmuVars, TypeOK, HandlerLocals
<1>7. CASE Evict
  <2>1. CASE Candidates = {}
    <3>1. act' = [act EXCEPT !["USR1"].pc = "resume"]
      BY <1>7, <2>1 DEF Evict
    <3>2. [act["USR1"] EXCEPT !.pc = "resume"] \in Activation
      BY DEF TypeOK, Activation, HandlerPlaces
    <3>3. act' \in [Signals -> Activation] /\ HandlerLocals'
      BY <3>1, <3>2 DEF TypeOK, HandlerLocals, Activation
    <3> QED BY <1>7, <2>1, <3>3 DEF Evict, mmuVars, TypeOK
  <2>2. CASE Candidates # {}
    <3> DEFINE k == Min(Candidates)
               f == fifoList[k]
               mapped == {p \in Pages : table[p].frame = f}
               v == Min(mapped)
    <3>1. k \in 1 .. Len(fifoList) /\ f \in Frames
      BY <2>2, CandidateFacts
    <3>2. RemoveAt(fifoList, k) \in Seq(Frames)
      BY <3>1, RemoveAtProperties DEF TypeOK
    <3>3. mapped # {} => v \in Pages
      <4>1. mapped \subseteq Nat /\ mapped \subseteq Pages
        BY SimAssumption DEF Pages
      <4> HIDE DEF mapped
      <4> QED BY <4>1, LeastNat
    <3> HIDE DEF k, f, mapped, v
    <3>4. fifoList' \in Seq(Frames)
      BY <1>7, <2>2, <3>2 DEF Evict, k
    <3>5. CASE mapped = {}
      <4>1. /\ act' = [act EXCEPT !["USR1"].frame = f, !["USR1"].pc = "install"]
            /\ UNCHANGED table
        BY <1>7, <2>2, <3>5 DEF Evict, k, f, mapped
      <4>2. [act["USR1"] EXCEPT !.frame = f, !.pc = "install"] \in Activation
        BY <3>1 DEF TypeOK, Activation, HandlerPlaces
      <4>3. act' \in [Signals -> Activation] /\ HandlerLocals'
        BY <1>7, <3>1, <4>1, <4>2 DEF Evict, At, TypeOK, HandlerLocals, Activation
      <4> QED BY <1>7, <3>4, <4>1, <4>3 DEF Evict, mmuVars, TypeOK
    <3>6. CASE mapped # {}
      <4> DEFINE place == IF table[v].dirty THEN "writeback" ELSE "install"
      <4>1. /\ table' = [table EXCEPT ![v].valid = FALSE, ![v].frame = NoFrame]
            /\ act' = [act EXCEPT !["USR1"].frame = f, !["USR1"].victim = v,
                                  !["USR1"].pc = place]
        BY <1>7, <2>2, <3>6 DEF Evict, Unmapped, k, f, mapped, v
      <4>2. place \in {"writeback", "install"}
        OBVIOUS
      <4> HIDE DEF place
      <4>3. [act["USR1"] EXCEPT !.frame = f, !.victim = v, !.pc = place] \in Activation
        BY <3>1, <3>3, <3>6, <4>2 DEF TypeOK, Activation, HandlerPlaces
      <4>4. act' \in [Signals -> Activation] /\ HandlerLocals'
        BY <1>7, <3>1, <3>3, <3>6, <4>1, <4>2, <4>3
           DEF Evict, At, TypeOK, HandlerLocals, Activation
      <4>5. [table[v] EXCEPT !.valid = FALSE, !.frame = NoFrame] \in Entry
        BY <3>3, <3>6, EntryUpdates DEF TypeOK
      <4>6. table' \in [Pages -> Entry]
        BY <3>3, <3>6, <4>1, <4>5 DEF TypeOK
      <4> QED BY <1>7, <3>4, <4>4, <4>6 DEF Evict, mmuVars, TypeOK
    <3> QED BY <3>5, <3>6
  <2> QED BY <2>1, <2>2
<1>8. CASE WriteBack
  <2>1. act["USR1"].victim \in Pages /\ act["USR1"].page \in Pages
        /\ act["USR1"].frame \in Frames
    BY <1>8 DEF WriteBack, At, HandlerLocals
  <2>2. [table[act["USR1"].victim] EXCEPT !.dirty = FALSE] \in Entry
    BY <2>1, EntryUpdates DEF TypeOK
  <2>3. table' \in [Pages -> Entry]
    BY <1>8, <2>1, <2>2 DEF WriteBack, TypeOK
  <2>4. [act["USR1"] EXCEPT !.pc = "install"] \in Activation
    BY DEF TypeOK, Activation, HandlerPlaces
  <2>5. act' \in [Signals -> Activation] /\ HandlerLocals'
    BY <1>8, <2>1, <2>4 DEF WriteBack, TypeOK, HandlerLocals, Activation
  <2> QED BY <1>8, <2>3, <2>5 DEF WriteBack, mmuVars, TypeOK
<1>9. CASE Install
  <2> DEFINE p == act["USR1"].page
             f == act["USR1"].frame
             e == [valid |-> TRUE, frame |-> f, dirty |-> FALSE, requested |-> NoPid]
  <2>1. p \in Pages /\ f \in Frames
    BY <1>9 DEF Install, At, HandlerLocals
  <2>2. /\ fifoList' = Append(fifoList, f)
        /\ lfuList' = [lfuList EXCEPT ![f] = 1]
        /\ freeFrames' = [freeFrames EXCEPT ![f] = FALSE]
        /\ table' = [table EXCEPT ![p] = e]
        /\ act' = [act EXCEPT !["USR1"].pid = table[p].requested,
                              !["USR1"].pc = "resume"]
    BY <1>9 DEF Install, InstalledEntry, Requester
  <2>3. e \in Entry
    BY <2>1 DEF Entry
  <2> HIDE DEF p, f, e
  <2>4. /\ fifoList' \in Seq(Frames)
        /\ lfuList' \in [Frames -> Nat]
        /\ freeFrames' \in [Frames -> BOOLEAN]
        /\ table' \in [Pages -> Entry]
    BY <2>1, <2>2, <2>3, AppendProperties DEF TypeOK
  <2>5. table[p].requested \in Pids \cup {NoPid}
    BY <2>1 DEF TypeOK, Entry
  <2>6. [act["USR1"] EXCEPT !.pid = table[p].requested, !.pc = "resume"] \in Activation
    BY <2>5 DEF TypeOK, Activation, HandlerPlaces
  <2>7. act' \in [Signals -> Activation] /\ HandlerLocals'
    BY <2>2, <2>6 DEF TypeOK, HandlerLocals, Activation
  <2> QED BY <1>9, <2>4, <2>7 DEF Install, mmuVars, TypeOK
<1>10. CASE CountHit
  <2>1. CASE RequestedPages = {}
    <3>1. [act["USR2"] EXCEPT !.pc = "resume"] \in Activation
      BY DEF TypeOK, Activation, HandlerPlaces
    <3>2. act' = [act EXCEPT !["USR2"].pc = "resume"]
      BY <1>10, <2>1 DEF CountHit
    <3>3. act' \in [Signals -> Activation] /\ HandlerLocals'
      BY <3>1, <3>2 DEF TypeOK, HandlerLocals, Activation
    <3> QED BY <1>10, <2>1, <3>3 DEF CountHit, mmuVars, TypeOK
  <2>2. CASE RequestedPages # {}
    <3> DEFINE p == Min(RequestedPages)
               f == table[p].frame
    <3>1. /\ act' = [act EXCEPT !["USR2"].pc = "resume", !["USR2"].page = p,
                                !["USR2"].pid = table[p].requested]
          /\ table' = [table EXCEPT ![p].requested = NoPid]
          /\ lfuList' = IF f \in Frames THEN [lfuList EXCEPT ![f] = @ + 1]
                                         ELSE lfuList
      BY <1>10, <2>2 DEF CountHit, CountFrame, Requester
    <3>2. p \in Pages
      BY <2>2, RequestedPage
    <3> HIDE DEF p, f
    <3>3. lfuList' \in [Frames -> Nat]
      BY <3>1 DEF TypeOK
    <3>4. /\ table[p].requested \in Pids \cup {NoPid}
          /\ [table[p] EXCEPT !.requested = NoPid] \in Entry
      BY <3>2 DEF TypeOK, Entry
    <3>5. table' \in [Pages -> Entry]
      BY <3>1, <3>2, <3>4 DEF TypeOK
    <3>6. [act["USR2"] EXCEPT !.pc = "resume", !.page = p,
                              !.pid = table[p].requested] \in Activation
      BY <3>2, <3>4 DEF TypeOK, Activation, HandlerPlaces
    <3>7. act' \in [Signals -> Activation] /\ HandlerLocals'
      BY <3>1, <3>6 DEF TypeOK, HandlerLocals, Activation
    <3> QED BY <1>10, <3>3, <3>5, <3>7 DEF CountHit, mmuVars, TypeOK
  <2> QED BY <2>1, <2>2
<1>11. ASSUME NEW sig \in Signals, Resume(sig)
       PROVE  (TypeOK /\ HandlerLocals)'
  <2>1. cont' \in BOOLEAN
    BY <1>11 DEF Resume
  <2>2. act[sig] \in Activation /\ [act[sig] EXCEPT !.pc = "return"] \in Activation
    BY DEF TypeOK, Activation, HandlerPlaces
  <2>3. act' \in [Signals -> Activation] /\ HandlerLocals'
    BY <1>11, <2>2 DEF Resume, TypeOK, HandlerLocals, Activation
  <2> QED BY <1>11, <2>1, <2>3 DEF Resume, mmuVars, TypeOK
<1>12. ASSUME NEW sig \in Signals, Return(sig)
       PROVE  (TypeOK /\ HandlerLocals)'
  <2>1. Idle \in Activation
    BY DEF Idle, Activation, HandlerPlaces
  <2>2. top' \in Signals \cup {"none"}
    BY <1>12 DEF Return
  <2> QED BY <1>12, <2>1, <2>2 DEF Return, mmuVars, TypeOK, HandlerLocals, Idle
<1>13. ASSUME NEW pid \in Pids, Attach(pid)
       PROVE  (TypeOK /\ HandlerLocals)'
  BY <1>13 DEF Attach, TypeOK, HandlerLocals, MmuPlaces
<1>14. ASSUME NEW a \in Accesses, Access(a)
       PROVE  (TypeOK /\ HandlerLocals)'
  <2>1. table' \in [Pages -> Entry]
    <3>1. a.page \in Pages
      BY DEF Accesses
    <3>2. [table[a.page] EXCEPT !.requested = mmu_pid] \in Entry
      BY <3>1, EntryUpdates DEF TypeOK
    <3> QED BY <1>14, <3>1, <3>2 DEF Access, TypeOK
  <2> QED BY <1>14, <2>1 DEF Access, osVars, TypeOK, HandlerLocals, MmuPlaces
<1>15. CASE SignalOs
  <2>1. pending' \subseteq Signals
    BY <1>15 DEF SignalOs, Send, TypeOK
  <2> QED BY <1>15, <2>1 DEF SignalOs, osVars, TypeOK, HandlerLocals, MmuPlaces
<1>16. CASE CheckFlag
  BY <1>16 DEF CheckFlag, osVars, TypeOK, HandlerLocals, MmuPlaces
<1>17. CASE SleepTimeout
  BY <1>17 DEF SleepTimeout, osVars, TypeOK, HandlerLocals, MmuPlaces
<1>18. CASE TakeCont
  BY <1>18 DEF TakeCont, osVars, TypeOK, HandlerLocals, MmuPlaces
<1>19. CASE Rearm
  BY <1>19 DEF Rearm, osVars, TypeOK, HandlerLocals, MmuPlaces
<1>20. CASE Touch
  <2>1. table' \in [Pages -> Entry]
    <3>1. ASSUME NEW p \in Pages PROVE [table[p] EXCEPT !.dirty = TRUE] \in Entry
      BY EntryUpdates DEF TypeOK
    <3>2. table' = table \/ table' = [table EXCEPT ![access.page].dirty = TRUE]
      BY <1>20 DEF Touch
    <3> QED BY <3>1, <3>2 DEF TypeOK
  <2> QED BY <1>20, <2>1 DEF Touch, osVars, TypeOK, HandlerLocals, MmuPlaces
<1>21. CASE Finish
  BY <1>21 DEF Finish, Send, osVars, TypeOK, HandlerLocals, MmuPlaces
<1>22. CASE KillMmu
  BY <1>22 DEF KillMmu, osVars, TypeOK, HandlerLocals, MmuPlaces
<1>23. CASE StrayCont
  BY <1>23, SimAssumption DEF StrayCont, osVars, TypeOK, HandlerLocals
<1>24. CASE UNCHANGED vars
  BY <1>24 DEF vars, osVars, mmuVars, TypeOK, HandlerLocals
<1> QED
  BY <1>1, <1>2, <1>3, <1>4, <1>5, <1>6, <1>7, <1>8, <1>9, <1>10, <1>11, <1>12,
     <1>13, <1>14, <1>15, <1>16, <1>17, <1>18, <1>19, <1>20, <1>21, <1>22,
     <1>23, <1>24 DEF Next, OsStep, MmuStep, Ended

\* Every variable keeps its type, and a handler that has got past its choice of a
\* page or of a frame holds one (the locals of sigusr1_handler and getVictimFrame).
THEOREM TypeCorrect == Spec => [](TypeOK /\ HandlerLocals)
<1>1. Init => TypeOK /\ HandlerLocals
  BY TypeInit
<1>2. TypeOK /\ HandlerLocals /\ [Next]_vars => (TypeOK /\ HandlerLocals)'
  BY TypeNext
<1> QED BY <1>1, <1>2, PTL DEF Spec

-----------------------------------------------------------------------------
(***************************************************************************)
(* The frame table.  QueueMatchesFrames, NoSharedFrame and VictimExists    *)
(* are not inductive: the invariant below adds what is true of a page      *)
(* table that is not ready, of a page without a frame, of the frame in the *)
(* fault handler's hands, and of the frames when a victim is sought.       *)
(***************************************************************************)

BootState ==
  os = "booting" =>
    /\ \A s \in Signals : act[s].pc = "idle"
    /\ fifoList = <<>>
    /\ \A f \in Frames : freeFrames[f]
    /\ \A p \in Pages : ~table[p].valid

LinkedEntries ==
  os = "ready" => \A p \in Pages : table[p].frame \in Frames => table[p].valid

HeldUnmapped ==
  os = "ready" => \A p \in Pages : table[p].frame \notin HeldFrames

FullWhenEvicting ==
  act["USR1"].pc = "evict" => \A f \in Frames : ~freeFrames[f]

FrameInv ==
  /\ BootState
  /\ LinkedEntries
  /\ HeldUnmapped
  /\ FullWhenEvicting
  /\ QueueMatchesFrames
  /\ NoSharedFrame

\* Steps that leave alone everything FrameInv speaks of.
LEMMA FrameKept ==
  ASSUME TypeOK, FrameInv, os' \in {os, "down"},
         fifoList' = fifoList, freeFrames' = freeFrames,
         \A p \in Pages : /\ table'[p].valid = table[p].valid
                          /\ table'[p].frame = table[p].frame,
         /\ act'["USR1"].pc = act["USR1"].pc
         /\ act'["USR1"].frame = act["USR1"].frame,
         os = "booting" => act' = act
  PROVE  FrameInv'
<1>1. HeldFrames' = HeldFrames
  BY DEF HeldFrames
<1>2. BootState' /\ LinkedEntries' /\ HeldUnmapped' /\ FullWhenEvicting'
  BY <1>1 DEF FrameInv, BootState, LinkedEntries, HeldUnmapped, FullWhenEvicting
<1>3. QueueMatchesFrames'
  BY <1>1 DEF FrameInv, QueueMatchesFrames
<1>4. NoSharedFrame'
  BY DEF FrameInv, NoSharedFrame
<1> QED BY <1>2, <1>3, <1>4 DEF FrameInv

\* Steps of the fault handler between two places where it holds no frame.
LEMMA FrameKeptEmptyHanded ==
  ASSUME TypeOK, FrameInv, os' = os, os = "ready",
         fifoList' = fifoList, freeFrames' = freeFrames, table' = table,
         act["USR1"].pc \notin {"writeback", "install"},
         act'["USR1"].pc \notin {"writeback", "install"},
         FullWhenEvicting'
  PROVE  FrameInv'
<1>1. HeldFrames = {} /\ HeldFrames' = {}
  BY DEF HeldFrames
<1>2. BootState' /\ LinkedEntries' /\ HeldUnmapped'
  BY <1>1 DEF FrameInv, BootState, LinkedEntries, HeldUnmapped
<1>3. QueueMatchesFrames'
  BY <1>1 DEF FrameInv, QueueMatchesFrames
<1>4. NoSharedFrame'
  BY DEF FrameInv, NoSharedFrame
<1> QED BY <1>2, <1>3, <1>4 DEF FrameInv

\* With every frame in use, each of them queued and none in the handler's hands,
\* both policies find a victim: the queue is not empty, and a frame with the
\* smallest counter is in it.
LEMMA SomeCandidate ==
  ASSUME TypeOK, FrameInv, At("USR1", "evict")
  PROVE  Candidates # {}
<1>1. \A f \in Frames : f \in ToSet(fifoList)
  BY DEF FrameInv, FullWhenEvicting, QueueMatchesFrames, HeldFrames, At
<1> DEFINE Counters == {lfuList[f] : f \in Frames}
<1>2. 0 \in Frames
  BY SimAssumption DEF Frames
<1>3. Counters \subseteq Nat /\ Counters # {}
  BY <1>2 DEF TypeOK
<1>4. PICK m \in Frames : \A g \in Frames : lfuList[m] <= lfuList[g]
  <2>1. Min(Counters) \in Counters /\ \A n \in Counters : Min(Counters) <= n
    <3> HIDE DEF Counters
    <3> QED BY <1>3, LeastNat
  <2>2. PICK m \in Frames : lfuList[m] = Min(Counters)
    BY <2>1
  <2>3. \A g \in Frames : lfuList[g] \in Counters
    OBVIOUS
  <2> HIDE DEF Counters
  <2> QED BY <2>1, <2>2, <2>3
<1>5. PICK k \in DOMAIN fifoList : fifoList[k] = m
  BY <1>1 DEF ToSet
<1>6. k \in Candidates
  BY <1>4, <1>5 DEF Candidates, MinFrames
<1> QED BY <1>6

LEMMA FrameEvict ==
  ASSUME TypeOK, HandlerLocals, FrameInv, Evict
  PROVE  FrameInv'
<1> DEFINE k == Min(Candidates)
           f == fifoList[k]
           mapped == {p \in Pages : table[p].frame = f}
           v == Min(mapped)
<1>1. At("USR1", "evict") /\ os = "ready" /\ os' = "ready"
      /\ freeFrames' = freeFrames
  BY DEF Evict, At
<1>2. Candidates # {}
  BY <1>1, SomeCandidate
<1>3. k \in 1 .. Len(fifoList) /\ f \in Frames
  BY <1>2, CandidateFacts
<1>4. /\ IsInjective(RemoveAt(fifoList, k))
      /\ ToSet(RemoveAt(fifoList, k)) = ToSet(fifoList) \ {f}
      /\ f \in ToSet(fifoList)
  <2>1. k \in DOMAIN fifoList
    BY <1>3, LenProperties DEF TypeOK
  <2> QED BY <1>3, <2>1, RemoveAtDistinct DEF TypeOK, FrameInv, QueueMatchesFrames, ToSet
<1>5. mapped # {} => v \in mapped
  <2>1. mapped \subseteq Nat
    BY SimAssumption DEF Pages
  <2> HIDE DEF mapped
  <2> QED BY <2>1, LeastNat
<1>6. /\ fifoList' = RemoveAt(fifoList, k)
      /\ act'["USR1"].frame = f
      /\ act'["USR1"].pc \in {"writeback", "install"}
      /\ mapped = {} => table' = table
      /\ mapped # {} =>
           table' = [table EXCEPT ![v].valid = FALSE, ![v].frame = NoFrame]
  <2>1. act \in [Signals -> Activation]
    BY DEF TypeOK
  <2>2. CASE mapped = {}
    BY <1>2, <2>1, <2>2 DEF Evict, Signals, Activation
  <2>3. CASE mapped # {}
    <3> DEFINE place == IF table[v].dirty THEN "writeback" ELSE "install"
    <3>1. /\ fifoList' = RemoveAt(fifoList, k)
          /\ table' = [table EXCEPT ![v].valid = FALSE, ![v].frame = NoFrame]
          /\ act' = [act EXCEPT !["USR1"].frame = f, !["USR1"].victim = v,
                                !["USR1"].pc = place]
      BY <1>2, <2>3 DEF Evict, Unmapped
    <3>2. place \in {"writeback", "install"}
      OBVIOUS
    <3> HIDE DEF place, k, f, v, mapped
    <3>3. act'["USR1"].frame = f /\ act'["USR1"].pc = place
      BY <2>1, <3>1 DEF Signals, Activation
    <3> QED BY <2>3, <3>1, <3>2, <3>3
  <2> QED BY <2>2, <2>3
<1> HIDE DEF k, f
<1>7. HeldFrames' = {f}
  BY <1>6 DEF HeldFrames
<1>8. QueueMatchesFrames'
  BY <1>1, <1>4, <1>6, <1>7
     DEF FrameInv, QueueMatchesFrames, FullWhenEvicting, At, HeldFrames
<1>9. \A p \in Pages :
        \/ /\ table'[p].valid = table[p].valid
           /\ table'[p].frame = table[p].frame
           /\ table[p].frame # f
        \/ /\ ~table'[p].valid
           /\ table'[p].frame = NoFrame
  <2>1. CASE mapped = {}
    BY <1>6, <2>1
  <2>2. CASE mapped # {}
    <3>1. v \in Pages /\ table[v].frame = f
      BY <1>5, <2>2
    <3>2. table[v].valid
      BY <1>1, <1>3, <3>1 DEF FrameInv, LinkedEntries
    <3>3. \A q \in Pages : table[q].frame = f => q = v
      BY <3>1, <3>2 DEF FrameInv, NoSharedFrame
    <3> HIDE DEF mapped, v
    <3>4. ASSUME NEW p \in Pages, p # v
          PROVE  table'[p] = table[p] /\ table[p].frame # f
      BY <1>6, <2>2, <3>3, <3>4 DEF TypeOK
    <3>5. ~table'[v].valid /\ table'[v].frame = NoFrame
      <4>1. table[v] \in Entry
        BY <3>1 DEF TypeOK
      <4> QED BY <1>6, <2>2, <3>1, <4>1 DEF TypeOK, Entry
    <3> QED BY <3>4, <3>5
  <2> QED BY <2>1, <2>2
<1>10. NoFrame \notin Frames
  BY SimAssumption DEF Frames, NoFrame
<1>11. NoSharedFrame'
  <2> SUFFICES ASSUME NEW p \in Pages, table'[p].valid
               PROVE  /\ table'[p].frame \in ToSet(fifoList')
                      /\ \A q \in Pages : table'[q].frame = table'[p].frame => q = p
    BY DEF NoSharedFrame
  <2>1. /\ table[p].valid
        /\ table'[p].frame = table[p].frame
        /\ table[p].frame # f
    BY <1>9
  <2>2. /\ table[p].frame \in ToSet(fifoList)
        /\ \A q \in Pages : table[q].frame = table[p].frame => q = p
    BY <2>1 DEF FrameInv, NoSharedFrame
  <2>3. ToSet(fifoList) \subseteq Frames
    BY ElementOfSeq, LenProperties DEF ToSet, TypeOK
  <2>4. table'[p].frame \in ToSet(fifoList')
    BY <1>4, <1>6, <2>1, <2>2
  <2>5. ASSUME NEW q \in Pages, table'[q].frame = table'[p].frame PROVE q = p
    BY <1>9, <1>10, <2>1, <2>2, <2>3, <2>5
  <2> QED BY <2>4, <2>5
<1>12. BootState' /\ LinkedEntries' /\ HeldUnmapped' /\ FullWhenEvicting'
  BY <1>1, <1>3, <1>6, <1>7, <1>9, <1>10
     DEF FrameInv, BootState, LinkedEntries, HeldUnmapped, FullWhenEvicting
<1> QED BY <1>8, <1>11, <1>12 DEF FrameInv

LEMMA FrameInstall ==
  ASSUME TypeOK, HandlerLocals, FrameInv, Install
  PROVE  FrameInv'
<1> DEFINE p == act["USR1"].page
           f == act["USR1"].frame
<1>1. /\ os = "ready" /\ os' = "ready"
      /\ act["USR1"].pc = "install"
      /\ p \in Pages /\ f \in Frames
  BY DEF Install, At, HandlerLocals
<1>2. HeldFrames = {f}
  BY <1>1 DEF HeldFrames
<1>3. /\ IsInjective(fifoList') /\ ToSet(fifoList') = ToSet(fifoList) \cup {f}
      /\ f \notin ToSet(fifoList)
  <2>1. fifoList' = Append(fifoList, f)
    BY DEF Install
  <2>2. f \notin ToSet(fifoList)
    BY <1>2 DEF FrameInv, QueueMatchesFrames
  <2> QED BY <1>1, <2>1, <2>2, AppendDistinct DEF TypeOK, FrameInv, QueueMatchesFrames
<1>4. /\ freeFrames' = [freeFrames EXCEPT ![f] = FALSE]
      /\ table'[p].valid /\ table'[p].frame = f
      /\ \A q \in Pages : q # p => table'[q] = table[q]
      /\ act'["USR1"].pc = "resume"
  BY <1>1 DEF Install, InstalledEntry, TypeOK, Signals, Activation
<1> HIDE DEF p, f
<1>5. HeldFrames' = {}
  BY <1>4 DEF HeldFrames
<1>6. QueueMatchesFrames'
  BY <1>1, <1>2, <1>3, <1>4, <1>5 DEF FrameInv, QueueMatchesFrames, TypeOK
<1>7. \A q \in Pages : table[q].frame # f
  BY <1>1, <1>2 DEF FrameInv, HeldUnmapped
<1>8. NoSharedFrame'
  BY <1>1, <1>3, <1>4, <1>7 DEF FrameInv, NoSharedFrame
<1>9. BootState' /\ LinkedEntries' /\ HeldUnmapped' /\ FullWhenEvicting'
  BY <1>1, <1>4, <1>5
     DEF FrameInv, BootState, LinkedEntries, HeldUnmapped, FullWhenEvicting
<1> QED BY <1>6, <1>8, <1>9 DEF FrameInv

LEMMA FrameInit == Init => FrameInv
<1> SUFFICES ASSUME Init PROVE FrameInv
  OBVIOUS
<1>1. fifoList = <<>> /\ ToSet(fifoList) = {} /\ IsInjective(fifoList)
  BY DEF Init, ToSet, IsInjective
<1>2. HeldFrames = {}
  BY DEF Init, HeldFrames, Signals, Idle
<1>3. BootState /\ LinkedEntries /\ HeldUnmapped /\ FullWhenEvicting
  BY <1>1, <1>2 DEF Init, BootState, LinkedEntries, HeldUnmapped, FullWhenEvicting,
     Signals, Idle, ZeroEntry
<1>4. QueueMatchesFrames /\ NoSharedFrame
  BY <1>1, <1>2 DEF Init, QueueMatchesFrames, NoSharedFrame, ZeroEntry
<1> QED BY <1>3, <1>4 DEF FrameInv

LEMMA FrameNext ==
  TypeOK /\ HandlerLocals /\ FrameInv /\ [Next]_vars => FrameInv'
<1> SUFFICES ASSUME TypeOK, HandlerLocals, FrameInv, [Next]_vars
             PROVE  FrameInv'
  OBVIOUS
<1>0. act \in [Signals -> Activation] /\ table \in [Pages -> Entry]
  BY DEF TypeOK
<1>1. CASE CreateTable
  <2>1. /\ os = "booting" /\ os' = "ready"
        /\ fifoList' = fifoList /\ freeFrames' = freeFrames /\ act' = act
        /\ \A p \in Pages : ~table'[p].valid /\ table'[p].frame = NoFrame
    BY <1>1 DEF CreateTable, EmptyEntry
  <2>2. HeldFrames = {} /\ HeldFrames' = {}
    BY <2>1 DEF FrameInv, BootState, HeldFrames, Signals
  <2>3. NoFrame \notin Frames
    BY SimAssumption DEF Frames, NoFrame
  <2>4. BootState' /\ LinkedEntries' /\ HeldUnmapped' /\ FullWhenEvicting'
    BY <2>1, <2>2, <2>3
       DEF FrameInv, BootState, LinkedEntries, HeldUnmapped, FullWhenEvicting
  <2>5. QueueMatchesFrames' /\ NoSharedFrame'
    BY <2>1, <2>2 DEF FrameInv, QueueMatchesFrames, NoSharedFrame
  <2> QED BY <2>4, <2>5 DEF FrameInv
<1>2. CASE BootCrash
  BY <1>2, FrameKept DEF BootCrash
<1>3. CASE CtrlC
  BY <1>3, FrameKept DEF CtrlC
<1>4. ASSUME NEW sig \in Signals, Deliver(sig)
      PROVE  FrameInv'
  <2>1. CASE sig = "USR1"
    <3>1. act["USR1"].pc = "idle" /\ act'["USR1"].pc = "scan"
      BY <1>0, <1>4, <2>1 DEF Deliver, Signals, Idle
    <3> QED BY <1>4, <3>1, FrameKeptEmptyHanded DEF Deliver, FullWhenEvicting
  <2>2. CASE sig = "USR2"
    <3>1. act'["USR1"] = act["USR1"]
      BY <1>0, <1>4, <2>2 DEF Deliver, Signals
    <3> QED BY <1>4, <3>1, FrameKept DEF Deliver
  <2> QED BY <2>1, <2>2 DEF Signals
<1>5. CASE ScanFault
  <2>1. act["USR1"].pc = "scan" /\ os = "ready"
    BY <1>5 DEF ScanFault, At
  <2>2. CASE FreeSet = {}
    <3>1. act'["USR1"].pc = "evict" /\ \A f \in Frames : ~freeFrames[f]
      BY <1>0, <1>5, <2>2 DEF ScanFault, FreeSet, Signals, Activation
    <3> QED BY <1>5, <2>1, <3>1, FrameKeptEmptyHanded DEF ScanFault, FullWhenEvicting
  <2>3. CASE FreeSet # {}
    <3> DEFINE f == Min(FreeSet)
    <3>1. act'["USR1"].pc = "install" /\ act'["USR1"].frame = f
      BY <1>0, <1>5, <2>3 DEF ScanFault, Signals, Activation
    <3>2. f \in Frames /\ freeFrames[f]
      BY <2>3, FreeFrame DEF FreeSet
    <3> HIDE DEF f
    <3>3. HeldFrames = {} /\ HeldFrames' = {f}
      BY <2>1, <3>1 DEF HeldFrames
    <3>4. f \notin ToSet(fifoList)
      BY <3>2 DEF FrameInv, QueueMatchesFrames
    <3>5. QueueMatchesFrames'
      BY <1>5, <3>2, <3>3, <3>4 DEF FrameInv, QueueMatchesFrames, ScanFault
    <3>6. \A p \in Pages : table[p].frame # f
      BY <2>1, <3>2, <3>4 DEF FrameInv, LinkedEntries, NoSharedFrame
    <3>7. BootState' /\ LinkedEntries' /\ HeldUnmapped' /\ FullWhenEvicting'
      BY <1>5, <2>1, <3>1, <3>3, <3>6 DEF FrameInv, BootState, LinkedEntries,
         HeldUnmapped, FullWhenEvicting, ScanFault
    <3>8. NoSharedFrame'
      BY <1>5 DEF FrameInv, NoSharedFrame, ScanFault
    <3> QED BY <3>5, <3>7, <3>8 DEF FrameInv
  <2> QED BY <2>2, <2>3
<1>6. CASE ScanNothing
  BY <1>6, FrameKept DEF ScanNothing, At
<1>7. CASE Evict
  BY <1>7, FrameEvict
<1>8. CASE WriteBack
  <2>1. act["USR1"].victim \in Pages /\ os = "ready"
    BY <1>8 DEF WriteBack, At, HandlerLocals
  <2>2. \A p \in Pages : /\ table'[p].valid = table[p].valid
                         /\ table'[p].frame = table[p].frame
    BY <1>0, <1>8, <2>1 DEF WriteBack, Entry
  <2>3. /\ act["USR1"].pc = "writeback" /\ act'["USR1"].pc = "install"
        /\ act'["USR1"].frame = act["USR1"].frame
    BY <1>0, <1>8 DEF WriteBack, At, Signals, Activation
  <2>4. HeldFrames' = HeldFrames
    BY <2>3 DEF HeldFrames
  <2>5. BootState' /\ LinkedEntries' /\ HeldUnmapped' /\ FullWhenEvicting'
    BY <1>8, <2>1, <2>2, <2>3, <2>4 DEF FrameInv, BootState, LinkedEntries,
       HeldUnmapped, FullWhenEvicting, WriteBack
  <2>6. QueueMatchesFrames' /\ NoSharedFrame'
    BY <1>8, <2>2, <2>4 DEF FrameInv, QueueMatchesFrames, NoSharedFrame, WriteBack
  <2> QED BY <2>5, <2>6 DEF FrameInv
<1>9. CASE Install
  BY <1>9, FrameInstall
<1>10. CASE CountHit
  <2>1. \A p \in Pages : /\ table'[p].valid = table[p].valid
                         /\ table'[p].frame = table[p].frame
    BY <1>0, <1>10 DEF CountHit, Entry
  <2>2. act'["USR1"] = act["USR1"]
    BY <1>0, <1>10 DEF CountHit, Signals
  <2> QED BY <1>10, <2>1, <2>2, FrameKept DEF CountHit, At
<1>11. ASSUME NEW sig \in Signals, Resume(sig)
       PROVE  FrameInv'
  <2>1. CASE sig = "USR1"
    <3>1. act["USR1"].pc = "resume" /\ act'["USR1"].pc = "return"
      BY <1>0, <1>11, <2>1 DEF Resume, At, Signals, Activation
    <3> QED BY <1>11, <3>1, FrameKeptEmptyHanded DEF Resume, At, FullWhenEvicting
  <2>2. CASE sig = "USR2"
    <3>1. act'["USR1"] = act["USR1"]
      BY <1>0, <1>11, <2>2 DEF Resume, Signals
    <3> QED BY <1>11, <3>1, FrameKept DEF Resume, At
  <2> QED BY <2>1, <2>2 DEF Signals
<1>12. ASSUME NEW sig \in Signals, Return(sig)
       PROVE  FrameInv'
  <2>1. CASE sig = "USR1"
    <3>1. act["USR1"].pc = "return" /\ act'["USR1"].pc = "idle"
      BY <1>0, <1>12, <2>1 DEF Return, At, Signals, Idle
    <3> QED BY <1>12, <3>1, FrameKeptEmptyHanded DEF Return, At, FullWhenEvicting
  <2>2. CASE sig = "USR2"
    <3>1. act'["USR1"] = act["USR1"]
      BY <1>0, <1>12, <2>2 DEF Return, Signals
    <3> QED BY <1>12, <3>1, FrameKept DEF Return, At
  <2> QED BY <2>1, <2>2 DEF Signals
<1>13. ASSUME NEW pid \in Pids, Attach(pid)
       PROVE  FrameInv'
  BY <1>13, FrameKept DEF Attach
<1>14. ASSUME NEW a \in Accesses, Access(a)
       PROVE  FrameInv'
  <2>1. \A p \in Pages : /\ table'[p].valid = table[p].valid
                         /\ table'[p].frame = table[p].frame
    BY <1>0, <1>14 DEF Access, Entry
  <2> QED BY <1>14, <2>1, FrameKept DEF Access, osVars
<1>15. CASE SignalOs
  BY <1>15, FrameKept DEF SignalOs, osVars
<1>16. CASE CheckFlag
  BY <1>16, FrameKept DEF CheckFlag, osVars
<1>17. CASE SleepTimeout
  BY <1>17, FrameKept DEF SleepTimeout, osVars
<1>18. CASE TakeCont
  BY <1>18, FrameKept DEF TakeCont, osVars
<1>19. CASE Rearm
  BY <1>19, FrameKept DEF Rearm, osVars
<1>20. CASE Touch
  <2>1. \A p \in Pages : /\ table'[p].valid = table[p].valid
                         /\ table'[p].frame = table[p].frame
    BY <1>0, <1>20 DEF Touch, Entry
  <2> QED BY <1>20, <2>1, FrameKept DEF Touch, osVars
<1>21. CASE Finish
  BY <1>21, FrameKept DEF Finish, osVars
<1>22. CASE KillMmu
  BY <1>22, FrameKept DEF KillMmu, osVars
<1>23. CASE StrayCont
  BY <1>23, FrameKept DEF StrayCont, osVars
<1>24. CASE UNCHANGED vars
  BY <1>24, FrameKept DEF vars, osVars
<1> QED
  BY <1>1, <1>2, <1>3, <1>4, <1>5, <1>6, <1>7, <1>8, <1>9, <1>10, <1>11, <1>12,
     <1>13, <1>14, <1>15, <1>16, <1>17, <1>18, <1>19, <1>20, <1>21, <1>22,
     <1>23, <1>24 DEF Next, OsStep, MmuStep, Ended

LEMMA FrameInvariant == Spec => [](TypeOK /\ HandlerLocals /\ FrameInv)
<1>1. Init => FrameInv
  BY FrameInit
<1>2. TypeOK /\ HandlerLocals /\ FrameInv /\ [Next]_vars => FrameInv'
  BY FrameNext
<1> QED BY <1>1, <1>2, TypeCorrect, PTL DEF Spec

\* No frame is leaked or queued twice, whatever the user, the trace file and the
\* other processes do (fifo_victim, lfu_victim, sigusr1_handler).
THEOREM FramesNeverLeak == Spec => []QueueMatchesFrames
<1>1. FrameInv => QueueMatchesFrames
  BY DEF FrameInv
<1> QED BY <1>1, FrameInvariant, PTL

\* Two pages never share a frame (getVictimFrame, sigusr1_handler).
THEOREM FramesNeverShared == Spec => []NoSharedFrame
<1>1. FrameInv => NoSharedFrame
  BY DEF FrameInv
<1> QED BY <1>1, FrameInvariant, PTL

\* Both policies find a victim whenever one is needed, so the error branch of
\* sigusr1_handler, with its kill(-1, SIGCONT), is dead code.
THEOREM VictimAlwaysExists == Spec => []VictimExists
<1>1. TypeOK /\ FrameInv => VictimExists
  BY SomeCandidate DEF VictimExists
<1> QED BY <1>1, FrameInvariant, PTL

-----------------------------------------------------------------------------
(***************************************************************************)
(* The request/continue protocol of the two processes, for the use the     *)
(* ReadMe describes: one MMU process, started when the OS is ready, woken  *)
(* by the OS alone.  The user may still end either process at any time.    *)
(***************************************************************************)
DocumentedUse ==
  /\ PatientStart
  /\ MaxStray = 0
  /\ \E pid : Pids = {pid}

Requesting    == RequestedPages # {}
Serving(sig)  == \/ sig \in pending
                 \/ act[sig].pc \in {"scan", "evict", "writeback", "install"}
Resuming(sig) == act[sig].pc = "resume"

\* The access in progress is to a page in memory.
AccessValid == access.page \in Pages /\ table[access.page].valid

MmuLife ==
  /\ mmu_pid = NoPid <=> mpc \in {"off", "killed", "done"}
  /\ mpc # "off" => fresh = {} /\ os # "booting"
  /\ mpc = "off" => pending = {} /\ \A s \in Signals : act[s].pc = "idle"

\* The "token" of an access is in one place: the request in the table, a SIGCONT
\* about to be sent, a pending SIGCONT, or the flag its handler clears.
RequestPlace ==
  /\ \A p \in RequestedPages : p = access.page
  /\ Requesting =>
       /\ mpc \in {"fault", "hit", "check", "sleep", "killed"}
       /\ isSleepEnabled /\ ~cont
       /\ \A s \in Signals : ~Resuming(s)

ResumePlace ==
  \A s \in Signals : Resuming(s) =>
    /\ mpc \in {"check", "sleep", "killed"}
    /\ isSleepEnabled /\ ~cont
    /\ act[s].pid \in Pids
    /\ \A t \in Signals : Resuming(t) => t = s

WakePlace ==
  /\ cont => mpc \in {"check", "sleep"} /\ isSleepEnabled
  /\ ~isSleepEnabled => mpc \in {"check", "rearm", "killed"}

\* A signal is outstanding for the request of its own kind, and for it alone.
SignalPlace ==
  /\ mpc = "fault" => Requesting /\ ~AccessValid /\ \A s \in Signals : ~Serving(s)
  /\ mpc = "hit"   => Requesting /\ AccessValid /\ \A s \in Signals : ~Serving(s)
  /\ Serving("USR1") =>
       \/ Requesting /\ ~AccessValid
       \/ mpc = "done" /\ act["USR1"].pc \notin {"evict", "writeback", "install"}
  /\ Serving("USR2") => Requesting /\ AccessValid
  /\ \A s \in pending :
       act[s].pc \notin {"scan", "evict", "writeback", "install"}
  /\ act["USR1"].pc \in {"evict", "writeback", "install"} =>
       act["USR1"].page = access.page

\* Once served, the page stays in memory until the access is over.
ServedPlace ==
  \/ \E s \in Signals : Resuming(s)
  \/ cont
  \/ ~isSleepEnabled
  \/ mpc \in {"rearm", "touch"}

ServedStays == ServedPlace => AccessValid \/ mpc = "killed"

ProtocolInv ==
  /\ MmuLife
  /\ RequestPlace
  /\ ResumePlace
  /\ WakePlace
  /\ SignalPlace
  /\ ServedStays
  /\ DirtyIsResident

-----------------------------------------------------------------------------

LEMMA ProtocolInit == DocumentedUse /\ Init => ProtocolInv
<1> SUFFICES ASSUME DocumentedUse, Init PROVE ProtocolInv
  OBVIOUS
<1>1. \A s \in Signals : act[s].pc = "idle"
  BY DEF Init, Idle
<1>2. RequestedPages = {} /\ \A p \in Pages : ~table[p].dirty
  BY DEF Init, RequestedPages, ZeroEntry
<1>3. /\ mmu_pid = NoPid /\ mpc = "off" /\ pending = {} /\ isSleepEnabled /\ ~cont
  BY DEF Init
<1> QED
  BY <1>1, <1>2, <1>3 DEF ProtocolInv, MmuLife, RequestPlace, ResumePlace, WakePlace,
     SignalPlace, ServedStays, ServedPlace, Requesting, Serving, Resuming,
     DirtyIsResident, Signals

\* While the fault handler works, the access it serves is the MMU's own, the
\* page is absent, and nothing else is under way.
Held ==
  /\ RequestedPages = {access.page}
  /\ act["USR1"].page = access.page /\ access.page \in Pages
  /\ ~AccessValid /\ ~Serving("USR2")
  /\ "USR1" \notin pending /\ \A s \in Signals : ~Resuming(s)
  /\ mpc \in {"check", "sleep", "killed"} /\ isSleepEnabled /\ ~cont

LEMMA HeldAccess ==
  ASSUME HandlerLocals, ProtocolInv,
         act["USR1"].pc \in {"evict", "writeback", "install"}
  PROVE  Held
<1>1. Serving("USR1") /\ act["USR1"].page = access.page /\ "USR1" \notin pending
  BY DEF Serving, ProtocolInv, SignalPlace, Signals
<1>2. Requesting /\ ~AccessValid
  BY <1>1 DEF ProtocolInv, SignalPlace
<1>3. access.page \in Pages
  BY <1>1 DEF HandlerLocals
<1> QED
  BY <1>1, <1>2, <1>3 DEF Held, ProtocolInv, RequestPlace, SignalPlace, Requesting,
     Signals

LEMMA ProtocolNext ==
  DocumentedUse /\ TypeOK /\ HandlerLocals /\ FrameInv /\ ProtocolInv /\ [Next]_vars
    => ProtocolInv'
<1> SUFFICES ASSUME DocumentedUse, TypeOK, HandlerLocals, FrameInv, ProtocolInv,
                    [Next]_vars
             PROVE  ProtocolInv'
  OBVIOUS
<1> USE DEF Signals
<1>0. /\ act \in [Signals -> Activation] /\ table \in [Pages -> Entry]
      /\ pending \subseteq Signals
  BY DEF TypeOK
<1>1. CASE CreateTable
  BY <1>1 DEF CreateTable, mmuVars, EmptyEntry, ProtocolInv, MmuLife, RequestPlace, ResumePlace,
     WakePlace, SignalPlace, ServedStays, ServedPlace, Requesting, Serving, Resuming,
     DirtyIsResident, RequestedPages, AccessValid
<1>2. CASE BootCrash
  BY <1>2 DEF BootCrash, ProtocolInv, MmuLife
<1>3. CASE CtrlC
  BY <1>3 DEF CtrlC, mmuVars, ProtocolInv, MmuLife, RequestPlace, ResumePlace,
     WakePlace, SignalPlace, ServedStays, ServedPlace, Requesting, Serving, Resuming,
     DirtyIsResident, RequestedPages, AccessValid
<1>4. ASSUME NEW sig \in Signals, Deliver(sig)
      PROVE  ProtocolInv'
  <2>1. /\ act'[sig].pc = "scan" /\ act[sig].pc = "idle"
        /\ \A s \in Signals : s # sig => act'[s] = act[s]
    BY <1>0, <1>4 DEF Deliver, Idle
  <2> QED
    BY <1>4, <2>1 DEF Deliver, mmuVars, ProtocolInv, MmuLife, RequestPlace, ResumePlace,
     WakePlace, SignalPlace, ServedStays, ServedPlace, Requesting, Serving, Resuming,
     DirtyIsResident, RequestedPages, AccessValid
<1>5. CASE ScanFault
  <2>1. /\ act["USR1"].pc = "scan"
        /\ act'["USR1"].pc \in {"evict", "install"}
        /\ act'["USR1"].page = Min(RequestedPages)
        /\ act'["USR2"] = act["USR2"]
    BY <1>0, <1>5 DEF ScanFault, At, Activation
  <2>2. Min(RequestedPages) \in RequestedPages
    BY <1>5, RequestedPage DEF ScanFault
  <2> QED
    BY <1>5, <2>1, <2>2 DEF ScanFault, mmuVars, ProtocolInv, MmuLife, RequestPlace, ResumePlace,
     WakePlace, SignalPlace, ServedStays, ServedPlace, Requesting, Serving, Resuming,
     DirtyIsResident, RequestedPages, AccessValid
<1>6. CASE ScanNothing
  BY <1>6 DEF ScanNothing, mmuVars, ProtocolInv, MmuLife, RequestPlace, ResumePlace,
     WakePlace, SignalPlace, ServedStays, ServedPlace, Requesting, Serving, Resuming,
     DirtyIsResident, RequestedPages, AccessValid
<1>7. CASE Evict
  <2> DEFINE f == fifoList[Min(Candidates)]
             mapped == {p \in Pages : table[p].frame = f}
             v == Min(mapped)
  <2>1. act["USR1"].pc = "evict" /\ Candidates # {} /\ os = "ready"
    BY <1>7, SomeCandidate DEF Evict, At
  <2>2. Held
    BY <2>1, HeldAccess
  <2>3. mapped # {} => v \in Pages
    <3>1. mapped \subseteq Nat /\ mapped \subseteq Pages
      BY SimAssumption DEF Pages
    <3> HIDE DEF mapped
    <3> QED BY <3>1, LeastNat
  <2>4. /\ mapped = {} => table' = table
        /\ mapped # {} =>
             /\ table' = [table EXCEPT ![v].valid = FALSE, ![v].frame = NoFrame]
             /\ act'["USR1"].victim = v
             /\ table[v].dirty => act'["USR1"].pc = "writeback"
        /\ act'["USR1"].page = act["USR1"].page
        /\ act'["USR1"].pc \in {"writeback", "install"}
        /\ act'["USR2"] = act["USR2"]
    <3>1. CASE mapped = {}
      BY <1>0, <1>7, <2>1, <3>1 DEF Evict, Activation
    <3>2. CASE mapped # {}
      <4> DEFINE place == IF table[v].dirty THEN "writeback" ELSE "install"
      <4>1. /\ table' = [table EXCEPT ![v].valid = FALSE, ![v].frame = NoFrame]
            /\ act' = [act EXCEPT !["USR1"].frame = f, !["USR1"].victim = v,
                                  !["USR1"].pc = place]
        BY <1>7, <2>1, <3>2 DEF Evict, Unmapped
      <4>2. /\ place \in {"writeback", "install"}
            /\ table[v].dirty => place = "writeback"
        OBVIOUS
      <4> HIDE DEF place, f, v, mapped
      <4>3. /\ act'["USR1"].victim = v /\ act'["USR1"].pc = place
            /\ act'["USR1"].page = act["USR1"].page
            /\ act'["USR2"] = act["USR2"]
        BY <1>0, <4>1 DEF Activation
      <4> QED BY <3>2, <4>1, <4>2, <4>3
    <3> QED BY <3>1, <3>2
  <2> HIDE DEF f, mapped, v
  <2>6. \A p \in Pages : /\ table'[p].requested = table[p].requested
                         /\ table'[p].dirty = table[p].dirty
                         /\ table'[p].valid =>
                              table[p].valid /\ (mapped # {} => p # v)
                         /\ p # v => table'[p].valid = table[p].valid
    BY <1>0, <2>3, <2>4 DEF Entry
  <2>7. RequestedPages' = RequestedPages
    BY <2>6 DEF RequestedPages
  <2>8. DirtyIsResident'
    BY <2>1, <2>3, <2>4, <2>6 DEF ProtocolInv, DirtyIsResident
  <2>9. ~AccessValid'
    BY <1>7, <2>2, <2>6 DEF Evict, mmuVars, Held, AccessValid
  <2>10. UNCHANGED <<os, pending, cont, mmu_pid, fresh, mpc, access, isSleepEnabled>>
    BY <1>7 DEF Evict, mmuVars
  <2> HIDE DEF f, mapped, v
  <2> QED
    BY <1>0, <2>1, <2>2, <2>4, <2>7, <2>8, <2>9, <2>10 DEF Held, ProtocolInv,
       MmuLife, RequestPlace, ResumePlace, WakePlace, SignalPlace, ServedStays,
       ServedPlace, Requesting, Serving, Resuming
<1>8. CASE WriteBack
  <2>1. act["USR1"].pc = "writeback" /\ act["USR1"].victim \in Pages
    BY <1>8 DEF WriteBack, At, HandlerLocals
  <2>2. Held
    BY <2>1, HeldAccess
  <2>3. /\ act'["USR1"].page = act["USR1"].page
        /\ act'["USR1"].pc = "install"
        /\ act'["USR2"] = act["USR2"]
    BY <1>0, <1>8 DEF WriteBack, Activation
  <2>4. \A p \in Pages : /\ table'[p].requested = table[p].requested
                         /\ table'[p].valid = table[p].valid
                         /\ table'[p].dirty =>
                              table[p].dirty /\ p # act["USR1"].victim
    BY <1>0, <1>8, <2>1 DEF WriteBack, Entry
  <2>5. RequestedPages' = RequestedPages
    BY <2>4 DEF RequestedPages
  <2>6. DirtyIsResident'
    BY <2>1, <2>4 DEF ProtocolInv, DirtyIsResident
  <2>7. ~AccessValid'
    BY <1>8, <2>2, <2>4 DEF WriteBack, mmuVars, Held, AccessValid
  <2> QED
    BY <1>8, <2>1, <2>2, <2>3, <2>5, <2>6, <2>7 DEF WriteBack, mmuVars, Held,
       ProtocolInv, MmuLife, RequestPlace, ResumePlace, WakePlace, SignalPlace,
       ServedStays, ServedPlace, Requesting, Serving, Resuming
<1>9. CASE Install
  <2> DEFINE p0 == act["USR1"].page
  <2>1. act["USR1"].pc = "install"
    BY <1>9 DEF Install, At
  <2>2. Held
    BY <2>1, HeldAccess
  <2>3. /\ act'["USR1"].pid = table[p0].requested
        /\ act'["USR1"].pc = "resume"
        /\ act'["USR2"] = act["USR2"]
    BY <1>0, <1>9 DEF Install, Requester, Activation
  <2>4. act'["USR1"].pid \in Pids
    BY <1>0, <2>2, <2>3 DEF Held, RequestedPages, Entry
  <2>5. /\ table'[p0].valid /\ ~table'[p0].dirty /\ table'[p0].requested = NoPid
        /\ \A p \in Pages : p # p0 => table'[p] = table[p]
    BY <1>0, <1>9, <2>2 DEF Install, InstalledEntry, Held
  <2>6. RequestedPages' = {}
    BY <2>2, <2>5 DEF RequestedPages, Held
  <2>7. DirtyIsResident'
    BY <2>1, <2>5 DEF ProtocolInv, DirtyIsResident
  <2>8. AccessValid'
    BY <1>9, <2>2, <2>5 DEF Install, mmuVars, Held, AccessValid
  <2>9. UNCHANGED <<os, pending, cont, mmu_pid, fresh, mpc, access, isSleepEnabled>>
    BY <1>9 DEF Install, mmuVars
  <2> HIDE DEF p0
  <2> QED
    BY <1>0, <2>1, <2>2, <2>3, <2>4, <2>6, <2>7, <2>8, <2>9 DEF Held,
       ProtocolInv, MmuLife, RequestPlace, ResumePlace, WakePlace, SignalPlace,
       ServedStays, ServedPlace, Requesting, Serving, Resuming
<1>10. CASE CountHit
  <2>1. act["USR2"].pc = "scan" /\ Serving("USR2")
    BY <1>10 DEF CountHit, At, Serving
  <2>2. /\ RequestedPages = {access.page} /\ AccessValid
        /\ ~Serving("USR1") /\ \A s \in Signals : ~Resuming(s)
        /\ mpc \in {"check", "sleep", "killed"} /\ isSleepEnabled /\ ~cont
        /\ "USR2" \notin pending
    <3>1. Requesting /\ AccessValid
      BY <2>1 DEF ProtocolInv, SignalPlace
    <3> QED
      BY <2>1, <3>1 DEF ProtocolInv, SignalPlace, RequestPlace, Requesting
  <2>3. Min(RequestedPages) = access.page /\ access.page \in Pages
    BY <2>2, RequestedPage
  <2>4. /\ act'["USR2"].pid = table[access.page].requested
        /\ act'["USR2"].pc = "resume"
        /\ act'["USR1"] = act["USR1"]
        /\ table' = [table EXCEPT ![access.page].requested = NoPid]
    <3> DEFINE p == Min(RequestedPages)
    <3>1. /\ act' = [act EXCEPT !["USR2"].pc = "resume", !["USR2"].page = p,
                                !["USR2"].pid = table[p].requested]
          /\ table' = [table EXCEPT ![p].requested = NoPid]
      BY <1>10, <2>2 DEF CountHit, Requester
    <3> HIDE DEF p
    <3>2. /\ act'["USR2"].pid = table[p].requested
          /\ act'["USR2"].pc = "resume"
          /\ act'["USR1"] = act["USR1"]
      BY <1>0, <3>1 DEF Activation
    <3> QED BY <2>3, <3>1, <3>2 DEF p
  <2>5. act'["USR2"].pid \in Pids
    BY <1>0, <2>2, <2>3, <2>4 DEF RequestedPages, Entry
  <2>6. \A p \in Pages : /\ table'[p].valid = table[p].valid
                         /\ table'[p].dirty = table[p].dirty
                         /\ p # access.page => table'[p].requested = table[p].requested
                         /\ table'[access.page].requested = NoPid
    BY <1>0, <2>3, <2>4 DEF Entry
  <2>7. RequestedPages' = {}
    BY <2>2, <2>6 DEF RequestedPages
  <2>8. DirtyIsResident'
    BY <2>4, <2>6 DEF ProtocolInv, DirtyIsResident
  <2>9. AccessValid'
    BY <1>10, <2>2, <2>3, <2>6 DEF CountHit, mmuVars, AccessValid
  <2>10. UNCHANGED <<os, pending, cont, mmu_pid, fresh, mpc, access, isSleepEnabled>>
    BY <1>10 DEF CountHit, mmuVars
  <2> QED
    BY <1>0, <2>1, <2>2, <2>4, <2>5, <2>7, <2>8, <2>9, <2>10 DEF
       ProtocolInv, MmuLife, RequestPlace, ResumePlace, WakePlace, SignalPlace,
       ServedStays, ServedPlace, Requesting, Serving, Resuming
<1>11. ASSUME NEW sig \in Signals, Resume(sig)
       PROVE  ProtocolInv'
  <2>1. /\ act[sig].pc = "resume" /\ act'[sig].pc = "return"
        /\ act'["USR1"].page = act["USR1"].page
        /\ act'["USR1"].victim = act["USR1"].victim
        /\ \A s \in Signals : s # sig => act'[s] = act[s]
    BY <1>0, <1>11 DEF Resume, At, Activation
  <2>2. cont' => mmu_pid # NoPid
    BY <1>11 DEF Resume, ProtocolInv, ResumePlace, Resuming, At
  <2> QED
    BY <1>11, <2>1, <2>2 DEF Resume, mmuVars, ProtocolInv, MmuLife, RequestPlace, ResumePlace,
     WakePlace, SignalPlace, ServedStays, ServedPlace, Requesting, Serving, Resuming,
     DirtyIsResident, RequestedPages, AccessValid
<1>12. ASSUME NEW sig \in Signals, Return(sig)
       PROVE  ProtocolInv'
  <2>1. /\ act[sig].pc = "return" /\ act'[sig].pc = "idle"
        /\ \A s \in Signals : s # sig => act'[s] = act[s]
    BY <1>0, <1>12 DEF Return, At, Idle
  <2> QED
    BY <1>12, <2>1 DEF Return, mmuVars, ProtocolInv, MmuLife, RequestPlace, ResumePlace,
     WakePlace, SignalPlace, ServedStays, ServedPlace, Requesting, Serving, Resuming,
     DirtyIsResident, RequestedPages, AccessValid
<1>13. ASSUME NEW pid \in Pids, Attach(pid)
       PROVE  ProtocolInv'
  <2>1. pid # NoPid
    BY SimAssumption DEF NoPid
  <2>2. fresh' = {}
    BY <1>13 DEF Attach, DocumentedUse, TypeOK
  <2> QED
    BY <1>13, <2>1, <2>2 DEF Attach, DocumentedUse, ProtocolInv, MmuLife, RequestPlace, ResumePlace,
     WakePlace, SignalPlace, ServedStays, ServedPlace, Requesting, Serving, Resuming,
     DirtyIsResident, RequestedPages, AccessValid
<1>14. ASSUME NEW a \in Accesses, Access(a)
       PROVE  ProtocolInv'
  <2>1. a.page \in Pages
    BY DEF Accesses
  <2>2. mmu_pid # NoPid /\ mpc = "fetch" /\ RequestedPages = {}
    BY <1>14 DEF Access, ProtocolInv, MmuLife, RequestPlace, Requesting
  <2>3. \A p \in Pages : /\ table'[p].valid = table[p].valid
                         /\ table'[p].dirty = table[p].dirty
    BY <1>0, <1>14 DEF Access, Entry
  <2>4. RequestedPages' = {a.page}
    BY <1>0, <1>14, <2>1, <2>2 DEF Access, RequestedPages, Entry
  <2>5. Requesting' /\ access' = a
    BY <1>14, <2>4 DEF Requesting, Access
  <2>6. AccessValid' <=> table[a.page].valid
    BY <2>1, <2>3, <2>5 DEF AccessValid
  <2> QED
    BY <1>14, <2>2, <2>3, <2>4, <2>5, <2>6 DEF Access, osVars, ProtocolInv, MmuLife,
       RequestPlace, ResumePlace, WakePlace, SignalPlace, ServedStays, ServedPlace,
       Requesting, Serving, Resuming, DirtyIsResident
<1>15. CASE SignalOs
  BY <1>15 DEF SignalOs, Send, osVars, ProtocolInv, MmuLife, RequestPlace, ResumePlace,
     WakePlace, SignalPlace, ServedStays, ServedPlace, Requesting, Serving, Resuming,
     DirtyIsResident, RequestedPages, AccessValid
<1>16. CASE CheckFlag
  BY <1>16 DEF CheckFlag, osVars, ProtocolInv, MmuLife, RequestPlace, ResumePlace,
     WakePlace, SignalPlace, ServedStays, ServedPlace, Requesting, Serving, Resuming,
     DirtyIsResident, RequestedPages, AccessValid
<1>17. CASE SleepTimeout
  BY <1>17 DEF SleepTimeout, osVars, ProtocolInv, MmuLife, RequestPlace, ResumePlace,
     WakePlace, SignalPlace, ServedStays, ServedPlace, Requesting, Serving, Resuming,
     DirtyIsResident, RequestedPages, AccessValid
<1>18. CASE TakeCont
  BY <1>18 DEF TakeCont, osVars, ProtocolInv, MmuLife, RequestPlace, ResumePlace,
     WakePlace, SignalPlace, ServedStays, ServedPlace, Requesting, Serving, Resuming,
     DirtyIsResident, RequestedPages, AccessValid
<1>19. CASE Rearm
  BY <1>19 DEF Rearm, osVars, ProtocolInv, MmuLife, RequestPlace, ResumePlace,
     WakePlace, SignalPlace, ServedStays, ServedPlace, Requesting, Serving, Resuming,
     DirtyIsResident, RequestedPages, AccessValid
<1>20. CASE Touch
  <2>1. access.page \in Pages /\ table[access.page].valid /\ RequestedPages = {}
    BY <1>20 DEF Touch, ProtocolInv, ServedStays, ServedPlace, RequestPlace,
       Requesting, AccessValid
  <2>2. \A p \in Pages : /\ table'[p].valid = table[p].valid
                         /\ table'[p].requested = table[p].requested
                         /\ p # access.page => table'[p].dirty = table[p].dirty
    BY <1>0, <1>20, <2>1 DEF Touch, Entry
  <2>3. RequestedPages' = {}
    BY <2>1, <2>2 DEF RequestedPages
  <2>4. DirtyIsResident'
    BY <1>20, <2>1, <2>2 DEF Touch, osVars, ProtocolInv, DirtyIsResident
  <2> QED
    BY <1>20, <2>1, <2>2, <2>3, <2>4 DEF Touch, osVars, ProtocolInv, MmuLife,
       RequestPlace, ResumePlace, WakePlace, SignalPlace, ServedStays, ServedPlace,
       Requesting, Serving, Resuming, AccessValid
<1>21. CASE Finish
  BY <1>21 DEF Finish, Send, osVars, ProtocolInv, MmuLife, RequestPlace, ResumePlace,
     WakePlace, SignalPlace, ServedStays, ServedPlace, Requesting, Serving, Resuming,
     DirtyIsResident, RequestedPages, AccessValid
<1>22. CASE KillMmu
  BY <1>22 DEF KillMmu, osVars, ProtocolInv, MmuLife, RequestPlace, ResumePlace,
     WakePlace, SignalPlace, ServedStays, ServedPlace, Requesting, Serving, Resuming,
     DirtyIsResident, RequestedPages, AccessValid
<1>23. CASE StrayCont
  BY <1>23 DEF StrayCont, DocumentedUse, TypeOK
<1>24. CASE UNCHANGED vars
  BY <1>24 DEF vars, mmuVars, osVars, ProtocolInv, MmuLife, RequestPlace, ResumePlace,
     WakePlace, SignalPlace, ServedStays, ServedPlace, Requesting, Serving, Resuming,
     DirtyIsResident, RequestedPages, AccessValid
<1> QED
  BY <1>1, <1>2, <1>3, <1>4, <1>5, <1>6, <1>7, <1>8, <1>9, <1>10, <1>11, <1>12,
     <1>13, <1>14, <1>15, <1>16, <1>17, <1>18, <1>19, <1>20, <1>21, <1>22,
     <1>23, <1>24 DEF Next, OsStep, MmuStep, Ended

-----------------------------------------------------------------------------

LEMMA ProtocolInvariant ==
  DocumentedUse => (Spec => [](TypeOK /\ HandlerLocals /\ FrameInv /\ ProtocolInv))
<1> SUFFICES ASSUME DocumentedUse
             PROVE  Spec => [](TypeOK /\ HandlerLocals /\ FrameInv /\ ProtocolInv)
  OBVIOUS
<1>1. Init => ProtocolInv
  BY ProtocolInit
<1>2. TypeOK /\ HandlerLocals /\ FrameInv /\ ProtocolInv /\ [Next]_vars => ProtocolInv'
  BY ProtocolNext
<1> QED BY <1>1, <1>2, FrameInvariant, PTL DEF Spec

\* At most one page is requested at a time: the assumption of both handlers,
\* which serve the first requested page they find (OS.cpp:157).
THEOREM AtMostOneRequest == DocumentedUse => (Spec => []OneRequest)
<1>1. ProtocolInv => OneRequest
  BY DEF ProtocolInv, RequestPlace, OneRequest
<1> QED BY <1>1, ProtocolInvariant, PTL

\* Both handlers send their SIGCONT to the MMU process that asked, never to the
\* OS's process group (0) and never to every process (-1).
THEOREM RequesterResumed == DocumentedUse => (Spec => []ResumesRequester)
<1>1. ProtocolInv => ResumesRequester
  BY DEF ProtocolInv, ResumePlace, Resuming, ResumesRequester
<1> QED BY <1>1, ProtocolInvariant, PTL

\* updateLFUList finds the page it counts in memory, and indexes the counters
\* with a frame.
THEOREM CounterIndexInRange == DocumentedUse => (Spec => []LfuIndexInRange)
<1>1. TypeOK /\ FrameInv /\ ProtocolInv => LfuIndexInRange
  <2> SUFFICES ASSUME TypeOK, FrameInv, ProtocolInv, At("USR2", "scan"),
                      NEW p \in RequestedPages
               PROVE  table[p].valid /\ table[p].frame \in Frames
    BY DEF LfuIndexInRange
  <2>1. AccessValid /\ p = access.page
    BY DEF ProtocolInv, SignalPlace, RequestPlace, Serving, At
  <2>2. table[p].valid /\ p \in Pages
    BY <2>1 DEF AccessValid
  <2>3. table[p].frame \in ToSet(fifoList)
    BY <2>2 DEF FrameInv, NoSharedFrame
  <2>4. PICK k \in DOMAIN fifoList : fifoList[k] = table[p].frame
    BY <2>3 DEF ToSet
  <2>5. k \in 1 .. Len(fifoList)
    BY <2>4, LenProperties DEF TypeOK
  <2> QED BY <2>2, <2>4, <2>5, ElementOfSeq DEF TypeOK
<1> QED BY <1>1, ProtocolInvariant, PTL

\* sigusr1_handler takes a signal for the end of the simulation only when the MMU
\* has finished its trace.
THEOREM StopsInTime == DocumentedUse => (Spec => []StopsOnlyWhenDone)
<1>1. ProtocolInv => StopsOnlyWhenDone
  BY DEF ProtocolInv, SignalPlace, Serving, Requesting, StopsOnlyWhenDone, At
<1> QED BY <1>1, ProtocolInvariant, PTL

\* The two handlers never work at the same time: one interrupts the other only
\* after its SIGCONT, so neither sees the other's half-made changes.
THEOREM HandlersExclude == DocumentedUse => (Spec => []NestsOnlyInTail)
<1>1. TypeOK /\ ProtocolInv => NestsOnlyInTail
  <2> SUFFICES ASSUME TypeOK, ProtocolInv, NEW s \in Signals, NEW t \in Signals, s # t,
                      act[s].pc \notin {"idle", "return"}
               PROVE  act[t].pc \in {"idle", "return"}
    BY DEF NestsOnlyInTail
  <2>1. \A r \in Signals : \/ act[r].pc \in {"idle", "return"}
                           \/ Serving(r)
                           \/ Resuming(r)
    BY DEF TypeOK, Activation, HandlerPlaces, Serving, Resuming
  <2>2. Serving("USR1") => ~Serving("USR2")
    BY DEF ProtocolInv, SignalPlace, RequestPlace
  <2>3. \A r \in Signals : Resuming(r) => \A q \in Signals : ~Serving(q)
    BY DEF ProtocolInv, SignalPlace, RequestPlace, ResumePlace, Signals
  <2>4. Resuming(s) => ~Resuming(t)
    BY DEF ProtocolInv, ResumePlace
  <2> QED BY <2>1, <2>2, <2>3, <2>4 DEF Signals
<1> QED BY <1>1, ProtocolInvariant, PTL

\* No write is lost in memory: a page that was written stays in memory until
\* getVictimFrame has evicted it and is about to write it back.
THEOREM DirtyPagesResident == DocumentedUse => (Spec => []DirtyIsResident)
<1>1. ProtocolInv => DirtyIsResident
  BY DEF ProtocolInv
<1> QED BY <1>1, ProtocolInvariant, PTL

\* A dirty page becomes clean only in the write-back of getVictimFrame, which
\* counts a disk access; in particular sigusr1_handler, which clears the bit of
\* the page it installs, never clears one that is set.
THEOREM WriteBackCleans == DocumentedUse => (Spec => CleanedOnlyByWriteBack)
<1>1. TypeOK /\ HandlerLocals /\ FrameInv /\ ProtocolInv /\ [Next]_vars
        => [\A p \in Pages : table[p].dirty /\ ~table'[p].dirty =>
              At("USR1", "writeback") /\ act["USR1"].victim = p
              /\ disk_access' = disk_access + 1]_vars
  <2> DEFINE Saved(p) == /\ At("USR1", "writeback") /\ act["USR1"].victim = p
                         /\ disk_access' = disk_access + 1
  <2> SUFFICES ASSUME TypeOK, HandlerLocals, FrameInv, ProtocolInv, Next,
                      NEW p \in Pages, table[p].dirty, ~table'[p].dirty
               PROVE  Saved(p)
    OBVIOUS
  <2>0. act \in [Signals -> Activation] /\ table \in [Pages -> Entry]
    BY DEF TypeOK
  <2>1. table' # table
    OBVIOUS
  <2>2. CASE CreateTable
    BY <2>2 DEF CreateTable, FrameInv, BootState, ProtocolInv, DirtyIsResident,
       Signals
  <2>3. CASE Evict
    <3>1. \/ table' = table
          \/ \E v : table' = [table EXCEPT ![v].valid = FALSE, ![v].frame = NoFrame]
      BY <2>3, Zenon DEF Evict, Unmapped
    <3> QED BY <2>0, <3>1 DEF Entry
  <2>4. CASE WriteBack
    BY <2>0, <2>4 DEF WriteBack, At, Entry
  <2>5. CASE Install
    <3>1. act["USR1"].pc = "install"
      BY <2>5 DEF Install, At
    <3>2. Held /\ p # act["USR1"].page
      BY <3>1, HeldAccess DEF Held, AccessValid, ProtocolInv, DirtyIsResident
    <3> QED BY <2>0, <2>5, <3>2 DEF Install
  <2>6. CASE CountHit
    BY <2>0, <2>6 DEF CountHit, Entry
  <2>7. ASSUME NEW a \in Accesses, Access(a) PROVE Saved(p)
    BY <2>0, <2>7 DEF Access, Entry
  <2>8. CASE Touch
    BY <2>0, <2>8 DEF Touch, Entry
  <2> QED
    BY <2>1, <2>2, <2>3, <2>4, <2>5, <2>6, <2>7, <2>8 DEF Next, OsStep, MmuStep, Ended, vars,
       BootCrash, CtrlC, Deliver, ScanFault, ScanNothing, Resume, Return, Attach,
       SignalOs, CheckFlag, SleepTimeout, TakeCont, Rearm, Finish, KillMmu, StrayCont
<1> QED
  BY <1>1, ProtocolInvariant, PTL DEF Spec, CleanedOnlyByWriteBack

-----------------------------------------------------------------------------
(***************************************************************************)
(* The two processes implement the demand pager, and their statistics      *)
(* agree, under the use the ReadMe describes.                              *)
(***************************************************************************)

\* The demand pager's variables, seen in the simulation.
Queue      == [k \in DOMAIN fifoList |-> Owner(fifoList[k])]
Uses       == [p \in Pages |-> IF table[p].valid THEN lfuList[table[p].frame] ELSE 0]
DirtyPages == {p \in Pages : table[p].dirty}
Flushing   == IF act["USR1"].pc = "writeback" THEN act["USR1"].victim ELSE NoPage

InMemory == {p \in Pages : table[p].valid}

\* Each frame of the queue has its page, which is in memory.  (The converse is
\* NoSharedFrame.)
QueueOwned ==
  \A f \in ToSet(fifoList) : \E p \in Pages : table[p].valid /\ table[p].frame = f

PagingInv ==
  /\ TypeOK
  /\ HandlerLocals
  /\ FrameInv
  /\ ProtocolInv
  /\ QueueOwned

-----------------------------------------------------------------------------
(***************************************************************************)
(* The queue of pages and the queue of frames.                             *)
(***************************************************************************)

LEMMA QueueElements ==
  ASSUME TypeOK
  PROVE  /\ Len(fifoList) \in Nat
         /\ DOMAIN fifoList = 1 .. Len(fifoList)
         /\ \A k \in 1 .. Len(fifoList) :
              fifoList[k] \in Frames /\ fifoList[k] \in ToSet(fifoList)
         /\ ToSet(fifoList) \subseteq Frames
<1>1. Len(fifoList) \in Nat /\ DOMAIN fifoList = 1 .. Len(fifoList)
  BY LenProperties DEF TypeOK
<1>2. \A k \in 1 .. Len(fifoList) : fifoList[k] \in Frames
  BY ElementOfSeq DEF TypeOK
<1> QED BY <1>1, <1>2 DEF ToSet

\* Owner in a given table.
OwnerIn(t, f) == CHOOSE p \in Pages : t[p].frame = f

LEMMA OwnersNow ==
  /\ \A f : Owner(f) = OwnerIn(table, f)
  /\ Queue = [k \in DOMAIN fifoList |-> OwnerIn(table, fifoList[k])]
BY DEF Owner, OwnerIn, Queue

LEMMA OwnersNext ==
  Queue' = [k \in DOMAIN fifoList' |-> OwnerIn(table', fifoList'[k])]
BY DEF Owner, OwnerIn, Queue

LEMMA OwnerUnique ==
  ASSUME TypeOK, FrameInv, NEW p \in Pages, table[p].valid
  PROVE  /\ Owner(table[p].frame) = p
         /\ table[p].frame \in ToSet(fifoList)
         /\ table[p].frame \in Frames
<1>1. /\ table[p].frame \in ToSet(fifoList)
      /\ \A q \in Pages : table[q].frame = table[p].frame => q = p
  BY DEF FrameInv, NoSharedFrame
<1>2. Owner(table[p].frame) = p
  BY <1>1 DEF Owner
<1> QED BY <1>1, <1>2, QueueElements

LEMMA OwnerOfQueued ==
  ASSUME PagingInv, NEW f \in ToSet(fifoList)
  PROVE  Owner(f) \in Pages /\ table[Owner(f)].valid /\ table[Owner(f)].frame = f
<1>1. PICK p \in Pages : table[p].valid /\ table[p].frame = f
  BY DEF PagingInv, QueueOwned
<1> QED BY <1>1, OwnerUnique DEF PagingInv

LEMMA QueueOfPages ==
  ASSUME PagingInv
  PROVE  /\ Queue \in Seq(Pages)
         /\ Len(Queue) = Len(fifoList)
         /\ DOMAIN Queue = 1 .. Len(fifoList)
         /\ \A k \in 1 .. Len(fifoList) : Queue[k] = Owner(fifoList[k])
         /\ ToSet(Queue) = InMemory
<1>1. /\ Len(fifoList) \in Nat /\ DOMAIN fifoList = 1 .. Len(fifoList)
      /\ \A k \in 1 .. Len(fifoList) : fifoList[k] \in ToSet(fifoList)
  BY QueueElements DEF PagingInv
<1>2. \A k \in 1 .. Len(fifoList) :
        /\ Owner(fifoList[k]) \in Pages /\ table[Owner(fifoList[k])].valid
        /\ Queue[k] = Owner(fifoList[k])
  BY <1>1, OwnerOfQueued DEF Queue
<1>3. Queue \in [1 .. Len(fifoList) -> Pages]
  BY <1>1, <1>2 DEF Queue
<1>4. Queue \in Seq(Pages) /\ Len(Queue) = Len(fifoList)
  BY <1>1, <1>3, SeqDef, LenProperties
<1>5. ToSet(Queue) \subseteq InMemory
  BY <1>1, <1>2, <1>3 DEF ToSet, InMemory
<1>6. ASSUME NEW p \in InMemory PROVE p \in ToSet(Queue)
  <2>1. Owner(table[p].frame) = p /\ table[p].frame \in ToSet(fifoList)
    BY OwnerUnique DEF InMemory, PagingInv
  <2>2. PICK k \in 1 .. Len(fifoList) : fifoList[k] = table[p].frame
    BY <1>1, <2>1 DEF ToSet
  <2> QED BY <1>2, <1>3, <2>1, <2>2 DEF ToSet
<1> QED BY <1>2, <1>3, <1>4, <1>5, <1>6

\* The queue is full when it holds every frame, and is not when it misses one.
LEMMA QueueLength ==
  ASSUME TypeOK, IsInjective(fifoList)
  PROVE  /\ Frames \subseteq ToSet(fifoList) => Len(fifoList) = FrameCount
         /\ \A f \in Frames : f \notin ToSet(fifoList) => Len(fifoList) < FrameCount
<1>1. /\ Len(fifoList) \in Nat /\ DOMAIN fifoList = 1 .. Len(fifoList)
      /\ ToSet(fifoList) \subseteq Frames
  BY QueueElements
<1>2. IsFiniteSet(Frames) /\ Cardinality(Frames) = FrameCount /\ FrameCount \in Nat
  BY SimAssumption, FS_Interval DEF Frames
<1>3. /\ IsFiniteSet(1 .. Len(fifoList))
      /\ Cardinality(1 .. Len(fifoList)) = Len(fifoList)
  <2> DEFINE n == Len(fifoList)
  <2>1. n \in Nat /\ 1 \in Int /\ n \in Int
    BY <1>1
  <2> HIDE DEF n
  <2>2. IsFiniteSet(1 .. n) /\ Cardinality(1 .. n) = IF 1 > n THEN 0 ELSE n - 1 + 1
    BY <2>1, FS_Interval
  <2>3. IsFiniteSet(1 .. n) /\ Cardinality(1 .. n) = n
    BY <2>1, <2>2
  <2> QED BY <2>3 DEF n
<1>4. fifoList \in Bijection(1 .. Len(fifoList), ToSet(fifoList))
  <2>1. fifoList \in [1 .. Len(fifoList) -> ToSet(fifoList)]
    BY <1>1 DEF ToSet, TypeOK
  <2>2. \A i, j \in 1 .. Len(fifoList) : fifoList[i] = fifoList[j] => i = j
    BY <1>1 DEF IsInjective
  <2>3. \A f \in ToSet(fifoList) : \E i \in 1 .. Len(fifoList) : fifoList[i] = f
    BY <1>1 DEF ToSet
  <2> QED BY <2>1, <2>2, <2>3, Fun_IsBij
<1>5. IsFiniteSet(ToSet(fifoList)) /\ Cardinality(ToSet(fifoList)) = Len(fifoList)
  BY <1>3, <1>4, FS_Bijection DEF ExistsBijection
<1>6. /\ Cardinality(ToSet(fifoList)) <= Cardinality(Frames)
      /\ Cardinality(Frames) = Cardinality(ToSet(fifoList)) => Frames = ToSet(fifoList)
  BY <1>1, <1>2, FS_Subset
<1>7. CASE Frames \subseteq ToSet(fifoList)
  <2>1. ToSet(fifoList) = Frames
    BY <1>1, <1>7
  <2> QED BY <1>2, <1>5, <2>1
<1>8. ASSUME NEW f \in Frames, f \notin ToSet(fifoList) PROVE Len(fifoList) < FrameCount
  <2>1. ToSet(fifoList) # Frames
    BY <1>8
  <2>2. Cardinality(Frames) # Cardinality(ToSet(fifoList))
    BY <1>6, <2>1
  <2>3. Cardinality(ToSet(fifoList)) <= Cardinality(Frames)
    BY <1>6
  <2> DEFINE n == Cardinality(ToSet(fifoList))
             m == Cardinality(Frames)
  <2>4. n = Len(fifoList) /\ m = FrameCount /\ n \in Nat /\ m \in Nat
    BY <1>1, <1>2, <1>5
  <2>5. n <= m /\ m # n
    BY <2>2, <2>3
  <2> HIDE DEF n, m
  <2> QED BY <2>4, <2>5
<1> QED BY <1>7, <1>8

-----------------------------------------------------------------------------
(***************************************************************************)
(* What the pager sees of a step.                                          *)
(***************************************************************************)

\* The demand pager's copies of the library's operators are the library's.
LEMMA SameOperators ==
  /\ \A S : Paging!Min(S) = Min(S)
  /\ \A s : Paging!ToSet(s) = ToSet(s)
  /\ \A s, k : Paging!RemoveAt(s, k) = RemoveAt(s, k)
<1>1. ASSUME NEW S PROVE Paging!Min(S) = Min(S)
  BY DEF Paging!Min, Min
<1>2. ASSUME NEW s PROVE Paging!ToSet(s) = ToSet(s)
  BY DEF Paging!ToSet, ToSet
<1>3. ASSUME NEW s, NEW k PROVE Paging!RemoveAt(s, k) = RemoveAt(s, k)
  BY DEF Paging!RemoveAt, RemoveAt
<1> QED BY <1>1, <1>2, <1>3

LEMMA PagerState ==
  Paging!vars = <<Queue, Uses, DirtyPages, Loading, Flushing, disk_access>>
BY DEF Paging!vars, Queue, Uses, DirtyPages, Flushing

FaultPlaces == {"evict", "writeback", "install"}

\* A step that leaves the frames, the page table and the fault handler's work alone is
\* none of the pager's business.
LEMMA Unseen ==
  ASSUME fifoList' = fifoList, lfuList' = lfuList, disk_access' = disk_access,
         \A p \in Pages : /\ table'[p].valid = table[p].valid
                          /\ table'[p].frame = table[p].frame
                          /\ table'[p].dirty = table[p].dirty,
         \/ act'["USR1"] = act["USR1"]
         \/ /\ act["USR1"].pc \notin FaultPlaces
            /\ act'["USR1"].pc \notin FaultPlaces
  PROVE  UNCHANGED Paging!vars
<1>1. \A f : Owner(f)' = Owner(f)
  BY DEF Owner
<1>2. Queue' = Queue
  BY <1>1 DEF Queue
<1>3. Uses' = Uses /\ DirtyPages' = DirtyPages
  BY DEF Uses, DirtyPages
<1>4. Loading' = Loading /\ Flushing' = Flushing
  BY DEF Loading, Flushing, FaultPlaces
<1>5. disk_access' = disk_access
  OBVIOUS
<1> QED BY <1>2, <1>3, <1>4, <1>5 DEF Paging!vars, Queue, Uses, DirtyPages, Flushing

-----------------------------------------------------------------------------
(***************************************************************************)
(* The pager's actions, in the simulation's terms.                         *)
(***************************************************************************)

LEMMA PagerTerms ==
  ASSUME PagingInv
  PROVE  /\ Paging!Resident = InMemory
         /\ Paging!NoPage = NoPage
         /\ Paging!Pages = Pages
<1>1. Paging!Resident = ToSet(Queue)
  BY SameOperators DEF Paging!Resident, Queue
<1> QED BY <1>1, QueueOfPages DEF Paging!NoPage, NoPage, Paging!Pages, Pages

LEMMA PagerHit ==
  ASSUME PagingInv, NEW p \in InMemory, Loading = NoPage,
         Uses' = [Uses EXCEPT ![p] = @ + 1],
         UNCHANGED <<Queue, DirtyPages, Loading, Flushing, disk_access>>
  PROVE  Paging!Next
<1>1. Paging!Hit(p)
  BY PagerTerms DEF Paging!Hit, Queue, Uses, DirtyPages, Flushing
<1> QED BY <1>1, PagerTerms DEF Paging!Next, InMemory

LEMMA PagerFault ==
  ASSUME PagingInv, NEW p \in Pages, ~table[p].valid, Loading = NoPage, Loading' = p,
         disk_access' = disk_access + 1,
         UNCHANGED <<Queue, Uses, DirtyPages, Flushing>>
  PROVE  Paging!Next
<1>1. Paging!Fault(p)
  BY PagerTerms DEF Paging!Fault, Queue, Uses, DirtyPages, Flushing, InMemory
<1> QED BY <1>1, PagerTerms DEF Paging!Next

LEMMA PagerWrite ==
  ASSUME PagingInv, NEW p \in InMemory, Loading = NoPage,
         DirtyPages' = DirtyPages \cup {p},
         UNCHANGED <<Queue, Uses, Loading, Flushing, disk_access>>
  PROVE  Paging!Next
<1>1. Paging!Write(p)
  BY PagerTerms DEF Paging!Write, Queue, Uses, DirtyPages, Flushing
<1> QED BY <1>1, PagerTerms DEF Paging!Next, InMemory

LEMMA PagerWriteBack ==
  ASSUME PagingInv, Flushing # NoPage, DirtyPages' = DirtyPages \ {Flushing},
         Flushing' = NoPage, disk_access' = disk_access + 1,
         UNCHANGED <<Queue, Uses, Loading>>
  PROVE  Paging!Next
<1>1. Paging!WriteBack
  BY PagerTerms DEF Paging!WriteBack, Queue, Uses, DirtyPages, Flushing
<1> QED BY <1>1 DEF Paging!Next

LEMMA PagerLoad ==
  ASSUME PagingInv, Loading # NoPage, Flushing = NoPage, Len(Queue) < FrameCount,
         Queue' = Append(Queue, Loading), Uses' = [Uses EXCEPT ![Loading] = 1],
         Loading' = NoPage, UNCHANGED <<DirtyPages, Flushing, disk_access>>
  PROVE  Paging!Next
<1>1. Paging!Load
  BY PagerTerms DEF Paging!Load, Queue, Uses, DirtyPages, Flushing
<1> QED BY <1>1 DEF Paging!Next

\* The pager compares the pages in memory, lfu_victim all the frames: the same when
\* every frame is in use.
LEMMA SameCandidates ==
  ASSUME PagingInv, Frames \subseteq ToSet(fifoList)
  PROVE  Paging!Candidates = Candidates
<1>1. Paging!Candidates =
        {k \in DOMAIN Queue :
           Policy = "LFU" => \A p \in InMemory : Uses[Queue[k]] <= Uses[p]}
  BY PagerTerms DEF Paging!Candidates, Queue, Uses
<1>2. /\ DOMAIN fifoList = 1 .. Len(fifoList) /\ DOMAIN Queue = DOMAIN fifoList
      /\ ToSet(fifoList) \subseteq Frames
  BY QueueOfPages, QueueElements DEF PagingInv
<1>3. ASSUME NEW k \in DOMAIN fifoList
      PROVE  (\A p \in InMemory : Uses[Queue[k]] <= Uses[p]) <=> fifoList[k] \in MinFrames
  <2>1. Queue[k] = Owner(fifoList[k]) /\ fifoList[k] \in ToSet(fifoList) /\ fifoList[k] \in Frames
    BY <1>2, QueueOfPages, QueueElements DEF PagingInv
  <2>2. Uses[Queue[k]] = lfuList[fifoList[k]]
    BY <2>1, OwnerOfQueued DEF Uses
  <2>3. \A p \in InMemory : Uses[p] = lfuList[table[p].frame] /\ table[p].frame \in Frames
    BY OwnerUnique DEF Uses, InMemory, PagingInv
  <2>4. \A f \in Frames : \E p \in InMemory : table[p].frame = f
    BY OwnerOfQueued DEF InMemory
  <2>5. (\A p \in InMemory : Uses[Queue[k]] <= Uses[p])
          <=> \A f \in Frames : lfuList[fifoList[k]] <= lfuList[f]
    <3>1. ASSUME \A p \in InMemory : Uses[Queue[k]] <= Uses[p], NEW f \in Frames
          PROVE  lfuList[fifoList[k]] <= lfuList[f]
      <4>1. PICK p \in InMemory : table[p].frame = f
        BY <2>4
      <4> QED BY <2>2, <2>3, <3>1, <4>1
    <3>2. ASSUME \A f \in Frames : lfuList[fifoList[k]] <= lfuList[f], NEW p \in InMemory
          PROVE  Uses[Queue[k]] <= Uses[p]
      BY <2>2, <2>3, <3>2
    <3> QED BY <3>1, <3>2
  <2> QED BY <2>1, <2>5 DEF MinFrames
<1> QED BY <1>1, <1>2, <1>3 DEF Candidates

LEMMA PagerEvict ==
  ASSUME PagingInv, Frames \subseteq ToSet(fifoList), Loading # NoPage, Flushing = NoPage,
         NEW k, k = Min(Candidates), NEW v, v = Queue[k],
         Queue' = RemoveAt(Queue, k), Uses' = [Uses EXCEPT ![v] = 0],
         Flushing' = IF v \in DirtyPages THEN v ELSE NoPage,
         UNCHANGED <<DirtyPages, Loading, disk_access>>
  PROVE  Paging!Next
<1>1. Len(Queue) = FrameCount
  BY QueueOfPages, QueueLength DEF PagingInv, FrameInv, QueueMatchesFrames
<1>2. Paging!Min(Paging!Candidates) = k
  BY SameCandidates, SameOperators
<1>3. Paging!Evict
  BY <1>1, <1>2, PagerTerms, SameOperators
     DEF Paging!Evict, Queue, Uses, DirtyPages, Flushing
<1> QED BY <1>3 DEF Paging!Next

-----------------------------------------------------------------------------
(***************************************************************************)
(* The steps of the fault handler that move frames.                        *)
(***************************************************************************)

\* getVictimFrame takes the frame from the one page that has it.
LEMMA EvictEffect ==
  ASSUME PagingInv, Evict
  PROVE  \E k \in 1 .. Len(fifoList), v \in Pages :
           /\ k = Min(Candidates) /\ fifoList[k] \in ToSet(fifoList)
           /\ table[v].valid /\ table[v].frame = fifoList[k]
           /\ Owner(fifoList[k]) = v
           /\ fifoList' = RemoveAt(fifoList, k)
           /\ table' = [table EXCEPT ![v].valid = FALSE, ![v].frame = NoFrame]
           /\ act'["USR1"].page = act["USR1"].page
           /\ act'["USR1"].victim = v
           /\ act'["USR1"].pc = IF table[v].dirty THEN "writeback" ELSE "install"
<1> DEFINE k == Min(Candidates)
           f == fifoList[k]
           mapped == {p \in Pages : table[p].frame = f}
           v == Min(mapped)
           place == IF table[v].dirty THEN "writeback" ELSE "install"
<1>1. Candidates # {}
  BY SomeCandidate DEF Evict, PagingInv
<1>2. k \in 1 .. Len(fifoList) /\ f \in ToSet(fifoList)
  BY <1>1, CandidateFacts, QueueElements DEF PagingInv
<1>3. Owner(f) \in Pages /\ table[Owner(f)].valid /\ table[Owner(f)].frame = f
  BY <1>2, OwnerOfQueued
<1>4. mapped = {Owner(f)}
  <2>1. \A p \in Pages : table[p].frame = f => p = Owner(f)
    BY <1>3 DEF PagingInv, FrameInv, NoSharedFrame
  <2> QED BY <1>3, <2>1
<1>5. v = Owner(f) /\ mapped # {}
  <2>1. mapped \subseteq Nat /\ mapped # {}
    BY <1>4, SimAssumption DEF Pages
  <2>2. v \in mapped
    <3> HIDE DEF mapped
    <3> QED BY <2>1, LeastNat
  <2> QED BY <1>4, <2>1, <2>2
<1>6. /\ fifoList' = RemoveAt(fifoList, k)
      /\ table' = [table EXCEPT ![v].valid = FALSE, ![v].frame = NoFrame]
      /\ act' = [act EXCEPT !["USR1"].frame = f, !["USR1"].victim = v,
                            !["USR1"].pc = place]
  BY <1>1, <1>5 DEF Evict, Unmapped
<1> HIDE DEF k, f, mapped, v, place
<1>7. act \in [Signals -> Activation]
  BY DEF PagingInv, TypeOK
<1>8. /\ act'["USR1"].page = act["USR1"].page /\ act'["USR1"].victim = v
      /\ act'["USR1"].pc = place
  BY <1>6, <1>7 DEF Signals, Activation
<1>9. place = IF table[v].dirty THEN "writeback" ELSE "install"
  BY DEF place
<1> QED BY <1>2, <1>3, <1>5, <1>6, <1>8, <1>9 DEF k, f

LEMMA EvictRefines ==
  ASSUME PagingInv, Evict
  PROVE  QueueOwned' /\ Paging!Next
<1>1. PICK k \in 1 .. Len(fifoList), v \in Pages :
        /\ k = Min(Candidates) /\ fifoList[k] \in ToSet(fifoList)
        /\ table[v].valid /\ table[v].frame = fifoList[k]
        /\ Owner(fifoList[k]) = v
        /\ fifoList' = RemoveAt(fifoList, k)
        /\ table' = [table EXCEPT ![v].valid = FALSE, ![v].frame = NoFrame]
        /\ act'["USR1"].page = act["USR1"].page
        /\ act'["USR1"].victim = v
        /\ act'["USR1"].pc = IF table[v].dirty THEN "writeback" ELSE "install"
  BY EvictEffect
<1>2. /\ table \in [Pages -> Entry] /\ fifoList \in Seq(Frames) /\ IsInjective(fifoList)
      /\ lfuList' = lfuList /\ disk_access' = disk_access
      /\ act["USR1"].pc = "evict" /\ act["USR1"].page \in Pages
  BY DEF PagingInv, TypeOK, FrameInv, QueueMatchesFrames, Evict, At, HandlerLocals
<1>3. /\ Len(fifoList) \in Nat /\ DOMAIN fifoList = 1 .. Len(fifoList)
      /\ ToSet(fifoList) \subseteq Frames
  BY QueueElements DEF PagingInv
<1>4. /\ Len(fifoList') = Len(fifoList) - 1
      /\ \A i \in 1 .. Len(fifoList) - 1 :
           fifoList'[i] = IF i < k THEN fifoList[i] ELSE fifoList[i + 1]
      /\ fifoList' \in Seq(Frames)
      /\ ToSet(fifoList') = ToSet(fifoList) \ {fifoList[k]}
  BY <1>1, <1>2, RemoveAtProperties, RemoveAtDistinct
<1>5. DOMAIN fifoList' = 1 .. Len(fifoList) - 1
  BY <1>4, LenProperties
<1>6. /\ ~table'[v].valid /\ table'[v].frame = NoFrame
      /\ table'[v].dirty = table[v].dirty
      /\ \A p \in Pages : p # v => table'[p] = table[p]
  BY <1>1, <1>2 DEF Entry
<1>7. NoFrame \notin Frames
  BY SimAssumption DEF Frames, NoFrame
<1>8. \A f \in ToSet(fifoList') :
        /\ Owner(f) \in Pages /\ Owner(f) # v
        /\ table'[Owner(f)].valid /\ table'[Owner(f)].frame = f
  <2> SUFFICES ASSUME NEW f \in ToSet(fifoList')
               PROVE  /\ Owner(f) \in Pages /\ Owner(f) # v
                      /\ table'[Owner(f)].valid /\ table'[Owner(f)].frame = f
    OBVIOUS
  <2>1. f \in ToSet(fifoList) /\ f # fifoList[k]
    BY <1>4
  <2>2. Owner(f) \in Pages /\ table[Owner(f)].valid /\ table[Owner(f)].frame = f
    BY <2>1, OwnerOfQueued
  <2>3. Owner(f) # v
    BY <1>1, <2>1, <2>2
  <2> QED BY <1>6, <2>2, <2>3
<1>9. QueueOwned'
  BY <1>8 DEF QueueOwned
<1>10. \A f \in ToSet(fifoList') : OwnerIn(table', f) = Owner(f)
  <2> SUFFICES ASSUME NEW f \in ToSet(fifoList')
               PROVE  OwnerIn(table', f) = Owner(f)
    OBVIOUS
  <2>1. f \in ToSet(fifoList) /\ f \in Frames
    BY <1>3, <1>4
  <2>2. table'[v].frame # f /\ table[v].frame # f
    BY <1>1, <1>4, <1>6, <1>7, <2>1
  <2>3. \A p \in Pages : table'[p].frame = f <=> table[p].frame = f
    BY <1>6, <2>2
  <2> QED BY <2>3 DEF Owner, OwnerIn
<1>11. Queue' = RemoveAt(Queue, k)
  <2>1. /\ Queue \in Seq(Pages) /\ Len(Queue) = Len(fifoList)
        /\ \A i \in 1 .. Len(fifoList) : Queue[i] = Owner(fifoList[i])
    BY QueueOfPages
  <2>2. /\ RemoveAt(Queue, k) \in Seq(Pages)
        /\ Len(RemoveAt(Queue, k)) = Len(fifoList) - 1
        /\ \A i \in 1 .. Len(fifoList) - 1 :
             RemoveAt(Queue, k)[i] = IF i < k THEN Queue[i] ELSE Queue[i + 1]
    BY <2>1, RemoveAtProperties
  <2> DEFINE r == RemoveAt(Queue, k)
  <2>3. DOMAIN r = 1 .. Len(fifoList) - 1 /\ r \in [1 .. Len(fifoList) - 1 -> Pages]
    BY <2>2, LenProperties
  <2> HIDE DEF r
  <2>4. Queue' = [i \in 1 .. Len(fifoList) - 1 |-> OwnerIn(table', fifoList'[i])]
    BY <1>5, OwnersNext
  <2>5. ASSUME NEW i \in 1 .. Len(fifoList) - 1 PROVE OwnerIn(table', fifoList'[i]) = r[i]
    <3>1. fifoList'[i] \in ToSet(fifoList')
      BY <1>5 DEF ToSet
    <3>2. OwnerIn(table', fifoList'[i]) = Owner(fifoList'[i])
      BY <1>10, <3>1
    <3>3. Owner(fifoList'[i]) = IF i < k THEN Queue[i] ELSE Queue[i + 1]
      BY <1>3, <1>4, <2>1
    <3> QED BY <2>2, <3>2, <3>3 DEF r
  <2>6. Queue' = r
    BY <2>3, <2>4, <2>5
  <2> QED BY <2>6 DEF r
<1>12. Uses' = [Uses EXCEPT ![v] = 0]
  BY <1>1, <1>2, <1>6 DEF Uses
<1>13. DirtyPages' = DirtyPages
  BY <1>6 DEF DirtyPages
<1>14. /\ Loading = act["USR1"].page /\ Loading' = Loading /\ Loading # NoPage
       /\ Flushing = NoPage
       /\ Flushing' = IF v \in DirtyPages THEN v ELSE NoPage
  BY <1>1, <1>2 DEF Loading, Flushing, DirtyPages, Pages, NoPage
<1>15. Queue[k] = v
  BY <1>1, QueueOfPages
<1>16. Frames \subseteq ToSet(fifoList)
  BY <1>2 DEF PagingInv, FrameInv, FullWhenEvicting, QueueMatchesFrames, HeldFrames
<1>17. Paging!Next
  BY <1>1, <1>2, <1>11, <1>12, <1>13, <1>14, <1>15, <1>16, PagerEvict
<1> QED BY <1>9, <1>17

LEMMA InstallRefines ==
  ASSUME PagingInv, Install
  PROVE  QueueOwned' /\ Paging!Next
<1> DEFINE p == act["USR1"].page
           f == act["USR1"].frame
<1>1. /\ act["USR1"].pc = "install" /\ p \in Pages /\ f \in Frames
      /\ disk_access' = disk_access
  BY DEF Install, At, PagingInv, HandlerLocals
<1>2. ~table[p].valid /\ ~table[p].dirty
  <2>1. Held
    BY <1>1, HeldAccess DEF PagingInv
  <2>2. ~table[p].valid
    BY <2>1 DEF Held, AccessValid
  <2> QED BY <1>1, <2>2 DEF PagingInv, ProtocolInv, DirtyIsResident
<1>3. f \notin ToSet(fifoList) /\ \A q \in Pages : table[q].frame # f
  BY <1>1 DEF PagingInv, FrameInv, QueueMatchesFrames, HeldUnmapped, HeldFrames, Install, At
<1>4. /\ fifoList \in Seq(Frames) /\ IsInjective(fifoList)
      /\ table \in [Pages -> Entry] /\ lfuList \in [Frames -> Nat]
      /\ act \in [Signals -> Activation]
  BY DEF PagingInv, TypeOK, FrameInv, QueueMatchesFrames
<1>5. /\ fifoList' = Append(fifoList, f)
      /\ lfuList' = [lfuList EXCEPT ![f] = 1]
      /\ table'[p].valid /\ table'[p].frame = f /\ ~table'[p].dirty
      /\ \A q \in Pages : q # p => table'[q] = table[q]
      /\ act'["USR1"].pc = "resume"
  BY <1>1, <1>4 DEF Install, InstalledEntry, Signals, Activation
<1> HIDE DEF p, f
<1>6. /\ Len(fifoList) \in Nat /\ DOMAIN fifoList = 1 .. Len(fifoList)
      /\ \A k \in 1 .. Len(fifoList) :
           fifoList[k] \in Frames /\ fifoList[k] \in ToSet(fifoList)
  BY QueueElements DEF PagingInv
<1>7. /\ Len(fifoList') = Len(fifoList) + 1
      /\ DOMAIN fifoList' = 1 .. Len(fifoList) + 1
      /\ \A k \in 1 .. Len(fifoList) : fifoList'[k] = fifoList[k]
      /\ fifoList'[Len(fifoList) + 1] = f
      /\ ToSet(fifoList') = ToSet(fifoList) \cup {f}
  BY <1>1, <1>3, <1>4, <1>5, <1>6, AppendProperties, AppendDistinct, LenProperties
<1>8. QueueOwned'
  <2> SUFFICES ASSUME NEW g \in ToSet(fifoList')
               PROVE  \E q \in Pages : table'[q].valid /\ table'[q].frame = g
    BY DEF QueueOwned
  <2>1. CASE g = f
    BY <1>1, <1>5, <2>1 DEF p
  <2>2. CASE g \in ToSet(fifoList)
    <3>1. PICK q \in Pages : table[q].valid /\ table[q].frame = g
      BY <2>2 DEF PagingInv, QueueOwned
    <3> QED BY <1>2, <1>5, <3>1
  <2> QED BY <1>7, <2>1, <2>2
<1>9. \A g \in ToSet(fifoList) : OwnerIn(table', g) = Owner(g)
  <2> SUFFICES ASSUME NEW g \in ToSet(fifoList) PROVE OwnerIn(table', g) = Owner(g)
    OBVIOUS
  <2>1. Owner(g) \in Pages /\ table[Owner(g)].valid /\ table[Owner(g)].frame = g
    BY OwnerOfQueued
  <2>2. \A q \in Pages : table'[q].frame = g <=> q = Owner(g)
    BY <1>2, <1>3, <1>5, <2>1 DEF PagingInv, FrameInv, NoSharedFrame
  <2> QED BY <2>1, <2>2 DEF OwnerIn
<1>10. OwnerIn(table', f) = p
  <2>1. \A q \in Pages : table'[q].frame = f <=> q = p
    BY <1>1, <1>3, <1>5
  <2> QED BY <1>1, <2>1 DEF OwnerIn, p
<1>11. Loading = p /\ Loading # NoPage /\ Loading' = NoPage
       /\ Flushing = NoPage /\ Flushing' = NoPage
  BY <1>1, <1>5 DEF Loading, Flushing, p, Pages, NoPage
<1>12. Queue' = Append(Queue, p)
  <2>1. /\ Queue \in Seq(Pages) /\ Len(Queue) = Len(fifoList)
        /\ \A i \in 1 .. Len(fifoList) : Queue[i] = Owner(fifoList[i])
    BY QueueOfPages
  <2> DEFINE r == Append(Queue, p)
  <2>2. /\ r \in Seq(Pages) /\ Len(r) = Len(fifoList) + 1
        /\ \A i \in 1 .. Len(fifoList) : r[i] = Queue[i]
        /\ r[Len(fifoList) + 1] = p
    BY <1>1, <2>1, AppendProperties DEF p
  <2> HIDE DEF r
  <2>3. r \in [1 .. Len(fifoList) + 1 -> Pages]
    BY <2>2, LenProperties
  <2>4. Queue' = [i \in 1 .. Len(fifoList) + 1 |-> OwnerIn(table', fifoList'[i])]
    BY <1>7, OwnersNext
  <2>5. ASSUME NEW i \in 1 .. Len(fifoList) + 1 PROVE OwnerIn(table', fifoList'[i]) = r[i]
    <3>1. CASE i = Len(fifoList) + 1
      BY <1>7, <1>10, <2>2, <3>1
    <3>2. CASE i # Len(fifoList) + 1
      <4>1. i \in 1 .. Len(fifoList)
        BY <1>6, <3>2
      <4>2. fifoList'[i] = fifoList[i] /\ fifoList[i] \in ToSet(fifoList)
        BY <1>6, <1>7, <4>1
      <4> QED BY <1>9, <2>1, <2>2, <4>1, <4>2
    <3> QED BY <3>1, <3>2
  <2>6. Queue' = r
    BY <2>3, <2>4, <2>5
  <2> QED BY <2>6 DEF r
<1>13. Uses' = [Uses EXCEPT ![p] = 1]
  <2>1. ASSUME NEW q \in Pages, q # p, table[q].valid
        PROVE  lfuList'[table[q].frame] = lfuList[table[q].frame]
    <3>1. table[q].frame \in Frames /\ table[q].frame # f
      BY <1>3, <2>1, OwnerUnique DEF PagingInv
    <3> QED BY <1>4, <1>5, <3>1
  <2>2. lfuList'[f] = 1
    BY <1>1, <1>4, <1>5
  <2>3. \A q \in Pages :
          (IF table'[q].valid THEN lfuList'[table'[q].frame] ELSE 0)
            = IF q = p THEN 1 ELSE Uses[q]
    BY <1>5, <2>1, <2>2 DEF Uses
  <2>4. Uses' = [q \in Pages |-> IF q = p THEN 1 ELSE Uses[q]]
    BY <2>3 DEF Uses
  <2>5. DOMAIN Uses = Pages
    BY DEF Uses
  <2> QED BY <2>4, <2>5
<1>14. DirtyPages' = DirtyPages
  BY <1>1, <1>2, <1>5 DEF DirtyPages
<1>15. Len(Queue) < FrameCount
  BY <1>1, <1>3, <1>4, QueueOfPages, QueueLength DEF PagingInv
<1>16. Paging!Next
  BY <1>1, <1>11, <1>12, <1>13, <1>14, <1>15, PagerLoad
<1> QED BY <1>8, <1>16

-----------------------------------------------------------------------------
(***************************************************************************)
(* The other steps the pager sees.                                         *)
(***************************************************************************)

\* A step that maps no page and unmaps none.
LEMMA MappingKept ==
  ASSUME PagingInv, fifoList' = fifoList,
         \A p \in Pages : /\ table'[p].valid = table[p].valid
                          /\ table'[p].frame = table[p].frame
  PROVE  QueueOwned' /\ Queue' = Queue
<1>1. QueueOwned'
  BY DEF PagingInv, QueueOwned
<1>2. \A f : OwnerIn(table', f) = OwnerIn(table, f)
  BY DEF OwnerIn
<1> QED BY <1>1, <1>2, OwnersNow, OwnersNext

\* The fault handler is at work only while the MMU waits for it.
LEMMA NothingLoading ==
  ASSUME PagingInv, Serving("USR2") \/ mpc = "touch"
  PROVE  act["USR1"].pc \notin FaultPlaces /\ Loading = NoPage
<1>1. act["USR1"].pc \notin FaultPlaces
  BY HeldAccess DEF PagingInv, Held, FaultPlaces
<1> QED BY <1>1 DEF Loading, FaultPlaces

LEMMA ScanFaultRefines ==
  ASSUME PagingInv, ScanFault
  PROVE  QueueOwned' /\ Paging!Next
<1> DEFINE p == Min(RequestedPages)
<1>1. /\ act["USR1"].pc = "scan" /\ RequestedPages # {} /\ p \in RequestedPages
      /\ p \in Pages /\ p = access.page
  BY RequestedPage DEF ScanFault, At, PagingInv, ProtocolInv, RequestPlace
<1>2. ~table[p].valid
  <2>1. Serving("USR1") /\ Requesting
    BY <1>1 DEF Serving, Requesting
  <2> QED BY <1>1, <2>1 DEF PagingInv, ProtocolInv, SignalPlace, RequestPlace, AccessValid
<1>3. act'["USR1"].page = p /\ act'["USR1"].pc \in {"evict", "install"}
  BY DEF ScanFault, PagingInv, TypeOK, Signals, Activation
<1> HIDE DEF p
<1>4. /\ fifoList' = fifoList /\ table' = table /\ lfuList' = lfuList
      /\ disk_access' = disk_access + 1
  BY DEF ScanFault
<1>5. /\ Loading = NoPage /\ Loading' = p
      /\ Flushing' = Flushing
  BY <1>1, <1>3 DEF Loading, Flushing
<1>6. Uses' = Uses /\ DirtyPages' = DirtyPages
  BY <1>4 DEF Uses, DirtyPages
<1> QED BY <1>1, <1>2, <1>4, <1>5, <1>6, MappingKept, PagerFault

LEMMA WriteBackRefines ==
  ASSUME PagingInv, WriteBack
  PROVE  QueueOwned' /\ Paging!Next
<1> DEFINE v == act["USR1"].victim
<1>1. /\ act["USR1"].pc = "writeback" /\ v \in Pages
      /\ act'["USR1"].page = act["USR1"].page /\ act'["USR1"].pc = "install"
  BY DEF WriteBack, At, PagingInv, HandlerLocals, TypeOK, Signals, Activation
<1>2. /\ fifoList' = fifoList /\ lfuList' = lfuList
      /\ disk_access' = disk_access + 1
      /\ table' = [table EXCEPT ![v].dirty = FALSE]
  BY DEF WriteBack
<1>3. table \in [Pages -> Entry]
  BY DEF PagingInv, TypeOK
<1>4. Flushing = v /\ Flushing # NoPage /\ Flushing' = NoPage /\ Loading' = Loading
  BY <1>1 DEF Flushing, Loading, Pages, NoPage
<1> HIDE DEF v
<1>5. /\ \A p \in Pages : /\ table'[p].valid = table[p].valid
                          /\ table'[p].frame = table[p].frame
                          /\ table'[p].dirty <=> table[p].dirty /\ p # v
  BY <1>1, <1>2, <1>3 DEF Entry
<1>6. Uses' = Uses /\ DirtyPages' = DirtyPages \ {v}
  BY <1>2, <1>5 DEF Uses, DirtyPages
<1> QED BY <1>2, <1>4, <1>5, <1>6, MappingKept, PagerWriteBack

LEMMA CountHitRefines ==
  ASSUME PagingInv, CountHit
  PROVE  QueueOwned' /\ Paging!Next
<1> DEFINE p == Min(RequestedPages)
<1>1. act["USR2"].pc = "scan" /\ Serving("USR2")
  BY DEF CountHit, At, Serving
<1>2. RequestedPages # {} /\ p = access.page /\ p \in Pages /\ table[p].valid
  <2>1. Requesting /\ AccessValid
    BY <1>1 DEF PagingInv, ProtocolInv, SignalPlace
  <2>2. p \in RequestedPages
    BY <2>1, RequestedPage DEF Requesting
  <2> QED BY <2>1, <2>2 DEF Requesting, AccessValid, PagingInv, ProtocolInv, RequestPlace
<1> HIDE DEF p
<1>3. table[p].frame \in Frames
  BY <1>2, OwnerUnique DEF PagingInv
<1>4. /\ table \in [Pages -> Entry] /\ lfuList \in [Frames -> Nat]
      /\ act \in [Signals -> Activation]
  BY DEF PagingInv, TypeOK
<1>5. /\ act' = [act EXCEPT !["USR2"].pc = "resume", !["USR2"].page = p,
                            !["USR2"].pid = Requester(p)]
      /\ table' = [table EXCEPT ![p].requested = NoPid]
      /\ lfuList' = [lfuList EXCEPT ![table[p].frame] = @ + 1]
      /\ fifoList' = fifoList /\ disk_access' = disk_access
  BY <1>2, <1>3 DEF CountHit, CountFrame, p
<1>6. act'["USR1"] = act["USR1"]
  BY <1>4, <1>5 DEF Signals
<1>7. \A q \in Pages : /\ table'[q].valid = table[q].valid
                       /\ table'[q].frame = table[q].frame
                       /\ table'[q].dirty = table[q].dirty
  BY <1>4, <1>5 DEF Entry
<1>8. Uses' = [Uses EXCEPT ![p] = @ + 1]
  <2>1. ASSUME NEW q \in Pages
        PROVE  (IF table'[q].valid THEN lfuList'[table'[q].frame] ELSE 0)
                 = IF q = p THEN Uses[p] + 1 ELSE Uses[q]
    <3>1. CASE q = p
      BY <1>2, <1>3, <1>4, <1>5, <1>7, <3>1 DEF Uses
    <3>2. CASE q # p /\ table[q].valid
      <4>1. table[q].frame \in Frames /\ table[q].frame # table[p].frame
        BY <1>2, <3>2, OwnerUnique DEF PagingInv, FrameInv, NoSharedFrame
      <4> QED BY <1>4, <1>5, <1>7, <3>2, <4>1 DEF Uses
    <3>3. CASE q # p /\ ~table[q].valid
      BY <1>7, <3>3 DEF Uses
    <3> QED BY <3>1, <3>2, <3>3
  <2>2. Uses' = [q \in Pages |-> IF q = p THEN Uses[p] + 1 ELSE Uses[q]]
    BY <2>1 DEF Uses
  <2>3. DOMAIN Uses = Pages
    BY DEF Uses
  <2> QED BY <2>2, <2>3
<1>9. /\ DirtyPages' = DirtyPages /\ Loading' = Loading /\ Flushing' = Flushing
      /\ Loading = NoPage
  BY <1>1, <1>6, <1>7, NothingLoading DEF DirtyPages, Loading, Flushing
<1>10. p \in InMemory
  BY <1>2 DEF InMemory
<1> QED BY <1>5, <1>7, <1>8, <1>9, <1>10, MappingKept, PagerHit

LEMMA TouchRefines ==
  ASSUME PagingInv, Touch
  PROVE  QueueOwned' /\ (Paging!Next \/ UNCHANGED Paging!vars)
<1> DEFINE p == access.page
<1>1. mpc = "touch" /\ p \in Pages /\ table[p].valid
  <2>1. AccessValid
    BY DEF Touch, PagingInv, ProtocolInv, ServedStays, ServedPlace
  <2> QED BY <2>1 DEF Touch, AccessValid
<1>2. /\ fifoList' = fifoList /\ lfuList' = lfuList /\ disk_access' = disk_access
      /\ act' = act
  BY DEF Touch, osVars
<1>3. table \in [Pages -> Entry]
  BY DEF PagingInv, TypeOK
<1>4. CASE ~access.write
  <2>1. table' = table
    BY <1>4 DEF Touch
  <2> QED BY <1>2, <2>1, MappingKept, Unseen
<1>5. CASE access.write
  <2>1. table' = [table EXCEPT ![p].dirty = TRUE]
    BY <1>5 DEF Touch
  <2> HIDE DEF p
  <2>2. \A q \in Pages : /\ table'[q].valid = table[q].valid
                         /\ table'[q].frame = table[q].frame
                         /\ table'[q].dirty <=> table[q].dirty \/ q = p
    BY <1>3, <2>1 DEF Entry
  <2>3. Uses' = Uses /\ DirtyPages' = DirtyPages \cup {p}
    BY <1>1, <1>2, <2>2 DEF Uses, DirtyPages
  <2>4. Loading' = Loading /\ Flushing' = Flushing /\ Loading = NoPage
    BY <1>1, <1>2, NothingLoading DEF Loading, Flushing
  <2>5. p \in InMemory
    BY <1>1 DEF InMemory
  <2> QED BY <1>2, <2>2, <2>3, <2>4, <2>5, MappingKept, PagerWrite
<1> QED BY <1>4, <1>5

LEMMA StepRefines ==
  ASSUME PagingInv, [Next]_vars
  PROVE  QueueOwned' /\ (Paging!Next \/ UNCHANGED Paging!vars)
<1>0. act \in [Signals -> Activation] /\ table \in [Pages -> Entry]
  BY DEF PagingInv, TypeOK
<1> DEFINE Kept == /\ fifoList' = fifoList /\ lfuList' = lfuList
                   /\ disk_access' = disk_access
                   /\ \A p \in Pages : /\ table'[p].valid = table[p].valid
                                       /\ table'[p].frame = table[p].frame
                                       /\ table'[p].dirty = table[p].dirty
                   /\ \/ act'["USR1"] = act["USR1"]
                      \/ /\ act["USR1"].pc \notin FaultPlaces
                         /\ act'["USR1"].pc \notin FaultPlaces
<1>1. Kept => QueueOwned' /\ UNCHANGED Paging!vars
  BY MappingKept, Unseen
<1>2. CASE CreateTable
  <2>1. /\ fifoList = <<>> /\ fifoList' = <<>>
        /\ \A p \in Pages : ~table[p].valid /\ ~table'[p].valid /\ ~table'[p].dirty
    BY <1>2 DEF CreateTable, PagingInv, FrameInv, BootState, EmptyEntry
  <2>2. \A p \in Pages : ~table[p].dirty
    BY <1>2, <2>1 DEF CreateTable, PagingInv, FrameInv, BootState, ProtocolInv, DirtyIsResident,
       Signals
  <2>3. QueueOwned'
    BY <2>1 DEF QueueOwned, ToSet
  <2>4. Queue' = Queue
    BY <2>1, OwnersNow, OwnersNext
  <2>5. Uses' = Uses /\ DirtyPages' = DirtyPages
    BY <2>1, <2>2 DEF Uses, DirtyPages
  <2>6. Loading' = Loading /\ Flushing' = Flushing /\ disk_access' = disk_access
    BY <1>2 DEF CreateTable, Loading, Flushing
  <2> QED BY <2>3, <2>4, <2>5, <2>6
       DEF Paging!vars, Queue, Uses, DirtyPages, Flushing
<1>3. CASE BootCrash \/ CtrlC \/ ScanNothing
  BY <1>1, <1>3 DEF BootCrash, CtrlC, ScanNothing
<1>4. ASSUME NEW sig \in Signals, Deliver(sig) \/ Resume(sig) \/ Return(sig)
      PROVE  Kept
  <2>1. \/ act'["USR1"] = act["USR1"]
        \/ /\ act["USR1"].pc \notin FaultPlaces
           /\ act'["USR1"].pc \notin FaultPlaces
    <3>1. sig # "USR1" => act'["USR1"] = act["USR1"]
      BY <1>0, <1>4 DEF Deliver, Resume, Return, Signals
    <3>2. act'[sig].pc \in {"scan", "return", "idle"}
      BY <1>0, <1>4 DEF Deliver, Resume, Return, Idle, Activation
    <3>3. act[sig].pc \in {"idle", "resume", "return"}
      BY <1>4 DEF Deliver, Resume, Return, At
    <3>4. CASE sig = "USR1"
      BY <3>2, <3>3, <3>4 DEF FaultPlaces
    <3> QED BY <3>1, <3>4
  <2> QED BY <1>4, <2>1 DEF Deliver, Resume, Return
<1>5. CASE ScanFault
  BY <1>5, ScanFaultRefines
<1>6. CASE Evict
  BY <1>6, EvictRefines
<1>7. CASE WriteBack
  BY <1>7, WriteBackRefines
<1>8. CASE Install
  BY <1>8, InstallRefines
<1>9. CASE CountHit
  BY <1>9, CountHitRefines
<1>10. CASE Touch
  BY <1>10, TouchRefines
<1>11. ASSUME NEW a \in Accesses, Access(a) PROVE Kept
  BY <1>0, <1>11 DEF Access, osVars, Entry
<1>12. CASE \E pid \in Pids : Attach(pid)
  BY <1>1, <1>12 DEF Attach
<1>13. CASE SignalOs \/ CheckFlag \/ SleepTimeout \/ Rearm \/ Finish
  BY <1>1, <1>13 DEF SignalOs, CheckFlag, SleepTimeout, Rearm, Finish, osVars
<1>14. CASE TakeCont \/ KillMmu \/ StrayCont
  BY <1>1, <1>14 DEF TakeCont, KillMmu, StrayCont, osVars
<1>15. CASE UNCHANGED vars
  BY <1>1, <1>15 DEF vars, osVars
<1> HIDE DEF Kept
<1> QED
  BY <1>1, <1>2, <1>3, <1>4, <1>5, <1>6, <1>7, <1>8, <1>9, <1>10, <1>11, <1>12,
     <1>13, <1>14, <1>15 DEF Next, OsStep, MmuStep, Ended

LEMMA InitRefines == DocumentedUse /\ Init => QueueOwned /\ Paging!Init
<1> SUFFICES ASSUME Init PROVE QueueOwned /\ Paging!Init
  OBVIOUS
<1>1. fifoList = <<>> /\ ToSet(fifoList) = {}
  BY DEF Init, ToSet
<1>2. Queue = <<>>
  BY <1>1 DEF Queue
<1>3. Uses = [p \in Pages |-> 0] /\ DirtyPages = {}
  BY DEF Init, ZeroEntry, Uses, DirtyPages
<1>4. Loading = NoPage /\ Flushing = NoPage /\ disk_access = 0
  BY DEF Init, Idle, Signals, Loading, Flushing
<1>5. QueueOwned
  BY <1>1 DEF QueueOwned
<1> QED
  BY <1>2, <1>3, <1>4, <1>5
     DEF Paging!Init, Queue, Uses, DirtyPages, Flushing, Paging!Pages, Pages,
         Paging!NoPage, NoPage

-----------------------------------------------------------------------------
\* Every queued frame belongs to a page in memory, beside what PageTableProofs and
\* PageTableProofs establish: the invariant of the refinement.
THEOREM PagingInvariant == DocumentedUse => (Spec => []PagingInv)
<1> SUFFICES ASSUME DocumentedUse PROVE Spec => []PagingInv
  OBVIOUS
<1> DEFINE Base == TypeOK /\ HandlerLocals /\ FrameInv /\ ProtocolInv
<1>1. Init => QueueOwned
  BY InitRefines
<1>2. Base /\ QueueOwned /\ [Next]_vars => QueueOwned'
  BY StepRefines DEF PagingInv
<1>3. Spec => []Base
  BY ProtocolInvariant
<1>4. Base /\ QueueOwned => PagingInv
  BY DEF PagingInv
<1> HIDE DEF Base
<1> QED BY <1>1, <1>2, <1>3, <1>4, PTL DEF Spec

\* Under the documented use the two processes of OS.cpp and MMU.cpp, their signals and
\* their shared table implement the sequential demand pager: a fault is served by one
\* load, the victim is the page the policy names, and a dirty victim is written back
\* before its frame is given away.
THEOREM SimulationImplementsPaging == DocumentedUse => (Spec => ImplementsDemandPaging)
<1> SUFFICES ASSUME DocumentedUse PROVE Spec => ImplementsDemandPaging
  OBVIOUS
<1>1. Init => Paging!Init
  BY InitRefines
<1>2. PagingInv /\ [Next]_vars => [Paging!Next]_(Paging!vars)
  BY StepRefines
<1>3. Spec => []PagingInv
  BY PagingInvariant
<1> QED BY <1>1, <1>2, <1>3, PTL DEF Spec, ImplementsDemandPaging, Paging!Spec

-----------------------------------------------------------------------------
(***************************************************************************)
(* The statistics.  StatisticsAgree compares counters of both processes    *)
(* between two accesses; the invariant says how far apart they are while a *)
(* fault is served.                                                        *)
(***************************************************************************)

\* A fault was counted whose page is not installed yet.
Missing == Requesting /\ ~AccessValid
Served  == IF Missing THEN page_faults - 1 ELSE page_faults
Working == act["USR1"].pc \in FaultPlaces
Holding == act["USR1"].pc \in {"writeback", "install"}

Running == mpc \notin {"off", "killed", "done"}

AccessesCounted == page_hits + page_faults = IF mpc = "fetch" THEN lineNo - 1 ELSE lineNo

\* Each served fault fills a frame until all are in use; from then on one is in the
\* queue or in the handler's hands for another.
FramesFilled ==
  /\ Served \in Nat
  /\ Len(fifoList) = IF Served < FrameCount THEN Served
                     ELSE IF Holding THEN FrameCount - 1 ELSE FrameCount
  /\ act["USR1"].pc \in {"evict", "writeback"} => Served >= FrameCount

ReadsCounted == disk_access >= Served + IF Working THEN 1 ELSE 0

WritesBounded ==
  disk_access <= Served + (IF Working THEN 1 ELSE 0)
                        + (IF Served > FrameCount THEN Served - FrameCount ELSE 0)
                        + (IF act["USR1"].pc = "install" /\ Served >= FrameCount THEN 1 ELSE 0)

Counting == AccessesCounted /\ FramesFilled /\ ReadsCounted /\ WritesBounded

StatInv ==
  /\ mpc = "off" => fifoList = <<>> /\ disk_access = 0
  /\ Running => Counting

LEMMA StatInit == Init => StatInv
BY DEF Init, StatInv, Running

\* Steps that leave all the counters alone.
LEMMA CountingKept ==
  ASSUME StatInv, UNCHANGED <<fifoList, disk_access, page_hits, page_faults, lineNo>>,
         mpc' = "off" => mpc = "off",
         Running' => Running /\ (mpc' = "fetch" <=> mpc = "fetch"),
         Missing' <=> Missing,
         \/ act'["USR1"].pc = act["USR1"].pc
         \/ /\ act["USR1"].pc \notin FaultPlaces
            /\ act'["USR1"].pc \notin FaultPlaces
  PROVE  StatInv'
<1>1. Served' = Served
  BY DEF Served
<1>2. /\ Working' <=> Working
      /\ Holding' <=> Holding
      /\ \A place \in FaultPlaces : act'["USR1"].pc = place <=> act["USR1"].pc = place
  BY DEF Working, Holding, FaultPlaces
<1>3. CASE Running'
  <2>1. Counting
    BY <1>3 DEF StatInv
  <2>2. AccessesCounted' /\ ReadsCounted'
    BY <1>1, <1>2, <1>3, <2>1 DEF Counting, AccessesCounted, ReadsCounted
  <2>3. FramesFilled'
    BY <1>1, <1>2, <2>1 DEF Counting, FramesFilled, FaultPlaces
  <2>4. WritesBounded'
    BY <1>1, <1>2, <2>1 DEF Counting, WritesBounded, FaultPlaces
  <2> QED BY <2>2, <2>3, <2>4 DEF StatInv, Counting, Running
<1>4. CASE ~Running'
  BY <1>4 DEF StatInv
<1> QED BY <1>3, <1>4

LEMMA StatScanFault ==
  ASSUME PagingInv, StatInv, ScanFault
  PROVE  StatInv'
<1>1. /\ act["USR1"].pc = "scan" /\ mpc' = mpc /\ mpc # "off"
      /\ fifoList' = fifoList /\ disk_access' = disk_access + 1
      /\ page_hits' = page_hits /\ page_faults' = page_faults /\ lineNo' = lineNo
      /\ act'["USR1"].pc = IF FreeSet = {} THEN "evict" ELSE "install"
      /\ Missing' = Missing
  <2>1. act \in [Signals -> Activation]
    BY DEF PagingInv, TypeOK
  <2>2. /\ act["USR1"].pc = "scan" /\ mpc' = mpc
        /\ fifoList' = fifoList /\ disk_access' = disk_access + 1
        /\ page_hits' = page_hits /\ page_faults' = page_faults /\ lineNo' = lineNo
        /\ act'["USR1"].pc = IF FreeSet = {} THEN "evict" ELSE "install"
    BY <2>1 DEF ScanFault, At, mmuVars, Signals, Activation
  <2>3. Missing' = Missing
    BY DEF ScanFault, mmuVars, Missing, Requesting, RequestedPages, AccessValid
  <2>4. mpc # "off"
    BY <2>2 DEF PagingInv, ProtocolInv, MmuLife, Signals
  <2> QED BY <2>2, <2>3, <2>4
<1>2. /\ FreeSet = {} => Len(fifoList) = FrameCount
      /\ FreeSet # {} => Len(fifoList) < FrameCount
  <2>1. \A f \in Frames : f \in ToSet(fifoList) <=> ~freeFrames[f]
    BY <1>1 DEF PagingInv, FrameInv, QueueMatchesFrames, HeldFrames
  <2> QED BY <2>1, QueueLength DEF FreeSet, PagingInv, FrameInv, QueueMatchesFrames
<1>3. CASE Running
  <2>1. Counting /\ Served' = Served
    BY <1>1, <1>3 DEF StatInv, Served
  <2>2. ~Working /\ ~Holding /\ Working'
    BY <1>1 DEF Working, Holding, FaultPlaces
  <2>3. /\ Served \in Nat /\ FrameCount \in Nat /\ disk_access \in Nat
        /\ Len(fifoList) = IF Served < FrameCount THEN Served ELSE FrameCount
    BY <2>1, <2>2, SimAssumption DEF Counting, FramesFilled, PagingInv, TypeOK
  <2>4. CASE FreeSet = {}
    <3>1. Served >= FrameCount /\ act'["USR1"].pc = "evict" /\ ~Holding'
      BY <1>1, <1>2, <2>3, <2>4 DEF Holding
    <3> QED BY <1>1, <2>1, <2>2, <2>3, <3>1
         DEF StatInv, Counting, AccessesCounted, FramesFilled, ReadsCounted, WritesBounded
  <2>5. CASE FreeSet # {}
    <3>1. Served < FrameCount /\ act'["USR1"].pc = "install" /\ Holding'
      BY <1>1, <1>2, <2>3, <2>5 DEF Holding
    <3> QED BY <1>1, <2>1, <2>2, <2>3, <3>1
         DEF StatInv, Counting, AccessesCounted, FramesFilled, ReadsCounted, WritesBounded
  <2> QED BY <2>4, <2>5
<1>4. CASE ~Running
  BY <1>1, <1>4 DEF StatInv, Running
<1> QED BY <1>3, <1>4

LEMMA StatEvict ==
  ASSUME PagingInv, StatInv, Evict
  PROVE  StatInv'
<1>1. PICK k \in 1 .. Len(fifoList), v \in Pages :
        /\ table[v].valid
        /\ fifoList' = RemoveAt(fifoList, k)
        /\ table' = [table EXCEPT ![v].valid = FALSE, ![v].frame = NoFrame]
        /\ act'["USR1"].pc = IF table[v].dirty THEN "writeback" ELSE "install"
  BY EvictEffect
<1>2. /\ act["USR1"].pc = "evict" /\ mpc' = mpc /\ mpc # "off" /\ access' = access
      /\ disk_access' = disk_access
      /\ page_hits' = page_hits /\ page_faults' = page_faults /\ lineNo' = lineNo
  BY DEF Evict, At, mmuVars, PagingInv, ProtocolInv, MmuLife, Signals
<1>3. Held
  BY <1>2, HeldAccess DEF PagingInv
<1>4. Missing' = Missing
  <2>1. table \in [Pages -> Entry] /\ access.page \in Pages
    BY <1>3 DEF PagingInv, TypeOK, Held
  <2>2. \A p \in Pages : table'[p].requested = table[p].requested
    BY <1>1, <2>1 DEF Entry
  <2>3. ~table[access.page].valid /\ v # access.page
    BY <1>1, <1>3 DEF Held, AccessValid
  <2>4. ~table'[access.page].valid
    BY <1>1, <2>1, <2>3
  <2> QED BY <1>2, <2>2, <2>3, <2>4 DEF Missing, Requesting, RequestedPages, AccessValid
<1>5. Len(fifoList') = Len(fifoList) - 1
  BY <1>1, RemoveAtProperties DEF PagingInv, TypeOK
<1>6. CASE Running
  <2>1. Counting /\ Served' = Served
    BY <1>2, <1>4, <1>6 DEF StatInv, Served
  <2>2. ~Holding /\ Working /\ Working' /\ Holding'
    BY <1>1, <1>2 DEF Working, Holding, FaultPlaces
  <2>3. /\ Served \in Nat /\ FrameCount \in Nat /\ disk_access \in Nat
        /\ Served >= FrameCount /\ Len(fifoList) = FrameCount
    BY <1>2, <2>1, <2>2, SimAssumption DEF Counting, FramesFilled, PagingInv, TypeOK
  <2> QED BY <1>2, <1>5, <2>1, <2>2, <2>3
       DEF StatInv, Counting, AccessesCounted, FramesFilled, ReadsCounted, WritesBounded
<1>7. CASE ~Running
  BY <1>2, <1>7 DEF StatInv, Running
<1> QED BY <1>6, <1>7

LEMMA StatWriteBack ==
  ASSUME PagingInv, StatInv, WriteBack
  PROVE  StatInv'
<1>1. /\ act["USR1"].pc = "writeback" /\ act'["USR1"].pc = "install"
      /\ mpc' = mpc /\ mpc # "off" /\ access' = access
      /\ disk_access' = disk_access + 1 /\ fifoList' = fifoList
      /\ page_hits' = page_hits /\ page_faults' = page_faults /\ lineNo' = lineNo
  BY DEF WriteBack, At, mmuVars, PagingInv, TypeOK, Activation, ProtocolInv, MmuLife, Signals
<1>2. Missing' = Missing
  <2>1. \A p \in Pages : /\ table'[p].requested = table[p].requested
                         /\ table'[p].valid = table[p].valid
    BY DEF WriteBack, PagingInv, TypeOK, Entry
  <2> QED BY <1>1, <2>1 DEF Missing, Requesting, RequestedPages, AccessValid
<1>3. CASE Running
  <2>1. Counting /\ Served' = Served
    BY <1>1, <1>2, <1>3 DEF StatInv, Served
  <2>2. Holding /\ Working /\ Working' /\ Holding'
    BY <1>1 DEF Working, Holding, FaultPlaces
  <2>3. /\ Served \in Nat /\ FrameCount \in Nat /\ disk_access \in Nat
        /\ Served >= FrameCount
    BY <1>1, <2>1, SimAssumption DEF Counting, FramesFilled, PagingInv, TypeOK
  <2> QED BY <1>1, <2>1, <2>2, <2>3
       DEF StatInv, Counting, AccessesCounted, FramesFilled, ReadsCounted, WritesBounded
<1>4. CASE ~Running
  BY <1>1, <1>4 DEF StatInv, Running
<1> QED BY <1>3, <1>4

LEMMA StatInstall ==
  ASSUME PagingInv, StatInv, Install
  PROVE  StatInv'
<1> DEFINE p == act["USR1"].page
<1>1. /\ act["USR1"].pc = "install" /\ act'["USR1"].pc = "resume"
      /\ mpc' = mpc /\ mpc # "off" /\ access' = access /\ disk_access' = disk_access
      /\ page_hits' = page_hits /\ page_faults' = page_faults /\ lineNo' = lineNo
      /\ fifoList' = Append(fifoList, act["USR1"].frame)
  BY DEF Install, At, mmuVars, PagingInv, TypeOK, Activation, ProtocolInv, MmuLife, Signals
<1>2. Held /\ p \in Pages /\ act["USR1"].frame \in Frames
  BY <1>1, HeldAccess DEF PagingInv, HandlerLocals
<1>3. Missing /\ ~Missing'
  <2>1. table'[p].valid
    BY <1>2 DEF Install, InstalledEntry, PagingInv, TypeOK
  <2> QED BY <1>1, <1>2, <2>1 DEF Held, Missing, Requesting, AccessValid
<1>4. Len(fifoList') = Len(fifoList) + 1
  BY <1>1, <1>2, AppendProperties DEF PagingInv, TypeOK
<1>5. CASE Running
  <2>1. Counting /\ Served = page_faults - 1 /\ Served' = page_faults
    BY <1>1, <1>3, <1>5 DEF StatInv, Served
  <2>2. Holding /\ Working /\ ~Working' /\ ~Holding'
    BY <1>1 DEF Working, Holding, FaultPlaces
  <2>3. /\ Served \in Nat /\ Served' = Served + 1
        /\ FrameCount \in Nat /\ disk_access \in Nat
    BY <2>1, SimAssumption DEF Counting, FramesFilled, PagingInv, TypeOK
  <2>4. FramesFilled'
    BY <1>1, <1>4, <2>1, <2>2, <2>3 DEF Counting, FramesFilled
  <2>5. ReadsCounted' /\ WritesBounded'
    BY <1>1, <2>1, <2>2, <2>3 DEF Counting, ReadsCounted, WritesBounded
  <2> QED BY <1>1, <2>1, <2>4, <2>5 DEF StatInv, Counting, AccessesCounted
<1>6. CASE ~Running
  BY <1>1, <1>6 DEF StatInv, Running
<1> QED BY <1>5, <1>6

LEMMA StatAccess ==
  ASSUME PagingInv, StatInv, NEW a \in Accesses, Access(a)
  PROVE  StatInv'
<1>1. /\ mpc = "fetch" /\ mpc' \in {"fault", "hit"} /\ access' = a
      /\ UNCHANGED <<act, fifoList, disk_access, lineNo>>
      /\ table' = [table EXCEPT ![a.page].requested = mmu_pid]
  BY DEF Access, osVars
<1>2. a.page \in Pages /\ table \in [Pages -> Entry] /\ mmu_pid # NoPid
  BY <1>1 DEF Accesses, PagingInv, TypeOK, ProtocolInv, MmuLife
<1>3. Requesting' /\ (AccessValid' <=> table[a.page].valid)
  BY <1>1, <1>2 DEF Requesting, RequestedPages, AccessValid, Entry
<1>4. ~Missing /\ Counting /\ Served = page_faults
  <2>1. ~Requesting
    BY <1>1 DEF PagingInv, ProtocolInv, RequestPlace
  <2> QED BY <1>1, <2>1 DEF Missing, StatInv, Running, Served
<1>5. page_faults \in Nat /\ page_hits \in Nat /\ lineNo \in Nat
  BY DEF PagingInv, TypeOK
<1>6. Served' = Served /\ page_hits' + page_faults' = lineNo'
  <2>1. page_hits + page_faults = lineNo - 1
    BY <1>1, <1>4 DEF Counting, AccessesCounted
  <2>2. CASE table[a.page].valid
    <3>1. page_hits' = page_hits + 1 /\ page_faults' = page_faults
      BY <2>2 DEF Access
    <3>2. ~Missing'
      BY <1>3, <2>2 DEF Missing
    <3> QED BY <1>1, <1>4, <1>5, <2>1, <3>1, <3>2 DEF Served
  <2>3. CASE ~table[a.page].valid
    <3>1. page_faults' = page_faults + 1 /\ page_hits' = page_hits
      BY <2>3 DEF Access
    <3>2. Missing'
      BY <1>3, <2>3 DEF Missing
    <3> QED BY <1>1, <1>4, <1>5, <2>1, <3>1, <3>2 DEF Served
  <2> QED BY <2>2, <2>3
<1>7. Working' = Working /\ Holding' = Holding
  BY <1>1 DEF Working, Holding
<1> QED BY <1>1, <1>4, <1>6, <1>7
     DEF StatInv, Counting, AccessesCounted, FramesFilled, ReadsCounted, WritesBounded

LEMMA StatTouch ==
  ASSUME PagingInv, StatInv, Touch
  PROVE  StatInv'
<1>1. /\ mpc = "touch" /\ mpc' = "fetch" /\ lineNo' = lineNo + 1
      /\ UNCHANGED <<act, fifoList, disk_access, page_hits, page_faults, access>>
  BY DEF Touch, osVars
<1>2. ~Missing /\ ~Missing'
  <2>1. ~Requesting
    BY <1>1 DEF PagingInv, ProtocolInv, RequestPlace
  <2>2. \A p \in Pages : table'[p].requested = table[p].requested
    BY DEF Touch, PagingInv, TypeOK, Entry
  <2> QED BY <2>1, <2>2 DEF Missing, Requesting, RequestedPages
<1>3. Counting /\ Served' = Served
  BY <1>1, <1>2 DEF StatInv, Running, Served
<1>4. AccessesCounted'
  BY <1>1, <1>3 DEF Counting, AccessesCounted, PagingInv, TypeOK
<1>5. Working' = Working /\ Holding' = Holding
  BY <1>1 DEF Working, Holding
<1> QED BY <1>1, <1>3, <1>4, <1>5
     DEF StatInv, Counting, FramesFilled, ReadsCounted, WritesBounded

\* The only MMU starts before anything was counted.
LEMMA StatAttach ==
  ASSUME DocumentedUse, PagingInv, StatInv, NEW pid \in Pids, Attach(pid)
  PROVE  StatInv'
<1>1. /\ mpc = "off" /\ mpc' = "fetch" /\ lineNo' = 1
      /\ page_hits' = 0 /\ page_faults' = 0
      /\ UNCHANGED <<act, fifoList, disk_access, table>>
  BY DEF Attach, PagingInv, ProtocolInv, MmuLife
<1>2. ~Missing'
  <2>1. ~Requesting
    BY <1>1 DEF PagingInv, ProtocolInv, RequestPlace
  <2> QED BY <1>1, <2>1 DEF Missing, Requesting, RequestedPages
<1>3. Served' = 0 /\ Len(fifoList') = 0 /\ disk_access' = 0
  BY <1>1, <1>2 DEF Served, StatInv
<1>4. act'["USR1"].pc = "idle"
  BY <1>1 DEF PagingInv, ProtocolInv, MmuLife, Signals
<1> QED BY <1>1, <1>3, <1>4, SimAssumption
     DEF StatInv, Counting, AccessesCounted, FramesFilled, ReadsCounted, WritesBounded, Working,
         FaultPlaces

LEMMA StatNext ==
  DocumentedUse /\ PagingInv /\ StatInv /\ [Next]_vars => StatInv'
<1> SUFFICES ASSUME DocumentedUse, PagingInv, StatInv, [Next]_vars
             PROVE  StatInv'
  OBVIOUS
<1>0. act \in [Signals -> Activation] /\ table \in [Pages -> Entry]
  BY DEF PagingInv, TypeOK
<1>1. CASE CreateTable
  <2>1. mpc = "off" /\ mpc' = "off"
    BY <1>1 DEF CreateTable, mmuVars, PagingInv, ProtocolInv, MmuLife
  <2> QED BY <1>1, <2>1 DEF CreateTable, StatInv, Running
<1>2. CASE BootCrash \/ CtrlC \/ ScanNothing
  BY <1>2, CountingKept
     DEF BootCrash, CtrlC, ScanNothing, mmuVars, Running, Missing, Requesting, RequestedPages,
         AccessValid
<1>3. ASSUME NEW sig \in Signals, Deliver(sig) \/ Resume(sig) \/ Return(sig)
      PROVE  StatInv'
  <2>1. \/ act'["USR1"].pc = act["USR1"].pc
        \/ /\ act["USR1"].pc \notin FaultPlaces
           /\ act'["USR1"].pc \notin FaultPlaces
    <3>1. sig # "USR1" => act'["USR1"] = act["USR1"]
      BY <1>0, <1>3 DEF Deliver, Resume, Return, Signals
    <3>2. act'[sig].pc \in {"scan", "return", "idle"}
      BY <1>0, <1>3 DEF Deliver, Resume, Return, Idle, Activation
    <3>3. act[sig].pc \in {"idle", "resume", "return"}
      BY <1>3 DEF Deliver, Resume, Return, At
    <3>4. CASE sig = "USR1"
      BY <3>2, <3>3, <3>4 DEF FaultPlaces
    <3> QED BY <3>1, <3>4
  <2>2. UNCHANGED <<fifoList, disk_access, table, mpc, access, lineNo, page_hits, page_faults>>
    BY <1>3 DEF Deliver, Resume, Return, mmuVars
  <2> QED BY <2>1, <2>2, CountingKept
       DEF Running, Missing, Requesting, RequestedPages, AccessValid
<1>4. CASE ScanFault
  BY <1>4, StatScanFault
<1>5. CASE Evict
  BY <1>5, StatEvict
<1>6. CASE WriteBack
  BY <1>6, StatWriteBack
<1>7. CASE Install
  BY <1>7, StatInstall
<1>8. CASE CountHit
  <2>1. UNCHANGED <<fifoList, disk_access, mpc, access, lineNo, page_hits, page_faults>>
    BY <1>8 DEF CountHit, mmuVars
  <2>2. act'["USR1"] = act["USR1"]
    BY <1>0, <1>8 DEF CountHit, Signals
  <2>3. \A p \in Pages : table'[p].valid = table[p].valid
    BY <1>0, <1>8, RequestedPage DEF CountHit, Entry
  <2>4. ~Missing /\ ~Missing'
    <3>1. AccessValid
      BY <1>8 DEF CountHit, At, Serving, PagingInv, ProtocolInv, SignalPlace
    <3> QED BY <2>1, <2>3, <3>1 DEF Missing, AccessValid
  <2> QED BY <2>1, <2>2, <2>4, CountingKept DEF Running
<1>9. ASSUME NEW pid \in Pids, Attach(pid) PROVE StatInv'
  BY <1>9, StatAttach
<1>10. ASSUME NEW a \in Accesses, Access(a) PROVE StatInv'
  BY <1>10, StatAccess
<1>11. CASE Touch
  BY <1>11, StatTouch
<1>12. CASE SignalOs \/ CheckFlag \/ SleepTimeout \/ Rearm \/ TakeCont \/ StrayCont
  <2>1. /\ UNCHANGED <<act, fifoList, disk_access, table, access, lineNo, page_hits, page_faults>>
        /\ mpc' = "off" => mpc = "off"
        /\ Running' => Running /\ (mpc' = "fetch" <=> mpc = "fetch")
    BY <1>12 DEF SignalOs, CheckFlag, SleepTimeout, Rearm, TakeCont, StrayCont, osVars, Running
  <2> QED BY <2>1, CountingKept DEF Missing, Requesting, RequestedPages, AccessValid
<1>13. CASE Finish \/ KillMmu
  <2>1. mpc' \in {"done", "killed"}
    BY <1>13 DEF Finish, KillMmu
  <2> QED BY <2>1 DEF StatInv, Running
<1>14. CASE UNCHANGED vars
  BY <1>14, CountingKept
     DEF vars, osVars, mmuVars, Running, Missing, Requesting, RequestedPages, AccessValid
<1> QED
  BY <1>1, <1>2, <1>3, <1>4, <1>5, <1>6, <1>7, <1>8, <1>9, <1>10, <1>11, <1>12,
     <1>13, <1>14 DEF Next, OsStep, MmuStep, Ended

LEMMA OfTwo ==
  ASSUME NEW a \in Int, NEW b \in Int, a <= b
  PROVE  Min({a, b}) = a /\ Min({b, a}) = a /\ Max({a, b}) = b /\ Max({b, a}) = b
<1>1. {b, a} = {a, b}
  OBVIOUS
<1>2. Min({a, b}) = a
  BY DEF Min
<1>3. Max({a, b}) = b
  BY DEF Max
<1> QED BY <1>1, <1>2, <1>3

\* Whatever the trace and the policy: between two accesses the faults the MMU counted
\* (MMU.cpp) filled the frames, each cost one disk access of OS.cpp, and at most each
\* after the FrameCount first ones a second one.
THEOREM CountersAgree == DocumentedUse => (Spec => []StatisticsAgree)
<1> SUFFICES ASSUME DocumentedUse PROVE Spec => []StatisticsAgree
  OBVIOUS
<1>1. Init => StatInv
  BY StatInit
<1>2. PagingInv /\ StatInv /\ [Next]_vars => StatInv'
  BY StatNext
<1>3. PagingInv /\ StatInv => StatisticsAgree
  <2> SUFFICES ASSUME PagingInv, StatInv, mpc = "fetch"
               PROVE  /\ Len(fifoList) = Min({page_faults, FrameCount})
                      /\ disk_access >= page_faults
                      /\ disk_access <= page_faults + Max({0, page_faults - FrameCount})
                      /\ page_hits + page_faults = lineNo - 1
    BY DEF StatisticsAgree
  <2>1. Counting
    BY DEF StatInv, Running
  <2>2. Served = page_faults
    BY DEF PagingInv, ProtocolInv, RequestPlace, Missing, Served
  <2>3. ~Working /\ ~Holding /\ act["USR1"].pc # "install"
    BY HeldAccess DEF PagingInv, Held, Working, Holding, FaultPlaces
  <2>4. page_faults \in Nat /\ FrameCount \in Nat /\ disk_access \in Nat
    BY SimAssumption DEF PagingInv, TypeOK
  <2>5. Len(fifoList) = Min({page_faults, FrameCount})
    <3>1. Len(fifoList) = IF page_faults < FrameCount THEN page_faults ELSE FrameCount
      BY <2>1, <2>2, <2>3 DEF Counting, FramesFilled
    <3> QED BY <2>4, <3>1, OfTwo
  <2>6. disk_access <= page_faults + Max({0, page_faults - FrameCount})
    <3>1. disk_access <= page_faults
                           + IF page_faults > FrameCount THEN page_faults - FrameCount ELSE 0
      BY <2>1, <2>2, <2>3, <2>4 DEF Counting, WritesBounded
    <3>2. Max({0, page_faults - FrameCount})
            = IF page_faults > FrameCount THEN page_faults - FrameCount ELSE 0
      <4> DEFINE n == page_faults - FrameCount
      <4>1. n \in Int /\ (page_faults > FrameCount <=> n > 0)
        BY <2>4
      <4> HIDE DEF n
      <4>2. Max({0, n}) = IF n > 0 THEN n ELSE 0
        <5>0. 0 \in Int
          OBVIOUS
        <5>1. CASE n > 0
          <6>1. 0 <= n
            BY <4>1, <5>1
          <6>2. Max({0, n}) = n
            BY <4>1, <5>0, <6>1, OfTwo, Zenon
          <6> QED BY <5>1, <6>2
        <5>2. CASE ~(n > 0)
          <6>1. n <= 0
            BY <4>1, <5>2
          <6>2. Max({0, n}) = 0
            BY <4>1, <5>0, <6>1, OfTwo, Zenon
          <6> QED BY <5>2, <6>2
        <5> QED BY <5>1, <5>2
      <4> QED BY <4>1, <4>2 DEF n
    <3> QED BY <3>1, <3>2
  <2>7. disk_access >= page_faults /\ page_hits + page_faults = lineNo - 1
    BY <2>1, <2>2, <2>3, <2>4 DEF Counting, ReadsCounted, AccessesCounted
  <2> QED BY <2>5, <2>6, <2>7
<1> QED BY <1>1, <1>2, <1>3, PagingInvariant, PTL DEF Spec

-----------------------------------------------------------------------------
(***************************************************************************)
(* Numbers and their digits.                                               *)
(***************************************************************************)

NumbersOf(K, base, s) ==
  /\ K \in [0 .. Len(s) -> Nat] /\ K[0] = 0
  /\ \A i \in 1 .. Len(s) : K[i] = base * K[i - 1] + s[i]

LEMMA NumberIs ==
  ASSUME NEW base \in Nat, NEW s \in Seq(Nat)
  PROVE  \E K : NumbersOf(K, base, s) /\ NumberOf(base, s) = K[Len(s)]
<1> DEFINE N == Len(s)
           F == [p \in (1 .. N) \X Nat |-> base * p[2] + s[p[1]]]
           Eq(K) == K = [i \in 0 .. N |-> IF i = 0 THEN 0 ELSE base * K[i - 1] + s[i]]
           C == CHOOSE K : Eq(K)
<1>0. N \in Nat /\ \A i \in 1 .. N : s[i] \in Nat
  BY LenProperties, ElementOfSeq
<1>1. F \in [(1 .. N) \X Nat -> Nat]
  <2>1. \A x, y \in Nat : base * x + y \in Nat
    OBVIOUS
  <2>2. \A p \in (1 .. N) \X Nat : s[p[1]] \in Nat /\ p[2] \in Nat
    BY <1>0
  <2> HIDE DEF N
  <2>3. \A p \in (1 .. N) \X Nat : base * p[2] + s[p[1]] \in Nat
    BY <2>1, <2>2
  <2> QED BY <2>3
<1>f. \A n \in 1 .. N, x \in Nat : F[<<n, x>>] = base * x + s[n]
  OBVIOUS
<1> HIDE DEF F, N
<1>2. PICK f \in [0 .. N -> Nat] : IsRecursive(f, N, 0, F)
  BY <1>0, <1>1, RecursionExists
<1>3. Eq(f)
  <2>1. f = [n \in 0 .. N |-> IF n = 0 THEN 0 ELSE F[<<n, f[n - 1]>>]]
    BY <1>2 DEF IsRecursive
  <2>2. ASSUME NEW n \in 0 .. N, n # 0
        PROVE  F[<<n, f[n - 1]>>] = base * f[n - 1] + s[n]
    <3>1. n \in 1 .. N /\ n - 1 \in 0 .. N
      BY <1>0, <2>2
    <3> QED BY <1>2, <1>f, <3>1
  <2> QED BY <2>1, <2>2
<1>4. Eq(C)
  BY <1>3
<1>5. NumberOf(base, s) = C[N]
  BY DEF NumberOf, N
<1> HIDE DEF C
<1>e. \A i \in 0 .. N : C[i] = IF i = 0 THEN 0 ELSE base * C[i - 1] + s[i]
  BY <1>4, Zenon
<1>6. Follows(C, N, Nat, 0, F)
  <2>1. C = [n \in 0 .. N |-> C[n]]
    BY <1>4
  <2>2. C[0] = 0
    BY <1>0, <1>e
  <2>3. ASSUME NEW n \in 1 .. N, C[n - 1] \in Nat PROVE C[n] = F[<<n, C[n - 1]>>]
    <3>1. C[n] = base * C[n - 1] + s[n]
      BY <1>0, <1>e
    <3> QED BY <1>f, <2>3, <3>1
  <2> QED BY <2>1, <2>2, <2>3 DEF Follows
<1>7. C \in [0 .. N -> Nat]
  BY <1>0, <1>1, <1>6, FollowedValues
<1>8. ASSUME NEW i \in 1 .. N PROVE C[i] = base * C[i - 1] + s[i]
  BY <1>0, <1>e
<1>9. C[0] = 0
  BY <1>6 DEF Follows
<1> QED BY <1>5, <1>7, <1>8, <1>9 DEF NumbersOf, N

\* Digit strings that begin alike write the same numbers so far.
LEMMA SameNumbersSoFar ==
  ASSUME NEW base \in Nat, NEW s \in Seq(Nat), NEW t \in Seq(Nat), NEW n \in Nat,
         n <= Len(s), n <= Len(t), \A i \in 1 .. n : s[i] = t[i],
         NEW K, NumbersOf(K, base, s), NEW L, NumbersOf(L, base, t)
  PROVE  K[n] = L[n]
<1>0. Len(s) \in Nat /\ Len(t) \in Nat
  BY LenProperties
<1> DEFINE G == {i \in Nat : i <= n => K[i] = L[i]}
<1>1. ASSUME NEW i \in Nat, i # 0 => i - 1 \in G PROVE i \in G
  <2>1. CASE i = 0
    BY <2>1 DEF NumbersOf
  <2>2. CASE i # 0 /\ i <= n
    <3>1. i - 1 \in Nat /\ i - 1 <= n /\ i \in 1 .. n /\ i \in 1 .. Len(s) /\ i \in 1 .. Len(t)
      BY <1>0, <2>2
    <3>2. K[i - 1] = L[i - 1] /\ s[i] = t[i]
      BY <1>1, <2>2, <3>1
    <3>3. K[i] = base * K[i - 1] + s[i] /\ L[i] = base * L[i - 1] + t[i]
      BY <3>1 DEF NumbersOf
    <3> QED BY <3>2, <3>3
  <2> QED BY <2>1, <2>2
<1> HIDE DEF G
<1>2. \A i \in Nat : i \in G
  BY <1>1, NatInductionSet
<1> QED BY <1>2 DEF G

LEMMA NumberOfBeginning ==
  ASSUME NEW base \in Nat, NEW s \in Seq(Nat), NEW K, NumbersOf(K, base, s), NEW n \in 0 .. Len(s)
  PROVE  NumberOf(base, SubSeq(s, 1, n)) = K[n]
<1> DEFINE t == SubSeq(s, 1, n)
<1>1. t \in Seq(Nat) /\ Len(t) = n /\ \A i \in 1 .. n : t[i] = s[i]
  <2>1. Len(s) \in Nat /\ \A i \in 1 .. Len(s) : s[i] \in Nat
    BY LenProperties, ElementOfSeq
  <2>2. \A i \in 1 .. n : s[i] \in Nat /\ (1 + i) - 1 = i
    BY <2>1
  <2> QED BY <2>1, <2>2, SubSeqProperties
<1> HIDE DEF t
<1>2. PICK L : NumbersOf(L, base, t) /\ NumberOf(base, t) = L[Len(t)]
  BY <1>1, NumberIs
<1>3. n \in Nat /\ n <= Len(s) /\ n <= Len(t)
  BY <1>1, LenProperties
<1>4. L[n] = K[n]
  BY <1>1, <1>2, <1>3, SameNumbersSoFar
<1> QED BY <1>1, <1>2, <1>4 DEF t

LEMMA NumberOfAppend ==
  ASSUME NEW base \in Nat, NEW s \in Seq(Nat), NEW d \in Nat
  PROVE  NumberOf(base, Append(s, d)) = base * NumberOf(base, s) + d
<1> DEFINE t == Append(s, d)
           n == Len(s)
<1>1. /\ t \in Seq(Nat) /\ Len(t) = n + 1 /\ t[n + 1] = d /\ n \in Nat
      /\ \A i \in 1 .. n : t[i] = s[i]
  BY AppendProperties, LenProperties
<1> HIDE DEF t
<1>2. PICK L : NumbersOf(L, base, t) /\ NumberOf(base, t) = L[n + 1]
  BY <1>1, NumberIs
<1>3. PICK K : NumbersOf(K, base, s) /\ NumberOf(base, s) = K[n]
  BY NumberIs
<1>4. n <= n /\ n <= n + 1 /\ n + 1 \in 1 .. n + 1 /\ (n + 1) - 1 = n
  BY <1>1
<1>5. K[n] = L[n]
  BY <1>1, <1>2, <1>3, <1>4, SameNumbersSoFar
<1>6. L[n + 1] = base * L[n] + d
  BY <1>1, <1>2, <1>4 DEF NumbersOf
<1> QED BY <1>2, <1>3, <1>5, <1>6 DEF t

PowersOf(K, n) ==
  K \in [0 .. n -> Nat \ {0}] /\ K[0] = 1 /\ \A i \in 1 .. n : K[i] = 2 * K[i - 1]

LEMMA PowerIs ==
  ASSUME NEW n \in Nat
  PROVE  \E K : PowersOf(K, n) /\ PowerOfTwo(n) = K[n]
<1> DEFINE P == Nat \ {0}
           F == [p \in (1 .. n) \X P |-> 2 * p[2]]
           Eq(K) == K = [i \in 0 .. n |-> IF i = 0 THEN 1 ELSE 2 * K[i - 1]]
           C == CHOOSE K : Eq(K)
<1>1. F \in [(1 .. n) \X P -> P] /\ 1 \in P
  <2>1. \A p \in (1 .. n) \X P : p[2] \in P
    OBVIOUS
  <2> QED BY <2>1
<1>f. \A i \in 1 .. n, x \in P : F[<<i, x>>] = 2 * x
  OBVIOUS
<1> HIDE DEF F
<1>2. PICK f \in [0 .. n -> P] : IsRecursive(f, n, 1, F)
  BY <1>1, RecursionExists
<1>3. Eq(f)
  <2>1. f = [i \in 0 .. n |-> IF i = 0 THEN 1 ELSE F[<<i, f[i - 1]>>]]
    BY <1>2 DEF IsRecursive
  <2>2. ASSUME NEW i \in 0 .. n, i # 0 PROVE F[<<i, f[i - 1]>>] = 2 * f[i - 1]
    <3>1. i \in 1 .. n /\ i - 1 \in 0 .. n
      BY <2>2
    <3> QED BY <1>2, <1>f, <3>1
  <2> QED BY <2>1, <2>2
<1>4. Eq(C)
  BY <1>3
<1>5. PowerOfTwo(n) = C[n]
  BY DEF PowerOfTwo
<1> HIDE DEF C
<1>e. \A i \in 0 .. n : C[i] = IF i = 0 THEN 1 ELSE 2 * C[i - 1]
  BY <1>4, Zenon
<1>6. Follows(C, n, P, 1, F)
  <2>1. C = [i \in 0 .. n |-> C[i]]
    BY <1>4
  <2>2. C[0] = 1
    BY <1>e
  <2>3. ASSUME NEW i \in 1 .. n, C[i - 1] \in P PROVE C[i] = F[<<i, C[i - 1]>>]
    <3>1. C[i] = 2 * C[i - 1]
      BY <1>e
    <3> QED BY <1>f, <2>3, <3>1
  <2> QED BY <2>1, <2>2, <2>3 DEF Follows
<1>7. C \in [0 .. n -> P]
  BY <1>1, <1>6, FollowedValues
<1>8. ASSUME NEW i \in 1 .. n PROVE C[i] = 2 * C[i - 1]
  BY <1>e
<1>9. C[0] = 1
  BY <1>6 DEF Follows
<1> QED BY <1>5, <1>7, <1>8, <1>9 DEF PowersOf

\* Powers at hand for all exponents up to n.
LEMMA PowerSoFar ==
  ASSUME NEW n \in Nat, NEW K, PowersOf(K, n), NEW i \in 0 .. n
  PROVE  PowerOfTwo(i) = K[i]
<1>1. PICK L : PowersOf(L, i) /\ PowerOfTwo(i) = L[i]
  BY PowerIs
<1> DEFINE G == {j \in Nat : j <= i => K[j] = L[j]}
<1>2. ASSUME NEW j \in Nat, j # 0 => j - 1 \in G PROVE j \in G
  <2>1. CASE j = 0
    BY <1>1, <2>1 DEF PowersOf
  <2>2. CASE j # 0 /\ j <= i
    <3>1. j - 1 \in Nat /\ j - 1 <= i /\ j \in 1 .. i /\ j \in 1 .. n
      BY <2>2
    <3>2. K[j - 1] = L[j - 1]
      BY <1>2, <2>2, <3>1
    <3>3. K[j] = 2 * K[j - 1] /\ L[j] = 2 * L[j - 1]
      BY <1>1, <3>1 DEF PowersOf
    <3> QED BY <3>2, <3>3
  <2> QED BY <2>1, <2>2
<1> HIDE DEF G
<1>3. \A j \in Nat : j \in G
  BY <1>2, NatInductionSet
<1> QED BY <1>1, <1>3 DEF G

LEMMA Powers ==
  /\ PowerOfTwo(0) = 1
  /\ \A n \in Nat : /\ PowerOfTwo(n) \in Nat \ {0}
                    /\ PowerOfTwo(n + 1) = 2 * PowerOfTwo(n)
<1>1. PowerOfTwo(0) = 1
  BY PowerIs DEF PowersOf
<1>2. ASSUME NEW n \in Nat
      PROVE  PowerOfTwo(n) \in Nat \ {0} /\ PowerOfTwo(n + 1) = 2 * PowerOfTwo(n)
  <2>1. PICK K : PowersOf(K, n + 1) /\ PowerOfTwo(n + 1) = K[n + 1]
    BY PowerIs
  <2>2. n \in 0 .. n + 1 /\ n + 1 \in Nat /\ n + 1 \in 1 .. n + 1 /\ (n + 1) - 1 = n
    OBVIOUS
  <2>3. PowerOfTwo(n) = K[n]
    BY <2>1, <2>2, PowerSoFar
  <2>4. K[n + 1] = 2 * K[n] /\ K[n] \in Nat \ {0}
    BY <2>1, <2>2 DEF PowersOf
  <2> QED BY <2>1, <2>3, <2>4
<1> QED BY <1>1, <1>2

LEMMA PowerMonotone ==
  ASSUME NEW m \in Nat, NEW n \in Nat, m <= n
  PROVE  PowerOfTwo(m) <= PowerOfTwo(n)
<1> DEFINE G == {i \in Nat : m <= i => PowerOfTwo(m) <= PowerOfTwo(i)}
<1>1. ASSUME NEW i \in Nat, i # 0 => i - 1 \in G PROVE i \in G
  <2>1. CASE m = i
    BY <2>1, Powers
  <2>2. CASE m < i
    <3>1. i - 1 \in Nat /\ m <= i - 1 /\ (i - 1) + 1 = i /\ i # 0
      BY <2>2
    <3>2. PowerOfTwo(m) <= PowerOfTwo(i - 1)
      BY <1>1, <3>1
    <3>3. PowerOfTwo(i) = 2 * PowerOfTwo(i - 1) /\ PowerOfTwo(i - 1) \in Nat /\ PowerOfTwo(m) \in Nat
      BY <3>1, Powers
    <3>4. PowerOfTwo(m) <= PowerOfTwo(i)
      BY <3>2, <3>3
    <3> QED BY <3>4
  <2>3. CASE ~(m <= i)
    BY <2>3
  <2> QED BY <2>1, <2>2, <2>3
<1> HIDE DEF G
<1>2. \A i \in Nat : i \in G
  BY <1>1, NatInductionSet
<1> QED BY <1>2 DEF G

-----------------------------------------------------------------------------
(***************************************************************************)
(* Bits.                                                                   *)
(***************************************************************************)

Bit == {0, 1}

\* A number of n bits is less than the n-th power of two, ...
LEMMA BitsBound ==
  ASSUME NEW s \in Seq(Bit)
  PROVE  NumberOf(2, s) \in 0 .. PowerOfTwo(Len(s)) - 1
<1>0. s \in Seq(Nat) /\ Len(s) \in Nat /\ \A i \in 1 .. Len(s) : s[i] \in Bit
  <2>1. Len(s) \in Nat /\ \A i \in 1 .. Len(s) : s[i] \in Bit
    BY LenProperties, ElementOfSeq
  <2> QED BY <2>1, SeqDef DEF Bit
<1>1. PICK K : NumbersOf(K, 2, s) /\ NumberOf(2, s) = K[Len(s)]
  BY <1>0, NumberIs
<1> DEFINE G == {i \in Nat : i <= Len(s) => K[i] < PowerOfTwo(i)}
<1>2. ASSUME NEW i \in Nat, i # 0 => i - 1 \in G PROVE i \in G
  <2>1. CASE i = 0
    BY <1>1, <2>1, Powers DEF NumbersOf
  <2>2. CASE i # 0 /\ i <= Len(s)
    <3>1. i - 1 \in Nat /\ i - 1 <= Len(s) /\ i \in 1 .. Len(s) /\ (i - 1) + 1 = i /\ i - 1 \in 0 .. Len(s)
      BY <1>0, <2>2
    <3>2. K[i - 1] < PowerOfTwo(i - 1)
      BY <1>2, <2>2, <3>1
    <3>3. K[i] = 2 * K[i - 1] + s[i] /\ s[i] \in Bit /\ K[i - 1] \in Nat
      BY <1>0, <1>1, <3>1 DEF NumbersOf
    <3>4. PowerOfTwo(i) = 2 * PowerOfTwo(i - 1) /\ PowerOfTwo(i - 1) \in Nat
      BY <3>1, Powers
    <3>5. K[i] < PowerOfTwo(i)
      BY <3>2, <3>3, <3>4 DEF Bit
    <3> QED BY <3>5
  <2>3. CASE ~(i <= Len(s))
    BY <2>3
  <2> QED BY <2>1, <2>2, <2>3
<1> HIDE DEF G
<1>3. \A i \in Nat : i \in G
  BY <1>2, NatInductionSet
<1>4. K[Len(s)] < PowerOfTwo(Len(s)) /\ K[Len(s)] \in Nat /\ PowerOfTwo(Len(s)) \in Nat
  <2>1. Len(s) \in 0 .. Len(s) /\ Len(s) <= Len(s)
    BY <1>0
  <2>2. K[Len(s)] \in Nat
    BY <1>1, <2>1 DEF NumbersOf
  <2> QED BY <1>0, <1>3, <2>1, <2>2, Powers DEF G
<1> QED BY <1>1, <1>4

\* ... and its first bits are the number without the others.
LEMMA HighBits ==
  ASSUME NEW s \in Seq(Bit), NEW m \in Nat, NEW n \in Nat, Len(s) = m + n
  PROVE  NumberOf(2, SubSeq(s, 1, m)) = NumberOf(2, s) \div PowerOfTwo(n)
<1>0. s \in Seq(Nat) /\ \A i \in 1 .. m + n : s[i] \in Bit
  <2>1. Len(s) \in Nat /\ \A i \in 1 .. Len(s) : s[i] \in Bit
    BY LenProperties, ElementOfSeq
  <2> QED BY <2>1, SeqDef DEF Bit
<1>1. PICK K : NumbersOf(K, 2, s) /\ NumberOf(2, s) = K[m + n]
  BY <1>0, NumberIs
<1>2. NumberOf(2, SubSeq(s, 1, m)) = K[m] /\ K[m] \in Nat
  <2>1. m \in 0 .. Len(s)
    OBVIOUS
  <2>2. K[m] \in Nat
    BY <1>1, <2>1 DEF NumbersOf
  <2> QED BY <1>0, <1>1, <2>1, <2>2, NumberOfBeginning
<1> DEFINE q == K[m]
           G == {i \in Nat : i <= n => \E r \in 0 .. PowerOfTwo(i) - 1 :
                                         K[m + i] = q * PowerOfTwo(i) + r}
<1>3. ASSUME NEW i \in Nat, i # 0 => i - 1 \in G PROVE i \in G
  <2> HIDE DEF q
  <2>0. q \in Nat
    BY <1>2 DEF q
  <2>1. CASE i = 0
    <3>1. PowerOfTwo(i) = 1 /\ m + i = m /\ 0 \in 0 .. PowerOfTwo(i) - 1
      BY <2>1, Powers
    <3>2. K[m + i] = q * PowerOfTwo(i) + 0
      BY <2>0, <3>1 DEF q
    <3> QED BY <3>1, <3>2
  <2>2. CASE i # 0 /\ i <= n
    <3>1. i - 1 \in Nat /\ i - 1 <= n /\ m + i \in 1 .. Len(s) /\ (m + i) - 1 = m + (i - 1)
          /\ (i - 1) + 1 = i /\ m + i \in 1 .. m + n
      BY <2>2
    <3>2. PICK r \in 0 .. PowerOfTwo(i - 1) - 1 : K[m + (i - 1)] = q * PowerOfTwo(i - 1) + r
      BY <1>3, <2>2, <3>1
    <3>3. K[m + i] = 2 * K[m + (i - 1)] + s[m + i] /\ s[m + i] \in Bit
      BY <1>0, <1>1, <3>1 DEF NumbersOf
    <3>4. PowerOfTwo(i) = 2 * PowerOfTwo(i - 1) /\ PowerOfTwo(i - 1) \in Nat
      BY <3>1, Powers
    <3> DEFINE p == PowerOfTwo(i - 1)
               b == s[m + i]
    <3>5. 2 * r + b \in 0 .. PowerOfTwo(i) - 1
      BY <3>3, <3>4 DEF Bit
    <3>6. K[m + i] = q * PowerOfTwo(i) + (2 * r + b)
      <4>1. p \in Nat /\ b \in Nat /\ r \in Nat
        BY <3>3, <3>4 DEF Bit
      <4>2. K[m + i] = 2 * (q * p + r) + b
        BY <3>2, <3>3
      <4>3. PowerOfTwo(i) = 2 * p
        BY <3>4
      <4> HIDE DEF p, b
      <4>4. 2 * (q * p + r) + b = q * (2 * p) + (2 * r + b)
        BY <2>0, <4>1
      <4> QED BY <4>2, <4>3, <4>4
    <3> QED BY <3>5, <3>6
  <2>3. CASE ~(i <= n)
    BY <2>3
  <2> QED BY <2>1, <2>2, <2>3
<1> HIDE DEF G
<1>4. \A i \in Nat : i \in G
  BY <1>3, NatInductionSet
<1>5. PICK r \in 0 .. PowerOfTwo(n) - 1 : K[m + n] = q * PowerOfTwo(n) + r
  BY <1>4 DEF G
<1>6. K[m + n] \div PowerOfTwo(n) = q
  <2> DEFINE p == PowerOfTwo(n)
  <2>1. p \in Nat \ {0} /\ q \in Nat /\ r \in 0 .. p - 1
    BY <1>2, Powers
  <2>2. K[m + n] = q * p + r
    BY <1>5
  <2> HIDE DEF p, q
  <2>3. (q * p + r) \div p = q
    BY <2>1
  <2> QED BY <2>2, <2>3 DEF p
<1> QED BY <1>1, <1>2, <1>6

LEMMA FourBits ==
  ASSUME NEW s \in Seq(Bit), NEW c \in Chars
  PROVE  /\ s \o Nibble(c) \in Seq(Bit)
         /\ Len(s \o Nibble(c)) = Len(s) + (IF c = Other THEN 0 ELSE 4)
         /\ c # Other => NumberOf(2, s \o Nibble(c)) = 16 * NumberOf(2, s) + c
<1>1. CASE c = Other
  <2>1. s \o <<>> = s
    BY ConcatEmptySeq
  <2> QED BY <1>1, <2>1, LenProperties DEF Nibble
<1>2. CASE c # Other
  <2> DEFINE x1 == c \div 8  x2 == (c \div 4) % 2  x3 == (c \div 2) % 2  x4 == c % 2
             t1 == Append(s, x1)  t2 == Append(t1, x2)  t3 == Append(t2, x3)  t4 == Append(t3, x4)
  <2>1. c \in 0 .. 15
    BY <1>2 DEF Chars, Other
  <2>2. x1 \in Bit /\ x2 \in Bit /\ x3 \in Bit /\ x4 \in Bit /\ c = 8 * x1 + 4 * x2 + 2 * x3 + x4
    BY <2>1 DEF Bit
  <2>3. s \o Nibble(c) = s \o <<x1, x2, x3, x4>>
    BY <1>2 DEF Nibble
  <2> HIDE DEF x1, x2, x3, x4
  <2>4. s \o <<x1, x2, x3, x4>> = t4
    <3> DEFINE x == <<x1, x2, x3, x4>>
               u == s \o x
               m == Len(s)
    <3>1. x \in Seq(Bit) /\ Len(x) = 4 /\ x[1] = x1 /\ x[2] = x2 /\ x[3] = x3 /\ x[4] = x4
      BY <2>2
    <3> HIDE DEF x
    <3>2. m \in Nat /\ u \in Seq(Bit) /\ Len(u) = m + 4
          /\ \A i \in 1 .. m + 4 : u[i] = IF i <= m THEN s[i] ELSE x[i - m]
      <4>1. /\ u \in Seq(Bit) /\ Len(u) = Len(s) + Len(x)
            /\ \A i \in 1 .. Len(s) + Len(x) : u[i] = IF i <= Len(s) THEN s[i] ELSE x[i - Len(s)]
        BY <3>1, ConcatProperties
      <4>2. Len(s) \in Nat
        BY LenProperties
      <4> HIDE DEF u
      <4> QED BY <3>1, <4>1, <4>2
    <3> HIDE DEF u
    <3>3. t1 \in Seq(Bit) /\ Len(t1) = m + 1 /\ t1[m + 1] = x1 /\ \A i \in 1 .. m : t1[i] = s[i]
      BY <2>2, AppendProperties
    <3> HIDE DEF t1, m
    <3>4. t2 \in Seq(Bit) /\ Len(t2) = m + 2 /\ t2[m + 2] = x2 /\ \A i \in 1 .. m + 1 : t2[i] = t1[i]
      BY <2>2, <3>2, <3>3, AppendProperties
    <3> HIDE DEF t2
    <3>5. t3 \in Seq(Bit) /\ Len(t3) = m + 3 /\ t3[m + 3] = x3 /\ \A i \in 1 .. m + 2 : t3[i] = t2[i]
      BY <2>2, <3>2, <3>4, AppendProperties
    <3> HIDE DEF t3
    <3>6. t4 \in Seq(Bit) /\ Len(t4) = m + 4 /\ t4[m + 4] = x4 /\ \A i \in 1 .. m + 3 : t4[i] = t3[i]
      BY <2>2, <3>2, <3>5, AppendProperties
    <3> HIDE DEF t4
    <3>7. /\ u[m + 1] = x1 /\ u[m + 2] = x2 /\ u[m + 3] = x3 /\ u[m + 4] = x4
          /\ \A i \in 1 .. m : u[i] = s[i]
      <4>1. \A k \in 1 .. 4 : m + k \in 1 .. m + 4 /\ ~(m + k <= m) /\ (m + k) - m = k
        BY <3>2
      <4>2. \A k \in 1 .. 4 : u[m + k] = x[k]
        BY <3>2, <4>1
      <4>3. \A i \in 1 .. m : i \in 1 .. m + 4 /\ i <= m
        BY <3>2
      <4>4. \A i \in 1 .. m : u[i] = s[i]
        BY <3>2, <4>3
      <4> QED BY <3>1, <4>2, <4>4
    <3>8. /\ t4[m + 1] = x1 /\ t4[m + 2] = x2 /\ t4[m + 3] = x3 /\ t4[m + 4] = x4
          /\ \A i \in 1 .. m : t4[i] = s[i]
      <4>1. /\ m + 1 \in 1 .. m + 1 /\ m + 1 \in 1 .. m + 2 /\ m + 1 \in 1 .. m + 3
            /\ m + 2 \in 1 .. m + 2 /\ m + 2 \in 1 .. m + 3 /\ m + 3 \in 1 .. m + 3
        BY <3>2
      <4>2. \A i \in 1 .. m : i \in 1 .. m + 1 /\ i \in 1 .. m + 2 /\ i \in 1 .. m + 3
        BY <3>2
      <4> QED BY <3>3, <3>4, <3>5, <3>6, <4>1, <4>2
    <3>9. ASSUME NEW i \in 1 .. m + 4 PROVE u[i] = t4[i]
      <4>1. i \in 1 .. m \/ i = m + 1 \/ i = m + 2 \/ i = m + 3 \/ i = m + 4
        BY <3>2
      <4> QED BY <3>7, <3>8, <4>1
    <3> QED BY <3>2, <3>6, <3>9, SeqEqual DEF u, x
  <2>5. ASSUME NEW t \in Seq(Bit), NEW b \in Bit
        PROVE  /\ Append(t, b) \in Seq(Bit) /\ Len(Append(t, b)) = Len(t) + 1
               /\ NumberOf(2, Append(t, b)) = 2 * NumberOf(2, t) + b
    <3>1. t \in Seq(Nat)
      <4>1. Len(t) \in Nat /\ \A i \in 1 .. Len(t) : t[i] \in Bit
        BY LenProperties, ElementOfSeq
      <4> QED BY <4>1, SeqDef DEF Bit
    <3>2. b \in Nat /\ 2 \in Nat
      BY DEF Bit
    <3> QED BY <3>1, <3>2, AppendProperties, NumberOfAppend
  <2>6. t1 \in Seq(Bit) /\ Len(t1) = Len(s) + 1 /\ NumberOf(2, t1) = 2 * NumberOf(2, s) + x1
    BY <2>2, <2>5
  <2> HIDE DEF t1
  <2>7. t2 \in Seq(Bit) /\ Len(t2) = Len(t1) + 1 /\ NumberOf(2, t2) = 2 * NumberOf(2, t1) + x2
    BY <2>2, <2>5, <2>6
  <2> HIDE DEF t2
  <2>8. t3 \in Seq(Bit) /\ Len(t3) = Len(t2) + 1 /\ NumberOf(2, t3) = 2 * NumberOf(2, t2) + x3
    BY <2>2, <2>5, <2>7
  <2> HIDE DEF t3
  <2>9. t4 \in Seq(Bit) /\ Len(t4) = Len(t3) + 1 /\ NumberOf(2, t4) = 2 * NumberOf(2, t3) + x4
    BY <2>2, <2>5, <2>8
  <2>10. Len(s) \in Nat /\ NumberOf(2, s) \in Nat
    <3>1. Len(s) \in Nat
      BY LenProperties
    <3> QED BY <3>1, BitsBound, Powers
  <2> HIDE DEF t4
  <2>11. NumberOf(2, t4) = 16 * NumberOf(2, s) + c /\ Len(t4) = Len(s) + 4
    <3> DEFINE n0 == NumberOf(2, s)
    <3>1. n0 \in Nat /\ x1 \in Int /\ x2 \in Int /\ x3 \in Int /\ x4 \in Int
      BY <2>2, <2>10 DEF Bit
    <3>2. NumberOf(2, t4) = 2 * (2 * (2 * (2 * n0 + x1) + x2) + x3) + x4
      BY <2>6, <2>7, <2>8, <2>9
    <3> HIDE DEF n0
    <3>3. NumberOf(2, t4) = 16 * n0 + c
      BY <2>2, <3>1, <3>2
    <3> QED BY <2>6, <2>7, <2>8, <2>9, <2>10, <3>3 DEF n0
  <2> QED BY <1>2, <2>3, <2>4, <2>9, <2>11
<1> QED BY <1>1, <1>2

-----------------------------------------------------------------------------
(***************************************************************************)
(* The address.                                                            *)
(***************************************************************************)

BinaryOf(B, s) ==
  /\ B \in [0 .. Len(s) -> Seq(Bit)] /\ B[0] = <<>>
  /\ \A i \in 1 .. Len(s) : B[i] = B[i - 1] \o Nibble(s[i])

LEMMA BinaryIs ==
  ASSUME NEW s \in Seq(Chars)
  PROVE  \E B : BinaryOf(B, s) /\ ConvertHexToBinaryAddress(<<>>, s) = B[Len(s)]
<1> DEFINE N == Len(s)
           V == Seq(Bit)
           F == [p \in (1 .. N) \X V |-> p[2] \o Nibble(s[p[1]])]
           Eq(K) == K = [i \in 0 .. N |-> IF i = 0 THEN <<>> ELSE K[i - 1] \o Nibble(s[i])]
           C == CHOOSE K : Eq(K)
<1>0. N \in Nat /\ \A i \in 1 .. N : s[i] \in Chars
  BY LenProperties, ElementOfSeq
<1>1. F \in [(1 .. N) \X V -> V] /\ <<>> \in V
  <2>1. \A t \in V, c \in Chars : t \o Nibble(c) \in V
    BY FourBits
  <2> HIDE DEF V, N
  <2>2. \A p \in (1 .. N) \X V : s[p[1]] \in Chars /\ p[2] \in V
    BY <1>0
  <2>3. \A p \in (1 .. N) \X V : p[2] \o Nibble(s[p[1]]) \in V
    BY <2>1, <2>2
  <2>4. <<>> \in V
    BY DEF V
  <2> QED BY <2>3, <2>4
<1>f. \A n \in 1 .. N, t \in V : F[<<n, t>>] = t \o Nibble(s[n])
  OBVIOUS
<1> HIDE DEF F, N, V
<1>2. PICK f \in [0 .. N -> V] : IsRecursive(f, N, <<>>, F)
  BY <1>0, <1>1, RecursionExists
<1>3. Eq(f)
  <2>1. f = [n \in 0 .. N |-> IF n = 0 THEN <<>> ELSE F[<<n, f[n - 1]>>]]
    BY <1>2 DEF IsRecursive
  <2>2. ASSUME NEW n \in 0 .. N, n # 0
        PROVE  F[<<n, f[n - 1]>>] = f[n - 1] \o Nibble(s[n])
    <3>1. n \in 1 .. N /\ n - 1 \in 0 .. N
      BY <1>0, <2>2
    <3> QED BY <1>2, <1>f, <3>1
  <2> QED BY <2>1, <2>2
<1>4. Eq(C)
  BY <1>3
<1>5. ConvertHexToBinaryAddress(<<>>, s) = C[N]
  BY DEF ConvertHexToBinaryAddress, N
<1> HIDE DEF C
<1>e. \A i \in 0 .. N : C[i] = IF i = 0 THEN <<>> ELSE C[i - 1] \o Nibble(s[i])
  BY <1>4, Zenon
<1>6. Follows(C, N, V, <<>>, F)
  <2>1. C = [n \in 0 .. N |-> C[n]]
    BY <1>4
  <2>2. C[0] = <<>>
    BY <1>0, <1>e
  <2>3. ASSUME NEW n \in 1 .. N, C[n - 1] \in V PROVE C[n] = F[<<n, C[n - 1]>>]
    <3>0. n \in 0 .. N /\ n # 0
      BY <1>0
    <3>1. C[n] = C[n - 1] \o Nibble(s[n])
      BY <1>e, <3>0, Zenon
    <3> QED BY <1>f, <2>3, <3>1
  <2> QED BY <2>1, <2>2, <2>3 DEF Follows
<1>7. C \in [0 .. N -> V]
  BY <1>0, <1>1, <1>6, FollowedValues
<1>8. ASSUME NEW i \in 1 .. N PROVE C[i] = C[i - 1] \o Nibble(s[i])
  <2>1. i \in 0 .. N /\ i # 0
    BY <1>0
  <2> QED BY <1>e, <2>1, Zenon
<1>9. C[0] = <<>>
  BY <1>6 DEF Follows
<1> QED BY <1>5, <1>7, <1>8, <1>9 DEF BinaryOf, N, V

\* Four bits for each digit: as many as four times the characters if all are digits, and
\* then they write the same number; fewer if not; none if there is no digit.
LEMMA BitsOfAddress ==
  ASSUME NEW s \in Seq(Chars)
  PROVE  LET bits == ConvertHexToBinaryAddress(<<>>, s)
         IN  /\ bits \in Seq(Bit)
             /\ IF \A i \in 1 .. Len(s) : s[i] # Other
                THEN Len(bits) = 4 * Len(s) /\ NumberOf(2, bits) = NumberOf(16, s)
                ELSE Len(bits) < 4 * Len(s)
             /\ Len(bits) > 0 <=> \E i \in 1 .. Len(s) : s[i] # Other
<1> DEFINE N == Len(s)
<1>0. N \in Nat /\ (\A i \in 1 .. N : s[i] \in Chars) /\ s \in Seq(Nat)
  <2>1. Len(s) \in Nat /\ \A i \in 1 .. Len(s) : s[i] \in Chars
    BY LenProperties, ElementOfSeq
  <2> QED BY <2>1, SeqDef DEF Chars, Other
<1>1. PICK B : BinaryOf(B, s) /\ ConvertHexToBinaryAddress(<<>>, s) = B[N]
  BY BinaryIs
<1>2. PICK K : NumbersOf(K, 16, s) /\ NumberOf(16, s) = K[N]
  BY <1>0, NumberIs
<1> HIDE DEF N
<1>b. /\ \A i \in 0 .. N : B[i] \in Seq(Bit) /\ Len(B[i]) \in Nat
      /\ \A i \in 1 .. N : B[i] = B[i - 1] \o Nibble(s[i])
      /\ B[0] = <<>>
  <2>1. B \in [0 .. N -> Seq(Bit)]
    BY <1>1 DEF BinaryOf, N
  <2>2. \A i \in 0 .. N : B[i] \in Seq(Bit)
    BY <2>1
  <2> QED BY <1>1, <2>2, LenProperties DEF BinaryOf, N
<1> DEFINE Digits(n) == \A i \in 1 .. n : s[i] # Other
           AnyDigit(n) == \E i \in 1 .. n : s[i] # Other
           Good(n) == /\ IF Digits(n) THEN Len(B[n]) = 4 * n /\ NumberOf(2, B[n]) = K[n]
                                      ELSE Len(B[n]) < 4 * n
                      /\ Len(B[n]) > 0 <=> AnyDigit(n)
           G == {n \in Nat : n <= N => Good(n)}
<1>3. ASSUME NEW n \in Nat, n # 0 => n - 1 \in G PROVE n \in G
  <2>1. CASE n = 0
    <3>1. Digits(0) /\ ~AnyDigit(0)
      OBVIOUS
    <3>2. Len(B[0]) = 0 /\ K[0] = 0
      BY <1>b, <1>2 DEF NumbersOf
    <3>3. NumberOf(2, <<>>) = 0
      <4>1. <<>> \in Seq(Nat) /\ Len(<<>>) = 0
        OBVIOUS
      <4> QED BY <4>1, NumberIs DEF NumbersOf
    <3>4. Len(B[0]) = 4 * 0 /\ NumberOf(2, B[0]) = K[0]
      BY <1>b, <3>2, <3>3
    <3> HIDE DEF Digits, AnyDigit
    <3> QED BY <2>1, <3>1, <3>2, <3>4
  <2>2. CASE n # 0 /\ n <= N
    <3>1. n - 1 \in Nat /\ n - 1 <= N /\ n \in 1 .. N /\ n - 1 \in 0 .. N /\ n \in 0 .. N
      BY <1>0, <2>2
    <3>2. Good(n - 1)
      BY <1>3, <2>2, <3>1
    <3>3. s[n] \in Chars /\ B[n] = B[n - 1] \o Nibble(s[n]) /\ B[n - 1] \in Seq(Bit)
      BY <1>0, <1>b, <3>1
    <3>4. /\ Len(B[n]) = Len(B[n - 1]) + (IF s[n] = Other THEN 0 ELSE 4)
          /\ s[n] # Other => NumberOf(2, B[n]) = 16 * NumberOf(2, B[n - 1]) + s[n]
      BY <3>3, FourBits
    <3>5. K[n] = 16 * K[n - 1] + s[n]
      BY <1>2, <3>1 DEF NumbersOf, N
    <3>6. Digits(n) <=> Digits(n - 1) /\ s[n] # Other
      <4>1. \A i \in 1 .. n : i = n \/ i \in 1 .. n - 1
        BY <3>1
      <4>2. \A i \in 1 .. n - 1 : i \in 1 .. n
        BY <3>1
      <4>3. n \in 1 .. n
        BY <3>1
      <4> QED BY <4>1, <4>2, <4>3
    <3>7. AnyDigit(n) <=> AnyDigit(n - 1) \/ s[n] # Other
      <4>1. \A i \in 1 .. n : i = n \/ i \in 1 .. n - 1
        BY <3>1
      <4>2. \A i \in 1 .. n - 1 : i \in 1 .. n
        BY <3>1
      <4>3. n \in 1 .. n
        BY <3>1
      <4> QED BY <4>1, <4>2, <4>3
    <3>8. Len(B[n]) \in Nat /\ Len(B[n - 1]) \in Nat
      BY <1>b, <3>1
    <3> DEFINE a == Len(B[n - 1])
               b == Len(B[n])
    <3> HIDE DEF Digits, AnyDigit
    <3>9. /\ a \in Nat /\ b \in Nat /\ b = a + (IF s[n] = Other THEN 0 ELSE 4)
          /\ a > 0 <=> AnyDigit(n - 1)
          /\ IF Digits(n - 1) THEN a = 4 * (n - 1) ELSE a < 4 * (n - 1)
      BY <3>2, <3>4, <3>8
    <3>10. Digits(n) => NumberOf(2, B[n]) = K[n]
      BY <3>2, <3>4, <3>5, <3>6
    <3> HIDE DEF a, b
    <3>11. b > 0 <=> AnyDigit(n)
      BY <3>7, <3>9
    <3>12. IF Digits(n) THEN b = 4 * n ELSE b < 4 * n
      BY <3>1, <3>6, <3>9
    <3> QED BY <3>10, <3>11, <3>12 DEF b
  <2>3. CASE ~(n <= N)
    BY <2>3
  <2> QED BY <2>1, <2>2, <2>3
<1>4. \A n \in Nat : n \in G
  <2> HIDE DEF G
  <2> QED BY <1>3, NatInductionSet
<1>5. Good(N)
  <2> HIDE DEF Good
  <2>1. N \in G /\ N <= N
    BY <1>0, <1>4
  <2> QED BY <2>1
<1>6. B[N] \in Seq(Bit)
  BY <1>0, <1>b
<1> HIDE DEF Digits, AnyDigit
<1>7. Digits(N) <=> \A i \in 1 .. Len(s) : s[i] # Other
  BY DEF Digits, N
<1>8. AnyDigit(N) <=> \E i \in 1 .. Len(s) : s[i] # Other
  BY DEF AnyDigit, N
<1>9. Len(s) = N
  BY DEF N
<1> QED BY <1>1, <1>2, <1>5, <1>6, <1>7, <1>8, <1>9

AddressOK == chars \in Seq(Chars)

LEMMA AddressTyped == AddressSpec => []AddressOK
<1>1. AddressInit => AddressOK
  BY DEF AddressInit, AddressOK
<1>2. AddressOK /\ [ReadChar]_<<buffer, chars>> => AddressOK'
  <2>1. ASSUME AddressOK, ReadChar PROVE AddressOK'
    <3>1. PICK c \in Alphabet : chars' = Append(chars, c)
      BY <2>1 DEF ReadChar
    <3>2. c \in Chars
      BY AlphabetAssumption
    <3> QED BY <2>1, <3>1, <3>2, AppendProperties DEF AddressOK
  <2>2. ASSUME AddressOK, UNCHANGED <<buffer, chars>> PROVE AddressOK'
    BY <2>2 DEF AddressOK
  <2> QED BY <2>1, <2>2
<1> QED BY <1>1, <1>2, PTL DEF AddressSpec

\* substr(0, page_num_bits).
LEMMA FirstBits ==
  ASSUME NEW bits \in Seq(Bit)
  PROVE  LET n == Min({PageBits, Len(bits)})
             t == SubSeq(bits, 1, n)
         IN  /\ n \in Nat /\ n <= PageBits /\ n <= Len(bits) /\ (n = PageBits \/ n = Len(bits))
             /\ t \in Seq(Bit) /\ Len(t) = n
<1> DEFINE S == {PageBits, Len(bits)}
<1>1. S \subseteq Nat /\ S # {} /\ Len(bits) \in Nat /\ \A i \in 1 .. Len(bits) : bits[i] \in Bit
  BY BitsAssumption, LenProperties, ElementOfSeq
<1> DEFINE n == Min(S)
<1>2. n \in S /\ \A i \in S : n <= i
  BY <1>1, LeastNat
<1>3. PageBits \in S /\ Len(bits) \in S
  OBVIOUS
<1> HIDE DEF n
<1>4. n \in Nat /\ n <= PageBits /\ n <= Len(bits) /\ (n = PageBits \/ n = Len(bits))
  BY <1>1, <1>2, <1>3
<1>5. SubSeq(bits, 1, n) \in Seq(Bit) /\ Len(SubSeq(bits, 1, n)) = n
  <2>1. \A i \in 1 .. n : bits[i] \in Bit
    BY <1>1, <1>4
  <2> QED BY <1>1, <1>4, <2>1, SubSeqProperties
<1> QED BY <1>4, <1>5 DEF n

LEMMA HighBitsRead == AddressOK => PageIsHighBits
<1> SUFFICES ASSUME AddressOK, buffer = <<>>, RightLength PROVE PageIsHighBits
  BY DEF PageIsHighBits
<1> DEFINE bits == ConvertHexToBinaryAddress(<<>>, chars)
<1>0. Len(chars) \in Nat /\ DOMAIN chars = 1 .. Len(chars)
  BY LenProperties DEF AddressOK
<1>1. /\ bits \in Seq(Bit)
      /\ IF \A i \in 1 .. Len(chars) : chars[i] # Other
         THEN Len(bits) = 4 * Len(chars) /\ NumberOf(2, bits) = NumberOf(16, chars)
         ELSE Len(bits) < 4 * Len(chars)
  BY BitsOfAddress DEF AddressOK
<1>2. PageBits \in Nat \ {0} /\ OffsetBits \in Nat
  BY BitsAssumption
<1> HIDE DEF bits
<1>3. 4 * Len(chars) = PageBits + OffsetBits
  BY DEF RightLength
<1>4. CASE \A i \in 1 .. Len(chars) : chars[i] # Other
  <2>1. Len(bits) = PageBits + OffsetBits /\ NumberOf(2, bits) = NumberOf(16, chars)
    BY <1>1, <1>3, <1>4
  <2> DEFINE n == Min({PageBits, Len(bits)})
             t == SubSeq(bits, 1, n)
  <2>2. n \in Nat /\ n <= PageBits /\ (n = PageBits \/ n = Len(bits)) /\ Len(t) = n
    BY <1>1, FirstBits
  <2>3. n = PageBits
    BY <1>2, <2>1, <2>2
  <2>4. t # <<>>
    BY <1>2, <2>2, <2>3
  <2>5. NumberOf(2, SubSeq(bits, 1, PageBits)) = NumberOf(2, bits) \div PowerOfTwo(OffsetBits)
    BY <1>1, <1>2, <2>1, HighBits
  <2>6. GetPageNumber(<<>>, chars) = NumberOf(2, t)
    BY <2>4 DEF GetPageNumber, ConvertBinaryToDecimal, bits
  <2>7. GetPageNumber(<<>>, chars) = NumberOf(16, chars) \div PowerOfTwo(OffsetBits)
    <3>1. t = SubSeq(bits, 1, PageBits)
      BY <2>3
    <3> HIDE DEF t
    <3> QED BY <2>1, <2>5, <2>6, <3>1
  <2> QED BY <1>0, <1>4, <2>1, <2>7 DEF PageIsHighBits, CheckIfAddressValid, IsDigit, bits
<1>5. CASE ~(\A i \in 1 .. Len(chars) : chars[i] # Other)
  <2>1. Len(bits) # PageBits + OffsetBits
    BY <1>0, <1>1, <1>3, <1>5, LenProperties
  <2> QED BY <1>0, <1>5, <2>1 DEF PageIsHighBits, CheckIfAddressValid, IsDigit, bits
<1> QED BY <1>4, <1>5

LEMMA InTableRead == AddressOK => PageInTable
<1> SUFFICES ASSUME AddressOK, buffer = <<>> PROVE PageInTable
  BY DEF PageInTable
<1> DEFINE bits == ConvertHexToBinaryAddress(<<>>, chars)
           n == Min({PageBits, Len(bits)})
           t == SubSeq(bits, 1, n)
<1>0. DOMAIN chars = 1 .. Len(chars)
  BY LenProperties DEF AddressOK
<1>1. /\ bits \in Seq(Bit)
      /\ Len(bits) > 0 <=> \E i \in 1 .. Len(chars) : chars[i] # Other
  BY BitsOfAddress DEF AddressOK
<1>2. PageBits \in Nat \ {0}
  BY BitsAssumption
<1>3. n \in Nat /\ n <= PageBits /\ n <= Len(bits) /\ (n = PageBits \/ n = Len(bits))
      /\ t \in Seq(Bit) /\ Len(t) = n
  BY <1>1, FirstBits
<1>4. GetPageNumber(<<>>, chars) = ConvertBinaryToDecimal(t)
  BY DEF GetPageNumber
<1>5. Len(bits) \in Nat
  BY <1>1, LenProperties
<1> HIDE DEF bits, n, t
<1>6. CASE Len(bits) > 0
  <2>1. t # <<>>
    BY <1>2, <1>3, <1>5, <1>6
  <2>2. NumberOf(2, t) \in 0 .. PowerOfTwo(n) - 1
    BY <1>3, BitsBound
  <2>3. PowerOfTwo(n) <= PowerOfTwo(PageBits) /\ PowerOfTwo(n) \in Nat /\ PowerOfTwo(PageBits) \in Nat
    BY <1>2, <1>3, PowerMonotone, Powers
  <2>4. NumberOf(2, t) \in 0 .. PowerOfTwo(PageBits) - 1
    BY <2>2, <2>3
  <2>5. GetPageNumber(<<>>, chars) = NumberOf(2, t)
    BY <1>4, <2>1 DEF ConvertBinaryToDecimal
  <2> QED BY <1>0, <1>1, <1>6, <2>4, <2>5 DEF PageInTable, IsDigit
<1>7. CASE ~(Len(bits) > 0)
  <2>1. t = <<>>
    BY <1>3, <1>5, <1>7, EmptySeq
  <2>2. GetPageNumber(<<>>, chars) = Runaway
    BY <1>4, <2>1 DEF ConvertBinaryToDecimal
  <2> QED BY <1>0, <1>1, <1>7, <2>2 DEF PageInTable, IsDigit
<1> QED BY <1>6, <1>7

\* Whatever the number of bits and the length of the address: with a clean buffer
\* checkIfAddressValid accepts exactly the addresses of digits, and getPageNumber is the
\* number of the address without its offset.
THEOREM AddressConverted == AddressSpec => []PageIsHighBits
<1>1. AddressOK => PageIsHighBits
  BY HighBitsRead
<1> QED BY <1>1, AddressTyped, PTL

\* Whatever the characters and however many: with a clean buffer getPageNumber is an index
\* of the page table, or the MMU ends because there is no digit.
THEOREM AddressInTable == AddressSpec => []PageInTable
<1>1. AddressOK => PageInTable
  BY InTableRead
<1> QED BY <1>1, AddressTyped, PTL
=============================================================================
