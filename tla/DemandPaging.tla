---------------------------- MODULE DemandPaging ----------------------------
(***************************************************************************)
(* What the page-table simulation (OS.cpp and MMU.cpp) promises, without   *)
(* its two processes, its signals and its frames: one demand pager that    *)
(* serves one page fault at a time over FrameCount frames.  PageTableSim   *)
(* is shown to implement this module.                                      *)
(***************************************************************************)
EXTENDS Integers, FiniteSetsExt, SequencesExt

CONSTANTS
  PageCount,   \* pages of the simulated process (first argument of os.out)
  FrameCount,  \* physical frames (second argument)
  Policy       \* "FIFO" or "LFU"

Pages  == 0 .. PageCount - 1
NoPage == -1

VARIABLES
  queue,     \* the resident pages, in the order they were loaded
  uses,      \* references to each resident page since it was loaded
  dirty,     \* pages whose memory image is newer than the disk's
  loading,   \* the page being loaded, or NoPage
  flushing,  \* the evicted page being written back, or NoPage
  disk       \* disk accesses so far

vars == <<queue, uses, dirty, loading, flushing, disk>>

Resident == ToSet(queue)

Init ==
  /\ queue = <<>>
  /\ uses = [p \in Pages |-> 0]
  /\ dirty = {}
  /\ loading = NoPage
  /\ flushing = NoPage
  /\ disk = 0

\* The positions in the queue the policy may evict: the least used pages under
\* LFU, every page under FIFO.  The oldest of them is the victim.
Candidates ==
  {k \in DOMAIN queue :
     Policy = "LFU" => \A p \in Resident : uses[queue[k]] <= uses[p]}

\* A reference to a resident page.
Hit(p) ==
  /\ p \in Resident
  /\ loading = NoPage
  /\ uses' = [uses EXCEPT ![p] = @ + 1]
  /\ UNCHANGED <<queue, dirty, loading, flushing, disk>>

\* A reference to a page that is not resident costs one disk read.
Fault(p) ==
  /\ p \notin Resident
  /\ loading = NoPage
  /\ loading' = p
  /\ disk' = disk + 1
  /\ UNCHANGED <<queue, uses, dirty, flushing>>

\* A page leaves memory only to make room for the one being loaded.
Evict ==
  /\ loading # NoPage
  /\ flushing = NoPage
  /\ Len(queue) = FrameCount
  /\ LET k == Min(Candidates)
         v == queue[k]
     IN  /\ queue' = RemoveAt(queue, k)
         /\ uses' = [uses EXCEPT ![v] = 0]
         /\ flushing' = IF v \in dirty THEN v ELSE NoPage
  /\ UNCHANGED <<dirty, loading, disk>>

\* A page stops being dirty only because it was written to the disk.
WriteBack ==
  /\ flushing # NoPage
  /\ dirty' = dirty \ {flushing}
  /\ flushing' = NoPage
  /\ disk' = disk + 1
  /\ UNCHANGED <<queue, uses, loading>>

\* The page gets the free frame and is the newest of the queue.
Load ==
  /\ loading # NoPage
  /\ flushing = NoPage
  /\ Len(queue) < FrameCount
  /\ queue' = Append(queue, loading)
  /\ uses' = [uses EXCEPT ![loading] = 1]
  /\ loading' = NoPage
  /\ UNCHANGED <<dirty, flushing, disk>>

Write(p) ==
  /\ p \in Resident
  /\ loading = NoPage
  /\ dirty' = dirty \cup {p}
  /\ UNCHANGED <<queue, uses, loading, flushing, disk>>

Next ==
  \/ \E p \in Pages : Hit(p) \/ Fault(p) \/ Write(p)
  \/ Evict
  \/ WriteBack
  \/ Load

Spec == Init /\ [][Next]_vars
=============================================================================
