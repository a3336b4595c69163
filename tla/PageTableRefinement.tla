------------------------ MODULE PageTableRefinement ------------------------
(***************************************************************************)
(* PageTableSim implements DemandPaging.                                   *)
(***************************************************************************)
EXTENDS PageTableSim

Owner(f) == CHOOSE p \in Pages : table[p].frame = f

Loading ==
  IF act["USR1"].pc \in {"evict", "writeback", "install"}
  THEN act["USR1"].page ELSE NoPage

Paging == INSTANCE DemandPaging WITH
  queue    <- [k \in DOMAIN fifoList |-> Owner(fifoList[k])],
  uses     <- [p \in Pages |->
                 IF table[p].valid THEN lfuList[table[p].frame] ELSE 0],
  dirty    <- {p \in Pages : table[p].dirty},
  loading  <- Loading,
  flushing <- IF act["USR1"].pc = "writeback" THEN act["USR1"].victim ELSE NoPage,
  disk     <- disk_access

\* Two processes, two nesting signal handlers and a shared table behave like the
\* sequential demand pager: a fault is served by one load, a victim is the page
\* the policy names, a dirty victim is written back before its frame is reused.
ImplementsDemandPaging == Paging!Spec
=============================================================================
