---------------------------- MODULE MCPageTable ----------------------------
(***************************************************************************)
(* Instances of PageTableSim for TLC: every trace of TraceLength lines.    *)
(***************************************************************************)
EXTENDS PageTableRefinement

CONSTANT TraceLength

MCLines == [n \in 1 .. TraceLength |-> Accesses]

\* One mode per page: page 0 is written, the others are read.
FewLines == [n \in 1 .. TraceLength |-> {a \in Accesses : a.write = (a.page = 0)}]
=============================================================================
