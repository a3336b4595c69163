---------------------------- MODULE ActivityLog -----------------------------
(***************************************************************************)
(* Reading the sensor log of the activity recogniser (ar.c, ReadData and   *)
(* what it calls).  A line is a sensor event; it may carry the name of an  *)
(* activity, with or without a begin or end mark.  An event is stored once *)
(* for each activity it belongs to, in one array, aevents, and the         *)
(* occurrences of the activities overlap there.                            *)
(***************************************************************************)
EXTENDS Integers, Sequences, FiniteSets

CONSTANTS
  numactivities,   \* the activities are 0 .. numactivities - 1
  MAXALENGTH,      \* the capacity of aevents
  MaxLines,        \* bound: lines of a log
  Hour(_)          \* bound: the hour of the n-th line

ASSUME LogAssumption ==
  /\ numactivities \in Nat \ {0} /\ MAXALENGTH \in Nat \ {0} /\ MaxLines \in Nat
  /\ \A n \in 1 .. MaxLines : Hour(n) \in Int

Activities == 0 .. numactivities - 1

VARIABLES
  lines,      \* lines read
  aevents,    \* [label, time] and two fields the program does not have: the hour that
              \* time was made from, and the occurrence the event was added to
  open,       \* the activities that have begun and not ended
  current,    \* per activity, its occurrence that is open or the next: start, length,
              \* previous
  finished,   \* per activity, its occurrences; afreq is their number
  same,       \* the count of open activities
  previous    \* the activity that finished last

logVars == <<lines, aevents, open, current, finished, same, previous>>

evnum == Len(aevents)
afreq(a) == Len(finished[a])

NoOccurrence == [start |-> 0, length |-> 0, previous |-> 0]

LogInit ==
  /\ lines = 0
  /\ aevents = <<>>
  /\ open = {}
  /\ current = [a \in Activities |-> NoOccurrence]
  /\ finished = [a \in Activities |-> <<>>]
  /\ same = 0
  /\ previous = 0

-----------------------------------------------------------------------------
(* AddActivity, for a sequence of activities that takes the event in turn.   *)

InOrder(S) ==
  CHOOSE s \in [1 .. Cardinality(S) -> S] : \A i, j \in DOMAIN s : i < j => s[i] < s[j]

\* Beyond the capacity an event is only reported.
Stored(targets) ==
  LET room == MAXALENGTH - evnum
  IN  SubSeq(targets, 1, IF Len(targets) < room THEN Len(targets) ELSE room)

Count(s, a) == Cardinality({k \in DOMAIN s : s[k] = a})

AddEvents(targets) ==
  LET s == Stored(targets)
  IN  aevents' = aevents \o
        [k \in DOMAIN s |-> [label |-> s[k], time |-> Hour(lines + 1), hour |-> Hour(lines + 1),
                             occurrence |-> afreq(s[k]) + 1]]

\* Mutant of StartOf: the number of events, not the last of them.
StartAfter(a, targets) == evnum + 2

\* The event an occurrence starts with: the last one when it is opened.
StartOf(a, targets) == IF Stored(targets) = <<>> THEN evnum ELSE evnum + 1

Lengthened(a, targets) ==
  [current[a] EXCEPT !.length = @ + Count(Stored(targets), a)]

Opened(a, targets) ==
  [Lengthened(a, targets) EXCEPT !.start = StartOf(a, targets), !.previous = previous]

-----------------------------------------------------------------------------
(* One line.                                                                 *)

NextLine == lines < MaxLines /\ lines' = lines + 1

\* A begin or an end: the line does not say which, it opens or closes.  The other
\* open activities take the event too.
Begin(a) ==
  LET targets == <<a>> \o InOrder(open)
  IN  /\ a \notin open
      /\ AddEvents(targets)
      /\ open' = open \cup {a}
      /\ current' = [x \in Activities |-> IF x = a THEN Opened(a, targets) ELSE Lengthened(x, targets)]
      /\ same' = same + 1
      /\ previous' = IF same' = 0 THEN a ELSE previous
      /\ UNCHANGED finished

End(a) ==
  LET targets == <<a>> \o InOrder(open \ {a})
  IN  /\ a \in open
      /\ AddEvents(targets)
      /\ open' = open \ {a}
      /\ finished' = [finished EXCEPT ![a] = Append(@, Lengthened(a, targets))]
      /\ current' = [x \in Activities |-> IF x = a THEN NoOccurrence ELSE Lengthened(x, targets)]
      /\ same' = same - 1
      /\ previous' = IF same' = 0 THEN a ELSE previous

\* Mutant of Mark: an activity is the previous one as soon as it begins.
MarkIsPrevious(a) ==
  /\ NextLine
  /\ \/ /\ a \notin open
        /\ AddEvents(<<a>> \o InOrder(open))
        /\ open' = open \cup {a}
        /\ current' = [x \in Activities |->
              IF x = a THEN Opened(a, <<a>> \o InOrder(open))
              ELSE Lengthened(x, <<a>> \o InOrder(open))]
        /\ same' = same + 1
        /\ previous' = a
        /\ UNCHANGED finished
     \/ End(a)

Mark(a) == NextLine /\ (Begin(a) \/ End(a))

\* A name without a mark is an event of the activity if that is open.
LabelledInside(a) ==
  /\ NextLine /\ a \in open
  /\ AddEvents(<<a>>)
  /\ current' = [current EXCEPT ![a] = Lengthened(a, <<a>>)]
  /\ UNCHANGED <<open, finished, same, previous>>

\* Mutant of Independent: the count that the first of the two calls returns is kept.
IndependentCounted(a) ==
  /\ NextLine /\ a \notin open
  /\ AddEvents(<<a, a>>)
  /\ finished' = [finished EXCEPT ![a] = Append(@, Opened(a, <<a, a>>))]
  /\ same' = same + 1
  /\ previous' = a
  /\ UNCHANGED <<open, current>>

\* Otherwise it is an occurrence of its own, which takes the event twice.
Independent(a) ==
  /\ NextLine /\ a \notin open
  /\ AddEvents(<<a, a>>)
  /\ finished' = [finished EXCEPT ![a] = Append(@, Opened(a, <<a, a>>))]
  /\ previous' = a
  /\ UNCHANGED <<open, current, same>>

\* A line without a name belongs to every open activity.
Unlabelled ==
  /\ NextLine
  /\ IF same > 0
     THEN /\ AddEvents(InOrder(open))
          /\ current' = [x \in Activities |-> Lengthened(x, InOrder(open))]
     ELSE UNCHANGED <<aevents, current>>
  /\ UNCHANGED <<open, finished, same, previous>>

ReadLine ==
  \/ Unlabelled
  \/ \E a \in Activities : Mark(a) \/ LabelledInside(a) \/ Independent(a)

-----------------------------------------------------------------------------

\* What the training and testing loops visit of an occurrence: from its start, the
\* events with its label, as many as its length.
Visited(a, occ) ==
  LET Own(i) == {k \in occ.start .. i : aevents[k].label = a}
  IN  {i \in occ.start .. evnum : aevents[i].label = a /\ Cardinality(Own(i)) <= occ.length}

Added(a, j) == {i \in 1 .. evnum : aevents[i].label = a /\ aevents[i].occurrence = j}

\* The loops over an occurrence visit the events that were added to it, each of them
\* and no other, although the array mixes the occurrences of all activities; so they
\* end within the array.
OccurrenceIsItsEvents ==
  \A a \in Activities : \A j \in 1 .. afreq(a) :
    LET occ == finished[a][j]
    IN  /\ occ.length > 0 => Visited(a, occ) = Added(a, j)
        /\ occ.length = Cardinality(Added(a, j))

\* `same' counts the open activities: it decides whether an unlabelled event is kept
\* and when an activity was the last to finish.
SameCountsOpen == same = Cardinality(open)

\* The previous activity of an occurrence, which the transition probabilities count,
\* had finished when the occurrence began; 0 also stands for none.
PreviousHadFinished ==
  \A a \in Activities : \A occ \in {finished[a][j] : j \in 1 .. afreq(a)} :
    occ.previous # 0 =>
      \E j \in 1 .. afreq(occ.previous) :
        \A i \in Added(occ.previous, j) : i <= occ.start
=============================================================================
