---------------------------- MODULE TcpReceiver ----------------------------
(***************************************************************************)
(* The server's half of an established transfer, SYSTEM_LAB/TCP/3.1/       *)
(* Server.cpp (3.2 has the same code): a window of slots, one per segment  *)
(* it is ready to take, and one cumulative acknowledgement per segment     *)
(* that arrives.  A module that gives it a client and a network            *)
(* instantiates it; alone, any segment may arrive at any time.             *)
(***************************************************************************)
EXTENDS Integers, FiniteSetsExt

CONSTANTS
  MAX_CAPACITY,   \* bytes the server advertises in its SYN+ACK; 32 in the code
  max_seg_size,   \* agreed in the handshake, minimum(client's MSS, SMSS)
  First,          \* client_nextSeq_no when the handshake is over
  SeqNos          \* sequence numbers of the segments that may arrive

ASSUME ReceiverAssumption ==
  /\ MAX_CAPACITY \in Nat
  /\ max_seg_size \in Nat \ {0}
  /\ max_seg_size <= MAX_CAPACITY
  /\ First \in Nat
  /\ SeqNos \subseteq Int

VARIABLES
  supportBuffer,          \* the slots, the next expected segment's first
  initial_window_seq_no,  \* sequence number of the first slot
  client_nextSeq_no,      \* sequence number the next new slot will have
  ack,                    \* acknowledgement_no of the last ACK sent
  arrived                 \* history: sequence numbers of the segments received

vars == <<supportBuffer, initial_window_seq_no, client_nextSeq_no, ack, arrived>>

windowSize == MAX_CAPACITY \div max_seg_size

Slot(seq) == [sequence_no |-> seq, isPacketReceived |-> FALSE]

\* Consecutive new slots from seq on.
NewSlots(seq) == [i \in 1 .. windowSize |-> Slot(seq + (i - 1) * max_seg_size)]

\* The slot a sequence number selects: by its distance from the window's start,
\* modulo the window.  A number before the window selects none (0).
getSupportBufferIndex(seq) ==
  IF seq < initial_window_seq_no THEN 0
  ELSE (((seq - initial_window_seq_no) \div max_seg_size) % windowSize) + 1

\* Mutant of Marked: the slot's own sequence number is not compared.
MarkedUnchecked(seq) ==
  LET i == getSupportBufferIndex(seq)
  IN  IF i > 0 THEN [supportBuffer EXCEPT ![i].isPacketReceived = TRUE]
      ELSE supportBuffer

\* A slot is marked only if it is the segment's own.
Marked(seq) ==
  LET i == getSupportBufferIndex(seq)
  IN  IF i > 0 /\ supportBuffer[i].sequence_no = seq
      THEN [supportBuffer EXCEPT ![i].isPacketReceived = TRUE]
      ELSE supportBuffer

Blanks(slots) == {i \in 1 .. windowSize : ~slots[i].isPacketReceived}

\* How many slots at the front are filled.
blankSupportBufferIndex(slots) ==
  IF Blanks(slots) = {} THEN windowSize ELSE Min(Blanks(slots)) - 1

\* Mutants of getSeqNoBlankSupportBuffer: a full window has no blank slot; it is
\* answered by its own start.
NoBlank(slots) ==
  IF Blanks(slots) = {} THEN -1 ELSE slots[Min(Blanks(slots))].sequence_no
WindowStart(slots) ==
  IF Blanks(slots) = {} THEN initial_window_seq_no
  ELSE slots[Min(Blanks(slots))].sequence_no

getSeqNoBlankSupportBuffer(slots) ==
  IF Blanks(slots) = {} THEN client_nextSeq_no
  ELSE slots[Min(Blanks(slots))].sequence_no

\* Mutant of eraseInitialNonEmptySupportBuffer: new slots start one too early.
EraseOffByOne(slots) ==
  LET n == blankSupportBufferIndex(slots)
  IN  IF n > 1 \/ n = windowSize
      THEN /\ initial_window_seq_no' =
                IF n = windowSize THEN client_nextSeq_no ELSE slots[n + 1].sequence_no
           /\ client_nextSeq_no' = client_nextSeq_no + (n - 1) * max_seg_size
           /\ supportBuffer' =
                [i \in 1 .. windowSize |->
                   IF i + n <= windowSize THEN slots[i + n]
                   ELSE NewSlots(client_nextSeq_no)[i + n - windowSize]]
      ELSE /\ supportBuffer' = slots
           /\ UNCHANGED <<initial_window_seq_no, client_nextSeq_no>>

\* A full window is replaced; two or more filled slots at the front make room
\* for new ones at the end; a single one stays until the next arrives.
eraseInitialNonEmptySupportBuffer(slots) ==
  LET n == blankSupportBufferIndex(slots)
  IN  IF n > 1 \/ n = windowSize
      THEN /\ initial_window_seq_no' =
                IF n = windowSize THEN client_nextSeq_no ELSE slots[n + 1].sequence_no
           /\ client_nextSeq_no' = client_nextSeq_no + n * max_seg_size
           /\ supportBuffer' =
                [i \in 1 .. windowSize |->
                   IF i + n <= windowSize THEN slots[i + n]
                   ELSE NewSlots(client_nextSeq_no)[i + n - windowSize]]
      ELSE /\ supportBuffer' = slots
           /\ UNCHANGED <<initial_window_seq_no, client_nextSeq_no>>

Init ==
  /\ supportBuffer = NewSlots(First)
  /\ initial_window_seq_no = First
  /\ client_nextSeq_no = First + windowSize * max_seg_size
  /\ ack = First
  /\ arrived = {}

\* One turn of initiateFlow's loop: a data segment arrives, is put in its slot
\* if it has one, and is answered, whether it was taken or not.
Receive(seq) ==
  /\ ack' = getSeqNoBlankSupportBuffer(Marked(seq))
  /\ eraseInitialNonEmptySupportBuffer(Marked(seq))
  /\ arrived' = arrived \cup {seq}

Next == \E seq \in SeqNos : Receive(seq)

Spec == Init /\ [][Next]_vars

-----------------------------------------------------------------------------
TypeOK ==
  /\ supportBuffer \in [1 .. windowSize -> [sequence_no : Nat, isPacketReceived : BOOLEAN]]
  /\ initial_window_seq_no \in Nat
  /\ client_nextSeq_no \in Nat
  /\ ack \in Nat
  /\ arrived \subseteq SeqNos

\* The slots stay consecutive from the start of the window to the next sequence
\* number, whatever is erased and appended: getSupportBufferIndex relies on it.
SlotsConsecutive ==
  /\ \A i \in 1 .. windowSize :
       supportBuffer[i].sequence_no = initial_window_seq_no + (i - 1) * max_seg_size
  /\ client_nextSeq_no = initial_window_seq_no + windowSize * max_seg_size

\* A byte b of the stream has reached the server.
ByteArrived(b) == \E s \in arrived : s <= b /\ b < s + max_seg_size

\* The server acknowledges no byte that it has not received: with losses, gaps
\* and segments outside the window, everything below the last ACK is there.
AcksCoverArrivals == \A b \in First .. ack - 1 : ByteArrived(b)

\* What has been acknowledged stays so, although the window is rebuilt
\* under it: an ACK is never lower than the one before.
AckNeverFalls == [][ack <= ack']_vars

\* What the server has kept: the part of the stream before the window, and the
\* marked slots.
Kept ==
  {s \in {First + k * max_seg_size : k \in 0 .. initial_window_seq_no} : s < initial_window_seq_no}
    \cup {supportBuffer[i].sequence_no : i \in (1 .. windowSize) \ Blanks(supportBuffer)}

Abstract == INSTANCE InOrderReceiver WITH
  Step <- max_seg_size, Window <- windowSize, kept <- Kept

\* The slots and their erasure implement a set of kept segments with a
\* cumulative acknowledgement: a segment inside the window is kept until it is
\* acknowledged, one outside leaves no trace.
ImplementsInOrderReceiver == Abstract!Spec
=============================================================================
