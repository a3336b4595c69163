-------------------------- MODULE TcpTransferProofs --------------------------
(***************************************************************************)
(* A transfer skips no byte, fits in the advertised window, never moves    *)
(* its window back and marks only what the server has: for every window,   *)
(* segment size, order of threads, and any number of losses.  The          *)
(* handshake before it lets both sides number the stream alike.            *)
(***************************************************************************)
EXTENDS TcpTransfer, TcpHandshake, ListLemmas

Receiver == INSTANCE TcpReceiverProofs WITH
  MAX_CAPACITY <- AWS, SeqNos <- Nat, supportBuffer <- slots,
  initial_window_seq_no <- slotsFrom, client_nextSeq_no <- slotsTo, ack <- serverAck

-----------------------------------------------------------------------------
(***************************************************************************)
(* The inductive invariant.                                                *)
(***************************************************************************)

\* The sequence numbers of the stream's segments.
Grid == {First + k * max_seg_size : k \in Nat}

\* Whatever is numbered is numbered as a segment of the stream.
OnGrid ==
  /\ initial_window_seq_no \in Grid /\ client_nextSeq_no \in Grid
  /\ toServer \in Seq(Grid) /\ toClient \in Seq(Grid)
  /\ arrived \subseteq Grid
  /\ receivedAckNumber \in Grid \cup {0}

\* During an iteration the window reaches up to the next sequence number.
WindowShape ==
  /\ initial_window_seq_no <= client_nextSeq_no
  /\ pc \notin {"top", "prompt", "stopped"} =>
       /\ windowSize \in Nat \ {0}
       /\ client_nextSeq_no = initial_window_seq_no + windowSize * max_seg_size

\* The acknowledgements under way are in order, between the last one read and the
\* last one sent.
AcksInOrder ==
  /\ receivedAckNumber <= serverAck
  /\ \A i \in 1 .. Len(toClient) :
       /\ receivedAckNumber <= toClient[i] /\ toClient[i] <= serverAck
       /\ \A j \in 1 .. i : toClient[j] <= toClient[i]

\* What is marked has been acknowledged, and is counted.
Acked == {i \in Window : isPacketReceived[i]}

MarksAcked ==
  /\ \A i \in Acked : AckNoOf(i) <= receivedAckNumber
  /\ ack_counter = Cardinality(Acked)

\* No iteration starts beyond what the server has acknowledged.
StartsAcked ==
  /\ initial_window_seq_no <= serverAck
  /\ pc \in {"prompt", "top"} => client_nextSeq_no <= serverAck

\* A retransmission begins at an acknowledgement and follows them to the end of
\* the window, unless a timer ends it.
RetransmissionInv ==
  /\ FAST_RETRANSMIT_MODE =>
       /\ sequence_no_to_be_retransmitted \in Nat
       /\ ACK_TIMEOUT \/ sequence_no_to_be_retransmitted <= receivedAckNumber
  /\ pc \in {"resend", "await", "resent"} => ACK_TIMEOUT \/ seq_no <= receivedAckNumber
  /\ pc = "resent" => ACK_TIMEOUT \/ client_nextSeq_no <= seq_no

\* The congestion window and the threshold stay between a segment and AWS.
WindowLimits ==
  /\ max_seg_size <= cwnd /\ cwnd <= AWS
  /\ SSTHRESH <= AWS
  /\ windowSize * max_seg_size <= AWS

TransferInv ==
  /\ TypeOK /\ OnGrid /\ WindowShape /\ AcksInOrder /\ MarksAcked /\ StartsAcked
  /\ RetransmissionInv /\ WindowLimits
  /\ Receiver!RInv

-----------------------------------------------------------------------------
(***************************************************************************)
(* The server of the transfer is the receiver.                             *)
(***************************************************************************)

LEMMA ReceiverConstants == Receiver!ReceiverAssumption
BY TransferAssumption DEF Receiver!ReceiverAssumption

LEMMA SameReceive == \A seq : Server!Receive(seq) <=> Receiver!Receive(seq)
BY DEF Server!Receive, Receiver!Receive, Server!Marked, Receiver!Marked,
   Server!getSeqNoBlankSupportBuffer, Receiver!getSeqNoBlankSupportBuffer,
   Server!eraseInitialNonEmptySupportBuffer, Receiver!eraseInitialNonEmptySupportBuffer,
   Server!blankSupportBufferIndex, Receiver!blankSupportBufferIndex,
   Server!Blanks, Receiver!Blanks, Server!Min, Receiver!Min,
   Server!getSupportBufferIndex, Receiver!getSupportBufferIndex,
   Server!windowSize, Receiver!windowSize,
   Server!NewSlots, Receiver!NewSlots, Server!Slot, Receiver!Slot

LEMMA SameInit == Server!Init <=> Receiver!Init
BY DEF Server!Init, Receiver!Init, Server!NewSlots, Receiver!NewSlots, Server!Slot,
   Receiver!Slot, Server!windowSize, Receiver!windowSize

LEMMA ReceiverUnchanged == Receiver!RInv /\ UNCHANGED server => Receiver!RInv'
BY DEF server, Receiver!RInv, Receiver!IInv, Receiver!TypeOK, Receiver!SlotsConsecutive,
   Receiver!PrefixArrived, Receiver!ByteArrived, Receiver!MarkedArrived,
   Receiver!AckIsFirstBlank, Receiver!Blanks, Receiver!Min, Receiver!windowSize,
   Receiver!Aligned, Receiver!Seg, Receiver!AtMostOneFilled

\* What the server does with a segment of the stream, and what it says.
LEMMA ReceiverStep ==
  ASSUME Receiver!RInv, NEW seq \in Nat, Server!Receive(seq)
  PROVE  /\ Receiver!RInv'
         /\ serverAck \in Nat /\ serverAck' \in Nat /\ serverAck <= serverAck'
         /\ arrived' = arrived \cup {seq}
<1>1. Receiver!Receive(seq) /\ Receiver!IInv
  BY SameReceive DEF Receiver!RInv
<1>2. Receiver!RInv'
  BY <1>1, Receiver!RInvStep, ReceiverConstants
<1>3. serverAck <= serverAck'
  BY <1>1, Receiver!StepAck, ReceiverConstants
<1>4. serverAck \in Nat /\ serverAck' \in Nat
  BY <1>1, <1>2 DEF Receiver!RInv, Receiver!IInv, Receiver!TypeOK
<1>5. arrived' = arrived \cup {seq}
  BY <1>1 DEF Receiver!Receive
<1> QED BY <1>2, <1>3, <1>4, <1>5

LEMMA ReceiverState == Receiver!RInv => serverAck \in Grid /\ serverAck \in Nat
<1> SUFFICES ASSUME Receiver!RInv PROVE serverAck \in Grid /\ serverAck \in Nat
  OBVIOUS
<1>1. \E p \in Nat : LET m == Receiver!Min(Receiver!Blanks(slots))
                     IN  m \in 1 .. Receiver!windowSize /\ serverAck = Receiver!Seg(p + m - 1)
  BY Receiver!KeptInNumbers, ReceiverConstants
<1>2. PICK p \in Nat, m \in Nat \ {0} : serverAck = Receiver!Seg(p + m - 1)
  BY <1>1
<1>3. p + m - 1 \in Nat
  BY <1>2
<1>4. serverAck \in Nat
  BY DEF Receiver!RInv, Receiver!IInv, Receiver!TypeOK
<1> QED BY <1>2, <1>3, <1>4 DEF Grid, Receiver!Seg

-----------------------------------------------------------------------------
(***************************************************************************)
(* Sequence numbers, queues and marks.                                     *)
(***************************************************************************)

LEMMA GridProperties ==
  /\ Grid \subseteq Nat /\ First \in Grid /\ \A a \in Grid : First <= a
  /\ \A a \in Grid, k \in Nat : a + k * max_seg_size \in Grid
  /\ \A a, b \in Grid : a <= b /\ b < a + max_seg_size => a = b
<1>0. max_seg_size \in Nat \ {0} /\ First \in Nat
  BY TransferAssumption
<1>1. ASSUME NEW k \in Nat PROVE k * max_seg_size \in Nat
  BY <1>0
<1>2. Grid \subseteq Nat /\ \A a \in Grid : First <= a
  BY <1>0, <1>1 DEF Grid
<1>3. First \in Grid
  <2>1. First = First + 0 * max_seg_size
    BY <1>0
  <2> QED BY <2>1 DEF Grid
<1>4. ASSUME NEW a \in Grid, NEW k \in Nat PROVE a + k * max_seg_size \in Grid
  <2>1. PICK j \in Nat : a = First + j * max_seg_size
    BY DEF Grid
  <2>2. a + k * max_seg_size = First + (j + k) * max_seg_size /\ j + k \in Nat
    BY <1>0, <2>1
  <2> QED BY <2>2 DEF Grid
<1>5. ASSUME NEW a \in Grid, NEW b \in Grid, a <= b, b < a + max_seg_size PROVE a = b
  <2>1. PICK j \in Nat : a = First + j * max_seg_size
    BY DEF Grid
  <2>2. PICK k \in Nat : b = First + k * max_seg_size
    BY DEF Grid
  <2>3. CASE j = k
    BY <2>1, <2>2, <2>3
  <2>4. CASE k < j
    <3>1. PICK d \in Nat : j = k + 1 + d
      <4>1. j - k - 1 \in Nat /\ j = k + 1 + (j - k - 1)
        BY <2>4
      <4> QED BY <4>1
    <3>2. a = b + max_seg_size + d * max_seg_size
      BY <1>0, <2>1, <2>2, <3>1
    <3> QED BY <1>0, <1>1, <1>2, <1>5, <3>2
  <2>5. CASE j < k
    <3>1. PICK d \in Nat : k = j + 1 + d
      <4>1. k - j - 1 \in Nat /\ k = j + 1 + (k - j - 1)
        BY <2>5
      <4> QED BY <4>1
    <3>2. b = a + max_seg_size + d * max_seg_size
      BY <1>0, <2>1, <2>2, <3>1
    <3> QED BY <1>0, <1>1, <1>2, <1>5, <3>2
  <2> QED BY <2>3, <2>4, <2>5
<1> QED BY <1>2, <1>3, <1>4, <1>5

\* The numbers of a window's segments.
LEMMA WindowNumbers ==
  ASSUME OnGrid, NEW i \in Window, windowSize \in Nat
  PROVE  /\ SeqNoOf(i) \in Grid /\ SeqNoOf(i) \in Nat /\ AckNoOf(i) \in Nat
         /\ initial_window_seq_no <= SeqNoOf(i)
         /\ AckNoOf(i) = SeqNoOf(i + 1)
         /\ AckNoOf(i) = initial_window_seq_no + i * max_seg_size
         /\ initial_window_seq_no < AckNoOf(i)
         /\ AckNoOf(i) <= initial_window_seq_no + windowSize * max_seg_size
<1> DEFINE a == initial_window_seq_no
           g == max_seg_size
           before == (i - 1) * g
           after == (windowSize - i) * g
<1>1. a \in Grid /\ a \in Nat /\ g \in Nat \ {0}
  BY GridProperties, TransferAssumption DEF OnGrid
<1>2. i \in Nat /\ i - 1 \in Nat /\ windowSize - i \in Nat
  BY DEF Window
<1>3. before \in Nat /\ after \in Nat
  BY <1>1, <1>2
<1>4. i * g = before + g /\ windowSize * g = before + g + after /\ ((i + 1) - 1) * g = before + g
  BY <1>1, <1>2
<1>5. a + (i - 1) * max_seg_size \in Grid
  BY <1>1, <1>2, GridProperties
<1>6. SeqNoOf(i) = a + before /\ AckNoOf(i) = a + before + g /\ SeqNoOf(i + 1) = a + ((i + 1) - 1) * g
  BY DEF SeqNoOf, AckNoOf
<1>7. SeqNoOf(i) \in Grid
  BY <1>5, <1>6
<1> HIDE DEF before, after
<1>8. /\ SeqNoOf(i) \in Nat /\ AckNoOf(i) \in Nat
      /\ a <= SeqNoOf(i) /\ a < AckNoOf(i)
      /\ AckNoOf(i) = a + i * g /\ AckNoOf(i) = SeqNoOf(i + 1)
      /\ AckNoOf(i) <= a + windowSize * g
  BY <1>1, <1>3, <1>4, <1>6
<1> QED BY <1>7, <1>8

LEMMA QueueProperties ==
  ASSUME NEW S, NEW q \in Seq(S)
  PROVE  /\ q # <<>> =>
              /\ Head(q) \in S /\ Head(q) = q[1] /\ Len(q) \in Nat \ {0}
              /\ Tail(q) \in Seq(S) /\ Len(Tail(q)) = Len(q) - 1
              /\ \A i \in 1 .. Len(q) - 1 : Tail(q)[i] = q[i + 1]
         /\ \A e \in S :
              /\ Append(q, e) \in Seq(S) /\ Len(Append(q, e)) = Len(q) + 1
              /\ \A i \in 1 .. Len(q) : Append(q, e)[i] = q[i]
              /\ Append(q, e)[Len(q) + 1] = e
         /\ Len(q) \in Nat /\ \A i \in 1 .. Len(q) : q[i] \in S
<1>1. Len(q) \in Nat /\ \A i \in 1 .. Len(q) : q[i] \in S
  BY LenProperties, ElementOfSeq
<1>2. ASSUME NEW e \in S
      PROVE  /\ Append(q, e) \in Seq(S) /\ Len(Append(q, e)) = Len(q) + 1
             /\ \A i \in 1 .. Len(q) : Append(q, e)[i] = q[i]
             /\ Append(q, e)[Len(q) + 1] = e
  BY AppendProperties
<1>3. ASSUME q # <<>>
      PROVE  /\ Head(q) \in S /\ Head(q) = q[1] /\ Len(q) \in Nat \ {0}
             /\ Tail(q) \in Seq(S) /\ Len(Tail(q)) = Len(q) - 1
             /\ \A i \in 1 .. Len(q) - 1 : Tail(q)[i] = q[i + 1]
  BY <1>1, <1>3, HeadTailProperties, EmptySeq
<1> QED BY <1>1, <1>2, <1>3

\* The first of a set of segments of the window.
LEMMA LeastProperties ==
  ASSUME NEW S, S \subseteq Nat, S # {}
  PROVE  Least(S) \in S /\ \A i \in S : Least(S) <= i
<1>1. Least(S) = Min(S)
  BY DEF Least, Min
<1> QED BY <1>1, LeastNat

LEMMA AckedFinite ==
  ASSUME windowSize \in Nat
  PROVE  /\ IsFiniteSet(Acked) /\ Cardinality(Acked) \in 0 .. windowSize
         /\ Cardinality(Acked) = windowSize => Acked = Window
<1>1. Acked \subseteq Window /\ IsFiniteSet(Window) /\ Cardinality(Window) = windowSize
  BY FS_Interval DEF Acked, Window
<1>2. IsFiniteSet(Acked) /\ Cardinality(Acked) <= windowSize
  BY <1>1, FS_Subset
<1>3. Cardinality(Acked) = windowSize => Acked = Window
  BY <1>1, FS_Subset
<1> QED BY <1>2, <1>3, FS_CardinalityType
LEMMA TableIsSeq ==
  ASSUME NEW S, NEW n \in Nat, NEW f \in [1 .. n -> S]
  PROVE  f \in Seq(S) /\ Len(f) = n
<1>1. f \in Seq(S)
  BY SeqDef
<1>2. Len(f) \in Nat /\ DOMAIN f = 1 .. Len(f) /\ DOMAIN f = 1 .. n
  BY <1>1, LenProperties
<1> QED BY <1>1, <1>2

\* What the steps need of the types and the constants.
LEMMA Typed ==
  ASSUME TransferInv
  PROVE  /\ TypeOK /\ OnGrid /\ WindowShape /\ AcksInOrder /\ MarksAcked /\ StartsAcked
         /\ RetransmissionInv /\ WindowLimits /\ Receiver!RInv
         /\ max_seg_size \in Nat \ {0} /\ AWS \in Nat /\ 2 * max_seg_size <= AWS
         /\ First \in Nat \ {0} /\ Grid \subseteq Nat
         /\ windowSize \in Nat /\ serverAck \in Nat
         /\ isPacketReceived \in [Window -> BOOLEAN]
         /\ timer \in [Window -> {"off", "asleep", "firing"}]
<1>1. /\ TypeOK /\ OnGrid /\ WindowShape /\ AcksInOrder /\ MarksAcked /\ StartsAcked
      /\ RetransmissionInv /\ WindowLimits /\ Receiver!RInv
  BY DEF TransferInv
<1>2. isPacketReceived \in Seq(BOOLEAN) /\ timer \in Seq({"off", "asleep", "firing"})
      /\ Len(timer) = windowSize
  BY <1>1 DEF TypeOK
<1>3. windowSize \in Nat /\ isPacketReceived \in [Window -> BOOLEAN]
  BY <1>2, LenProperties DEF windowSize, Window
<1>4. timer \in [Window -> {"off", "asleep", "firing"}]
  BY <1>2, LenProperties DEF Window
<1> QED BY <1>1, <1>3, <1>4, TransferAssumption, GridProperties, ReceiverState

LEMMA TransferInit == Init => TransferInv
<1> SUFFICES ASSUME Init PROVE TransferInv
  OBVIOUS
<1> USE DEF Init
<1>1. Receiver!RInv
  BY SameInit, Receiver!RInvInit, ReceiverConstants
<1>2. serverAck = First /\ arrived = {}
  BY DEF Server!Init
<1>3. First \in Grid /\ First \in Nat \ {0} /\ max_seg_size \in Nat \ {0} /\ AWS \in Nat
      /\ 2 * max_seg_size <= AWS
  BY GridProperties, TransferAssumption
<1>4. windowSize = 0 /\ \A S : <<>> \in Seq(S)
  BY EmptySeq DEF windowSize
<1>5. Len(toClient) = 0
  BY EmptySeq
<1>6. TypeOK
  <2>1. <<>> \in Seq(BOOLEAN) /\ <<>> \in Seq({"off", "asleep", "firing"}) /\ <<>> \in Seq(Nat)
    BY EmptySeq
  <2>2. SSTHRESH \in Nat \ {0}
    BY <1>3
  <2>3. Len(timer) = 0 /\ ack_counter \in 0 .. windowSize
    BY <1>4, EmptySeq
  <2>4. losses \in 0 .. MaxLosses
    BY ConnectionAssumption
  <2> QED BY <1>3, <1>4, <2>1, <2>2, <2>3, <2>4 DEF TypeOK, NoAck
<1>7. OnGrid
  <2>1. <<>> \in Seq(Grid)
    BY EmptySeq
  <2> QED BY <1>2, <1>3, <2>1 DEF OnGrid
<1>8. WindowShape
  BY <1>3 DEF WindowShape
<1>9. AcksInOrder
  BY <1>2, <1>3, <1>5 DEF AcksInOrder
<1>10. MarksAcked
  <2>1. Acked = {}
    BY <1>4 DEF Acked, Window
  <2> QED BY <2>1, FS_EmptySet DEF MarksAcked
<1>11. StartsAcked
  BY <1>2, <1>3 DEF StartsAcked
<1>12. RetransmissionInv
  BY DEF RetransmissionInv
<1>13. WindowLimits
  BY <1>3, <1>4 DEF WindowLimits
<1> QED BY <1>1, <1>6, <1>7, <1>8, <1>9, <1>10, <1>11, <1>12, <1>13 DEF TransferInv

LEMMA TimersTyped ==
  ASSUME windowSize \in Nat, NEW t \in [Window -> {"off", "asleep", "firing"}]
  PROVE  t \in Seq({"off", "asleep", "firing"}) /\ Len(t) = windowSize
BY TableIsSeq DEF Window

\* A step that leaves the window and its marks alone, and takes no acknowledgement back.
LEMMA SameMarks ==
  ASSUME TransferInv, receivedAckNumber' \in Nat, receivedAckNumber <= receivedAckNumber',
         UNCHANGED <<isPacketReceived, ack_counter, initial_window_seq_no>>
  PROVE  MarksAcked'
<1>1. Acked' = Acked /\ windowSize' = windowSize /\ Window' = Window
  BY DEF Acked, Window, windowSize
<1>2. ASSUME NEW i \in Acked PROVE AckNoOf(i)' <= receivedAckNumber'
  <2>1. AckNoOf(i)' = AckNoOf(i) /\ AckNoOf(i) \in Nat
    BY Typed, WindowNumbers DEF AckNoOf, SeqNoOf, Acked
  <2>2. AckNoOf(i) <= receivedAckNumber /\ receivedAckNumber \in Nat
    BY Typed DEF MarksAcked, TypeOK
  <2> QED BY <2>1, <2>2
<1>3. ack_counter' = Cardinality(Acked')
  BY <1>1, Typed DEF MarksAcked
<1> QED BY <1>1, <1>2, <1>3 DEF MarksAcked

LEMMA CancelTyped ==
  ASSUME timer \in [Window -> {"off", "asleep", "firing"}], NEW seq, CancelTimer(seq)
  PROVE  timer' \in [Window -> {"off", "asleep", "firing"}]
BY DEF CancelTimer
LEMMA LeaveWaitStep == ASSUME TransferInv, LeaveWait PROVE TransferInv'
<1>1. UNCHANGED server
  BY DEF LeaveWait
<1>2. Receiver!RInv'
  BY <1>1, Typed, ReceiverUnchanged
<1> QED BY <1>2, Typed DEF TransferInv, LeaveWait, server,
     TypeOK, OnGrid, WindowShape, AcksInOrder, MarksAcked, Acked, StartsAcked,
     RetransmissionInv, WindowLimits, windowSize, Window, AckNoOf, SeqNoOf,
     main, flags, marks, acks, network

LEMMA StartRetransmissionStep == ASSUME TransferInv, StartRetransmission PROVE TransferInv'
<1>1. UNCHANGED server
  BY DEF StartRetransmission
<1>2. Receiver!RInv'
  BY <1>1, Typed, ReceiverUnchanged
<1> QED BY <1>2, Typed DEF TransferInv, StartRetransmission, server,
     TypeOK, OnGrid, WindowShape, AcksInOrder, MarksAcked, Acked, StartsAcked,
     RetransmissionInv, WindowLimits, windowSize, Window, AckNoOf, SeqNoOf,
     main, flags, marks, acks, network

LEMMA AnswerStep == ASSUME TransferInv, Answer PROVE TransferInv'
<1>1. UNCHANGED server
  BY DEF Answer
<1>2. Receiver!RInv'
  BY <1>1, Typed, ReceiverUnchanged
<1> QED BY <1>2, Typed DEF TransferInv, Answer, server,
     TypeOK, OnGrid, WindowShape, AcksInOrder, MarksAcked, Acked, StartsAcked,
     RetransmissionInv, WindowLimits, windowSize, Window, AckNoOf, SeqNoOf,
     main, flags, marks, acks, network

LEMMA StutterStep == ASSUME TransferInv, UNCHANGED vars PROVE TransferInv'
<1>1. UNCHANGED server
  BY DEF vars
<1>2. Receiver!RInv'
  BY <1>1, Typed, ReceiverUnchanged
<1> QED BY <1>2, Typed DEF TransferInv, vars, server,
     TypeOK, OnGrid, WindowShape, AcksInOrder, MarksAcked, Acked, StartsAcked,
     RetransmissionInv, WindowLimits, windowSize, Window, AckNoOf, SeqNoOf,
     main, flags, marks, acks, network

LEMMA CrashStep == ASSUME TransferInv, Crash PROVE TransferInv'
<1>1. Receiver!RInv'
  <2>1. UNCHANGED server
    BY DEF Crash
  <2> QED BY <2>1, Typed, ReceiverUnchanged
<1>2. TypeOK'
  <2>1. /\ pc' = "crashed" /\ receiver' = "off" /\ timer' = [i \in Window |-> "off"]
        /\ UNCHANGED <<cwnd, SSTHRESH, client_nextSeq_no, initial_window_seq_no, seq_no,
                       flags, marks, prev_ack, dup_ack, receivedAckNumber, staleIds,
                       server, network>>
    BY DEF Crash
  <2>2. timer' \in Seq({"off", "asleep", "firing"}) /\ Len(timer') = windowSize
    BY <2>1, Typed, TimersTyped
  <2> QED BY <2>1, <2>2, Typed DEF TypeOK, windowSize, flags, marks, network
<1>3. OnGrid'
  BY Typed DEF Crash, OnGrid, flags, marks, server, network
<1>4. WindowShape'
  BY Typed DEF Crash, WindowShape, windowSize, flags, marks, server, network
<1>5. AcksInOrder'
  BY Typed DEF Crash, AcksInOrder, flags, marks, server, network
<1>6. MarksAcked'
  BY Typed DEF Crash, MarksAcked, Acked, Window, windowSize, AckNoOf, SeqNoOf, flags, marks, server, network
<1>7. StartsAcked'
  BY Typed DEF Crash, StartsAcked, flags, marks, server, network
<1>8. RetransmissionInv'
  BY Typed DEF Crash, RetransmissionInv, NoAck, RetransmissionLoop, flags, marks, server, network
<1>9. WindowLimits'
  BY Typed DEF Crash, WindowLimits, windowSize, flags, marks, server, network
<1> QED BY <1>1, <1>2, <1>3, <1>4, <1>5, <1>6, <1>7, <1>8, <1>9 DEF TransferInv

LEMMA LeaveAwaitStep == ASSUME TransferInv, LeaveAwait PROVE TransferInv'
<1>1. Receiver!RInv'
  <2>1. UNCHANGED server
    BY DEF LeaveAwait
  <2> QED BY <2>1, Typed, ReceiverUnchanged
<1>2. TypeOK'
  <2>1. seq_no' \in Nat /\ pc' \in {"resend", "resent"}
    BY Typed DEF LeaveAwait, TypeOK, RetransmissionLoop
  <2> QED BY <2>1, Typed DEF LeaveAwait, TypeOK, windowSize, flags, marks, acks, server, network
<1>3. OnGrid'
  BY Typed DEF LeaveAwait, OnGrid, flags, marks, acks, server, network
<1>4. WindowShape'
  BY Typed DEF LeaveAwait, WindowShape, windowSize, flags, marks, acks, server, network
<1>5. AcksInOrder'
  BY Typed DEF LeaveAwait, AcksInOrder, flags, marks, acks, server, network
<1>6. MarksAcked'
  BY Typed DEF LeaveAwait, MarksAcked, Acked, Window, windowSize, AckNoOf, SeqNoOf, flags, marks, acks, server, network
<1>7. StartsAcked'
  BY Typed DEF LeaveAwait, RetransmissionLoop, StartsAcked, flags, marks, acks, server, network
<1>8. RetransmissionInv'
  <2>1. seq_no' \in Nat /\ client_nextSeq_no' \in Nat /\ receivedAckNumber \in Nat
    BY Typed DEF LeaveAwait, TypeOK
  <2>2. ACK_TIMEOUT \/ seq_no' = receivedAckNumber
    BY DEF LeaveAwait
  <2>3. pc' = "resent" => ACK_TIMEOUT \/ client_nextSeq_no' <= seq_no'
    BY <2>1 DEF LeaveAwait, RetransmissionLoop
  <2> QED BY <2>1, <2>2, <2>3, Typed DEF LeaveAwait, RetransmissionInv, flags, marks, acks
<1>9. WindowLimits'
  BY Typed DEF LeaveAwait, WindowLimits, windowSize, flags, marks, acks, server, network
<1> QED BY <1>1, <1>2, <1>3, <1>4, <1>5, <1>6, <1>7, <1>8, <1>9 DEF TransferInv

LEMMA ReceiveAckStep == ASSUME TransferInv, ReceiveAck PROVE TransferInv'
<1>1. Receiver!RInv'
  <2>1. UNCHANGED server
    BY DEF ReceiveAck
  <2> QED BY <2>1, Typed, ReceiverUnchanged
<1>2. /\ receivedAckNumber' = toClient[1] /\ toClient[1] \in Grid /\ toClient[1] \in Nat
      /\ receivedAckNumber \in Nat /\ receivedAckNumber <= receivedAckNumber'
      /\ toClient' = Tail(toClient) /\ Tail(toClient) \in Seq(Grid) /\ Tail(toClient) \in Seq(Nat)
  <2>1. toClient # <<>> /\ toClient \in Seq(Grid) /\ toClient \in Seq(Nat)
    BY Typed DEF ReceiveAck, OnGrid, TypeOK
  <2>2. /\ Head(toClient) = toClient[1] /\ Head(toClient) \in Grid /\ 1 \in 1 .. Len(toClient)
        /\ Tail(toClient) \in Seq(Grid) /\ Tail(toClient) \in Seq(Nat)
    BY <2>1, QueueProperties
  <2> QED BY <2>1, <2>2, Typed DEF ReceiveAck, AcksInOrder, TypeOK
<1>3. TypeOK'
  BY <1>2, Typed DEF ReceiveAck, TypeOK, windowSize, main, flags, marks
<1>4. OnGrid'
  BY Typed DEF ReceiveAck, OnGrid, main, flags, marks, server
<1>5. WindowShape'
  BY Typed DEF ReceiveAck, WindowShape, windowSize, main, flags, marks, server
<1>6. AcksInOrder'
  BY Typed DEF ReceiveAck, AcksInOrder, main, flags, marks, server
<1>7. MarksAcked'
  BY <1>2, SameMarks DEF ReceiveAck, main, marks
<1>8. StartsAcked'
  BY Typed DEF ReceiveAck, StartsAcked, main, flags, marks, server
<1>9. RetransmissionInv'
  <2>1. seq_no \in Nat /\ receivedAckNumber' \in Nat
    BY <1>2, Typed DEF TypeOK
  <2> QED BY <1>2, <2>1, Typed DEF ReceiveAck, RetransmissionInv, main, flags
<1>10. WindowLimits'
  BY Typed DEF ReceiveAck, WindowLimits, windowSize, main, flags, marks, server
<1> QED BY <1>1, <1>3, <1>4, <1>5, <1>6, <1>7, <1>8, <1>9, <1>10 DEF TransferInv

LEMMA CountDuplicateStep == ASSUME TransferInv, CountDuplicate PROVE TransferInv'
<1>1. Receiver!RInv'
  <2>1. UNCHANGED server
    BY DEF CountDuplicate
  <2> QED BY <2>1, Typed, ReceiverUnchanged
<1>2. TypeOK'
  <2>1. /\ dup_ack' \in Nat /\ prev_ack' \in Nat /\ FAST_RETRANSMIT_MODE' \in BOOLEAN
        /\ sequence_no_to_be_retransmitted' \in Nat \cup {NoAck}
    <3>1. /\ dup_ack \in Nat /\ receivedAckNumber \in Nat /\ FAST_RETRANSMIT_MODE \in BOOLEAN
          /\ sequence_no_to_be_retransmitted \in Nat \cup {NoAck}
      BY Typed DEF TypeOK
    <3>2. dup_ack' \in Nat /\ prev_ack' \in Nat
      BY <3>1 DEF CountDuplicate
    <3>3. FAST_RETRANSMIT_MODE' \in BOOLEAN /\ sequence_no_to_be_retransmitted' \in Nat \cup {NoAck}
      BY <3>1 DEF CountDuplicate
    <3> QED BY <3>2, <3>3
  <2> QED BY <2>1, Typed DEF CountDuplicate, TypeOK, windowSize, main, marks, network
<1>3. OnGrid'
  BY Typed DEF CountDuplicate, OnGrid, main, marks, server, network
<1>4. WindowShape'
  BY Typed DEF CountDuplicate, WindowShape, windowSize, main, marks, server, network
<1>5. AcksInOrder'
  BY Typed DEF CountDuplicate, AcksInOrder, main, marks, server, network
<1>6. MarksAcked'
  BY Typed DEF CountDuplicate, MarksAcked, Acked, Window, windowSize, AckNoOf, SeqNoOf, main, marks, server, network
<1>7. StartsAcked'
  BY Typed DEF CountDuplicate, StartsAcked, main, marks, server, network
<1>8. RetransmissionInv'
  <2>1. receivedAckNumber \in Nat
    BY Typed DEF TypeOK
  <2> QED BY <2>1, Typed DEF CountDuplicate, RetransmissionInv, main
<1>9. WindowLimits'
  BY Typed DEF CountDuplicate, WindowLimits, windowSize, main, marks, server, network
<1> QED BY <1>1, <1>2, <1>3, <1>4, <1>5, <1>6, <1>7, <1>8, <1>9 DEF TransferInv

LEMMA WakeUpStep == ASSUME TransferInv, NEW i \in Window, WakeUp(i) PROVE TransferInv'
<1>1. Receiver!RInv'
  <2>1. UNCHANGED server
    BY DEF WakeUp
  <2> QED BY <2>1, Typed, ReceiverUnchanged
<1>2. TypeOK'
  <2>1. timer' \in [Window -> {"off", "asleep", "firing"}]
    BY Typed DEF WakeUp
  <2>2. timer' \in Seq({"off", "asleep", "firing"}) /\ Len(timer') = windowSize
    BY <2>1, Typed, TimersTyped
  <2> QED BY <2>2, Typed DEF WakeUp, TypeOK, windowSize, main, flags, marks, acks, network
<1>3. OnGrid'
  BY Typed DEF WakeUp, OnGrid, main, flags, marks, acks, server, network
<1>4. WindowShape'
  BY Typed DEF WakeUp, WindowShape, windowSize, main, flags, marks, acks, server, network
<1>5. AcksInOrder'
  BY Typed DEF WakeUp, AcksInOrder, main, flags, marks, acks, server, network
<1>6. MarksAcked'
  BY Typed DEF WakeUp, MarksAcked, Acked, Window, windowSize, AckNoOf, SeqNoOf, main, flags, marks, acks, server, network
<1>7. StartsAcked'
  BY Typed DEF WakeUp, StartsAcked, main, flags, marks, acks, server, network
<1>8. RetransmissionInv'
  BY Typed DEF WakeUp, RetransmissionInv, NoAck, RetransmissionLoop, main, flags, marks, acks, server, network
<1>9. WindowLimits'
  BY Typed DEF WakeUp, WindowLimits, windowSize, main, flags, marks, acks, server, network
<1> QED BY <1>1, <1>2, <1>3, <1>4, <1>5, <1>6, <1>7, <1>8, <1>9 DEF TransferInv

LEMMA FireStep == ASSUME TransferInv, NEW i \in Window, Fire(i) PROVE TransferInv'
<1>1. Receiver!RInv'
  <2>1. UNCHANGED server
    BY DEF Fire
  <2> QED BY <2>1, Typed, ReceiverUnchanged
<1>2. SeqNoOf(i) \in Nat
  BY Typed, WindowNumbers
<1>3. TypeOK'
  <2>1. timer' \in [Window -> {"off", "asleep", "firing"}]
    BY Typed DEF Fire
  <2>2. timer' \in Seq({"off", "asleep", "firing"}) /\ Len(timer') = windowSize
    BY <2>1, Typed, TimersTyped
  <2> QED BY <1>2, <2>2, Typed DEF Fire, TypeOK, windowSize, main, marks, acks, network
<1>4. OnGrid'
  BY Typed DEF Fire, OnGrid, main, marks, acks, server, network
<1>5. WindowShape'
  BY Typed DEF Fire, WindowShape, windowSize, main, marks, acks, server, network
<1>6. AcksInOrder'
  BY Typed DEF Fire, AcksInOrder, main, marks, acks, server, network
<1>7. MarksAcked'
  BY Typed DEF Fire, MarksAcked, Acked, Window, windowSize, AckNoOf, SeqNoOf, main, marks, acks, server, network
<1>8. StartsAcked'
  BY Typed DEF Fire, StartsAcked, main, marks, acks, server, network
<1>9. RetransmissionInv'
  BY <1>2, Typed DEF Fire, RetransmissionInv, main, acks
<1>10. WindowLimits'
  BY Typed DEF Fire, WindowLimits, windowSize, main, marks, acks, server, network
<1> QED BY <1>1, <1>3, <1>4, <1>5, <1>6, <1>7, <1>8, <1>9, <1>10 DEF TransferInv

LEMMA ResendStep == ASSUME TransferInv, Resend PROVE TransferInv'
<1>1. Receiver!RInv'
  <2>1. UNCHANGED server
    BY DEF Resend
  <2> QED BY <2>1, Typed, ReceiverUnchanged
<1>2. seq_no \in Nat /\ (InWindow(seq_no) => seq_no \in Grid)
  BY Typed, WindowNumbers DEF TypeOK, InWindow
<1>3. timer' \in [Window -> {"off", "asleep", "firing"}]
  BY Typed, CancelTyped DEF Resend
<1>4. /\ toServer' \in Seq(Grid) /\ toServer' \in Seq(Nat)
      /\ pc' \in {"await", "resend", "resent"}
      /\ pc' = "resent" => ACK_TIMEOUT \/ client_nextSeq_no <= seq_no
  <2>1. /\ toServer \in Seq(Grid) /\ toServer \in Seq(Nat)
        /\ client_nextSeq_no \in Nat /\ ACK_TIMEOUT \in BOOLEAN
    BY Typed DEF OnGrid, TypeOK
  <2>2. CASE InWindow(seq_no)
    <3>1. toServer' = Append(toServer, seq_no) /\ pc' = "await" /\ seq_no \in Grid
      BY <1>2, <2>2 DEF Resend
    <3> QED BY <1>2, <2>1, <3>1, QueueProperties
  <2>3. CASE ~InWindow(seq_no)
    <3>1. toServer' = toServer
      BY <2>3 DEF Resend
    <3>2. pc' = IF seq_no < client_nextSeq_no /\ ~ACK_TIMEOUT THEN "resend" ELSE "resent"
      BY <2>3 DEF Resend, RetransmissionLoop
    <3> QED BY <1>2, <2>1, <3>1, <3>2
  <2> QED BY <2>2, <2>3
<1>5. TypeOK'
  <2>1. timer' \in Seq({"off", "asleep", "firing"}) /\ Len(timer') = windowSize
    BY <1>3, Typed, TimersTyped
  <2>2. staleIds' \subseteq Nat
    BY <1>2, Typed DEF Resend, TypeOK
  <2> QED BY <1>4, <2>1, <2>2, Typed DEF Resend, TypeOK, windowSize, flags, marks, acks
<1>6. OnGrid'
  BY <1>4, Typed DEF Resend, OnGrid, acks, server
<1>7. WindowShape'
  BY Typed DEF Resend, WindowShape, windowSize, flags, marks, acks, server
<1>8. AcksInOrder'
  BY Typed DEF Resend, AcksInOrder, flags, marks, acks, server
<1>9. MarksAcked'
  BY Typed DEF Resend, MarksAcked, Acked, Window, windowSize, AckNoOf, SeqNoOf, flags, marks, acks, server
<1>10. StartsAcked'
  BY <1>4, Typed DEF Resend, StartsAcked, server
<1>11. RetransmissionInv'
  BY <1>4, Typed DEF Resend, RetransmissionInv, flags, acks
<1>12. WindowLimits'
  BY Typed DEF Resend, WindowLimits, windowSize, flags, marks, acks, server
<1> QED BY <1>1, <1>5, <1>6, <1>7, <1>8, <1>9, <1>10, <1>11, <1>12 DEF TransferInv

LEMMA MarkAckReceivedStep == ASSUME TransferInv, MarkAckReceived PROVE TransferInv'
<1>1. Receiver!RInv'
  <2>1. UNCHANGED server
    BY DEF MarkAckReceived
  <2> QED BY <2>1, Typed, ReceiverUnchanged
<1> DEFINE n == Least(Covered)
<1>2. n \in Window /\ ~isPacketReceived[n] /\ AckNoOf(n) <= receivedAckNumber
  <2>1. Covered \subseteq Nat /\ Covered # {}
    BY Typed DEF MarkAckReceived, Covered, Unacked, Window
  <2>2. n \in Covered
    BY <2>1, LeastProperties
  <2> QED BY <2>2 DEF Covered, Unacked
<1>4. /\ isPacketReceived' = [isPacketReceived EXCEPT ![n] = TRUE]
      /\ ack_counter' = ack_counter + 1 /\ receiver' = "cancel"
      /\ UNCHANGED <<main, flags, prev_ack, dup_ack, receivedAckNumber, staleIds, timer,
                     server, network>>
  BY DEF MarkAckReceived
<1> HIDE DEF n
<1>6. isPacketReceived' \in Seq(BOOLEAN) /\ windowSize' = windowSize /\ Window' = Window
  <2>1. isPacketReceived' \in [1 .. windowSize -> BOOLEAN]
    BY <1>2, <1>4, Typed DEF Window
  <2>2. isPacketReceived' \in Seq(BOOLEAN) /\ Len(isPacketReceived') = windowSize
    BY <2>1, Typed, TableIsSeq
  <2> QED BY <2>2 DEF windowSize, Window
<1>7. Acked' = Acked \cup {n} /\ n \notin Acked
  BY <1>2, <1>4, <1>6, Typed DEF Acked
<1>8. ack_counter' = Cardinality(Acked') /\ ack_counter' \in 0 .. windowSize
  <2>1. IsFiniteSet(Acked) /\ ack_counter = Cardinality(Acked)
    BY Typed, AckedFinite DEF MarksAcked
  <2>2. Cardinality(Acked') = Cardinality(Acked) + 1
    BY <1>7, <2>1, FS_AddElement
  <2>3. Acked' \subseteq Window /\ IsFiniteSet(Window) /\ Cardinality(Window) = windowSize
    <3>1. Acked' \subseteq Window
      BY <1>6 DEF Acked
    <3>2. IsFiniteSet(1 .. windowSize) /\ Cardinality(1 .. windowSize) = windowSize
      BY Typed, FS_Interval
    <3> QED BY <3>1, <3>2 DEF Window
  <2>4. Cardinality(Acked') <= windowSize /\ Cardinality(Acked) \in Nat
    BY <2>1, <2>3, FS_Subset, FS_CardinalityType
  <2> QED BY <1>4, <2>1, <2>2, <2>4, Typed
<1>9. TypeOK'
  BY <1>4, <1>6, <1>8, Typed DEF TypeOK, main, flags, network
<1>10. OnGrid'
  BY <1>4, Typed DEF OnGrid, main, server, network
<1>11. WindowShape'
  BY <1>4, <1>6, Typed DEF WindowShape, main
<1>12. AcksInOrder'
  BY <1>4, Typed DEF AcksInOrder, server, network
<1>13. MarksAcked'
  <2>1. \A j \in Acked' : AckNoOf(j)' <= receivedAckNumber'
    BY <1>2, <1>4, <1>7, Typed DEF MarksAcked, AckNoOf, SeqNoOf, main
  <2> QED BY <1>8, <2>1 DEF MarksAcked
<1>14. StartsAcked'
  BY <1>4, Typed DEF StartsAcked, main, server
<1>15. RetransmissionInv'
  BY <1>4, Typed DEF RetransmissionInv, main, flags
<1>16. WindowLimits'
  BY <1>4, <1>6, Typed DEF WindowLimits, main
<1> QED BY <1>1, <1>9, <1>10, <1>11, <1>12, <1>13, <1>14, <1>15, <1>16 DEF TransferInv

LEMMA CancelMarkedTimerStep == ASSUME TransferInv, CancelMarkedTimer PROVE TransferInv'
<1>1. /\ CancelTimer(SeqNoOf(ack_counter)) /\ receiver' = "mark"
      /\ UNCHANGED <<main, flags, marks, prev_ack, dup_ack, receivedAckNumber, staleIds,
                     server, network>>
  BY DEF CancelMarkedTimer
<1>2. Receiver!RInv'
  BY <1>1, Typed, ReceiverUnchanged
<1>3. timer' \in Seq({"off", "asleep", "firing"}) /\ Len(timer') = windowSize
  BY <1>1, Typed, CancelTyped, TimersTyped
<1>4. TypeOK'
  BY <1>1, <1>3, Typed DEF TypeOK, windowSize, main, flags, marks, network
<1> QED BY <1>1, <1>2, <1>4, Typed DEF TransferInv, OnGrid, WindowShape, AcksInOrder,
     MarksAcked, Acked, StartsAcked, RetransmissionInv, WindowLimits, windowSize, Window,
     AckNoOf, SeqNoOf, main, flags, marks, server, network

LEMMA LoseStep ==
  ASSUME TransferInv, Lose, UNCHANGED <<main, flags, marks, acks, staleIds, timer, server>>
  PROVE  TransferInv'
<1>1. Receiver!RInv'
  <2>1. UNCHANGED server
    OBVIOUS
  <2> QED BY <2>1, Typed, ReceiverUnchanged
<1>2. /\ \/ toServer # <<>> /\ toServer' = Tail(toServer) /\ toClient' = toClient
         \/ toClient # <<>> /\ toClient' = Tail(toClient) /\ toServer' = toServer
      /\ losses' \in 0 .. MaxLosses
      /\ UNCHANGED <<main, flags, marks, acks, staleIds, timer, server>>
  <2>1. losses' \in 0 .. MaxLosses
    <3>1. losses < MaxLosses /\ losses' = losses + 1
      BY DEF Lose
    <3>2. losses \in 0 .. MaxLosses /\ MaxLosses \in Nat
      BY Typed, ConnectionAssumption DEF TypeOK
    <3> QED BY <3>1, <3>2
  <2> QED BY <2>1 DEF Lose
<1>3. /\ toServer' \in Seq(Grid) /\ toClient' \in Seq(Grid)
      /\ toServer' \in Seq(Nat) /\ toClient' \in Seq(Nat)
  <2>1. toServer \in Seq(Grid) /\ toClient \in Seq(Grid) /\ toServer \in Seq(Nat) /\ toClient \in Seq(Nat)
    BY Typed DEF OnGrid, TypeOK
  <2>2. toServer # <<>> => Tail(toServer) \in Seq(Grid) /\ Tail(toServer) \in Seq(Nat)
    BY <2>1, QueueProperties
  <2>3. toClient # <<>> => Tail(toClient) \in Seq(Grid) /\ Tail(toClient) \in Seq(Nat)
    BY <2>1, QueueProperties
  <2> QED BY <1>2, <2>1, <2>2, <2>3
<1>4. TypeOK'
  BY <1>2, <1>3, Typed DEF TypeOK, windowSize, main, flags, marks, acks
<1>5. OnGrid'
  BY <1>2, <1>3, Typed DEF OnGrid, main, acks, server
<1>6. WindowShape'
  BY Typed DEF Lose, WindowShape, windowSize, main, flags, marks, acks, server
<1>7. AcksInOrder'
  <2>1. CASE toClient' = toClient
    BY <1>2, <2>1, Typed DEF AcksInOrder, acks, server
  <2>2. CASE toClient # <<>> /\ toClient' = Tail(toClient)
    <3>1. toClient \in Seq(Grid)
      BY Typed DEF OnGrid
    <3>2. /\ Len(toClient) \in Nat \ {0} /\ Len(toClient') = Len(toClient) - 1
          /\ \A i \in 1 .. Len(toClient) - 1 : toClient'[i] = toClient[i + 1]
      BY <2>2, <3>1, QueueProperties
    <3>3. receivedAckNumber' = receivedAckNumber /\ serverAck' = serverAck
      BY <1>2 DEF acks, server
    <3>4. ASSUME NEW i \in 1 .. Len(toClient')
          PROVE  /\ receivedAckNumber <= toClient'[i] /\ toClient'[i] <= serverAck
                 /\ \A j \in 1 .. i : toClient'[j] <= toClient'[i]
      <4>1. i + 1 \in 1 .. Len(toClient) /\ toClient'[i] = toClient[i + 1]
        BY <3>2
      <4>2. ASSUME NEW j \in 1 .. i PROVE toClient'[j] = toClient[j + 1] /\ j + 1 \in 1 .. i + 1
        BY <3>2
      <4> QED BY <4>1, <4>2, Typed DEF AcksInOrder
    <3> QED BY <3>3, <3>4, Typed DEF AcksInOrder
  <2> QED BY <1>2, <2>1, <2>2
<1>8. MarksAcked'
  BY Typed DEF Lose, MarksAcked, Acked, Window, windowSize, AckNoOf, SeqNoOf, main, flags, marks, acks, server
<1>9. StartsAcked'
  BY Typed DEF Lose, StartsAcked, main, flags, marks, acks, server
<1>10. RetransmissionInv'
  BY Typed DEF Lose, RetransmissionInv, NoAck, RetransmissionLoop, main, flags, marks, acks, server
<1>11. WindowLimits'
  BY Typed DEF Lose, WindowLimits, windowSize, main, flags, marks, acks, server
<1> QED BY <1>1, <1>4, <1>5, <1>6, <1>7, <1>8, <1>9, <1>10, <1>11 DEF TransferInv

LEMMA ServerReceivesStep == ASSUME TransferInv, ServerReceives PROVE TransferInv'
<1> DEFINE seq == Head(toServer)
<1>1. /\ toServer # <<>> /\ toServer \in Seq(Grid) /\ toServer \in Seq(Nat)
      /\ toClient \in Seq(Grid) /\ toClient \in Seq(Nat)
  BY Typed DEF ServerReceives, OnGrid, TypeOK
<1>2. seq \in Grid /\ seq \in Nat /\ Tail(toServer) \in Seq(Grid) /\ Tail(toServer) \in Seq(Nat)
  BY <1>1, QueueProperties
<1>3. /\ Server!Receive(seq) /\ toServer' = Tail(toServer) /\ toClient' = Append(toClient, serverAck')
      /\ UNCHANGED <<main, flags, marks, acks, staleIds, timer, losses>>
  BY DEF ServerReceives
<1>4. /\ Receiver!RInv' /\ serverAck <= serverAck' /\ serverAck \in Nat
      /\ arrived' = arrived \cup {seq}
  BY <1>2, <1>3, Typed, ReceiverStep
<1>5. serverAck' \in Grid /\ serverAck' \in Nat
  <2>1. Receiver!RInv' => (serverAck \in Grid /\ serverAck \in Nat)'
    BY ReceiverState, PTL
  <2> QED BY <1>4, <2>1, GridProperties
<1> HIDE DEF seq
<1>6. /\ toClient' \in Seq(Grid) /\ toClient' \in Seq(Nat) /\ Len(toClient') = Len(toClient) + 1
      /\ \A i \in 1 .. Len(toClient) : toClient'[i] = toClient[i] /\ toClient[i] \in Nat
      /\ toClient'[Len(toClient) + 1] = serverAck' /\ Len(toClient) \in Nat
  BY <1>1, <1>3, <1>5, QueueProperties
<1>7. TypeOK'
  BY <1>2, <1>3, <1>6, Typed DEF TypeOK, windowSize, main, flags, marks, acks
<1>8. OnGrid'
  BY <1>2, <1>3, <1>4, <1>6, Typed DEF OnGrid, main, acks
<1>9. WindowShape'
  BY <1>3, Typed DEF WindowShape, windowSize, main, marks
<1>10. AcksInOrder'
  <2>1. receivedAckNumber' = receivedAckNumber /\ receivedAckNumber \in Nat
    BY <1>3, Typed DEF acks, TypeOK
  <2>2. ASSUME NEW i \in 1 .. Len(toClient')
        PROVE  /\ receivedAckNumber <= toClient'[i] /\ toClient'[i] <= serverAck'
               /\ \A j \in 1 .. i : toClient'[j] <= toClient'[i]
    <3>1. \A j \in 1 .. Len(toClient) : receivedAckNumber <= toClient[j] /\ toClient[j] <= serverAck
      BY Typed DEF AcksInOrder
    <3>2. \A j \in 1 .. Len(toClient) : \A k \in 1 .. j : toClient[k] <= toClient[j]
      BY Typed DEF AcksInOrder
    <3>3. receivedAckNumber <= serverAck
      BY Typed DEF AcksInOrder
    <3>4. CASE i \in 1 .. Len(toClient)
      <4>1. \A j \in 1 .. i : j \in 1 .. Len(toClient)
        BY <1>6, <3>4
      <4>2. toClient'[i] \in Nat /\ toClient'[i] <= serverAck
        BY <1>6, <3>1, <3>4
      <4> QED BY <1>4, <1>5, <1>6, <3>1, <3>2, <3>4, <4>1, <4>2
    <3>5. CASE i = Len(toClient) + 1
      <4>1. \A j \in 1 .. i : j \in 1 .. Len(toClient) \/ j = i
        BY <1>6, <3>5
      <4>2. toClient'[i] = serverAck' /\ receivedAckNumber <= serverAck'
        BY <1>4, <1>5, <1>6, <2>1, <3>3, <3>5
      <4>3. ASSUME NEW j \in 1 .. Len(toClient) PROVE toClient'[j] <= serverAck'
        BY <1>4, <1>5, <1>6, <3>1
      <4> QED BY <1>5, <4>1, <4>2, <4>3
    <3> QED BY <1>6, <3>4, <3>5
  <2>3. receivedAckNumber' <= serverAck'
    BY <1>4, <1>5, <2>1, Typed DEF AcksInOrder
  <2> QED BY <2>1, <2>2, <2>3 DEF AcksInOrder
<1>11. MarksAcked'
  <2>1. receivedAckNumber' = receivedAckNumber /\ receivedAckNumber \in Nat
    BY <1>3, Typed DEF acks, TypeOK
  <2> QED BY <1>3, <2>1, SameMarks DEF main, marks
<1>12. StartsAcked'
  <2>1. /\ initial_window_seq_no \in Nat /\ client_nextSeq_no \in Nat
        /\ UNCHANGED <<initial_window_seq_no, client_nextSeq_no, pc>>
    BY <1>3, Typed DEF TypeOK, main
  <2> QED BY <1>4, <1>5, <2>1, Typed DEF StartsAcked
<1>13. RetransmissionInv'
  BY <1>3, Typed DEF RetransmissionInv, main, flags, acks
<1>14. WindowLimits'
  BY <1>3, Typed DEF WindowLimits, windowSize, main, marks
<1> QED BY <1>4, <1>7, <1>8, <1>9, <1>10, <1>11, <1>12, <1>13, <1>14 DEF TransferInv

-----------------------------------------------------------------------------
(***************************************************************************)
(* A new window.                                                           *)
(***************************************************************************)

LEMMA SegmentsIn ==
  ASSUME NEW c \in Nat, NEW g \in Nat \ {0}
  PROVE  /\ c \div g \in Nat /\ (c \div g) * g <= c
         /\ g <= c => c \div g \in Nat \ {0}
<1>1. c \div g \in Int /\ c % g \in 0 .. g - 1 /\ c = g * (c \div g) + (c % g)
  OBVIOUS
<1>2. ASSUME c \div g < 0 PROVE FALSE
  <2>1. c \div g <= -1 /\ g * (c \div g) <= -g
    BY <1>1, <1>2
  <2> DEFINE q == g * (c \div g)
  <2>2. q <= -g /\ q \in Int /\ c = q + (c % g)
    BY <1>1, <2>1
  <2> HIDE DEF q
  <2> QED BY <1>1, <2>2
<1>3. (c \div g) * g = g * (c \div g)
  BY <1>1
<1>4. ASSUME g <= c, c \div g = 0 PROVE FALSE
  BY <1>1, <1>4
<1> QED BY <1>1, <1>2, <1>3, <1>4

LEMMA SendWindowStep == ASSUME TransferInv, SendWindow PROVE TransferInv'
<1> DEFINE size == cwnd \div max_seg_size
           sends == [i \in 1 .. size |-> client_nextSeq_no + (i - 1) * max_seg_size]
<1>1. /\ cwnd \in Nat /\ client_nextSeq_no \in Nat /\ client_nextSeq_no \in Grid
      /\ max_seg_size <= cwnd /\ cwnd <= AWS /\ client_nextSeq_no <= serverAck
      /\ max_seg_size \in Nat \ {0} /\ AWS \in Nat
      /\ toServer \in Seq(Grid) /\ toServer \in Seq(Nat)
  BY Typed DEF SendWindow, TypeOK, OnGrid, WindowLimits, StartsAcked
<1>2. size \in Nat \ {0} /\ size * max_seg_size <= cwnd /\ size * max_seg_size \in Nat
  BY <1>1, SegmentsIn
<1>3. /\ pc = "top" /\ pc' = "wait" /\ FAST_RETRANSMIT_MODE' = FALSE /\ ACK_TIMEOUT' = FALSE
      /\ ack_counter' = 0 /\ initial_window_seq_no' = client_nextSeq_no
      /\ isPacketReceived' = [i \in 1 .. size |-> FALSE]
      /\ timer' = [i \in 1 .. size |-> "asleep"]
      /\ client_nextSeq_no' = client_nextSeq_no + size * max_seg_size
      /\ toServer' = toServer \o sends
      /\ receiver' = "recv" /\ prev_ack' = NoAck /\ dup_ack' = 0
      /\ UNCHANGED <<cwnd, SSTHRESH, seq_no, sequence_no_to_be_retransmitted,
                     receivedAckNumber, staleIds, server, toClient, losses>>
  BY DEF SendWindow
<1>4. Receiver!RInv'
  BY <1>3, Typed, ReceiverUnchanged
<1>5. sends \in Seq(Grid) /\ sends \in Seq(Nat)
  <2>1. ASSUME NEW i \in 1 .. size PROVE client_nextSeq_no + (i - 1) * max_seg_size \in Grid
    <3>1. i - 1 \in Nat
      BY <1>2
    <3> QED BY <1>1, <3>1, GridProperties
  <2>2. sends \in [1 .. size -> Grid] /\ sends \in [1 .. size -> Nat]
    BY <2>1, GridProperties
  <2> HIDE DEF sends, size
  <2> QED BY <1>2, <2>2, TableIsSeq
<1>6. isPacketReceived' \in Seq(BOOLEAN) /\ Len(isPacketReceived') = size
  <2>1. [i \in 1 .. size |-> FALSE] \in [1 .. size -> BOOLEAN]
    OBVIOUS
  <2> HIDE DEF size
  <2> QED BY <1>2, <1>3, <2>1, TableIsSeq
<1>7. timer' \in Seq({"off", "asleep", "firing"}) /\ Len(timer') = size
  <2>1. [i \in 1 .. size |-> "asleep"] \in [1 .. size -> {"off", "asleep", "firing"}]
    OBVIOUS
  <2> HIDE DEF size
  <2> QED BY <1>2, <1>3, <2>1, TableIsSeq
<1> HIDE DEF size, sends
<1>8. toServer' \in Seq(Grid) /\ toServer' \in Seq(Nat)
  BY <1>1, <1>3, <1>5, ConcatProperties
<1>9. windowSize' = size /\ Window' = 1 .. size /\ Acked' = {}
  BY <1>3, <1>6 DEF windowSize, Window, Acked
<1>10. client_nextSeq_no' \in Grid /\ client_nextSeq_no' \in Nat
  BY <1>1, <1>2, <1>3, GridProperties
<1>11. TypeOK'
  <2>1. /\ cwnd' \in Nat \ {0} /\ SSTHRESH' \in Nat \ {0} /\ seq_no' \in Nat
        /\ receivedAckNumber' \in Nat /\ staleIds' \subseteq Nat
        /\ sequence_no_to_be_retransmitted' \in Nat \cup {NoAck}
        /\ toClient' \in Seq(Nat) /\ losses' \in 0 .. MaxLosses
    BY <1>3, Typed DEF TypeOK
  <2>2. ack_counter' \in 0 .. windowSize'
    BY <1>2, <1>3, <1>9
  <2> QED BY <1>1, <1>3, <1>6, <1>7, <1>8, <1>9, <1>10, <2>1, <2>2 DEF TypeOK
<1>12. OnGrid'
  BY <1>1, <1>3, <1>8, <1>10, Typed DEF OnGrid, server
<1>13. WindowShape'
  BY <1>1, <1>2, <1>3, <1>9 DEF WindowShape
<1>14. AcksInOrder'
  BY <1>3, Typed DEF AcksInOrder, server
<1>15. MarksAcked'
  BY <1>3, <1>9, FS_EmptySet DEF MarksAcked
<1>16. StartsAcked'
  BY <1>1, <1>3 DEF StartsAcked, server
<1>17. RetransmissionInv'
  BY <1>3 DEF RetransmissionInv
<1>18. WindowLimits'
  <2>1. size * max_seg_size <= AWS
    BY <1>1, <1>2
  <2> QED BY <1>3, <1>9, <2>1, Typed DEF WindowLimits
<1> QED BY <1>4, <1>11, <1>12, <1>13, <1>14, <1>15, <1>16, <1>17, <1>18 DEF TransferInv

-----------------------------------------------------------------------------
(***************************************************************************)
(* The end of an iteration.                                                *)
(***************************************************************************)

LEMMA EndOfIteration ==
  ASSUME TransferInv, EndIteration,
         cwnd' \in Nat, max_seg_size <= cwnd', cwnd' <= AWS,
         SSTHRESH' \in Nat \ {0}, SSTHRESH' <= AWS,
         client_nextSeq_no' \in Grid, initial_window_seq_no <= client_nextSeq_no',
         client_nextSeq_no' <= serverAck
  PROVE  TransferInv'
<1>1. /\ pc' = "prompt" /\ timer' = [i \in Window |-> "off"] /\ receiver' = "off"
      /\ staleIds' = staleIds \cup {SeqNoOf(i) : i \in Window}
      /\ UNCHANGED <<initial_window_seq_no, seq_no, flags, marks, prev_ack, dup_ack,
                     receivedAckNumber, server, network>>
  BY DEF EndIteration
<1>2. Receiver!RInv'
  BY <1>1, Typed, ReceiverUnchanged
<1>3. timer' \in Seq({"off", "asleep", "firing"}) /\ Len(timer') = windowSize
  BY <1>1, Typed, TimersTyped
<1>4. staleIds' \subseteq Nat
  BY <1>1, Typed, WindowNumbers DEF TypeOK
<1>5. windowSize' = windowSize /\ client_nextSeq_no' \in Nat /\ cwnd' \in Nat \ {0}
  BY <1>1, Typed DEF windowSize, marks
<1>6. TypeOK'
  <2>1. /\ initial_window_seq_no' \in Nat /\ seq_no' \in Nat /\ receivedAckNumber' \in Nat
        /\ isPacketReceived' \in Seq(BOOLEAN) /\ ack_counter' \in 0 .. windowSize'
        /\ FAST_RETRANSMIT_MODE' \in BOOLEAN /\ ACK_TIMEOUT' \in BOOLEAN
        /\ sequence_no_to_be_retransmitted' \in Nat \cup {NoAck}
        /\ prev_ack' \in Nat \cup {NoAck} /\ dup_ack' \in Nat
        /\ toServer' \in Seq(Nat) /\ toClient' \in Seq(Nat) /\ losses' \in 0 .. MaxLosses
    BY <1>1, <1>5, Typed DEF TypeOK, flags, marks, network
  <2> QED BY <1>1, <1>3, <1>4, <1>5, <2>1 DEF TypeOK
<1>7. OnGrid'
  BY <1>1, Typed DEF OnGrid, server, network
<1>8. WindowShape'
  BY <1>1 DEF WindowShape
<1>9. AcksInOrder'
  BY <1>1, Typed DEF AcksInOrder, server, network
<1>10. MarksAcked'
  <2>1. receivedAckNumber' = receivedAckNumber /\ receivedAckNumber \in Nat
    BY <1>1, Typed DEF TypeOK
  <2> QED BY <1>1, <2>1, SameMarks DEF marks
<1>11. StartsAcked'
  BY <1>1, Typed DEF StartsAcked, server
<1>12. RetransmissionInv'
  BY <1>1, Typed DEF RetransmissionInv, flags
<1>13. WindowLimits'
  BY <1>5, Typed DEF WindowLimits
<1> QED BY <1>2, <1>6, <1>7, <1>8, <1>9, <1>10, <1>11, <1>12, <1>13 DEF TransferInv

\* A segment is acknowledged: the last ACK read, and so the server, is past it.
LEMMA MarkedPassed ==
  ASSUME TransferInv, NEW i \in Acked
  PROVE  AckNoOf(i) <= receivedAckNumber /\ AckNoOf(i) <= serverAck
<1>1. AckNoOf(i) \in Nat /\ receivedAckNumber \in Nat /\ serverAck \in Nat
  BY Typed, WindowNumbers DEF Acked, TypeOK
<1>2. AckNoOf(i) <= receivedAckNumber /\ receivedAckNumber <= serverAck
  BY Typed DEF MarksAcked, AcksInOrder
<1> QED BY <1>1, <1>2

\* The whole window is acknowledged.
LEMMA AllMarked ==
  ASSUME TransferInv, pc \notin {"top", "prompt", "stopped"}, Acked = Window
  PROVE  /\ client_nextSeq_no <= receivedAckNumber /\ client_nextSeq_no <= serverAck
         /\ initial_window_seq_no < client_nextSeq_no
<1>1. windowSize \in Nat \ {0} /\ client_nextSeq_no = initial_window_seq_no + windowSize * max_seg_size
  BY Typed DEF WindowShape
<1>2. windowSize \in Window
  BY <1>1 DEF Window
<1>3. AckNoOf(windowSize) = client_nextSeq_no /\ initial_window_seq_no < AckNoOf(windowSize)
  BY <1>1, <1>2, Typed, WindowNumbers
<1> QED BY <1>2, <1>3, MarkedPassed

\* getNextTobeSentPacket never passes a segment that the server has not acknowledged.
LEMMA NextToBeSent ==
  ASSUME TransferInv, pc \notin {"top", "prompt", "stopped"}
  PROVE  /\ getNextTobeSentPacket \in Grid
         /\ initial_window_seq_no <= getNextTobeSentPacket
         /\ getNextTobeSentPacket <= serverAck
<1>1. CASE Unacked = {}
  <2>1. Acked = Window
    BY <1>1 DEF Unacked, Acked
  <2>2. client_nextSeq_no \in Grid /\ initial_window_seq_no <= client_nextSeq_no
    BY Typed DEF OnGrid, WindowShape
  <2> QED BY <1>1, <2>1, <2>2, AllMarked DEF getNextTobeSentPacket
<1>2. CASE Unacked # {}
  <2> DEFINE n == Least(Unacked)
  <2>1. n \in Unacked /\ \A i \in Unacked : n <= i
    <3>1. Unacked \subseteq Nat
      BY Typed DEF Unacked, Window
    <3> QED BY <1>2, <3>1, LeastProperties
  <2>2. getNextTobeSentPacket = SeqNoOf(n)
    BY <1>2 DEF getNextTobeSentPacket
  <2> HIDE DEF n
  <2>3. n \in Window /\ n \in 1 .. windowSize
    BY <2>1 DEF Unacked, Window
  <2>4. SeqNoOf(n) \in Grid /\ initial_window_seq_no <= SeqNoOf(n)
    BY <2>3, Typed, WindowNumbers
  <2>5. CASE n = 1
    <3>1. SeqNoOf(n) = initial_window_seq_no /\ initial_window_seq_no <= serverAck
      <4>1. initial_window_seq_no \in Nat /\ (1 - 1) * max_seg_size = 0
        BY Typed DEF TypeOK
      <4> QED BY <2>5, <4>1, Typed DEF SeqNoOf, StartsAcked
    <3> QED BY <2>2, <2>4, <3>1
  <2>6. CASE n # 1
    <3>1. n - 1 \in Window /\ ~(n <= n - 1) /\ (n - 1) + 1 = n
      BY <2>3, <2>6, Typed DEF Window
    <3>2. n - 1 \in Acked
      BY <2>1, <3>1 DEF Unacked, Acked
    <3>3. AckNoOf(n - 1) = SeqNoOf(n)
      BY <3>1, Typed, WindowNumbers
    <3>4. AckNoOf(n - 1) <= serverAck
      BY <3>2, MarkedPassed
    <3> QED BY <2>2, <2>4, <3>3, <3>4
  <2> QED BY <2>5, <2>6
<1> QED BY <1>1, <1>2

LEMMA NewThreshold ==
  ASSUME TransferInv
  PROVE  /\ getNewSSthresh \in Nat \ {0}
         /\ max_seg_size <= getNewSSthresh /\ getNewSSthresh <= AWS
<1>1. /\ cwnd \in Nat /\ cwnd <= AWS /\ max_seg_size \in Nat \ {0} /\ AWS \in Nat
      /\ 2 * max_seg_size <= AWS
  BY Typed DEF TypeOK, WindowLimits
<1>2. cwnd \div 2 \in Nat /\ cwnd \div 2 <= cwnd
  BY <1>1
<1> QED BY <1>1, <1>2 DEF getNewSSthresh, maximum

LEMMA WindowAckedStep == ASSUME TransferInv, WindowAcked PROVE TransferInv'
<1> DEFINE grown == IF cwnd < SSTHRESH
                    THEN minimum(cwnd + ack_counter * max_seg_size, SSTHRESH)
                    ELSE cwnd + max_seg_size
<1>1. /\ pc = "branch" /\ ack_counter = windowSize /\ cwnd' = minimum(grown, AWS)
      /\ client_nextSeq_no' = receivedAckNumber /\ SSTHRESH' = SSTHRESH /\ EndIteration
  BY DEF WindowAcked
<1>2. /\ cwnd \in Nat /\ max_seg_size <= cwnd /\ cwnd <= AWS
      /\ SSTHRESH \in Nat \ {0} /\ SSTHRESH <= AWS
      /\ receivedAckNumber \in Nat /\ receivedAckNumber \in Grid \cup {0}
      /\ client_nextSeq_no \in Nat /\ initial_window_seq_no \in Nat
      /\ receivedAckNumber <= serverAck
  BY Typed DEF TypeOK, WindowLimits, OnGrid, AcksInOrder
<1>3. Acked = Window
  BY <1>1, Typed, AckedFinite DEF MarksAcked
<1>4. client_nextSeq_no <= receivedAckNumber /\ initial_window_seq_no < client_nextSeq_no
  BY <1>1, <1>3, AllMarked
<1>5. receivedAckNumber \in Grid /\ initial_window_seq_no <= receivedAckNumber
  BY <1>2, <1>4
<1>6. cwnd' \in Nat /\ max_seg_size <= cwnd' /\ cwnd' <= AWS
  <2>1. ack_counter * max_seg_size \in Nat
    BY <1>1, Typed
  <2> DEFINE more == ack_counter * max_seg_size
  <2>2. grown = IF cwnd < SSTHRESH THEN minimum(cwnd + more, SSTHRESH) ELSE cwnd + max_seg_size
    OBVIOUS
  <2> HIDE DEF more, grown
  <2>3. more \in Nat
    BY <2>1 DEF more
  <2>4. grown \in Nat /\ max_seg_size <= grown
    BY <1>2, <2>2, <2>3, Typed DEF minimum
  <2> QED BY <1>1, <2>4, Typed DEF minimum
<1> QED BY <1>1, <1>2, <1>5, <1>6, EndOfIteration

LEMMA WindowTimedOutStep == ASSUME TransferInv, WindowTimedOut PROVE TransferInv'
<1>1. /\ pc = "branch" /\ client_nextSeq_no' = getNextTobeSentPacket
      /\ SSTHRESH' = getNewSSthresh /\ cwnd' = max_seg_size /\ EndIteration
  BY DEF WindowTimedOut
<1>2. max_seg_size \in Nat /\ max_seg_size <= AWS
  BY Typed
<1> QED BY <1>1, <1>2, NextToBeSent, NewThreshold, EndOfIteration

LEMMA EndRetransmissionStep == ASSUME TransferInv, EndRetransmission PROVE TransferInv'
<1>1. pc = "resent" /\ SSTHRESH' = getNewSSthresh /\ EndIteration
  BY DEF EndRetransmission
<1>2. max_seg_size \in Nat /\ max_seg_size <= AWS
  BY Typed
<1>3. CASE ACK_TIMEOUT
  <2>1. cwnd' = max_seg_size /\ client_nextSeq_no' = getNextTobeSentPacket
    BY <1>3 DEF EndRetransmission
  <2> QED BY <1>1, <1>2, <2>1, NextToBeSent, NewThreshold, EndOfIteration
<1>4. CASE ~ACK_TIMEOUT
  <2>1. cwnd' = getNewSSthresh /\ client_nextSeq_no' = client_nextSeq_no
    BY <1>1, <1>4 DEF EndRetransmission
  <2>2. client_nextSeq_no <= seq_no /\ seq_no <= receivedAckNumber /\ receivedAckNumber <= serverAck
    BY <1>1, <1>4, Typed DEF RetransmissionInv, AcksInOrder
  <2>3. /\ client_nextSeq_no \in Nat /\ seq_no \in Nat /\ receivedAckNumber \in Nat
        /\ client_nextSeq_no \in Grid /\ initial_window_seq_no <= client_nextSeq_no
    BY Typed DEF TypeOK, OnGrid, WindowShape
  <2>4. client_nextSeq_no <= serverAck
    BY <2>2, <2>3, Typed
  <2> QED BY <1>1, <2>1, <2>3, <2>4, NewThreshold, EndOfIteration
<1> QED BY <1>3, <1>4

-----------------------------------------------------------------------------
(***************************************************************************)
(* The results.                                                            *)
(***************************************************************************)

LEMMA TransferNext == TransferInv /\ [Next]_vars => TransferInv'
<1> SUFFICES ASSUME TransferInv, [Next]_vars PROVE TransferInv'
  OBVIOUS
<1>1. CASE Main
  BY <1>1, SendWindowStep, LeaveWaitStep, WindowAckedStep, WindowTimedOutStep,
     StartRetransmissionStep, ResendStep, CrashStep, LeaveAwaitStep, EndRetransmissionStep
     DEF Main
<1>2. CASE Answer
  BY <1>2, AnswerStep
<1>3. CASE ReceiveThread
  BY <1>3, ReceiveAckStep, MarkAckReceivedStep, CancelMarkedTimerStep, CountDuplicateStep
     DEF ReceiveThread
<1>4. CASE Timers
  BY <1>4, WakeUpStep, FireStep DEF Timers
<1>5. CASE ServerReceives
  BY <1>5, ServerReceivesStep
<1>6. CASE Lose /\ UNCHANGED <<main, flags, marks, acks, staleIds, timer, server>>
  BY <1>6, LoseStep
<1>7. CASE UNCHANGED vars
  BY <1>7, StutterStep
<1> QED BY <1>1, <1>2, <1>3, <1>4, <1>5, <1>6, <1>7 DEF Next

\* The inductive invariant: acknowledgements in order, marks only below the last one,
\* retransmissions along them, and a window whose limits hold.
THEOREM TransferInvariant == Spec => []TransferInv
<1>1. Init => TransferInv
  BY TransferInit
<1>2. TransferInv /\ [Next]_vars => TransferInv'
  BY TransferNext
<1> QED BY <1>1, <1>2, PTL DEF Spec

\* No window of initiateFlow starts beyond what the server has acknowledged, whether the
\* last one ended by its ACKs, a timeout or a fast retransmission.
THEOREM NoByteSkipped == Spec => []NothingSkipped
<1>1. TransferInv => NothingSkipped
  BY DEF TransferInv, StartsAcked, NothingSkipped
<1> QED BY <1>1, TransferInvariant, PTL

LEMMA SentFits ==
  ASSUME TransferInv, WithinAdvertisedWindow, [Next]_vars
  PROVE  WithinAdvertisedWindow'
<1> DEFINE room == serverAck + AWS
<1>1. /\ toServer \in Seq(Grid) /\ toServer \in Seq(Nat) /\ room \in Nat /\ AWS \in Nat
      /\ \A k \in 1 .. Len(toServer) : toServer[k] + max_seg_size <= room
      /\ Len(toServer) \in Nat /\ DOMAIN toServer = 1 .. Len(toServer)
      /\ max_seg_size \in Nat \ {0} /\ serverAck \in Nat
  <2>1. toServer \in Seq(Grid) /\ toServer \in Seq(Nat) /\ Len(toServer) \in Nat
        /\ DOMAIN toServer = 1 .. Len(toServer)
    BY Typed, LenProperties DEF OnGrid, TypeOK
  <2> QED BY <2>1, Typed DEF WithinAdvertisedWindow
<1>2. CASE UNCHANGED <<toServer, serverAck>>
  BY <1>2 DEF WithinAdvertisedWindow
<1>3. ASSUME toServer # <<>>, toServer' = Tail(toServer), serverAck' \in Nat, serverAck <= serverAck'
      PROVE  WithinAdvertisedWindow'
  <2>0. Tail(toServer) \in Seq(Nat) /\ Len(Tail(toServer)) = Len(toServer) - 1
    BY <1>1, <1>3, QueueProperties
  <2>1. DOMAIN toServer' = 1 .. Len(toServer) - 1
    BY <1>3, <2>0, LenProperties
  <2>2. ASSUME NEW k \in 1 .. Len(toServer) - 1
        PROVE  toServer'[k] + max_seg_size <= serverAck' + AWS
    <3>1. toServer'[k] = toServer[k + 1] /\ k + 1 \in 1 .. Len(toServer)
      BY <1>1, <1>3, QueueProperties
    <3>2. toServer[k + 1] + max_seg_size <= room /\ toServer[k + 1] \in Nat
      BY <1>1, <3>1, QueueProperties
    <3> QED BY <1>1, <1>3, <3>1, <3>2
  <2> QED BY <2>1, <2>2 DEF WithinAdvertisedWindow
<1>4. CASE SendWindow
  <2> DEFINE size == cwnd \div max_seg_size
             sends == [i \in 1 .. size |-> client_nextSeq_no + (i - 1) * max_seg_size]
  <2>1. /\ cwnd \in Nat /\ client_nextSeq_no \in Nat /\ max_seg_size <= cwnd /\ cwnd <= AWS
        /\ client_nextSeq_no <= serverAck
    BY <1>4, Typed DEF SendWindow, TypeOK, WindowLimits, StartsAcked
  <2>2. size \in Nat \ {0} /\ size * max_seg_size <= cwnd /\ size * max_seg_size \in Nat
    BY <1>1, <2>1, SegmentsIn
  <2>3. toServer' = toServer \o sends /\ serverAck' = serverAck
    BY <1>4 DEF SendWindow, server
  <2>4. ASSUME NEW i \in 1 .. size
        PROVE  /\ client_nextSeq_no + (i - 1) * max_seg_size \in Nat
               /\ client_nextSeq_no + (i - 1) * max_seg_size + max_seg_size <= room
    <3>1. (i - 1) * max_seg_size \in Nat /\ (size - i) * max_seg_size \in Nat
      BY <1>1, <2>2
    <3>2. size * max_seg_size = (i - 1) * max_seg_size + max_seg_size + (size - i) * max_seg_size
      BY <1>1, <2>2
    <3> HIDE DEF size
    <3>3. client_nextSeq_no + (i - 1) * max_seg_size \in Nat
      BY <2>1, <3>1
    <3> QED BY <1>1, <2>1, <2>2, <3>1, <3>2, <3>3
  <2>5. sends \in [1 .. size -> Nat]
    BY <2>4
  <2>6. sends \in Seq(Nat) /\ Len(sends) = size
    <3> HIDE DEF sends, size
    <3> QED BY <2>2, <2>5, TableIsSeq
  <2>7. \A i \in 1 .. size : sends[i] + max_seg_size <= room
    BY <2>4
  <2> HIDE DEF sends, size
  <2>8. /\ toServer' \in Seq(Nat) /\ Len(toServer') = Len(toServer) + size
        /\ \A k \in 1 .. Len(toServer) + size :
             toServer'[k] = IF k <= Len(toServer) THEN toServer[k] ELSE sends[k - Len(toServer)]
    BY <1>1, <2>3, <2>6, ConcatProperties
  <2>9. ASSUME NEW k \in 1 .. Len(toServer) + size
        PROVE  toServer'[k] + max_seg_size <= room
    <3>1. CASE k <= Len(toServer)
      BY <1>1, <2>8, <3>1
    <3>2. CASE ~(k <= Len(toServer))
      <4>1. k - Len(toServer) \in 1 .. size
        BY <1>1, <2>2, <3>2
      <4> QED BY <2>7, <2>8, <3>2, <4>1
    <3> QED BY <3>1, <3>2
  <2>10. DOMAIN toServer' = 1 .. Len(toServer) + size
    BY <2>8, LenProperties
  <2> QED BY <2>3, <2>9, <2>10 DEF WithinAdvertisedWindow
<1>5. CASE Resend
  <2>1. serverAck' = serverAck
    BY <1>5 DEF Resend, server
  <2>2. CASE ~InWindow(seq_no)
    BY <1>2, <1>5, <2>1, <2>2 DEF Resend
  <2>3. CASE InWindow(seq_no)
    <3>1. PICK i \in Window : SeqNoOf(i) = seq_no
      BY <2>3 DEF InWindow
    <3>2. /\ AckNoOf(i) = seq_no + max_seg_size
          /\ AckNoOf(i) <= initial_window_seq_no + windowSize * max_seg_size
      BY <3>1, Typed, WindowNumbers DEF AckNoOf
    <3>3. /\ initial_window_seq_no <= serverAck /\ windowSize * max_seg_size <= AWS
          /\ initial_window_seq_no \in Nat /\ seq_no \in Nat /\ windowSize * max_seg_size \in Nat
      <4>1. /\ initial_window_seq_no <= serverAck /\ windowSize * max_seg_size <= AWS
            /\ initial_window_seq_no \in Nat /\ seq_no \in Nat
        BY Typed DEF StartsAcked, WindowLimits, TypeOK
      <4>2. windowSize * max_seg_size \in Nat
        BY Typed
      <4> QED BY <4>1, <4>2
    <3>4. seq_no + max_seg_size <= room
      <4> DEFINE bytes == windowSize * max_seg_size
      <4>1. bytes <= AWS /\ bytes \in Nat /\ AckNoOf(i) <= initial_window_seq_no + bytes
        BY <3>2, <3>3
      <4> HIDE DEF bytes
      <4> QED BY <1>1, <3>2, <3>3, <4>1
    <3>5. toServer' = Append(toServer, seq_no)
      BY <1>5, <2>3 DEF Resend
    <3>6. /\ Len(toServer') = Len(toServer) + 1 /\ toServer'[Len(toServer) + 1] = seq_no
          /\ \A k \in 1 .. Len(toServer) : toServer'[k] = toServer[k]
          /\ toServer' \in Seq(Nat)
      BY <1>1, <3>3, <3>5, QueueProperties
    <3>7. DOMAIN toServer' = 1 .. Len(toServer) + 1
      BY <3>6, LenProperties
    <3>8. ASSUME NEW k \in 1 .. Len(toServer) + 1
          PROVE  toServer'[k] + max_seg_size <= room
      <4>1. k \in 1 .. Len(toServer) \/ k = Len(toServer) + 1
        BY <1>1
      <4> QED BY <1>1, <3>4, <3>6, <4>1
    <3> QED BY <2>1, <3>7, <3>8 DEF WithinAdvertisedWindow
  <2> QED BY <2>2, <2>3
<1>6. CASE ServerReceives
  <2>1. toServer # <<>> /\ toServer' = Tail(toServer) /\ Server!Receive(Head(toServer))
    BY <1>6 DEF ServerReceives
  <2>2. Head(toServer) \in Nat
    BY <1>1, <2>1, QueueProperties
  <2>3. serverAck' \in Nat /\ serverAck <= serverAck'
    BY <2>1, <2>2, Typed, ReceiverStep
  <2> QED BY <1>3, <2>1, <2>3
<1>7. CASE Lose /\ UNCHANGED <<main, flags, marks, acks, staleIds, timer, server>>
  <2>1. serverAck' = serverAck
    BY <1>7 DEF server
  <2>2. \/ toServer # <<>> /\ toServer' = Tail(toServer)
        \/ toServer' = toServer
    BY <1>7 DEF Lose
  <2> QED BY <1>1, <1>2, <1>3, <2>1, <2>2
<1>8. CASE \/ LeaveWait \/ WindowAcked \/ WindowTimedOut \/ StartRetransmission \/ Crash
           \/ LeaveAwait \/ EndRetransmission \/ Answer \/ ReceiveThread \/ Timers
  <2>1. CASE \/ LeaveWait \/ WindowAcked \/ WindowTimedOut \/ StartRetransmission \/ Crash
             \/ LeaveAwait \/ EndRetransmission \/ Answer
    BY <1>2, <2>1 DEF LeaveWait, WindowAcked, WindowTimedOut, StartRetransmission, Crash,
       LeaveAwait, EndRetransmission, Answer, EndIteration, network, server
  <2>2. CASE ReceiveThread \/ Timers
    BY <1>2, <2>2 DEF ReceiveThread, ReceiveAck, MarkAckReceived, CancelMarkedTimer,
       CountDuplicate, Timers, WakeUp, Fire, network, server
  <2> QED BY <1>8, <2>1, <2>2
<1>9. CASE UNCHANGED vars
  BY <1>2, <1>9 DEF vars, network, server
<1> QED BY <1>4, <1>5, <1>6, <1>7, <1>8, <1>9 DEF Next, Main

\* Every segment on its way to the server, new, late or sent again, ends within AWS bytes
\* of what the server has acknowledged.
THEOREM WindowFits == Spec => []WithinAdvertisedWindow
<1>1. Init => WithinAdvertisedWindow
  BY DEF Init, WithinAdvertisedWindow
<1>2. TransferInv /\ WithinAdvertisedWindow /\ [Next]_vars => WithinAdvertisedWindow'
  BY SentFits
<1> QED BY <1>1, <1>2, TransferInvariant, PTL DEF Spec

\* A later window of the client never starts before an earlier one.
THEOREM WindowOnlyMovesOn == Spec => WindowNeverMovesBack
<1>1. TransferInv /\ [Next]_vars => [initial_window_seq_no <= initial_window_seq_no']_vars
  <2> SUFFICES ASSUME TransferInv, Next PROVE initial_window_seq_no <= initial_window_seq_no'
    OBVIOUS
  <2>1. initial_window_seq_no \in Nat /\ initial_window_seq_no <= client_nextSeq_no
    BY Typed DEF TypeOK, WindowShape
  <2>2. CASE SendWindow
    BY <2>1, <2>2 DEF SendWindow
  <2>3. CASE ~SendWindow
    <3>1. initial_window_seq_no' = initial_window_seq_no
      BY <2>3 DEF Next, Main, LeaveWait, WindowAcked, WindowTimedOut, EndRetransmission,
         EndIteration, StartRetransmission, Resend, Crash, LeaveAwait, Answer, ReceiveThread,
         ReceiveAck, MarkAckReceived, CancelMarkedTimer, CountDuplicate, Timers, WakeUp, Fire, ServerReceives,
         Lose, main
    <3> QED BY <2>1, <3>1
  <2> QED BY <2>2, <2>3
<1> QED BY <1>1, TransferInvariant, PTL DEF Spec, WindowNeverMovesBack

\* markAckReceived marks a segment only if the server has it, also when an ACK of an
\* earlier window is read late.
THEOREM MarksHaveArrived == Spec => []MarkedArrived
<1>1. TransferInv => MarkedArrived
  <2> SUFFICES ASSUME TransferInv, NEW i \in Window, isPacketReceived[i]
               PROVE  SeqNoOf(i) \in arrived
    BY DEF MarkedArrived
  <2> DEFINE b == SeqNoOf(i)
  <2>1. b \in Grid /\ b \in Nat /\ AckNoOf(i) = b + max_seg_size /\ AckNoOf(i) <= serverAck
    <3>1. i \in Acked
      BY DEF Acked
    <3> QED BY <3>1, Typed, WindowNumbers, MarkedPassed DEF AckNoOf
  <2> HIDE DEF b
  <2>2. b \in First .. serverAck - 1
    BY <2>1, Typed, GridProperties
  <2>3. Receiver!AcksCoverArrivals
    BY Typed, Receiver!InvImpliesAcksCover, ReceiverConstants DEF Receiver!RInv
  <2>4. PICK s \in arrived : s <= b /\ b < s + max_seg_size
    BY <2>2, <2>3 DEF Receiver!AcksCoverArrivals, Receiver!ByteArrived
  <2>5. s \in Grid
    BY <2>4, Typed DEF OnGrid
  <2>6. s = b
    BY <2>1, <2>4, <2>5, GridProperties
  <2> QED BY <2>4, <2>6 DEF b
<1> QED BY <1>1, TransferInvariant, PTL

\* The server of a transfer behaves as the receiver that takes any segment: what is proved
\* of TcpReceiver holds in the composed system.
THEOREM TransferUsesReceiver == Spec => Server!Spec
<1>1. Init => Server!Init
  BY DEF Init
<1>2. TransferInv /\ [Next]_vars => [Server!Next]_(Server!vars)
  <2> SUFFICES ASSUME TransferInv, [Next]_vars PROVE [Server!Next]_(Server!vars)
    OBVIOUS
  <2>1. CASE ServerReceives
    <3>1. toServer \in Seq(Nat) /\ toServer # <<>> /\ Server!Receive(Head(toServer))
      BY <2>1, Typed DEF ServerReceives, TypeOK
    <3>2. Head(toServer) \in Nat
      BY <3>1, QueueProperties
    <3> QED BY <3>1, <3>2 DEF Server!Next
  <2>2. CASE ~ServerReceives
    <3>1. UNCHANGED server
      BY <2>2 DEF vars, Next, Main, SendWindow, LeaveWait, WindowAcked, WindowTimedOut,
         EndRetransmission, EndIteration, StartRetransmission, Resend, Crash, LeaveAwait, Answer,
         ReceiveThread, ReceiveAck, MarkAckReceived, CancelMarkedTimer, CountDuplicate, Timers, WakeUp, Fire, Lose
    <3> QED BY <3>1 DEF server, Server!vars
  <2> QED BY <2>1, <2>2
<1> QED BY <1>1, <1>2, TransferInvariant, PTL DEF Spec, Server!Spec

\* What the user has been told is sent: every byte of the stream before the next window.
StreamArrived ==
  pc \in {"prompt", "top"} =>
    \A b \in First .. client_nextSeq_no - 1 : \E s \in arrived : s <= b /\ b < s + max_seg_size

\* Between two windows every byte the client will not send again has reached the server,
\* whatever was lost, late or sent twice.
THEOREM NoByteLost == Spec => []StreamArrived
<1>1. TransferInv => StreamArrived
  <2> SUFFICES ASSUME TransferInv, pc \in {"prompt", "top"}, NEW b \in First .. client_nextSeq_no - 1
               PROVE  \E s \in arrived : s <= b /\ b < s + max_seg_size
    BY DEF StreamArrived
  <2>1. b \in First .. serverAck - 1
    <3>1. client_nextSeq_no <= serverAck /\ client_nextSeq_no \in Nat /\ serverAck \in Nat /\ First \in Nat
      BY Typed DEF StartsAcked, TypeOK
    <3> QED BY <3>1
  <2>2. Receiver!AcksCoverArrivals
    BY Typed, Receiver!InvImpliesAcksCover, ReceiverConstants DEF Receiver!RInv
  <2> QED BY <2>1, <2>2 DEF Receiver!AcksCoverArrivals, Receiver!ByteArrived
<1> QED BY <1>1, TransferInvariant, PTL

-----------------------------------------------------------------------------
(***************************************************************************)
(* The handshake.  The two sides number the stream alike, and the threads  *)
(* of earlier attempts do not read the transfer's acknowledgements: for    *)
(* any number of attempts, losses and data segments.                       *)
(***************************************************************************)
\* What may be under way: the client's packets carry 0 until it has taken an
\* answer, and 1 from then on; every SYN+ACK carries 1.
FirstSyn    == Packet("SYN", 0)
FromClient  == [kind : {"SYN", "ACK", "DATA"}, no : {0, 1}]
FromServer  == {Packet("SYNACK", 1), Packet("ACK", 0)}

HandshakeTypeOK ==
  /\ pc \in {"call", "send", "wait", "flow"}
  /\ attempt \in 0 .. Attempts
  /\ client_nextSeq_no \in {0, 1}
  /\ IS_SYN_ACK_RECEIVED \in BOOLEAN
  /\ CONNECTION_ESTABLISHED \in BOOLEAN
  /\ IS_SYN_ACK_TIMEOUT \in BOOLEAN
  /\ waiter \in [Numbers -> {"none", "recv", "got", "sending", "sent", "ended"}]
  /\ answer \in [Numbers -> {0, 1}]
  /\ cancelled \subseteq Numbers
  /\ synTimer \in [Numbers -> {"none", "asleep", "expired", "ended"}]
  /\ sent \in Nat
  /\ spc \in {"syn", "ack", "flow"}
  /\ client_initialSeq_no = 0
  /\ expected = (IF spc = "syn" THEN 0 ELSE 1)
  /\ toServer \in Seq(FromClient) /\ toClient \in Seq(FromServer)
  /\ losses \in Nat

\* Before the first SYN arrives the client can have taken no answer.
Unanswered ==
  /\ toServer \in Seq({FirstSyn}) /\ toClient = <<>>
  /\ client_nextSeq_no = 0
  /\ pc # "flow" /\ ~CONNECTION_ESTABLISHED
  /\ \A k \in Numbers : waiter[k] \notin {"got", "sending", "sent"}

\* A waiter that has an answer, the established connection and the transfer
\* all have the server's number.
Answered ==
  /\ \A k \in Numbers :
       /\ waiter[k] = "got" => answer[k] = 1
       /\ waiter[k] \in {"sending", "sent"} => client_nextSeq_no = 1
  /\ CONNECTION_ESTABLISHED \/ pc = "flow" => client_nextSeq_no = 1

NumbersInv == (spc = "syn" => Unanswered) /\ Answered

\* A thread that the last timer thread would cancel, or has cancelled.
Reading(k) == waiter[k] = "recv" /\ k \notin cancelled
Ticking(k) == synTimer[k] \in {"asleep", "expired"}

\* Only the last timer thread runs, and by the time it has reported a timeout it
\* has cancelled the last waiter: the main thread starts the next attempt then.
ThreadsInv ==
  /\ \A k \in Numbers :
       /\ Ticking(k) => k = attempt /\ pc \in {"wait", "flow"}
       /\ Reading(k) => k = attempt
  /\ IS_SYN_ACK_TIMEOUT \/ pc \in {"call", "send"} =>
       \A k \in Numbers : ~Ticking(k) /\ ~Reading(k)
  /\ pc = "send" => ~IS_SYN_ACK_TIMEOUT /\ attempt < Attempts

HInv == HandshakeTypeOK /\ NumbersInv /\ ThreadsInv

-----------------------------------------------------------------------------
\* Receiving from a queue, and sending on it.
LEMMA QueueTypes ==
  ASSUME NEW S, NEW q \in Seq(S)
  PROVE  /\ q # <<>> => Head(q) \in S /\ Tail(q) \in Seq(S)
         /\ \A e \in S : Append(q, e) \in Seq(S)
BY HeadTailProperties, AppendProperties

LEMMA Packets ==
  /\ \A kind \in {"SYN", "ACK", "DATA"}, n \in {0, 1} : Packet(kind, n) \in FromClient
  /\ FirstSyn \in FromClient /\ FirstSyn.kind = "SYN" /\ FirstSyn.no = 0
  /\ Packet("SYNACK", 1) \in FromServer /\ Packet("ACK", 0) \in FromServer
  /\ \A m \in FromServer : m.no \in {0, 1} /\ (m.kind = "SYNACK" => m.no = 1)
BY DEF Packet, FirstSyn, FromClient, FromServer

LEMMA HandshakeBegins == HandshakeInit => HInv
<1> SUFFICES ASSUME HandshakeInit PROVE HInv
  OBVIOUS
<1>1. HandshakeTypeOK
  <2>1. <<>> \in Seq(FromClient) /\ <<>> \in Seq(FromServer)
    BY EmptySeq
  <2>2. 0 \in 0 .. Attempts
    BY HandshakeAssumption
  <2> QED BY <2>1, <2>2 DEF HandshakeInit, HandshakeTypeOK
<1>2. NumbersInv
  <2>1. <<>> \in Seq({FirstSyn})
    BY EmptySeq
  <2> QED BY <2>1 DEF HandshakeInit, NumbersInv, Unanswered, Answered
<1>3. ThreadsInv
  BY DEF HandshakeInit, ThreadsInv, Reading, Ticking
<1> QED BY <1>1, <1>2, <1>3 DEF HInv

LEMMA HandshakeSteps == HInv /\ [HandshakeNext]_handshakeVars => HInv'
<1> SUFFICES ASSUME HInv, [HandshakeNext]_handshakeVars PROVE HInv'
  OBVIOUS
<1>0. /\ HandshakeTypeOK /\ NumbersInv /\ ThreadsInv
      /\ Attempts \in Nat \ {0} /\ Numbers = 1 .. Attempts
  BY HandshakeAssumption DEF HInv, Numbers
<1>1. CASE initialiseFlags
  BY <1>0, <1>1, QueueTypes, Packets DEF initialiseFlags, HInv, handshakeFlags, threads, serverVars, network,
     HandshakeTypeOK, NumbersInv, Unanswered, Answered, ThreadsInv, Reading, Ticking
<1>2. CASE SendSyn
  <2> DEFINE syn == Packet("SYN", client_nextSeq_no)
  <2>1. Append(toServer, syn) \in Seq(FromClient)
    BY <1>0, QueueTypes, Packets DEF HandshakeTypeOK
  <2>2. spc = "syn" => Append(toServer, syn) \in Seq({FirstSyn})
    BY <1>0, QueueTypes DEF NumbersInv, Unanswered, FirstSyn
  <2>3. attempt + 1 \in Numbers
    BY <1>0, <1>2 DEF SendSyn, HandshakeTypeOK, ThreadsInv
  <2>4. HandshakeTypeOK'
    BY <1>0, <1>2, <2>1, <2>3 DEF SendSyn, HandshakeTypeOK, handshakeFlags, serverVars
  <2>5. NumbersInv'
    BY <1>0, <1>2, <2>2, <2>3 DEF SendSyn, HandshakeTypeOK, NumbersInv, Unanswered, Answered, handshakeFlags, serverVars
  <2>6. ThreadsInv'
    BY <1>0, <1>2, <2>3 DEF SendSyn, HandshakeTypeOK, ThreadsInv, Reading, Ticking, handshakeFlags, serverVars
  <2> QED BY <2>4, <2>5, <2>6 DEF HInv
<1>3. CASE LeaveBusyWait
  BY <1>0, <1>3, QueueTypes, Packets DEF LeaveBusyWait, HInv, handshakeFlags, threads, serverVars, network,
     HandshakeTypeOK, NumbersInv, Unanswered, Answered, ThreadsInv, Reading, Ticking
<1>4. CASE SendData
  BY <1>0, <1>4, QueueTypes, Packets DEF SendData, HInv, handshakeFlags, threads, serverVars, network,
     HandshakeTypeOK, NumbersInv, Unanswered, Answered, ThreadsInv, Reading, Ticking
<1>5. ASSUME NEW k \in Numbers, ReceiveSynAck(k) PROVE HInv'
  <2> DEFINE m == Head(toClient)
  <2>1. m \in FromServer /\ Tail(toClient) \in Seq(FromServer)
    BY <1>0, <1>5, QueueTypes DEF ReceiveSynAck, HandshakeTypeOK
  <2>2. m.no \in {0, 1} /\ (m.kind = "SYNACK" => m.no = 1)
    BY <2>1, Packets
  <2>3. spc # "syn"
    BY <1>0, <1>5 DEF ReceiveSynAck, NumbersInv, Unanswered
  <2> HIDE DEF m
  <2>4. /\ toClient' = Tail(toClient)
        /\ \/ /\ m.kind = "SYNACK"
              /\ waiter' = [waiter EXCEPT ![k] = "got"] /\ answer' = [answer EXCEPT ![k] = m.no]
           \/ waiter' = waiter /\ answer' = answer
        /\ UNCHANGED <<pc, attempt, client_nextSeq_no, handshakeFlags, cancelled, synTimer, sent,
                       serverVars, toServer, losses>>
    BY <1>5 DEF ReceiveSynAck, m
  <2>5. HandshakeTypeOK'
    BY <1>0, <2>1, <2>2, <2>4 DEF HandshakeTypeOK, handshakeFlags, serverVars
  <2>6. NumbersInv'
    BY <1>0, <2>2, <2>3, <2>4 DEF HandshakeTypeOK, NumbersInv, Answered, handshakeFlags, serverVars
  <2>7. ThreadsInv'
    BY <1>0, <2>4 DEF HandshakeTypeOK, ThreadsInv, Reading, Ticking, handshakeFlags, serverVars
  <2> QED BY <2>5, <2>6, <2>7 DEF HInv
<1>6. ASSUME NEW k \in Numbers, GiveUp(k) PROVE HInv'
  BY <1>0, <1>6, QueueTypes, Packets DEF GiveUp, HInv, handshakeFlags, serverVars, network,
     HandshakeTypeOK, NumbersInv, Unanswered, Answered, ThreadsInv, Reading, Ticking
<1>7. ASSUME NEW k \in Numbers, TakeSynAck(k) PROVE HInv'
  BY <1>0, <1>7, QueueTypes, Packets DEF TakeSynAck, HInv, handshakeFlags, serverVars, network,
     HandshakeTypeOK, NumbersInv, Unanswered, Answered, ThreadsInv, Reading, Ticking
<1>8. ASSUME NEW k \in Numbers, SendAck(k) PROVE HInv'
  BY <1>0, <1>8, QueueTypes, Packets DEF SendAck, HInv, handshakeFlags, serverVars, network,
     HandshakeTypeOK, NumbersInv, Unanswered, Answered, ThreadsInv, Reading, Ticking
<1>9. ASSUME NEW k \in Numbers, Establish(k) PROVE HInv'
  BY <1>0, <1>9, QueueTypes, Packets DEF Establish, HInv, handshakeFlags, serverVars, network,
     HandshakeTypeOK, NumbersInv, Unanswered, Answered, ThreadsInv, Reading, Ticking
<1>10. ASSUME NEW k \in Numbers, Die(k) PROVE HInv'
  BY <1>0, <1>10, QueueTypes, Packets DEF Die, HInv, handshakeFlags, serverVars, network,
     HandshakeTypeOK, NumbersInv, Unanswered, Answered, ThreadsInv, Reading, Ticking
<1>11. ASSUME NEW k \in Numbers, SleepOver(k) PROVE HInv'
  BY <1>0, <1>11, QueueTypes, Packets DEF SleepOver, HInv, handshakeFlags, serverVars, network,
     HandshakeTypeOK, NumbersInv, Unanswered, Answered, ThreadsInv, Reading, Ticking
<1>12. ASSUME NEW k \in Numbers, Expire(k) PROVE HInv'
  BY <1>0, <1>12, QueueTypes, Packets DEF Expire, HInv, handshakeFlags, serverVars, network,
     HandshakeTypeOK, NumbersInv, Unanswered, Answered, ThreadsInv, Reading, Ticking
<1>13. CASE FirstPacket
  <2>1. Head(toServer) = FirstSyn /\ toServer # <<>>
    BY <1>0, <1>13, QueueTypes DEF FirstPacket, NumbersInv, Unanswered
  <2>2. /\ client_initialSeq_no' = 0 /\ expected' = 1 /\ spc' = "ack"
        /\ toServer' = Tail(toServer) /\ toClient' = Append(toClient, Packet("SYNACK", 1))
        /\ UNCHANGED <<client, losses>>
    BY <1>13, <2>1, Packets DEF FirstPacket
  <2>3. Tail(toServer) \in Seq(FromClient) /\ Append(toClient, Packet("SYNACK", 1)) \in Seq(FromServer)
    BY <1>0, <2>1, QueueTypes, Packets DEF HandshakeTypeOK
  <2>4. HandshakeTypeOK'
    BY <1>0, <2>2, <2>3 DEF HandshakeTypeOK, client, threads, handshakeFlags
  <2>5. NumbersInv'
    BY <1>0, <2>2 DEF NumbersInv, Answered, client, threads, handshakeFlags
  <2>6. ThreadsInv'
    BY <1>0, <2>2 DEF ThreadsInv, Reading, Ticking, client, threads, handshakeFlags
  <2> QED BY <2>4, <2>5, <2>6 DEF HInv
<1>14. CASE SynAgain
  BY <1>0, <1>14, QueueTypes, Packets DEF SynAgain, HInv, handshakeFlags, threads, client, serverVars,
     HandshakeTypeOK, NumbersInv, Unanswered, Answered, ThreadsInv, Reading, Ticking
<1>15. CASE EnterFlow
  BY <1>0, <1>15, QueueTypes, Packets DEF EnterFlow, HInv, handshakeFlags, threads, client, serverVars,
     HandshakeTypeOK, NumbersInv, Unanswered, Answered, ThreadsInv, Reading, Ticking
<1>16. CASE Flow
  BY <1>0, <1>16, QueueTypes, Packets DEF Flow, HInv, handshakeFlags, threads, client, serverVars,
     HandshakeTypeOK, NumbersInv, Unanswered, Answered, ThreadsInv, Reading, Ticking
<1>17. CASE Lose /\ UNCHANGED <<attempt, handshakeFlags, threads, sent, serverVars>>
  <2>1. /\ toServer' \in Seq(FromClient) /\ toClient' \in Seq(FromServer)
        /\ losses' \in Nat /\ UNCHANGED <<client, serverVars>>
    <3>1. toServer # <<>> => Tail(toServer) \in Seq(FromClient)
      BY <1>0, QueueTypes DEF HandshakeTypeOK
    <3>2. toClient # <<>> => Tail(toClient) \in Seq(FromServer)
      BY <1>0, QueueTypes DEF HandshakeTypeOK
    <3>3. losses' \in Nat /\ UNCHANGED <<client, serverVars>>
      BY <1>0, <1>17 DEF Lose, HandshakeTypeOK, client, handshakeFlags, threads, serverVars
    <3>4. \/ toServer # <<>> /\ toServer' = Tail(toServer) /\ toClient' = toClient
          \/ toClient # <<>> /\ toClient' = Tail(toClient) /\ toServer' = toServer
      BY <1>17 DEF Lose
    <3> QED BY <1>0, <3>1, <3>2, <3>3, <3>4 DEF HandshakeTypeOK
  <2>2. spc = "syn" => toServer' \in Seq({FirstSyn}) /\ toClient' = <<>>
    BY <1>0, <1>17, QueueTypes DEF Lose, NumbersInv, Unanswered
  <2>3. HandshakeTypeOK'
    BY <1>0, <2>1 DEF HandshakeTypeOK, client, threads, handshakeFlags, serverVars
  <2>4. NumbersInv'
    BY <1>0, <2>1, <2>2 DEF NumbersInv, Unanswered, Answered, client, threads, handshakeFlags, serverVars
  <2>5. ThreadsInv'
    BY <1>0, <2>1 DEF ThreadsInv, Reading, Ticking, client, threads, handshakeFlags, serverVars
  <2> QED BY <2>3, <2>4, <2>5 DEF HInv
<1>18. CASE UNCHANGED handshakeVars
  BY <1>0, <1>18 DEF handshakeVars, handshakeFlags, threads, serverVars, network, HInv,
     HandshakeTypeOK, NumbersInv, Unanswered, Answered, ThreadsInv, Reading, Ticking
<1> QED
  BY <1>1, <1>2, <1>3, <1>4, <1>5, <1>6, <1>7, <1>8, <1>9, <1>10, <1>11, <1>12, <1>13, <1>14, <1>15, <1>16, <1>17, <1>18
     DEF HandshakeNext, way3handShake, Waiter, Timer, ServerStep

\* The inductive invariant: what is under way carries the number its side has
\* reached, and only the threads of the last attempt are at work.
THEOREM HandshakeInvariant == HandshakeSpec => []HInv
<1>1. HandshakeInit => HInv
  BY HandshakeBegins
<1>2. HInv /\ [HandshakeNext]_handshakeVars => HInv'
  BY HandshakeSteps
<1> QED BY <1>1, <1>2, PTL DEF HandshakeSpec

\* When both sides transfer data they number it alike, however often the SYN was
\* repeated and whichever SYN+ACK was taken.
THEOREM BothNumberAlike == HandshakeSpec => []SameNumbers
<1>1. HInv => SameNumbers
  BY DEF HInv, HandshakeTypeOK, NumbersInv, Answered, SameNumbers
<1> QED BY <1>1, HandshakeInvariant, PTL

\* No thread of an earlier attempt reads the socket during the transfer, unless
\* its cancellation is pending.
THEOREM EarlierReadersGone == HandshakeSpec => []OnlyLastReader
<1>1. HInv => OnlyLastReader
  BY DEF HInv, ThreadsInv, Reading, OnlyLastReader
<1> QED BY <1>1, HandshakeInvariant, PTL

\* The transfer begins with what the model of the transfer assumes of its first sequence
\* number (First in TransferAssumption).
THEOREM HandshakeGivesFirst == HandshakeSpec => [](pc = "flow" => client_nextSeq_no \in Nat \ {0})
<1>1. HInv => (pc = "flow" => client_nextSeq_no \in Nat \ {0})
  BY DEF HInv, NumbersInv, Answered
<1> QED BY <1>1, HandshakeInvariant, PTL
=============================================================================
