------------------------- MODULE TcpReceiverProofs -------------------------
(***************************************************************************)
(* The receiver acknowledges only what has arrived, never takes an         *)
(* acknowledgement back and keeps its slots consecutive, and so implements *)
(* the in-order receiver: for every window, segment size and order of      *)
(* arrivals.                                                               *)
(***************************************************************************)
EXTENDS TcpReceiver, ListLemmas, FunctionTheorems

LEMMA WindowNotEmpty == windowSize \in Nat \ {0}
BY ReceiverAssumption DEF windowSize

\* Slots are ordered by their sequence numbers.
LEMMA ProductMonotone ==
  ASSUME NEW i \in Int, NEW j \in Int, NEW n \in Nat, i <= j
  PROVE  i * n <= j * n
<1>1. PICK d \in Nat : j = i + d
  <2> WITNESS j - i \in Nat
  <2> QED OBVIOUS
<1>2. d * n >= 0
  OBVIOUS
<1>3. j * n = i * n + d * n
  BY <1>1
<1> QED BY <1>2, <1>3

LEMMA NewSlotsProperties ==
  ASSUME NEW seq \in Nat
  PROVE  /\ NewSlots(seq) \in [1 .. windowSize -> [sequence_no : Nat, isPacketReceived : BOOLEAN]]
         /\ \A i \in 1 .. windowSize :
              /\ NewSlots(seq)[i].sequence_no = seq + (i - 1) * max_seg_size
              /\ ~NewSlots(seq)[i].isPacketReceived
<1>1. ASSUME NEW i \in 1 .. windowSize PROVE (i - 1) * max_seg_size \in Nat
  BY WindowNotEmpty, ReceiverAssumption
<1> QED BY <1>1, WindowNotEmpty DEF NewSlots, Slot

LEMMA FirstBlank ==
  ASSUME NEW slots, Blanks(slots) # {}
  PROVE  /\ Min(Blanks(slots)) \in 1 .. windowSize
         /\ ~slots[Min(Blanks(slots))].isPacketReceived
         /\ \A i \in 1 .. Min(Blanks(slots)) - 1 : slots[i].isPacketReceived
         /\ \A i \in Blanks(slots) : Min(Blanks(slots)) <= i
<1>1. Blanks(slots) \subseteq Nat
  BY WindowNotEmpty DEF Blanks
<1>2. Min(Blanks(slots)) \in Blanks(slots) /\ \A i \in Blanks(slots) : Min(Blanks(slots)) <= i
  BY <1>1, LeastNat
<1>3. Min(Blanks(slots)) \in 1 .. windowSize
  BY <1>2 DEF Blanks
<1>4. ~slots[Min(Blanks(slots))].isPacketReceived
  BY <1>2 DEF Blanks
<1>5. ASSUME NEW i \in 1 .. Min(Blanks(slots)) - 1 PROVE slots[i].isPacketReceived
  <2>1. i \in 1 .. windowSize /\ ~(Min(Blanks(slots)) <= i)
    BY <1>3, WindowNotEmpty
  <2>2. i \notin Blanks(slots)
    BY <1>2, <2>1
  <2> QED BY <2>1, <2>2, Zenon DEF Blanks
<1> QED BY <1>2, <1>3, <1>4, <1>5

-----------------------------------------------------------------------------
(***************************************************************************)
(* The inductive invariant.                                                *)
(***************************************************************************)

\* The first segments' bytes, up to the window, and the segments of the marked
\* slots have arrived.
PrefixArrived == \A b \in First .. initial_window_seq_no - 1 : ByteArrived(b)

MarkedArrived ==
  \A i \in 1 .. windowSize :
    supportBuffer[i].isPacketReceived => supportBuffer[i].sequence_no \in arrived

\* The last ACK named the first blank slot, and there always is one.
AckIsFirstBlank ==
  /\ Blanks(supportBuffer) # {}
  /\ ack = supportBuffer[Min(Blanks(supportBuffer))].sequence_no

IInv ==
  /\ TypeOK
  /\ SlotsConsecutive
  /\ PrefixArrived
  /\ MarkedArrived
  /\ AckIsFirstBlank

\* Consecutive slots, all marked before the j-th, cover the bytes up to it.
LEMMA FilledSlotsCover ==
  ASSUME NEW slots, NEW A, NEW start \in Nat, NEW j \in 1 .. windowSize + 1,
         \A i \in 1 .. windowSize : slots[i].sequence_no = start + (i - 1) * max_seg_size,
         \A i \in 1 .. j - 1 : slots[i].sequence_no \in A,
         NEW b \in Int, start <= b, b < start + (j - 1) * max_seg_size
  PROVE  \E s \in A : s <= b /\ b < s + max_seg_size
<1> DEFINE Edge(n) == start + n * max_seg_size
           Beyond == {n \in Nat : b < Edge(n)}
<1>1. j - 1 \in Beyond /\ 0 \notin Beyond
  BY WindowNotEmpty, ReceiverAssumption
<1>2. Min(Beyond) \in Beyond /\ \A n \in Beyond : Min(Beyond) <= n
  <2>1. Beyond \subseteq Nat /\ Beyond # {}
    BY <1>1
  <2> HIDE DEF Beyond
  <2> QED BY <2>1, LeastNat
<1>3. PICK n \in Nat : n + 1 = Min(Beyond) /\ n + 1 <= j - 1
  <2>1. Min(Beyond) \in Nat \ {0} /\ Min(Beyond) <= j - 1
    BY <1>1, <1>2
  <2> HIDE DEF Beyond
  <2>2. Min(Beyond) - 1 \in Nat
    BY <2>1
  <2> WITNESS Min(Beyond) - 1 \in Nat
  <2> QED BY <2>1, <2>2
<1>4. n \notin Beyond /\ n + 1 \in Beyond
  <2> HIDE DEF Beyond
  <2> QED BY <1>2, <1>3
<1>5. Edge(n) <= b /\ b < Edge(n + 1)
  BY <1>4, ReceiverAssumption
<1>6. Edge(n + 1) = Edge(n) + max_seg_size
  BY ReceiverAssumption
<1>7. slots[n + 1].sequence_no = Edge(n) /\ slots[n + 1].sequence_no \in A
  <2>1. n + 1 \in 1 .. j - 1 /\ n + 1 \in 1 .. windowSize /\ (n + 1) - 1 = n
    BY <1>3, WindowNotEmpty
  <2> QED BY <2>1
<1> HIDE DEF Edge
<1> QED BY <1>5, <1>6, <1>7

LEMMA MarkedProperties ==
  ASSUME TypeOK, NEW seq \in SeqNos
  PROVE  /\ Marked(seq) \in [1 .. windowSize -> [sequence_no : Nat, isPacketReceived : BOOLEAN]]
         /\ \A i \in 1 .. windowSize :
              /\ Marked(seq)[i].sequence_no = supportBuffer[i].sequence_no
              /\ supportBuffer[i].isPacketReceived => Marked(seq)[i].isPacketReceived
              /\ Marked(seq)[i].isPacketReceived =>
                   supportBuffer[i].isPacketReceived \/ supportBuffer[i].sequence_no = seq
<1> DEFINE i == getSupportBufferIndex(seq)
<1>1. CASE i > 0 /\ supportBuffer[i].sequence_no = seq
  <2>1. Marked(seq) = [supportBuffer EXCEPT ![i].isPacketReceived = TRUE]
    BY <1>1 DEF Marked
  <2> HIDE DEF i
  <2> QED BY <1>1, <2>1 DEF TypeOK
<1>2. CASE ~(i > 0 /\ supportBuffer[i].sequence_no = seq)
  <2>1. Marked(seq) = supportBuffer
    BY <1>2 DEF Marked
  <2> QED BY <2>1 DEF TypeOK
<1> QED BY <1>1, <1>2

\* How far the front of the window is filled.
LEMMA FilledFront ==
  ASSUME NEW slots
  PROVE  LET n == blankSupportBufferIndex(slots)
         IN  /\ n \in 0 .. windowSize
             /\ \A i \in 1 .. n : slots[i].isPacketReceived
             /\ n = windowSize <=> Blanks(slots) = {}
             /\ n < windowSize => n + 1 = Min(Blanks(slots)) /\ ~slots[n + 1].isPacketReceived
<1>1. CASE Blanks(slots) = {}
  <2>1. ASSUME NEW i \in 1 .. windowSize PROVE slots[i].isPacketReceived
    BY <1>1, Zenon DEF Blanks
  <2> QED BY <1>1, <2>1, WindowNotEmpty DEF blankSupportBufferIndex
<1>2. CASE Blanks(slots) # {}
  <2> DEFINE m == Min(Blanks(slots))
  <2>1. blankSupportBufferIndex(slots) = m - 1
    BY <1>2 DEF blankSupportBufferIndex
  <2>2. /\ m \in 1 .. windowSize
        /\ ~slots[m].isPacketReceived
        /\ \A i \in 1 .. m - 1 : slots[i].isPacketReceived
    BY <1>2, FirstBlank
  <2> HIDE DEF m
  <2> QED BY <1>2, <2>1, <2>2, WindowNotEmpty DEF m
<1> QED BY <1>1, <1>2

-----------------------------------------------------------------------------
LEMMA InitInv == Init => IInv
<1> SUFFICES ASSUME Init PROVE IInv
  OBVIOUS
<1> USE DEF Init
<1>1. First \in Nat /\ windowSize * max_seg_size \in Nat
  BY ReceiverAssumption, WindowNotEmpty
<1>2. /\ supportBuffer \in [1 .. windowSize -> [sequence_no : Nat, isPacketReceived : BOOLEAN]]
      /\ \A i \in 1 .. windowSize :
           /\ supportBuffer[i].sequence_no = First + (i - 1) * max_seg_size
           /\ ~supportBuffer[i].isPacketReceived
  BY <1>1, NewSlotsProperties
<1>3. TypeOK
  BY <1>1, <1>2, ReceiverAssumption DEF TypeOK
<1>4. SlotsConsecutive
  BY <1>2 DEF SlotsConsecutive
<1>5. PrefixArrived /\ MarkedArrived
  BY <1>1, <1>2 DEF PrefixArrived, MarkedArrived
<1>6. AckIsFirstBlank
  <2>1. 1 \in Blanks(supportBuffer)
    BY <1>2, WindowNotEmpty DEF Blanks
  <2>2. Min(Blanks(supportBuffer)) \in 1 .. windowSize /\ Min(Blanks(supportBuffer)) <= 1
    BY <2>1, FirstBlank
  <2>3. Min(Blanks(supportBuffer)) = 1
    BY <2>2, WindowNotEmpty
  <2>4. supportBuffer[1].sequence_no = First + (1 - 1) * max_seg_size
    BY <1>2, WindowNotEmpty
  <2>5. supportBuffer[1].sequence_no = First
    BY <1>1, <2>4, ReceiverAssumption
  <2> QED BY <2>1, <2>3, <2>5 DEF AckIsFirstBlank
<1> QED BY <1>3, <1>4, <1>5, <1>6 DEF IInv

\* What a segment does to the window: the slots it keeps are the marked ones, n
\* places further, and the new ones are blank.
LEMMA WindowMoves ==
  ASSUME IInv, NEW seq \in SeqNos,
         eraseInitialNonEmptySupportBuffer(Marked(seq)),
         NEW n, n = blankSupportBufferIndex(Marked(seq)), n > 1 \/ n = windowSize
  PROVE  /\ n \in 1 .. windowSize
         /\ initial_window_seq_no' = initial_window_seq_no + n * max_seg_size
         /\ initial_window_seq_no' \in Nat
         /\ client_nextSeq_no' = initial_window_seq_no' + windowSize * max_seg_size
         /\ client_nextSeq_no' \in Nat
         /\ supportBuffer' \in [1 .. windowSize -> [sequence_no : Nat, isPacketReceived : BOOLEAN]]
         /\ \A i \in 1 .. windowSize :
              /\ supportBuffer'[i].sequence_no = initial_window_seq_no' + (i - 1) * max_seg_size
              /\ i + n <= windowSize => supportBuffer'[i] = Marked(seq)[i + n]
              /\ i + n > windowSize => ~supportBuffer'[i].isPacketReceived
<1> DEFINE K == Marked(seq)
           new == NewSlots(client_nextSeq_no)
<1>1. /\ n \in 1 .. windowSize
      /\ windowSize \in Nat \ {0} /\ max_seg_size \in Nat \ {0}
      /\ initial_window_seq_no \in Nat /\ client_nextSeq_no \in Nat
  BY FilledFront, WindowNotEmpty, ReceiverAssumption DEF IInv, TypeOK
<1>2. /\ K \in [1 .. windowSize -> [sequence_no : Nat, isPacketReceived : BOOLEAN]]
      /\ \A i \in 1 .. windowSize :
           K[i].sequence_no = initial_window_seq_no + (i - 1) * max_seg_size
  BY MarkedProperties DEF IInv, SlotsConsecutive
<1>3. client_nextSeq_no = initial_window_seq_no + windowSize * max_seg_size
  BY DEF IInv, SlotsConsecutive
<1>4. /\ new \in [1 .. windowSize -> [sequence_no : Nat, isPacketReceived : BOOLEAN]]
      /\ \A i \in 1 .. windowSize :
           /\ new[i].sequence_no = client_nextSeq_no + (i - 1) * max_seg_size
           /\ ~new[i].isPacketReceived
  BY <1>1, NewSlotsProperties
<1> HIDE DEF K, new
<1>5. /\ initial_window_seq_no' =
           IF n = windowSize THEN client_nextSeq_no ELSE K[n + 1].sequence_no
      /\ client_nextSeq_no' = client_nextSeq_no + n * max_seg_size
      /\ supportBuffer' = [i \in 1 .. windowSize |->
                            IF i + n <= windowSize THEN K[i + n] ELSE new[i + n - windowSize]]
  BY DEF eraseInitialNonEmptySupportBuffer, K, new
<1>6. initial_window_seq_no' = initial_window_seq_no + n * max_seg_size
  <2>1. CASE n = windowSize
    BY <1>3, <1>5, <2>1
  <2>2. CASE n # windowSize
    <3>1. n + 1 \in 1 .. windowSize /\ (n + 1) - 1 = n
      BY <1>1, <2>2
    <3> QED BY <1>2, <1>5, <2>2, <3>1
  <2> QED BY <2>1, <2>2
<1>7. n * max_seg_size \in Nat
  BY <1>1
<1>8. client_nextSeq_no' = initial_window_seq_no' + windowSize * max_seg_size
  <2> DEFINE old == windowSize * max_seg_size
             moved == n * max_seg_size
  <2>1. old \in Nat /\ moved \in Nat
    BY <1>1
  <2>2. /\ client_nextSeq_no = initial_window_seq_no + old
        /\ client_nextSeq_no' = client_nextSeq_no + moved
        /\ initial_window_seq_no' = initial_window_seq_no + moved
    BY <1>3, <1>5, <1>6
  <2> SUFFICES client_nextSeq_no' = initial_window_seq_no' + old
    OBVIOUS
  <2> HIDE DEF old, moved
  <2> QED BY <1>1, <2>1, <2>2
<1>9. ASSUME NEW i \in 1 .. windowSize
      PROVE  /\ supportBuffer'[i] \in [sequence_no : Nat, isPacketReceived : BOOLEAN]
             /\ supportBuffer'[i].sequence_no = initial_window_seq_no' + (i - 1) * max_seg_size
             /\ i + n <= windowSize => supportBuffer'[i] = K[i + n]
             /\ i + n > windowSize => ~supportBuffer'[i].isPacketReceived
  <2>0. initial_window_seq_no' + (i - 1) * max_seg_size
          = initial_window_seq_no + ((i + n) - 1) * max_seg_size
    BY <1>1, <1>6
  <2>1. CASE i + n <= windowSize
    <3>1. i + n \in 1 .. windowSize /\ supportBuffer'[i] = K[i + n]
      BY <1>1, <1>5, <2>1
    <3>2. K[i + n] \in [sequence_no : Nat, isPacketReceived : BOOLEAN]
      BY <1>2, <3>1
    <3>3. K[i + n].sequence_no = initial_window_seq_no + ((i + n) - 1) * max_seg_size
      BY <1>2, <3>1
    <3>4. ~(i + n > windowSize)
      BY <1>1, <2>1
    <3> QED BY <2>0, <3>1, <3>2, <3>3, <3>4
  <2>2. CASE i + n > windowSize
    <3>1. i + n - windowSize \in 1 .. windowSize /\ supportBuffer'[i] = new[i + n - windowSize]
      BY <1>1, <1>5, <2>2
    <3>2. client_nextSeq_no + ((i + n - windowSize) - 1) * max_seg_size
            = initial_window_seq_no + ((i + n) - 1) * max_seg_size
      BY <1>1, <1>3
    <3> DEFINE j == i + n - windowSize
    <3>3. /\ new[j] \in [sequence_no : Nat, isPacketReceived : BOOLEAN]
          /\ new[j].sequence_no = client_nextSeq_no + (j - 1) * max_seg_size
          /\ ~new[j].isPacketReceived
      <4> HIDE DEF j
      <4> QED BY <1>4, <3>1 DEF j
    <3>4. ~(i + n <= windowSize)
      BY <1>1, <2>2
    <3> QED BY <2>0, <3>1, <3>2, <3>3, <3>4
  <2> QED BY <1>1, <2>1, <2>2
<1>10. supportBuffer' \in [1 .. windowSize -> [sequence_no : Nat, isPacketReceived : BOOLEAN]]
  <2> DEFINE f(i) == IF i + n <= windowSize THEN K[i + n] ELSE new[i + n - windowSize]
  <2>1. supportBuffer' = [i \in 1 .. windowSize |-> f(i)]
    BY <1>5
  <2>2. ASSUME NEW i \in 1 .. windowSize
        PROVE  f(i) \in [sequence_no : Nat, isPacketReceived : BOOLEAN]
    <3>1. supportBuffer'[i] = f(i)
      BY <2>1
    <3> HIDE DEF f
    <3> QED BY <1>9, <3>1
  <2> HIDE DEF f
  <2> QED BY <2>1, <2>2
<1>11. initial_window_seq_no' \in Nat
  <2> DEFINE moved == n * max_seg_size
  <2>1. moved \in Nat /\ initial_window_seq_no' = initial_window_seq_no + moved
    BY <1>6, <1>7
  <2> HIDE DEF moved
  <2> QED BY <1>1, <2>1
<1>12. client_nextSeq_no' \in Nat
  <2> DEFINE moved == n * max_seg_size
  <2>1. moved \in Nat /\ client_nextSeq_no' = client_nextSeq_no + moved
    BY <1>5, <1>7
  <2> HIDE DEF moved
  <2> QED BY <1>1, <2>1
<1>13. ASSUME NEW i \in 1 .. windowSize
       PROVE  /\ supportBuffer'[i].sequence_no = initial_window_seq_no' + (i - 1) * max_seg_size
              /\ i + n <= windowSize => supportBuffer'[i] = Marked(seq)[i + n]
              /\ i + n > windowSize => ~supportBuffer'[i].isPacketReceived
  BY <1>9 DEF K
<1>14. n \in 1 .. windowSize
  BY <1>1
<1> QED BY <1>6, <1>8, <1>10, <1>11, <1>12, <1>13, <1>14

\* The slots that come out of a segment, before any is erased, and what covers
\* the stream up to the first blank one.
LEMMA MarkedInv ==
  ASSUME IInv, NEW seq \in SeqNos, arrived' = arrived \cup {seq}
  PROVE  /\ \A i \in 1 .. windowSize :
              Marked(seq)[i].isPacketReceived => Marked(seq)[i].sequence_no \in arrived'
         /\ \A j \in 1 .. windowSize + 1, b \in Int :
              /\ \A i \in 1 .. j - 1 : Marked(seq)[i].isPacketReceived
              /\ First <= b /\ b < initial_window_seq_no + (j - 1) * max_seg_size
              => ByteArrived(b)'
<1> DEFINE K == Marked(seq)
<1>1. \A i \in 1 .. windowSize :
        /\ K[i].sequence_no = supportBuffer[i].sequence_no
        /\ K[i].isPacketReceived =>
             supportBuffer[i].isPacketReceived \/ supportBuffer[i].sequence_no = seq
  BY MarkedProperties DEF IInv
<1>2. \A i \in 1 .. windowSize :
        K[i].sequence_no = initial_window_seq_no + (i - 1) * max_seg_size
  BY <1>1 DEF IInv, SlotsConsecutive
<1> HIDE DEF K
<1>3. ASSUME NEW i \in 1 .. windowSize, K[i].isPacketReceived
      PROVE  K[i].sequence_no \in arrived'
  BY <1>1, <1>3 DEF IInv, MarkedArrived
<1>4. ASSUME NEW j \in 1 .. windowSize + 1, \A i \in 1 .. j - 1 : K[i].isPacketReceived,
             NEW b \in Int, First <= b, b < initial_window_seq_no + (j - 1) * max_seg_size
      PROVE  ByteArrived(b)'
  <2>1. CASE b < initial_window_seq_no
    <3>1. b \in First .. initial_window_seq_no - 1
      BY <1>4, <2>1, ReceiverAssumption DEF IInv, TypeOK
    <3>2. ByteArrived(b)
      BY <3>1 DEF IInv, PrefixArrived
    <3> QED BY <3>2 DEF ByteArrived
  <2>2. CASE b >= initial_window_seq_no
    <3>1. \A i \in 1 .. j - 1 : K[i].sequence_no \in arrived'
      <4>1. ASSUME NEW i \in 1 .. j - 1 PROVE i \in 1 .. windowSize
        BY WindowNotEmpty
      <4> QED BY <1>3, <1>4, <4>1
    <3>3. initial_window_seq_no \in Nat
      BY DEF IInv, TypeOK
    <3>4. \E s \in arrived' : s <= b /\ b < s + max_seg_size
      BY <1>2, <1>4, <2>2, <3>1, <3>3, FilledSlotsCover
    <3> QED BY <3>4 DEF ByteArrived
  <2> QED BY <1>4, <2>1, <2>2, ReceiverAssumption DEF IInv, TypeOK
<1> QED BY <1>3, <1>4 DEF K

LEMMA StepInv ==
  ASSUME IInv, NEW seq \in SeqNos, Receive(seq)
  PROVE  IInv'
<1> DEFINE K == Marked(seq)
           n == blankSupportBufferIndex(K)
<1>1. /\ ack' = getSeqNoBlankSupportBuffer(K)
      /\ eraseInitialNonEmptySupportBuffer(K)
      /\ arrived' = arrived \cup {seq}
  BY DEF Receive
<1>2. /\ K \in [1 .. windowSize -> [sequence_no : Nat, isPacketReceived : BOOLEAN]]
      /\ \A i \in 1 .. windowSize :
           K[i].sequence_no = initial_window_seq_no + (i - 1) * max_seg_size
  BY MarkedProperties DEF IInv, SlotsConsecutive
<1>3. /\ n \in 0 .. windowSize
      /\ \A i \in 1 .. n : K[i].isPacketReceived
      /\ n = windowSize <=> Blanks(K) = {}
      /\ n < windowSize => n + 1 = Min(Blanks(K)) /\ ~K[n + 1].isPacketReceived
  BY FilledFront
<1>4. arrived' \subseteq SeqNos
  BY <1>1 DEF IInv, TypeOK
<1>5. ack' = initial_window_seq_no + n * max_seg_size /\ ack' \in Nat
  <2>1. CASE Blanks(K) = {}
    <3>1. ack' = client_nextSeq_no /\ n = windowSize
      BY <1>1, <1>3, <2>1 DEF getSeqNoBlankSupportBuffer
    <3> QED BY <3>1 DEF IInv, TypeOK, SlotsConsecutive
  <2>2. CASE Blanks(K) # {}
    <3>1. ack' = K[n + 1].sequence_no /\ n + 1 \in 1 .. windowSize /\ (n + 1) - 1 = n
      BY <1>1, <1>3, <2>2, WindowNotEmpty DEF getSeqNoBlankSupportBuffer
    <3> HIDE DEF K, n
    <3> QED BY <1>2, <3>1
  <2> QED BY <2>1, <2>2
<1>6. /\ \A i \in 1 .. windowSize : K[i].isPacketReceived => K[i].sequence_no \in arrived'
      /\ \A b \in First .. ack' - 1 : ByteArrived(b)'
  <2>1. n + 1 \in 1 .. windowSize + 1 /\ (n + 1) - 1 = n
    BY <1>3, WindowNotEmpty
  <2>2. \A i \in 1 .. windowSize : K[i].isPacketReceived => K[i].sequence_no \in arrived'
    BY <1>1, MarkedInv
  <2>3. \A i \in 1 .. (n + 1) - 1 : K[i].isPacketReceived
    BY <1>3, <2>1
  <2>4. \A b \in First .. ack' - 1 : ByteArrived(b)'
    <3> HIDE DEF n
    <3> QED BY <1>1, <1>5, <2>1, <2>3, MarkedInv
  <2> QED BY <2>1, <2>2, <2>4
<1>7. CASE n > 1 \/ n = windowSize
  <2>1. /\ n \in 1 .. windowSize
        /\ initial_window_seq_no' = initial_window_seq_no + n * max_seg_size
        /\ initial_window_seq_no' \in Nat
        /\ client_nextSeq_no' = initial_window_seq_no' + windowSize * max_seg_size
        /\ client_nextSeq_no' \in Nat
        /\ supportBuffer' \in [1 .. windowSize -> [sequence_no : Nat, isPacketReceived : BOOLEAN]]
        /\ \A i \in 1 .. windowSize :
             /\ supportBuffer'[i].sequence_no = initial_window_seq_no' + (i - 1) * max_seg_size
             /\ i + n <= windowSize => supportBuffer'[i] = K[i + n]
             /\ i + n > windowSize => ~supportBuffer'[i].isPacketReceived
    BY <1>1, <1>7, WindowMoves
  <2> HIDE DEF K, n
  <2>2. TypeOK' /\ SlotsConsecutive' /\ PrefixArrived'
    <3>1. TypeOK'
      BY <1>4, <1>5, <2>1 DEF TypeOK
    <3>2. SlotsConsecutive'
      BY <2>1 DEF SlotsConsecutive
    <3>3. ASSUME NEW b \in First .. initial_window_seq_no' - 1 PROVE ByteArrived(b)'
      <4>1. initial_window_seq_no' = ack'
        BY <1>5, <2>1
      <4> QED BY <1>6, <4>1
    <3> QED BY <3>1, <3>2, <3>3 DEF PrefixArrived
  <2>3. MarkedArrived'
    <3> SUFFICES ASSUME NEW i \in 1 .. windowSize, supportBuffer'[i].isPacketReceived
                 PROVE  supportBuffer'[i].sequence_no \in arrived'
      BY DEF MarkedArrived
    <3>1. i + n <= windowSize
      BY <2>1, WindowNotEmpty
    <3>2. supportBuffer'[i] = K[i + n] /\ i + n \in 1 .. windowSize
      BY <2>1, <3>1, WindowNotEmpty
    <3> QED BY <1>6, <3>2
  <2>4. ~supportBuffer'[1].isPacketReceived
    <3>1. CASE n = windowSize
      BY <2>1, <3>1, WindowNotEmpty
    <3>2. CASE n < windowSize
      <4>1. 1 + n \in 1 .. windowSize /\ 1 \in 1 .. windowSize /\ 1 + n <= windowSize /\ 1 + n = n + 1
        BY <2>1, <3>2, WindowNotEmpty
      <4>2. supportBuffer'[1] = K[n + 1]
        BY <2>1, <4>1
      <4> QED BY <1>3, <3>2, <4>2
    <3> QED BY <2>1, <3>1, <3>2, WindowNotEmpty
  <2>5. AckIsFirstBlank'
    <3>1. 1 \in Blanks(supportBuffer')
      BY <2>4, WindowNotEmpty DEF Blanks
    <3>2. Min(Blanks(supportBuffer')) \in 1 .. windowSize /\ Min(Blanks(supportBuffer')) <= 1
      BY <3>1, FirstBlank
    <3>3. Min(Blanks(supportBuffer')) = 1
      BY <3>2, WindowNotEmpty
    <3>4. supportBuffer'[1].sequence_no = initial_window_seq_no' + (1 - 1) * max_seg_size
      BY <2>1, WindowNotEmpty
    <3>5. supportBuffer'[1].sequence_no = ack'
      BY <1>5, <2>1, <3>4, ReceiverAssumption
    <3> QED BY <3>1, <3>3, <3>5 DEF AckIsFirstBlank, Blanks
  <2> QED BY <2>2, <2>3, <2>5 DEF IInv
<1>8. CASE ~(n > 1 \/ n = windowSize)
  <2>1. /\ supportBuffer' = K
        /\ initial_window_seq_no' = initial_window_seq_no
        /\ client_nextSeq_no' = client_nextSeq_no
    BY <1>1, <1>8 DEF eraseInitialNonEmptySupportBuffer
  <2>2. ack' = K[Min(Blanks(K))].sequence_no /\ Blanks(K) # {}
    BY <1>1, <1>3, <1>8 DEF getSeqNoBlankSupportBuffer
  <2> HIDE DEF K, n
  <2>3. TypeOK' /\ SlotsConsecutive' /\ MarkedArrived'
    BY <1>2, <1>6, <1>4, <1>5, <2>1 DEF IInv, TypeOK, SlotsConsecutive, MarkedArrived
  <2>4. PrefixArrived'
    <3>1. ASSUME NEW b \in First .. initial_window_seq_no - 1 PROVE ByteArrived(b)'
      BY <1>1 DEF IInv, PrefixArrived, ByteArrived
    <3> QED BY <2>1, <3>1 DEF PrefixArrived
  <2>5. AckIsFirstBlank'
    BY <2>1, <2>2 DEF AckIsFirstBlank, Blanks
  <2> QED BY <2>3, <2>4, <2>5 DEF IInv
<1> QED BY <1>7, <1>8

-----------------------------------------------------------------------------
LEMMA AckFacts ==
  ASSUME IInv
  PROVE  LET m == Min(Blanks(supportBuffer))
         IN  /\ m \in 1 .. windowSize
             /\ \A i \in 1 .. m - 1 : supportBuffer[i].isPacketReceived
             /\ ack = initial_window_seq_no + (m - 1) * max_seg_size
<1> DEFINE m == Min(Blanks(supportBuffer))
<1>1. /\ m \in 1 .. windowSize
      /\ \A i \in 1 .. m - 1 : supportBuffer[i].isPacketReceived
  BY FirstBlank DEF IInv, AckIsFirstBlank
<1>2. ack = supportBuffer[m].sequence_no
  BY DEF IInv, AckIsFirstBlank
<1> HIDE DEF m
<1>3. ack = initial_window_seq_no + (m - 1) * max_seg_size
  BY <1>1, <1>2 DEF IInv, SlotsConsecutive
<1> QED BY <1>1, <1>3 DEF m

LEMMA InvImpliesAcksCover == IInv => AcksCoverArrivals
<1> SUFFICES ASSUME IInv, NEW b \in First .. ack - 1 PROVE ByteArrived(b)
  BY DEF AcksCoverArrivals
<1> DEFINE m == Min(Blanks(supportBuffer))
<1>1. /\ m \in 1 .. windowSize
      /\ \A i \in 1 .. m - 1 : supportBuffer[i].isPacketReceived
      /\ ack = initial_window_seq_no + (m - 1) * max_seg_size
  BY AckFacts
<1> HIDE DEF m
<1>2. initial_window_seq_no \in Nat /\ First \in Nat
  BY ReceiverAssumption DEF IInv, TypeOK
<1>3. CASE b < initial_window_seq_no
  <2>1. b \in First .. initial_window_seq_no - 1
    BY <1>2, <1>3
  <2> QED BY <2>1 DEF IInv, PrefixArrived
<1>4. CASE b >= initial_window_seq_no
  <2>1. m \in 1 .. windowSize + 1 /\ \A i \in 1 .. m - 1 : i \in 1 .. windowSize
    BY <1>1, WindowNotEmpty
  <2>2. \A i \in 1 .. m - 1 : supportBuffer[i].sequence_no \in arrived
    BY <1>1, <2>1 DEF IInv, MarkedArrived
  <2>3. ack \in Nat
    BY DEF IInv, TypeOK
  <2>4. b \in Int /\ initial_window_seq_no <= b /\ b < initial_window_seq_no + (m - 1) * max_seg_size
    BY <1>1, <1>4, <2>3 DEF IInv, TypeOK
  <2>5. \A i \in 1 .. windowSize :
          supportBuffer[i].sequence_no = initial_window_seq_no + (i - 1) * max_seg_size
    BY DEF IInv, SlotsConsecutive
  <2>6. \E s \in arrived : s <= b /\ b < s + max_seg_size
    BY <1>1, <1>2, <2>1, <2>2, <2>4, <2>5, FilledSlotsCover
  <2> QED BY <2>6 DEF ByteArrived
<1> QED BY <1>2, <1>3, <1>4

LEMMA StepAck ==
  ASSUME IInv, NEW seq \in SeqNos, Receive(seq)
  PROVE  ack <= ack'
<1> DEFINE K == Marked(seq)
           m == Min(Blanks(supportBuffer))
           n == blankSupportBufferIndex(K)
<1>1. /\ m \in 1 .. windowSize
      /\ \A i \in 1 .. m - 1 : supportBuffer[i].isPacketReceived
      /\ ack = initial_window_seq_no + (m - 1) * max_seg_size
  BY AckFacts
<1>2. \A i \in 1 .. windowSize :
        /\ K[i].sequence_no = initial_window_seq_no + (i - 1) * max_seg_size
        /\ supportBuffer[i].isPacketReceived => K[i].isPacketReceived
  BY MarkedProperties DEF IInv, SlotsConsecutive
<1>3. /\ n \in 0 .. windowSize
      /\ n = windowSize <=> Blanks(K) = {}
      /\ n < windowSize => n + 1 = Min(Blanks(K)) /\ ~K[n + 1].isPacketReceived
  BY FilledFront
<1>4. ack' = getSeqNoBlankSupportBuffer(K)
  BY DEF Receive
<1> HIDE DEF K, m, n
<1>5. m - 1 <= n
  <2> SUFFICES ASSUME n < m - 1 PROVE FALSE
    BY <1>1, <1>3, WindowNotEmpty
  <2>1. n + 1 \in 1 .. m - 1 /\ n + 1 \in 1 .. windowSize /\ n < windowSize
    BY <1>1, <1>3, WindowNotEmpty
  <2> QED BY <1>1, <1>2, <1>3, <2>1
<1>6. ack' = initial_window_seq_no + n * max_seg_size
  <2>1. CASE Blanks(K) = {}
    BY <1>3, <1>4, <2>1 DEF getSeqNoBlankSupportBuffer, IInv, SlotsConsecutive
  <2>2. CASE Blanks(K) # {}
    <3>1. ack' = K[n + 1].sequence_no /\ n + 1 \in 1 .. windowSize /\ (n + 1) - 1 = n
      BY <1>3, <1>4, <2>2, WindowNotEmpty DEF getSeqNoBlankSupportBuffer
    <3> QED BY <1>2, <3>1
  <2> QED BY <2>1, <2>2
<1>7. (m - 1) * max_seg_size <= n * max_seg_size
  BY <1>1, <1>3, <1>5, WindowNotEmpty, ReceiverAssumption, ProductMonotone
<1>8. /\ initial_window_seq_no \in Nat
      /\ (m - 1) * max_seg_size \in Int /\ n * max_seg_size \in Int
  BY <1>1, <1>3, ReceiverAssumption, WindowNotEmpty DEF IInv, TypeOK
<1> DEFINE before == (m - 1) * max_seg_size
           after == n * max_seg_size
<1>9. /\ ack = initial_window_seq_no + before /\ ack' = initial_window_seq_no + after
      /\ before <= after /\ before \in Int /\ after \in Int
  BY <1>1, <1>6, <1>7, <1>8
<1> HIDE DEF before, after
<1> QED BY <1>8, <1>9

-----------------------------------------------------------------------------
\* The inductive invariant holds of every behaviour of the receiver.
THEOREM ReceiverInvariant == Spec => []IInv
<1>1. Init => IInv
  BY InitInv
<1>2. IInv /\ [Next]_vars => IInv'
  <2> SUFFICES ASSUME IInv, [Next]_vars PROVE IInv'
    OBVIOUS
  <2>1. CASE Next
    BY <2>1, StepInv DEF Next
  <2>2. CASE UNCHANGED vars
    BY <2>2 DEF vars, IInv, TypeOK, SlotsConsecutive, PrefixArrived, MarkedArrived,
                AckIsFirstBlank, ByteArrived, Blanks
  <2> QED BY <2>1, <2>2
<1> QED BY <1>1, <1>2, PTL DEF Spec

\* The receiver's variables keep their types (fillSupportBuffer and
\* eraseInitialNonEmptySupportBuffer never leave a hole in the window).
THEOREM ReceiverTypeCorrect == Spec => []TypeOK
<1>1. IInv => TypeOK
  BY DEF IInv
<1> QED BY <1>1, ReceiverInvariant, PTL

\* The slots stay consecutive, which getSupportBufferIndex relies on.
THEOREM SlotsStayConsecutive == Spec => []SlotsConsecutive
<1>1. IInv => SlotsConsecutive
  BY DEF IInv
<1> QED BY <1>1, ReceiverInvariant, PTL

\* The server (initiateFlow) never acknowledges a byte that has not arrived.
THEOREM AcksAreSound == Spec => []AcksCoverArrivals
<1> QED BY ReceiverInvariant, InvImpliesAcksCover, PTL

\* The server's acknowledgement numbers never fall.
THEOREM AcksAreMonotone == Spec => AckNeverFalls
<1>1. IInv /\ [Next]_vars => [ack <= ack']_vars
  <2> SUFFICES ASSUME IInv, Next PROVE ack <= ack'
    OBVIOUS
  <2> QED BY StepAck DEF Next
<1> QED BY <1>1, ReceiverInvariant, PTL DEF Spec, AckNeverFalls

-----------------------------------------------------------------------------
(***************************************************************************)
(* The receiver implements the in-order receiver: for every window,        *)
(* segment size and order of arrivals, its slots and their erasure are a   *)
(* set of kept segments with a cumulative acknowledgement.                 *)
(***************************************************************************)
\* The abstract module's copies of the library's operators are the library's.
LEMMA SameOperators ==
  /\ \A S : Abstract!Min(S) = Min(S)
  /\ \A S : Abstract!Cardinality(S) = Cardinality(S)
<1>1. ASSUME NEW S PROVE Abstract!Min(S) = Min(S)
  BY DEF Abstract!Min, Min
<1>2. ASSUME NEW S PROVE Abstract!Cardinality(S) = Cardinality(S)
  BY DEF Abstract!Cardinality, Cardinality
<1> QED BY <1>1, <1>2

LEMMA DivExact ==
  ASSUME NEW a \in Nat, NEW g \in Nat \ {0}
  PROVE  (a * g) \div g = a
OBVIOUS

-----------------------------------------------------------------------------
(***************************************************************************)
(* Segments by their number in the stream, so that what is kept is a set   *)
(* of numbers and all that follows is linear.                              *)
(***************************************************************************)

Seg(k) == First + k * max_seg_size

LEMMA SegProperties ==
  /\ \A k \in Nat : Seg(k) \in Nat /\ Seg(k) >= k
  /\ \A k, j \in Nat : k < j <=> Seg(k) < Seg(j)
  /\ \A k, j \in Nat : Seg(k) = Seg(j) => k = j
<1>1. ASSUME NEW k \in Nat PROVE Seg(k) \in Nat /\ Seg(k) >= k
  <2>1. k * 1 <= k * max_seg_size /\ k * max_seg_size \in Nat
    BY ReceiverAssumption
  <2> DEFINE bytes == k * max_seg_size
  <2>2. bytes \in Nat /\ k <= bytes
    BY <2>1
  <2>3. Seg(k) = First + bytes
    BY DEF Seg
  <2> HIDE DEF bytes
  <2> QED BY <2>2, <2>3, ReceiverAssumption
<1>2. ASSUME NEW k \in Nat, NEW j \in Nat, k < j PROVE Seg(k) < Seg(j)
  <2>1. (k + 1) * max_seg_size <= j * max_seg_size
    BY <1>2, ReceiverAssumption, ProductMonotone
  <2>2. (k + 1) * max_seg_size = k * max_seg_size + max_seg_size
    BY ReceiverAssumption
  <2> DEFINE low == k * max_seg_size
             high == j * max_seg_size
  <2>3. low \in Nat /\ high \in Nat /\ low + max_seg_size <= high
    BY <2>1, <2>2, ReceiverAssumption
  <2>4. Seg(k) = First + low /\ Seg(j) = First + high
    BY DEF Seg
  <2> HIDE DEF low, high
  <2> QED BY <2>3, <2>4, ReceiverAssumption
<1>3. ASSUME NEW k \in Nat, NEW j \in Nat PROVE k < j <=> Seg(k) < Seg(j)
  <2>1. k < j \/ j < k \/ k = j
    OBVIOUS
  <2>2. Seg(k) \in Nat /\ Seg(j) \in Nat
    BY <1>1
  <2> QED BY <1>2, <2>1, <2>2
<1>4. ASSUME NEW k \in Nat, NEW j \in Nat, Seg(k) = Seg(j) PROVE k = j
  <2>1. k < j \/ j < k \/ k = j
    OBVIOUS
  <2>2. Seg(k) \in Nat /\ Seg(j) \in Nat
    BY <1>1
  <2> QED BY <1>2, <1>4, <2>1, <2>2
<1> QED BY <1>1, <1>3, <1>4

\* The numbers kept by a window that starts with segment p: all before it, and
\* those of its marked slots.
Numbers(slots, p) ==
  {k \in Nat : k < p \/ \E i \in 1 .. windowSize : k = p + i - 1 /\ slots[i].isPacketReceived}

\* What a window keeps.
KeptBy(slots, start) ==
  {s \in {First + k * max_seg_size : k \in 0 .. start} : s < start}
    \cup {slots[i].sequence_no : i \in (1 .. windowSize) \ Blanks(slots)}

LEMMA KeptByNumbers ==
  ASSUME NEW slots, NEW p \in Nat,
         \A i \in 1 .. windowSize : slots[i].sequence_no = Seg(p) + (i - 1) * max_seg_size
  PROVE  KeptBy(slots, Seg(p)) = {Seg(k) : k \in Numbers(slots, p)}
<1>1. ASSUME NEW i \in 1 .. windowSize
      PROVE  p + i - 1 \in Nat /\ slots[i].sequence_no = Seg(p + i - 1)
  <2>1. First + (p + i - 1) * max_seg_size
          = First + p * max_seg_size + (i - 1) * max_seg_size
    BY ReceiverAssumption, WindowNotEmpty
  <2> QED BY <2>1, WindowNotEmpty DEF Seg
<1>2. ASSUME NEW s \in KeptBy(slots, Seg(p)) PROVE \E k \in Numbers(slots, p) : s = Seg(k)
  <2>1. CASE s \in {First + k * max_seg_size : k \in 0 .. Seg(p)} /\ s < Seg(p)
    <3>1. PICK k \in 0 .. Seg(p) : s = Seg(k)
      BY <2>1 DEF Seg
    <3>2. k \in Nat /\ k < p
      BY <2>1, <3>1, SegProperties
    <3> QED BY <3>1, <3>2 DEF Numbers
  <2>2. CASE s \in {slots[i].sequence_no : i \in (1 .. windowSize) \ Blanks(slots)}
    <3>1. PICK i \in (1 .. windowSize) \ Blanks(slots) : s = slots[i].sequence_no
      BY <2>2
    <3>2. slots[i].isPacketReceived
      BY <3>1, Zenon DEF Blanks
    <3>3. p + i - 1 \in Numbers(slots, p)
      BY <1>1, <3>2 DEF Numbers
    <3> QED BY <1>1, <3>1, <3>3
  <2> QED BY <2>1, <2>2 DEF KeptBy
<1>3. ASSUME NEW k \in Numbers(slots, p) PROVE Seg(k) \in KeptBy(slots, Seg(p))
  <2>1. CASE k < p
    <3>1. k \in Nat /\ Seg(k) \in Nat /\ Seg(p) \in Nat /\ k <= Seg(k) /\ Seg(k) < Seg(p)
      BY <2>1, SegProperties DEF Numbers
    <3>2. k \in 0 .. Seg(p)
      BY <3>1
    <3> QED BY <3>1, <3>2 DEF KeptBy, Seg
  <2>2. CASE \E i \in 1 .. windowSize : k = p + i - 1 /\ slots[i].isPacketReceived
    <3>1. PICK i \in 1 .. windowSize : k = p + i - 1 /\ slots[i].isPacketReceived
      BY <2>2
    <3>2. i \in (1 .. windowSize) \ Blanks(slots)
      BY <3>1, Zenon DEF Blanks
    <3> QED BY <1>1, <3>1, <3>2 DEF KeptBy
  <2> QED BY <2>1, <2>2 DEF Numbers
<1> QED BY <1>2, <1>3

LEMMA KeptIsKeptBy == Kept = KeptBy(supportBuffer, initial_window_seq_no)
BY DEF Kept, KeptBy

LEMMA NumbersFinite ==
  ASSUME NEW slots, NEW p \in Nat
  PROVE  Numbers(slots, p) \subseteq Nat /\ IsFiniteSet(Numbers(slots, p))
<1>1. IsFiniteSet(0 .. p + windowSize)
  BY WindowNotEmpty, FS_Interval
<1>2. Numbers(slots, p) \subseteq 0 .. p + windowSize
  BY WindowNotEmpty DEF Numbers
<1> QED BY <1>1, <1>2, FS_Subset DEF Numbers

\* The first missing one of a finite set of segments is found among as many as there
\* are, and one more.
LEMMA FirstMissingNumber ==
  ASSUME NEW N, N \subseteq Nat, IsFiniteSet(N),
         NEW q \in Nat, q \notin N, \A k \in 0 .. q - 1 : k \in N
  PROVE  Abstract!FirstMissing({Seg(k) : k \in N}) = Seg(q)
<1> DEFINE K == {Seg(k) : k \in N}
           Missing == {First + k * max_seg_size : k \in 0 .. Cardinality(K)} \ K
<1>1. IsFiniteSet(K) /\ Cardinality(K) = Cardinality(N)
  <2> DEFINE f == [k \in N |-> Seg(k)]
  <2>1. f \in Bijection(N, K)
    <3>1. \A k, j \in N : f[k] = f[j] => k = j
      BY SegProperties
    <3>2. \A s \in K : \E k \in N : f[k] = s
      OBVIOUS
    <3>3. f \in [N -> K]
      OBVIOUS
    <3> HIDE DEF f, K
    <3> QED BY <3>1, <3>2, <3>3, Fun_IsBij
  <2> HIDE DEF f, K
  <2> QED BY <2>1, FS_Bijection DEF ExistsBijection
<1>2. Cardinality(K) \in Nat /\ q <= Cardinality(K)
  <2>1. IsFiniteSet(0 .. q - 1) /\ Cardinality(0 .. q - 1) = q
    BY FS_Interval
  <2>2. 0 .. q - 1 \subseteq N
    OBVIOUS
  <2>3. Cardinality(0 .. q - 1) <= Cardinality(N) /\ Cardinality(N) \in Nat
    BY <2>2, FS_Subset, FS_CardinalityType
  <2> QED BY <1>1, <2>1, <2>3
<1>3. Seg(q) \in Missing
  <2>1. q \in 0 .. Cardinality(K)
    BY <1>2
  <2>2. Seg(q) \notin K
    <3> SUFFICES ASSUME NEW k \in N, Seg(q) = Seg(k) PROVE FALSE
      OBVIOUS
    <3> QED BY SegProperties
  <2> HIDE DEF K
  <2> QED BY <2>1, <2>2 DEF Seg
<1>4. ASSUME NEW s \in Missing PROVE s \in Nat /\ Seg(q) <= s
  <2>1. PICK k \in 0 .. Cardinality(K) : s = Seg(k) /\ s \notin K
    BY DEF Seg
  <2>2. k \in Nat /\ k \notin N
    BY <1>2, <2>1
  <2>3. q <= k
    BY <2>2
  <2> QED BY <2>1, <2>2, <2>3, SegProperties
<1>5. Min(Missing) \in Missing /\ \A s \in Missing : Min(Missing) <= s
  <2>1. Missing \subseteq Nat /\ Missing # {}
    BY <1>3, <1>4
  <2> HIDE DEF Missing
  <2> QED BY <2>1, LeastNat
<1>6. Min(Missing) = Seg(q)
  <2> HIDE DEF Missing
  <2>1. Min(Missing) <= Seg(q) /\ Seg(q) <= Min(Missing) /\ Min(Missing) \in Nat /\ Seg(q) \in Nat
    BY <1>3, <1>4, <1>5
  <2> QED BY <2>1
<1>7. Abstract!FirstMissing(K) = Abstract!Min({First + k * max_seg_size : k \in 0 .. Abstract!Cardinality(K)} \ K)
  BY DEF Abstract!FirstMissing
<1> QED BY <1>6, <1>7, SameOperators

-----------------------------------------------------------------------------
(***************************************************************************)
(* The window, with what the refinement needs beside IInv: it starts at a  *)
(* segment of the stream, and at most one slot at its front is filled.     *)
(***************************************************************************)

Aligned == \E p \in Nat : initial_window_seq_no = Seg(p)

AtMostOneFilled == Min(Blanks(supportBuffer)) <= 2

RInv == IInv /\ Aligned /\ AtMostOneFilled

\* What is kept and acknowledged, in numbers.
LEMMA KeptInNumbers ==
  ASSUME RInv
  PROVE  \E p \in Nat :
           LET m == Min(Blanks(supportBuffer))
           IN  /\ initial_window_seq_no = Seg(p)
               /\ Kept = {Seg(k) : k \in Numbers(supportBuffer, p)}
               /\ m \in 1 .. windowSize
               /\ m <= 2
               /\ ack = Seg(p + m - 1)
               /\ ack = Abstract!FirstMissing(Kept)
<1> DEFINE m == Min(Blanks(supportBuffer))
<1>1. PICK p \in Nat : initial_window_seq_no = Seg(p)
  BY DEF RInv, Aligned
<1>2. \A i \in 1 .. windowSize :
        supportBuffer[i].sequence_no = Seg(p) + (i - 1) * max_seg_size
  BY <1>1 DEF RInv, IInv, SlotsConsecutive
<1>3. Kept = {Seg(k) : k \in Numbers(supportBuffer, p)}
  BY <1>1, <1>2, KeptByNumbers, KeptIsKeptBy
<1>4. /\ m \in 1 .. windowSize /\ m <= 2
      /\ \A i \in 1 .. m - 1 : supportBuffer[i].isPacketReceived
      /\ ~supportBuffer[m].isPacketReceived
      /\ ack = Seg(p) + (m - 1) * max_seg_size
  BY <1>1, AckFacts, FirstBlank DEF RInv, IInv, AckIsFirstBlank, AtMostOneFilled
<1> HIDE DEF m
<1>5. p + m - 1 \in Nat
  BY <1>4, WindowNotEmpty
<1>6. ack = Seg(p + m - 1)
  <2>1. First + (p + m - 1) * max_seg_size
          = First + p * max_seg_size + (m - 1) * max_seg_size
    BY <1>4, ReceiverAssumption, WindowNotEmpty
  <2> QED BY <1>4, <2>1 DEF Seg
<1>7. p + m - 1 \notin Numbers(supportBuffer, p)
  <2> SUFFICES ASSUME p + m - 1 \in Numbers(supportBuffer, p) PROVE FALSE
    OBVIOUS
  <2>1. ~(p + m - 1 < p)
    BY <1>4, WindowNotEmpty
  <2>2. PICK i \in 1 .. windowSize : p + m - 1 = p + i - 1 /\ supportBuffer[i].isPacketReceived
    BY <2>1 DEF Numbers
  <2>3. i = m
    BY <1>4, <2>2, WindowNotEmpty
  <2> QED BY <1>4, <2>2, <2>3
<1>8. ASSUME NEW k \in 0 .. (p + m - 1) - 1 PROVE k \in Numbers(supportBuffer, p)
  <2>1. CASE k < p
    BY <2>1 DEF Numbers
  <2>2. CASE k >= p
    <3>1. k - p + 1 \in 1 .. m - 1 /\ k - p + 1 \in 1 .. windowSize /\ k = p + (k - p + 1) - 1
      BY <1>4, <2>2, WindowNotEmpty
    <3> QED BY <1>4, <3>1 DEF Numbers
  <2> QED BY <1>5, <2>1, <2>2
<1>9. Abstract!FirstMissing(Kept) = Seg(p + m - 1)
  BY <1>3, <1>5, <1>7, <1>8, NumbersFinite, FirstMissingNumber
<1> QED BY <1>1, <1>3, <1>4, <1>6, <1>9 DEF m

\* A segment whose number is that of a slot is put in that slot; any other leaves the
\* slots as they are.
LEMMA MarkedNumbers ==
  ASSUME IInv, NEW seq \in SeqNos, NEW p \in Nat, initial_window_seq_no = Seg(p)
  PROVE  \/ \E i \in 1 .. windowSize :
              /\ seq = Seg(p + i - 1)
              /\ Numbers(Marked(seq), p) = Numbers(supportBuffer, p) \cup {p + i - 1}
         \/ /\ \A i \in 1 .. windowSize : seq # Seg(p + i - 1)
            /\ Numbers(Marked(seq), p) = Numbers(supportBuffer, p)
<1> DEFINE h == getSupportBufferIndex(seq)
<1>1. /\ seq \in Int /\ initial_window_seq_no \in Nat
      /\ max_seg_size \in Nat \ {0} /\ windowSize \in Nat \ {0}
  BY ReceiverAssumption, WindowNotEmpty DEF IInv, TypeOK
<1>2. \A i \in 1 .. windowSize :
        /\ p + i - 1 \in Nat
        /\ supportBuffer[i].sequence_no = Seg(p + i - 1)
        /\ Seg(p + i - 1) = initial_window_seq_no + (i - 1) * max_seg_size
  <2>1. ASSUME NEW i \in 1 .. windowSize
        PROVE  Seg(p + i - 1) = initial_window_seq_no + (i - 1) * max_seg_size
    <3>1. First + (p + i - 1) * max_seg_size
            = First + p * max_seg_size + (i - 1) * max_seg_size
      BY ReceiverAssumption, WindowNotEmpty
    <3> QED BY <3>1 DEF Seg
  <2> QED BY <1>1, <2>1 DEF IInv, SlotsConsecutive
<1>3. h > 0 => h \in 1 .. windowSize
  <2> SUFFICES ASSUME ~(seq < initial_window_seq_no) PROVE h \in 1 .. windowSize
    BY DEF getSupportBufferIndex
  <2> DEFINE distance == (seq - initial_window_seq_no) \div max_seg_size
  <2>1. distance \in Int
    BY <1>1
  <2>2. h = (distance % windowSize) + 1
    BY DEF getSupportBufferIndex
  <2> HIDE DEF distance, h
  <2> QED BY <1>1, <2>1, <2>2
<1>4. ASSUME NEW i \in 1 .. windowSize, seq = Seg(p + i - 1) PROVE h = i
  <2>0. i - 1 \in Nat /\ i - 1 < windowSize
    BY <1>1
  <2>1. seq = initial_window_seq_no + (i - 1) * max_seg_size
    BY <1>2, <1>4
  <2> DEFINE bytes == (i - 1) * max_seg_size
  <2>2. bytes \in Nat /\ bytes \div max_seg_size = i - 1
    BY <1>1, <2>0, DivExact
  <2>3. seq - initial_window_seq_no = bytes /\ ~(seq < initial_window_seq_no)
    <3>1. seq = initial_window_seq_no + bytes
      BY <2>1
    <3> HIDE DEF bytes
    <3> QED BY <1>1, <2>2, <3>1
  <2>4. h = ((bytes \div max_seg_size) % windowSize) + 1
    BY <2>3 DEF getSupportBufferIndex
  <2>5. (i - 1) % windowSize = i - 1
    BY <1>1, <2>0
  <2> HIDE DEF bytes, h
  <2> QED BY <1>1, <2>2, <2>4, <2>5
<1> HIDE DEF h
<1>5. CASE h > 0 /\ supportBuffer[h].sequence_no = seq
  <2>1. h \in 1 .. windowSize /\ seq = Seg(p + h - 1)
    BY <1>2, <1>3, <1>5
  <2>2. Marked(seq) = [supportBuffer EXCEPT ![h].isPacketReceived = TRUE]
    BY <1>5 DEF Marked, h
  <2>3. \A i \in 1 .. windowSize :
          Marked(seq)[i].isPacketReceived <=> i = h \/ supportBuffer[i].isPacketReceived
    BY <2>1, <2>2 DEF IInv, TypeOK
  <2>4. Numbers(Marked(seq), p) = Numbers(supportBuffer, p) \cup {p + h - 1}
    BY <1>1, <1>2, <2>1, <2>3 DEF Numbers
  <2> QED BY <2>1, <2>4
<1>6. CASE ~(h > 0 /\ supportBuffer[h].sequence_no = seq)
  <2>1. Marked(seq) = supportBuffer
    BY <1>6 DEF Marked, h
  <2>2. ASSUME NEW i \in 1 .. windowSize, seq = Seg(p + i - 1) PROVE FALSE
    <3>1. h = i /\ i > 0
      BY <1>1, <1>4, <2>2
    <3> QED BY <1>2, <1>6, <2>2, <3>1
  <2> QED BY <2>1, <2>2
<1> QED BY <1>5, <1>6

\* Erasing the filled front and appending new slots keeps what is kept, the alignment
\* of the window, and at most one filled slot at its front.
LEMMA ErasureKeeps ==
  ASSUME IInv, NEW seq \in SeqNos, Receive(seq), NEW p \in Nat, initial_window_seq_no = Seg(p)
  PROVE  /\ \E q \in Nat :
              /\ initial_window_seq_no' = Seg(q)
              /\ Numbers(supportBuffer', q) = Numbers(Marked(seq), p)
         /\ AtMostOneFilled'
<1> DEFINE K == Marked(seq)
           n == blankSupportBufferIndex(K)
<1>1. eraseInitialNonEmptySupportBuffer(K)
  BY DEF Receive
<1>2. /\ n \in 0 .. windowSize /\ windowSize \in Nat \ {0}
      /\ \A i \in 1 .. n : K[i].isPacketReceived
      /\ n = windowSize <=> Blanks(K) = {}
      /\ n < windowSize => n + 1 = Min(Blanks(K)) /\ ~K[n + 1].isPacketReceived
  BY FilledFront, WindowNotEmpty
<1>3. CASE n > 1 \/ n = windowSize
  <2>1. /\ n \in 1 .. windowSize
        /\ initial_window_seq_no' = initial_window_seq_no + n * max_seg_size
        /\ \A i \in 1 .. windowSize :
             /\ i + n <= windowSize => supportBuffer'[i] = K[i + n]
             /\ i + n > windowSize => ~supportBuffer'[i].isPacketReceived
    BY <1>1, <1>3, WindowMoves
  <2> HIDE DEF K, n
  <2>2. p + n \in Nat /\ initial_window_seq_no' = Seg(p + n)
    <3>1. First + (p + n) * max_seg_size = First + p * max_seg_size + n * max_seg_size
      BY <1>2, ReceiverAssumption
    <3> QED BY <1>2, <2>1, <3>1 DEF Seg
  <2>3. ASSUME NEW k \in Numbers(supportBuffer', p + n) PROVE k \in Numbers(K, p)
    <3>1. CASE k < p
      BY <3>1 DEF Numbers
    <3>2. CASE k >= p /\ k < p + n
      <4>1. k \in Nat /\ k - p + 1 \in 1 .. n /\ k - p + 1 \in 1 .. windowSize /\ k = p + (k - p + 1) - 1
        BY <1>2, <3>2 DEF Numbers
      <4> QED BY <1>2, <4>1 DEF Numbers
    <3>3. CASE k >= p + n
      <4>1. k \in Nat /\ ~(k < p + n)
        BY <1>2, <3>3 DEF Numbers
      <4>2. PICK i \in 1 .. windowSize : k = p + n + i - 1 /\ supportBuffer'[i].isPacketReceived
        BY <4>1 DEF Numbers
      <4>3. i + n <= windowSize /\ K[i + n].isPacketReceived
        BY <1>2, <2>1, <4>2
      <4>4. i + n \in 1 .. windowSize /\ k = p + (i + n) - 1
        BY <1>2, <4>2, <4>3
      <4> QED BY <4>1, <4>3, <4>4 DEF Numbers
    <3>4. k \in Nat
      BY DEF Numbers
    <3> QED BY <1>2, <3>1, <3>2, <3>3, <3>4
  <2>4. ASSUME NEW k \in Numbers(K, p) PROVE k \in Numbers(supportBuffer', p + n)
    <3>1. CASE k < p + n
      BY <3>1 DEF Numbers
    <3>2. CASE k >= p + n
      <4>1. k \in Nat /\ ~(k < p)
        BY <1>2, <3>2 DEF Numbers
      <4>2. PICK i \in 1 .. windowSize : k = p + i - 1 /\ K[i].isPacketReceived
        BY <4>1 DEF Numbers
      <4>3. i - n \in 1 .. windowSize /\ (i - n) + n = i /\ (i - n) + n <= windowSize
        BY <1>2, <3>2, <4>2
      <4>4. supportBuffer'[i - n] = K[i] /\ k = p + n + (i - n) - 1
        BY <1>2, <2>1, <4>2, <4>3
      <4> QED BY <4>1, <4>2, <4>3, <4>4 DEF Numbers
    <3>3. k \in Nat
      BY DEF Numbers
    <3> QED BY <1>2, <3>1, <3>2, <3>3
  <2>5. ~supportBuffer'[1].isPacketReceived
    <3>1. CASE n = windowSize
      BY <1>2, <2>1, <3>1
    <3>2. CASE n < windowSize
      <4>1. 1 + n <= windowSize /\ 1 \in 1 .. windowSize /\ 1 + n = n + 1
        BY <1>2, <3>2
      <4>2. supportBuffer'[1] = K[n + 1]
        BY <2>1, <4>1
      <4> QED BY <1>2, <3>2, <4>2
    <3> QED BY <1>2, <3>1, <3>2
  <2>6. 1 \in Blanks(supportBuffer')
    BY <1>2, <2>5 DEF Blanks
  <2>7. Min(Blanks(supportBuffer')) \in 1 .. windowSize /\ Min(Blanks(supportBuffer')) <= 1
    BY <2>6, FirstBlank
  <2>8. AtMostOneFilled'
    BY <1>2, <2>7 DEF AtMostOneFilled, Blanks
  <2>9. Numbers(supportBuffer', p + n) = Numbers(K, p)
    BY <2>3, <2>4
  <2> QED BY <2>2, <2>8, <2>9 DEF K
<1>4. CASE ~(n > 1 \/ n = windowSize)
  <2>1. supportBuffer' = K /\ initial_window_seq_no' = initial_window_seq_no
    BY <1>1, <1>4 DEF eraseInitialNonEmptySupportBuffer
  <2>2. Min(Blanks(K)) <= 2
    <3> HIDE DEF K, n
    <3> QED BY <1>2, <1>4
  <2>3. AtMostOneFilled'
    BY <2>1, <2>2 DEF AtMostOneFilled, Blanks
  <2> QED BY <2>1, <2>3
<1> QED BY <1>3, <1>4

-----------------------------------------------------------------------------
LEMMA RInvInit == Init => RInv
<1> SUFFICES ASSUME Init PROVE RInv
  OBVIOUS
<1>1. IInv
  BY InitInv
<1>2. Aligned
  <2>1. initial_window_seq_no = Seg(0)
    BY ReceiverAssumption DEF Init, Seg
  <2> QED BY <2>1 DEF Aligned
<1>3. AtMostOneFilled
  <2>1. supportBuffer = NewSlots(First) /\ First \in Nat
    BY ReceiverAssumption DEF Init
  <2>2. 1 \in Blanks(supportBuffer)
    <3>1. 1 \in 1 .. windowSize
      BY WindowNotEmpty
    <3>2. ~supportBuffer[1].isPacketReceived
      BY <2>1, <3>1, NewSlotsProperties
    <3> QED BY <3>1, <3>2 DEF Blanks
  <2>3. Min(Blanks(supportBuffer)) \in 1 .. windowSize /\ Min(Blanks(supportBuffer)) <= 1
    BY <2>2, FirstBlank
  <2> QED BY <2>3, WindowNotEmpty DEF AtMostOneFilled
<1> QED BY <1>1, <1>2, <1>3 DEF RInv

LEMMA RInvStep ==
  ASSUME RInv, NEW seq \in SeqNos, Receive(seq)
  PROVE  RInv'
<1>1. PICK p \in Nat : initial_window_seq_no = Seg(p)
  BY DEF RInv, Aligned
<1>2. PICK q \in Nat : initial_window_seq_no' = Seg(q)
  BY <1>1, ErasureKeeps DEF RInv
<1>3. Aligned'
  BY <1>2 DEF Aligned, Seg
<1>4. AtMostOneFilled'
  BY <1>1, ErasureKeeps DEF RInv
<1>5. IInv'
  BY StepInv DEF RInv
<1> QED BY <1>3, <1>4, <1>5 DEF RInv

LEMMA AckIsFirstMissing == RInv => ack = Abstract!FirstMissing(Kept)
<1> SUFFICES ASSUME RInv PROVE ack = Abstract!FirstMissing(Kept)
  OBVIOUS
<1> QED BY KeptInNumbers

LEMMA InitRefines == Init => Abstract!Init
<1> SUFFICES ASSUME Init PROVE Kept = {} /\ ack = First /\ arrived = {}
  BY DEF Abstract!Init
<1>1. \A i \in 1 .. windowSize : i \in Blanks(supportBuffer)
  BY NewSlotsProperties, ReceiverAssumption DEF Init, Blanks
<1>2. \A k \in 0 .. First : ~(First + k * max_seg_size < First)
  <2> SUFFICES ASSUME NEW k \in 0 .. First PROVE ~(First + k * max_seg_size < First)
    OBVIOUS
  <2>1. k \in Nat /\ 0 <= k
    BY ReceiverAssumption
  <2>2. Seg(k) >= Seg(0) /\ Seg(0) = First
    BY <2>1, SegProperties, ReceiverAssumption DEF Seg
  <2>3. Seg(k) \in Nat /\ Seg(0) \in Nat
    BY <2>1, SegProperties
  <2> QED BY <2>2, <2>3 DEF Seg
<1> QED BY <1>1, <1>2 DEF Init, Kept

\* A segment that arrives is kept if it has a slot; if it has none it is not one that
\* the receiver has to keep.
LEMMA StepRefines ==
  ASSUME RInv, NEW seq \in SeqNos, Receive(seq), IInv',
         ack' = Abstract!FirstMissing(Kept')
  PROVE  Abstract!Arrive(seq)
<1> DEFINE m == Min(Blanks(supportBuffer))
<1>1. PICK p \in Nat :
        /\ initial_window_seq_no = Seg(p)
        /\ Kept = {Seg(k) : k \in Numbers(supportBuffer, p)}
        /\ m \in 1 .. windowSize /\ m <= 2
        /\ ack = Seg(p + m - 1)
  BY KeptInNumbers
<1>2. \A i \in 1 .. m - 1 : supportBuffer[i].isPacketReceived
  BY AckFacts DEF RInv
<1> HIDE DEF m
<1>3. Kept' = {Seg(k) : k \in Numbers(Marked(seq), p)}
  <2>1. PICK q \in Nat :
          /\ initial_window_seq_no' = Seg(q)
          /\ Numbers(supportBuffer', q) = Numbers(Marked(seq), p)
    BY <1>1, ErasureKeeps DEF RInv
  <2>2. \A i \in 1 .. windowSize :
          supportBuffer'[i].sequence_no = Seg(q) + (i - 1) * max_seg_size
    BY <2>1 DEF IInv, SlotsConsecutive
  <2>3. Kept' = KeptBy(supportBuffer', initial_window_seq_no')
    BY DEF Kept, KeptBy, Blanks
  <2> QED BY <2>1, <2>2, <2>3, KeptByNumbers
<1>4. windowSize \in Nat \ {0} /\ p \in Nat
  BY WindowNotEmpty
<1>5. \A j \in Nat : ack + j * max_seg_size = Seg(p + m - 1 + j) /\ p + m - 1 + j \in Nat
  <2> SUFFICES ASSUME NEW j \in Nat
               PROVE  ack + j * max_seg_size = Seg(p + m - 1 + j) /\ p + m - 1 + j \in Nat
    OBVIOUS
  <2>1. First + (p + m - 1 + j) * max_seg_size
          = First + (p + m - 1) * max_seg_size + j * max_seg_size
    BY <1>1, <1>4, ReceiverAssumption
  <2> QED BY <1>1, <1>4, <2>1 DEF Seg
<1>6. \/ seq \in Abstract!Ahead(windowSize) /\ Kept' = Kept \cup {seq}
      \/ seq \notin Abstract!Guaranteed \ Kept /\ Kept' = Kept
  <2>1. CASE \E i \in 1 .. windowSize :
               /\ seq = Seg(p + i - 1)
               /\ Numbers(Marked(seq), p) = Numbers(supportBuffer, p) \cup {p + i - 1}
    <3>1. PICK i \in 1 .. windowSize :
            /\ seq = Seg(p + i - 1)
            /\ Numbers(Marked(seq), p) = Numbers(supportBuffer, p) \cup {p + i - 1}
      BY <2>1
    <3>2. Kept' = Kept \cup {seq}
      BY <1>1, <1>3, <3>1
    <3>3. CASE i >= m
      <4>1. i - m \in 0 .. windowSize - 1 /\ i - m \in Nat /\ p + m - 1 + (i - m) = p + i - 1
        BY <1>1, <1>4, <3>3
      <4>2. seq = ack + (i - m) * max_seg_size
        BY <1>5, <3>1, <4>1
      <4> QED BY <3>2, <4>1, <4>2 DEF Abstract!Ahead
    <3>4. CASE i < m
      <4>1. i \in 1 .. m - 1 /\ p + i - 1 \in Nat
        BY <1>1, <1>4, <3>4
      <4>2. p + i - 1 \in Numbers(supportBuffer, p)
        BY <1>2, <4>1 DEF Numbers
      <4>3. seq \in Kept
        BY <1>1, <3>1, <4>2
      <4> QED BY <3>2, <4>3
    <3> QED BY <1>1, <1>4, <3>3, <3>4
  <2>2. CASE /\ \A i \in 1 .. windowSize : seq # Seg(p + i - 1)
             /\ Numbers(Marked(seq), p) = Numbers(supportBuffer, p)
    <3>1. Kept' = Kept
      BY <1>1, <1>3, <2>2
    <3>2. seq \notin Abstract!Guaranteed
      <4> SUFFICES ASSUME NEW j \in 0 .. (IF windowSize > 1 THEN windowSize - 1 ELSE 1) - 1,
                          seq = ack + j * max_seg_size
                   PROVE  FALSE
        BY <1>4 DEF Abstract!Guaranteed, Abstract!Ahead
      <4>1. j \in Nat /\ m + j \in 1 .. windowSize /\ p + (m + j) - 1 = p + m - 1 + j
        BY <1>1, <1>4
      <4> QED BY <1>5, <2>2, <4>1
    <3> QED BY <3>1, <3>2
  <2> QED BY <1>1, <2>1, <2>2, MarkedNumbers DEF RInv
<1>7. arrived' = arrived \cup {seq}
  BY DEF Receive
<1> QED BY <1>6, <1>7 DEF Abstract!Arrive

-----------------------------------------------------------------------------
\* The window starts at a segment and has at most one filled slot at its front.
THEOREM RefinementInvariant == Spec => []RInv
<1>1. Init => RInv
  BY RInvInit
<1>2. RInv /\ [Next]_vars => RInv'
  <2> SUFFICES ASSUME RInv, [Next]_vars PROVE RInv'
    OBVIOUS
  <2>1. CASE Next
    BY <2>1, RInvStep DEF Next
  <2>2. CASE UNCHANGED vars
    BY <2>2 DEF vars, RInv, IInv, TypeOK, SlotsConsecutive, PrefixArrived, MarkedArrived,
                AckIsFirstBlank, ByteArrived, Blanks, Aligned, Seg, AtMostOneFilled
  <2> QED BY <2>1, <2>2
<1> QED BY <1>1, <1>2, PTL DEF Spec

\* The receive window of Server.cpp (initiateFlow) implements the in-order receiver: a
\* segment inside the window is kept until it is acknowledged, one outside leaves no
\* trace, and each ACK names the first one missing.
THEOREM ReceiverRefines == Spec => ImplementsInOrderReceiver
<1> DEFINE Acked == ack = Abstract!FirstMissing(Kept)
<1>1. Init => Abstract!Init
  BY InitRefines
<1>2. RInv => Acked
  BY AckIsFirstMissing
<1>3. RInv /\ RInv' /\ Acked' /\ [Next]_vars => [Abstract!Next]_(Abstract!vars)
  <2> SUFFICES ASSUME RInv, RInv', Acked', [Next]_vars
               PROVE  [Abstract!Next]_(Abstract!vars)
    OBVIOUS
  <2>1. CASE Next
    <3>1. PICK seq \in SeqNos : Receive(seq)
      BY <2>1 DEF Next
    <3>2. ack' = Abstract!FirstMissing(Kept')
      BY DEF Abstract!FirstMissing, Acked
    <3>3. Abstract!Arrive(seq)
      BY <3>1, <3>2, StepRefines DEF RInv
    <3> QED BY <3>3 DEF Abstract!Next
  <2>2. CASE UNCHANGED vars
    BY <2>2 DEF vars, Abstract!vars, Kept, Blanks
  <2> QED BY <2>1, <2>2
<1> HIDE DEF Acked
<1> QED BY <1>1, <1>2, <1>3, RefinementInvariant, PTL DEF Spec, ImplementsInOrderReceiver, Abstract!Spec
=============================================================================
