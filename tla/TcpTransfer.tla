---------------------------- MODULE TcpTransfer ----------------------------
(***************************************************************************)
(* A transfer between the client and the server of SYSTEM_LAB/TCP/3.1,     *)
(* after their handshake: the client's main thread (initiateFlow,          *)
(* handleRetransmissions), the thread that receives acknowledgements, one  *)
(* timer thread per segment, and the server (TcpReceiver).                 *)
(*                                                                         *)
(* Segments are represented by their sequence numbers and ACKs by their    *)
(* acknowledgement numbers: nothing else in them is read after the         *)
(* handshake.                                                              *)
(***************************************************************************)
EXTENDS TcpConnection

CONSTANTS
  AWS,            \* the window the server advertises, its MAX_CAPACITY
  max_seg_size,   \* agreed in the handshake
  First,          \* client_nextSeq_no when the handshake is over
  DupAcks,        \* duplicate ACKs that start a fast retransmission; 3 in the code
  MaxSeq,         \* bound: the user continues up to this sequence number,
  MaxInFlight     \* bound: and with at most this many datagrams under way

ASSUME TransferAssumption ==
  /\ AWS \in Nat /\ max_seg_size \in Nat \ {0} /\ 2 * max_seg_size <= AWS
  /\ First \in Nat \ {0}
  /\ DupAcks \in Nat \ {0}

VARIABLES
  \* the client's main thread
  cwnd, SSTHRESH,
  initial_window_seq_no,  \* the first one of the current window
  seq_no,                 \* handleRetransmissions' local of this name
  \* shared by the client's threads
  isPacketReceived,       \* per segment of the window: acknowledged (supportBuffer)
  ack_counter, FAST_RETRANSMIT_MODE, ACK_TIMEOUT,
  sequence_no_to_be_retransmitted,
  receivedAckNumber,      \* the last ACK received, also in ack_msg
  staleIds,               \* keys of seq_thread_ids whose thread has ended
  timer,                  \* per segment of the window, its timer thread
  \* the receive thread
  receiver, prev_ack, dup_ack,
  \* the server
  slots, slotsFrom, slotsTo, serverAck, arrived

main     == <<pc, cwnd, SSTHRESH, client_nextSeq_no, initial_window_seq_no, seq_no>>
flags    == <<FAST_RETRANSMIT_MODE, ACK_TIMEOUT, sequence_no_to_be_retransmitted>>
marks    == <<isPacketReceived, ack_counter>>
acks     == <<receiver, prev_ack, dup_ack, receivedAckNumber>>
server   == <<slots, slotsFrom, slotsTo, serverAck, arrived>>
vars     == <<main, flags, marks, acks, staleIds, timer, server, network>>

Server == INSTANCE TcpReceiver WITH
  MAX_CAPACITY <- AWS, SeqNos <- Nat, supportBuffer <- slots,
  initial_window_seq_no <- slotsFrom, client_nextSeq_no <- slotsTo, ack <- serverAck

NoAck == -1

minimum(x, y) == IF x > y THEN y ELSE x
maximum(x, y) == IF x > y THEN x ELSE y

windowSize == Len(isPacketReceived)
Window     == 1 .. windowSize

\* The sequence number of the i-th segment of the window, and the ACK it awaits.
SeqNoOf(i) == initial_window_seq_no + (i - 1) * max_seg_size
AckNoOf(i) == SeqNoOf(i) + max_seg_size

InWindow(seq)   == \E i \in Window : SeqNoOf(i) = seq
IndexOf(seq)    == CHOOSE i \in Window : SeqNoOf(i) = seq
isAckReceived(seq) == InWindow(seq) /\ isPacketReceived[IndexOf(seq)]

Unacked  == {i \in Window : ~isPacketReceived[i]}
Least(S) == CHOOSE i \in S : \A j \in S : i <= j

\* Mutant of getNextTobeSentPacket: the next new segment.
NextNewPacket == client_nextSeq_no

getNextTobeSentPacket ==
  IF Unacked = {} THEN client_nextSeq_no ELSE SeqNoOf(Least(Unacked))

\* Mutants of getNewSSthresh: no lower limit of two segments; * for /.
HalfWindow == cwnd \div 2
DoubleWindow == maximum(2 * max_seg_size, cwnd * 2)

getNewSSthresh == maximum(2 * max_seg_size, cwnd \div 2)

Init ==
  /\ pc = "top"
  /\ cwnd = max_seg_size
  /\ SSTHRESH = AWS \div 2
  /\ client_nextSeq_no = First
  /\ initial_window_seq_no = First
  /\ seq_no = First
  /\ isPacketReceived = <<>>
  /\ ack_counter = 0
  /\ FAST_RETRANSMIT_MODE = FALSE
  /\ ACK_TIMEOUT = FALSE
  /\ sequence_no_to_be_retransmitted = NoAck
  /\ receivedAckNumber = 0
  /\ staleIds = {}
  /\ timer = <<>>
  /\ receiver = "off" /\ prev_ack = NoAck /\ dup_ack = 0
  /\ Server!Init
  /\ toServer = <<>> /\ toClient = <<>> /\ losses = 0

-----------------------------------------------------------------------------
(***************************************************************************)
(* The client's main thread.                                               *)
(***************************************************************************)

\* The top of initiateFlow's loop: a window of new segments is built
\* (populateBuffer) and sent, a timer is started for each, and the receive
\* thread is started.
SendWindow ==
  /\ pc = "top"
  /\ pc' = "wait"
  /\ FAST_RETRANSMIT_MODE' = FALSE
  /\ ACK_TIMEOUT' = FALSE
  /\ ack_counter' = 0
  /\ initial_window_seq_no' = client_nextSeq_no
  /\ LET size == cwnd \div max_seg_size
     IN  /\ isPacketReceived' = [i \in 1 .. size |-> FALSE]
         /\ timer' = [i \in 1 .. size |-> "asleep"]
         /\ client_nextSeq_no' = client_nextSeq_no + size * max_seg_size
         /\ toServer' = toServer \o
              [i \in 1 .. size |-> client_nextSeq_no + (i - 1) * max_seg_size]
  /\ receiver' = "recv" /\ prev_ack' = NoAck /\ dup_ack' = 0
  /\ UNCHANGED <<cwnd, SSTHRESH, seq_no, sequence_no_to_be_retransmitted,
                 receivedAckNumber, staleIds, server, toClient, losses>>

\* The busy wait for a duplicate ACK, a timeout or the last ACK of the window.
LeaveWait ==
  /\ pc = "wait"
  /\ FAST_RETRANSMIT_MODE \/ ACK_TIMEOUT \/ ack_counter = windowSize
  /\ pc' = "branch"
  /\ UNCHANGED <<cwnd, SSTHRESH, client_nextSeq_no, initial_window_seq_no, seq_no,
                 flags, marks, acks, staleIds, timer, server, network>>

\* The end of an iteration: killTimerThreads, and the receive thread is
\* cancelled.  The user's answer comes after the cancelled threads have ended.
EndIteration ==
  /\ pc' = "prompt"
  /\ timer' = [i \in Window |-> "off"]
  /\ receiver' = "off"
  /\ staleIds' = staleIds \cup {SeqNoOf(i) : i \in Window}
  /\ UNCHANGED <<initial_window_seq_no, seq_no, flags, marks, prev_ack, dup_ack,
                 receivedAckNumber, server, network>>

\* Mutant of WindowAcked: the ACK before the last one is used.
WindowAckedByPrevious ==
  /\ pc = "branch" /\ ~FAST_RETRANSMIT_MODE /\ ack_counter = windowSize
  /\ LET grown == IF cwnd < SSTHRESH
                  THEN minimum(cwnd + ack_counter * max_seg_size, SSTHRESH)
                  ELSE cwnd + max_seg_size
     IN  cwnd' = minimum(grown, AWS)
  /\ client_nextSeq_no' = prev_ack
  /\ SSTHRESH' = SSTHRESH
  /\ EndIteration

\* Every segment of the window is acknowledged: slow start below the threshold,
\* congestion avoidance above it.
WindowAcked ==
  /\ pc = "branch" /\ ~FAST_RETRANSMIT_MODE /\ ack_counter = windowSize
  /\ LET grown == IF cwnd < SSTHRESH
                  THEN minimum(cwnd + ack_counter * max_seg_size, SSTHRESH)
                  ELSE cwnd + max_seg_size
     IN  cwnd' = minimum(grown, AWS)
  /\ client_nextSeq_no' = receivedAckNumber
  /\ SSTHRESH' = SSTHRESH
  /\ EndIteration

\* A timer has fired: start again from the first segment without an ACK.
WindowTimedOut ==
  /\ pc = "branch" /\ ~FAST_RETRANSMIT_MODE /\ ack_counter # windowSize
  /\ ACK_TIMEOUT
  /\ client_nextSeq_no' = getNextTobeSentPacket
  /\ SSTHRESH' = getNewSSthresh
  /\ cwnd' = max_seg_size
  /\ EndIteration

StartRetransmission ==
  /\ pc = "branch" /\ FAST_RETRANSMIT_MODE
  /\ pc' = "resend"
  /\ seq_no' = sequence_no_to_be_retransmitted
  /\ UNCHANGED <<cwnd, SSTHRESH, client_nextSeq_no, initial_window_seq_no,
                 flags, marks, acks, staleIds, timer, server, network>>

\* The condition of handleRetransmissions' loop, for the next seq_no.
RetransmissionLoop(next) ==
  pc' = IF next < client_nextSeq_no /\ ~ACK_TIMEOUT THEN "resend" ELSE "resent"

\* pthread_cancel(seq_thread_ids[seq]).  Its insert never replaces an entry, so
\* the timer of a segment that is sent again in a later window is not reached.
\* A sleeping thread ends; one that has woken up ends at its next output, or has
\* passed it.
CancelTimer(seq) ==
  \/ /\ InWindow(seq) /\ seq \notin staleIds
     /\ timer' = [timer EXCEPT ![IndexOf(seq)] = "off"]
  \/ /\ InWindow(seq) => seq \in staleIds \/ timer[IndexOf(seq)] = "firing"
     /\ timer' = timer

HasThread(seq) == seq \in staleIds \/ InWindow(seq)

\* One turn of the loop: cancel the segment's timer and send it again, if it
\* belongs to the window.  The new timer thread is given a message instead of a
\* support record: it reads the sequence number 0, does not sleep, finds 0
\* acknowledged long ago and cancels the timer of 0, which does not exist.
\* Cancelling a thread that does not exist is undefined: it is ignored here,
\* and ends the client in Crash.
Resend ==
  /\ pc = "resend"
  /\ CancelTimer(seq_no)
  /\ staleIds' = IF HasThread(seq_no) THEN staleIds ELSE staleIds \cup {seq_no}
  /\ IF InWindow(seq_no)
     THEN /\ toServer' = Append(toServer, seq_no)
          /\ pc' = "await"
     ELSE /\ toServer' = toServer
          /\ RetransmissionLoop(seq_no)
  /\ UNCHANGED <<cwnd, SSTHRESH, client_nextSeq_no, initial_window_seq_no, seq_no,
                 flags, marks, acks, server, toClient, losses>>

Crash ==
  /\ pc = "resend"
  /\ InWindow(seq_no) \/ ~HasThread(seq_no)
  /\ pc' = "crashed"
  /\ receiver' = "off" /\ timer' = [i \in Window |-> "off"]
  /\ UNCHANGED <<cwnd, SSTHRESH, client_nextSeq_no, initial_window_seq_no, seq_no,
                 flags, marks, prev_ack, dup_ack, receivedAckNumber, staleIds,
                 server, network>>

\* The busy wait for the ACK of what was sent again.
LeaveAwait ==
  /\ pc = "await"
  /\ ACK_TIMEOUT \/ isAckReceived(seq_no)
  /\ seq_no' = IF isAckReceived(seq_no) THEN receivedAckNumber ELSE seq_no
  /\ RetransmissionLoop(seq_no')
  /\ UNCHANGED <<cwnd, SSTHRESH, client_nextSeq_no, initial_window_seq_no,
                 flags, marks, acks, staleIds, timer, server, network>>

\* After handleRetransmissions.
EndRetransmission ==
  /\ pc = "resent"
  /\ SSTHRESH' = getNewSSthresh
  /\ IF ACK_TIMEOUT
     THEN cwnd' = max_seg_size /\ client_nextSeq_no' = getNextTobeSentPacket
     ELSE cwnd' = SSTHRESH' /\ client_nextSeq_no' = client_nextSeq_no
  /\ EndIteration

\* The user answers 1, or something else and the program ends.
Answer ==
  /\ pc = "prompt"
  /\ \/ /\ pc' = "top"
        /\ client_nextSeq_no <= MaxSeq
        /\ Len(toServer) + Len(toClient) <= MaxInFlight
     \/ pc' = "stopped"
  /\ UNCHANGED <<cwnd, SSTHRESH, client_nextSeq_no, initial_window_seq_no, seq_no,
                 flags, marks, acks, staleIds, timer, server, network>>

Main ==
  \/ SendWindow \/ LeaveWait \/ WindowAcked \/ WindowTimedOut
  \/ StartRetransmission \/ Resend \/ Crash \/ LeaveAwait \/ EndRetransmission

-----------------------------------------------------------------------------
(***************************************************************************)
(* The receive thread (receiveAck).                                        *)
(***************************************************************************)
ReceiveAck ==
  /\ receiver = "recv" /\ toClient # <<>>
  /\ receivedAckNumber' = Head(toClient)
  /\ toClient' = Tail(toClient)
  /\ receiver' = "mark"
  /\ UNCHANGED <<main, flags, marks, prev_ack, dup_ack, staleIds, timer, server,
                 toServer, losses>>

\* Mutant of Covered: an ACK covers the segment it asks for.
CoveredInclusive == {i \in Unacked : SeqNoOf(i) <= receivedAckNumber /\ ~ACK_TIMEOUT}

\* The segments markAckReceived has still to mark.
Covered == {i \in Unacked : AckNoOf(i) <= receivedAckNumber /\ ~ACK_TIMEOUT}

\* The counter and the mark change in one step: no thread reads both.
MarkAckReceived ==
  /\ receiver = "mark" /\ Covered # {}
  /\ isPacketReceived' = [isPacketReceived EXCEPT ![Least(Covered)] = TRUE]
  /\ ack_counter' = ack_counter + 1
  /\ receiver' = "cancel"
  /\ UNCHANGED <<main, flags, prev_ack, dup_ack, receivedAckNumber, staleIds, timer,
                 server, network>>

\* Mutant of CancelMarkedTimer: the next segment's timer is cancelled.
CancelNextTimer ==
  /\ receiver = "cancel"
  /\ CancelTimer(AckNoOf(ack_counter))
  /\ receiver' = "mark"
  /\ UNCHANGED <<main, flags, marks, prev_ack, dup_ack, receivedAckNumber, staleIds,
                 server, network>>

\* Then the timer of the marked segment is cancelled.  Segments are marked in
\* order, so that it is the ack_counter-th one.
CancelMarkedTimer ==
  /\ receiver = "cancel"
  /\ CancelTimer(SeqNoOf(ack_counter))
  /\ receiver' = "mark"
  /\ UNCHANGED <<main, flags, marks, prev_ack, dup_ack, receivedAckNumber, staleIds,
                 server, network>>

CountDuplicate ==
  /\ receiver = "mark" /\ Covered = {}
  /\ receiver' = "recv"
  /\ dup_ack' = IF prev_ack = receivedAckNumber THEN dup_ack + 1 ELSE 0
  /\ prev_ack' = receivedAckNumber
  /\ IF dup_ack' >= DupAcks
     THEN /\ sequence_no_to_be_retransmitted' = receivedAckNumber
          /\ FAST_RETRANSMIT_MODE' = TRUE
     ELSE UNCHANGED <<sequence_no_to_be_retransmitted, FAST_RETRANSMIT_MODE>>
  /\ UNCHANGED <<main, marks, receivedAckNumber, ACK_TIMEOUT, staleIds, timer,
                 server, network>>

ReceiveThread == ReceiveAck \/ MarkAckReceived \/ CancelMarkedTimer \/ CountDuplicate

-----------------------------------------------------------------------------
(***************************************************************************)
(* The timer threads (startDataTimer).  Their sleeps differ by a second, in *)
(* the order of the segments.                                              *)
(***************************************************************************)
WakeUp(i) ==
  /\ timer[i] = "asleep"
  /\ \A j \in 1 .. i - 1 : timer[j] # "asleep"
  /\ timer' = [timer EXCEPT ![i] = IF isPacketReceived[i] THEN "off" ELSE "firing"]
  /\ UNCHANGED <<main, flags, marks, acks, staleIds, server, network>>

Fire(i) ==
  /\ timer[i] = "firing"
  /\ timer' = [timer EXCEPT ![i] = "off"]
  /\ ACK_TIMEOUT' = TRUE
  /\ sequence_no_to_be_retransmitted' = SeqNoOf(i)
  /\ UNCHANGED <<main, FAST_RETRANSMIT_MODE, marks, acks, staleIds, server, network>>

Timers == \E i \in Window : WakeUp(i) \/ Fire(i)

-----------------------------------------------------------------------------
(***************************************************************************)
(* The server.                                                             *)
(***************************************************************************)
ServerReceives ==
  /\ toServer # <<>>
  /\ Server!Receive(Head(toServer))
  /\ toServer' = Tail(toServer)
  /\ toClient' = Append(toClient, serverAck')
  /\ UNCHANGED <<main, flags, marks, acks, staleIds, timer, losses>>

Next ==
  \/ Main \/ Answer \/ ReceiveThread \/ Timers \/ ServerReceives
  \/ Lose /\ UNCHANGED <<main, flags, marks, acks, staleIds, timer, server>>

Spec == Init /\ [][Next]_vars

\* Every thread is scheduled, and what is not lost arrives.  Nothing is assumed
\* of the user.
Fairness ==
  /\ WF_vars(Main) /\ WF_vars(ReceiveThread) /\ WF_vars(Timers)
  /\ WF_vars(ServerReceives)

FairSpec == Spec /\ Fairness

-----------------------------------------------------------------------------
TypeOK ==
  /\ pc \in {"top", "wait", "branch", "resend", "await", "resent", "prompt",
             "stopped", "crashed"}
  /\ {cwnd, SSTHRESH} \subseteq Nat \ {0}
  /\ {client_nextSeq_no, initial_window_seq_no} \subseteq Nat
  /\ seq_no \in Nat /\ receivedAckNumber \in Nat
  /\ isPacketReceived \in Seq(BOOLEAN) /\ ack_counter \in 0 .. windowSize
  /\ FAST_RETRANSMIT_MODE \in BOOLEAN /\ ACK_TIMEOUT \in BOOLEAN
  /\ {sequence_no_to_be_retransmitted, prev_ack} \subseteq Nat \cup {NoAck}
  /\ staleIds \subseteq Nat
  /\ timer \in Seq({"off", "asleep", "firing"}) /\ Len(timer) = windowSize
  /\ receiver \in {"off", "recv", "mark", "cancel"} /\ dup_ack \in Nat
  /\ toServer \in Seq(Nat) /\ toClient \in Seq(Nat)
  /\ losses \in 0 .. MaxLosses

\* A new window never starts beyond what the server has acknowledged: whether
\* the last one ended by ACKs, a timeout or a retransmission, with whatever was
\* still in flight, no byte of the stream is skipped.
NothingSkipped == pc \in {"prompt", "top"} => client_nextSeq_no <= serverAck

\* The client marks a segment only if the server has it, also when an ACK of an
\* earlier window is read late.
MarkedArrived == \A i \in Window : isPacketReceived[i] => SeqNoOf(i) \in arrived

\* No segment on its way to the server ends beyond the room the server has: AWS
\* bytes from what it has acknowledged.  Also after a fast retransmission, which
\* does not apply the minimum with AWS, and for segments that are late or sent again.
WithinAdvertisedWindow ==
  \A k \in DOMAIN toServer : toServer[k] + max_seg_size <= serverAck + AWS

\* A later window never starts before an earlier one.
WindowNeverMovesBack == [][initial_window_seq_no <= initial_window_seq_no']_vars

\* The main loop's wait ends: each segment of the window is acknowledged, or its
\* timer is still there to report it.
WaitEnds == (pc = "wait") ~> (pc # "wait")

\* Client.cpp: "stop retransmitting if there is timeout".
RetransmissionEnds == (pc = "await") ~> (pc # "await")
=============================================================================
