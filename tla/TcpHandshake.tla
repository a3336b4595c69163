---------------------------- MODULE TcpHandshake ---------------------------
(***************************************************************************)
(* The three-way handshake of SYSTEM_LAB/TCP/3.1 (3.2 has the same code):  *)
(* the client's main thread, the two threads it starts for each SYN (one   *)
(* waits for the SYN+ACK, one for the timeout), and the server, over a     *)
(* path that may lose datagrams.  The threads share flags and the next     *)
(* sequence number, and end each other by pthread_cancel, which takes      *)
(* effect at the victim's next cancellation point: input, output or sleep. *)
(* Nobody joins a cancelled thread.                                        *)
(***************************************************************************)
EXTENDS TcpConnection

CONSTANTS
  Attempts,      \* bound: SYNs the client may send, numbered from 1
  MaxData        \* bound: data segments sent once the transfer has begun

ASSUME HandshakeAssumption ==
  /\ Attempts \in Nat \ {0} /\ MaxData \in Nat

VARIABLES
  \* the client
  attempt,                \* how many SYNs it has sent
  IS_SYN_ACK_RECEIVED, CONNECTION_ESTABLISHED, IS_SYN_ACK_TIMEOUT,
  answeredBy,             \* history: which waiter has set IS_SYN_ACK_RECEIVED, or 0
  waiter,                 \* per SYN, the thread that runs waitForSynACK
  answer,                 \* per SYN, the acknowledgement that thread has read
  cancelled,              \* the waiters with a cancellation pending
  synTimer,               \* per SYN, the thread that runs startTimerForHandShake
  sent,                   \* data segments sent
  \* the server
  spc,                    \* where it is
  client_initialSeq_no, expected    \* its own client_nextSeq_no

handshakeFlags == <<IS_SYN_ACK_RECEIVED, answeredBy, CONNECTION_ESTABLISHED,
                    IS_SYN_ACK_TIMEOUT>>
threads        == <<waiter, answer, cancelled, synTimer>>
serverVars     == <<spc, client_initialSeq_no, expected>>
handshakeVars  == <<pc, attempt, client_nextSeq_no, handshakeFlags, threads, sent, serverVars,
                    network>>

Numbers == 1 .. Attempts
Packet(kind, n) == [kind |-> kind, no |-> n]

\* generateInitialSequenceNum sets both numbers to 0.
HandshakeInit ==
  /\ pc = "call" /\ attempt = 0 /\ client_nextSeq_no = 0 /\ sent = 0
  /\ IS_SYN_ACK_RECEIVED = FALSE /\ answeredBy = 0
  /\ CONNECTION_ESTABLISHED = FALSE
  /\ IS_SYN_ACK_TIMEOUT = FALSE
  /\ waiter = [k \in Numbers |-> "none"] /\ cancelled = {}
  /\ answer = [k \in Numbers |-> 0]
  /\ synTimer = [k \in Numbers |-> "none"]
  /\ spc = "syn" /\ client_initialSeq_no = 0 /\ expected = 0
  /\ toServer = <<>> /\ toClient = <<>> /\ losses = 0

-----------------------------------------------------------------------------
(***************************************************************************)
(* The client's main thread (way3handShake, called until it succeeds).     *)
(***************************************************************************)
initialiseFlags ==
  /\ pc = "call" /\ attempt < Attempts
  /\ pc' = "send"
  /\ IS_SYN_ACK_RECEIVED' = FALSE /\ answeredBy' = 0
  /\ CONNECTION_ESTABLISHED' = FALSE
  /\ IS_SYN_ACK_TIMEOUT' = FALSE
  /\ UNCHANGED <<attempt, client_nextSeq_no, threads, sent, serverVars, network>>

SendSyn ==
  /\ pc = "send"
  /\ pc' = "wait"
  /\ attempt' = attempt + 1
  /\ toServer' = Append(toServer, Packet("SYN", client_nextSeq_no))
  /\ synTimer' = [synTimer EXCEPT ![attempt'] = "asleep"]
  /\ waiter' = [waiter EXCEPT ![attempt'] = "recv"]
  /\ UNCHANGED <<client_nextSeq_no, handshakeFlags, answer, cancelled, sent, serverVars,
                 toClient, losses>>

\* The busy wait ends; main tests CONNECTION_ESTABLISHED and calls again or
\* goes on to initiateFlow.
LeaveBusyWait ==
  /\ pc = "wait"
  /\ IS_SYN_ACK_TIMEOUT \/ CONNECTION_ESTABLISHED
  /\ pc' = IF CONNECTION_ESTABLISHED THEN "flow" ELSE "call"
  /\ UNCHANGED <<attempt, client_nextSeq_no, handshakeFlags, threads, sent, serverVars, network>>

\* The first window of the transfer is one segment, sent again on a timeout.
SendData ==
  /\ pc = "flow" /\ sent < MaxData
  /\ sent' = sent + 1
  /\ toServer' = Append(toServer, Packet("DATA", client_nextSeq_no))
  /\ UNCHANGED <<pc, attempt, client_nextSeq_no, handshakeFlags, threads, serverVars,
                 toClient, losses>>

-----------------------------------------------------------------------------
(***************************************************************************)
(* waitForSynACK.  Each thread's copy of the answer stands for msg.        *)
(***************************************************************************)
ReceiveSynAck(k) ==
  /\ waiter[k] = "recv" /\ k \notin cancelled /\ toClient # <<>>
  /\ toClient' = Tail(toClient)
  /\ IF Head(toClient).kind = "SYNACK"
     THEN /\ waiter' = [waiter EXCEPT ![k] = "got"]
          /\ answer' = [answer EXCEPT ![k] = Head(toClient).no]
     ELSE UNCHANGED <<waiter, answer>>
  /\ UNCHANGED <<pc, attempt, client_nextSeq_no, handshakeFlags, cancelled, synTimer, sent,
                 serverVars, toServer, losses>>

\* A receive that times out tests the flag, which another waiter may have set.
GiveUp(k) ==
  /\ waiter[k] = "recv" /\ k \notin cancelled /\ IS_SYN_ACK_RECEIVED
  /\ waiter' = [waiter EXCEPT ![k] = "ended"]
  /\ UNCHANGED <<pc, attempt, client_nextSeq_no, handshakeFlags, answer, cancelled, synTimer,
                 sent, serverVars, network>>

\* Mutant of TakeSynAck: one is added on both sides.
TakeSynAckPlusOne(k) ==
  /\ waiter[k] = "got"
  /\ waiter' = [waiter EXCEPT ![k] = "sending"]
  /\ IS_SYN_ACK_RECEIVED' = TRUE /\ answeredBy' = k
  /\ client_nextSeq_no' = answer[k] + 1
  /\ UNCHANGED <<pc, attempt, CONNECTION_ESTABLISHED, IS_SYN_ACK_TIMEOUT, answer,
                 cancelled, synTimer, sent, serverVars, network>>

\* The output before this step is passed: a cancellation does not prevent it.
TakeSynAck(k) ==
  /\ waiter[k] = "got"
  /\ waiter' = [waiter EXCEPT ![k] = "sending"]
  /\ IS_SYN_ACK_RECEIVED' = TRUE /\ answeredBy' = k
  /\ client_nextSeq_no' = answer[k]
  /\ UNCHANGED <<pc, attempt, CONNECTION_ESTABLISHED, IS_SYN_ACK_TIMEOUT, answer,
                 cancelled, synTimer, sent, serverVars, network>>

SendAck(k) ==
  /\ waiter[k] = "sending" /\ k \notin cancelled
  /\ waiter' = [waiter EXCEPT ![k] = "sent"]
  /\ toServer' = Append(toServer, Packet("ACK", client_nextSeq_no))
  /\ UNCHANGED <<pc, attempt, client_nextSeq_no, handshakeFlags, answer, cancelled, synTimer,
                 sent, serverVars, toClient, losses>>

\* The connection is established; the last timer thread started is cancelled.
Establish(k) ==
  /\ waiter[k] = "sent"
  /\ waiter' = [waiter EXCEPT ![k] = "ended"]
  /\ cancelled' = cancelled \ {k}
  /\ CONNECTION_ESTABLISHED' = TRUE
  /\ synTimer' = IF attempt > 0 /\ synTimer[attempt] = "asleep"
                 THEN [synTimer EXCEPT ![attempt] = "ended"] ELSE synTimer
  /\ UNCHANGED <<pc, attempt, client_nextSeq_no, IS_SYN_ACK_RECEIVED, answeredBy,
                 IS_SYN_ACK_TIMEOUT, answer, sent, serverVars, network>>

\* A pending cancellation takes effect.
Die(k) ==
  /\ k \in cancelled
  /\ cancelled' = cancelled \ {k}
  /\ waiter' = [waiter EXCEPT ![k] = "ended"]
  /\ UNCHANGED <<pc, attempt, client_nextSeq_no, handshakeFlags, answer, synTimer, sent, serverVars,
                 network>>

Waiter(k) ==
  ReceiveSynAck(k) \/ GiveUp(k) \/ TakeSynAck(k) \/ SendAck(k) \/ Establish(k) \/ Die(k)

-----------------------------------------------------------------------------
(***************************************************************************)
(* startTimerForHandShake.                                                 *)
(***************************************************************************)
SleepOver(k) ==
  /\ synTimer[k] = "asleep"
  /\ synTimer' = [synTimer EXCEPT ![k] = IF IS_SYN_ACK_RECEIVED THEN "ended" ELSE "expired"]
  /\ UNCHANGED <<pc, attempt, client_nextSeq_no, handshakeFlags, waiter, answer, cancelled,
                 sent, serverVars, network>>

\* Mutant of Expire: the main thread is not told.
ExpireSilently(k) ==
  /\ synTimer[k] = "expired"
  /\ synTimer' = [synTimer EXCEPT ![k] = "ended"]
  /\ cancelled' = IF waiter[attempt] = "ended" THEN cancelled
                  ELSE cancelled \cup {attempt}
  /\ UNCHANGED <<pc, attempt, client_nextSeq_no, handshakeFlags, waiter, answer, sent, serverVars,
                 network>>

\* The last waiter started is cancelled, and the main thread told to try again.
Expire(k) ==
  /\ synTimer[k] = "expired"
  /\ synTimer' = [synTimer EXCEPT ![k] = "ended"]
  /\ cancelled' = IF waiter[attempt] = "ended" THEN cancelled
                  ELSE cancelled \cup {attempt}
  /\ IS_SYN_ACK_TIMEOUT' = TRUE
  /\ UNCHANGED <<pc, attempt, client_nextSeq_no, IS_SYN_ACK_RECEIVED, answeredBy,
                 CONNECTION_ESTABLISHED, waiter, answer, sent, serverVars, network>>

Timer(k) == SleepOver(k) \/ Expire(k)

-----------------------------------------------------------------------------
(***************************************************************************)
(* The server (way3handShake, sendSynAck, initiateFlow).                   *)
(***************************************************************************)
client == <<pc, attempt, client_nextSeq_no, handshakeFlags, threads, sent>>

\* Whatever comes first gives the client's sequence number; a SYN is answered.
FirstPacket ==
  /\ spc = "syn" /\ toServer # <<>>
  /\ toServer' = Tail(toServer)
  /\ client_initialSeq_no' = Head(toServer).no
  /\ expected' = Head(toServer).no + 1
  /\ IF Head(toServer).kind = "SYN"
     THEN spc' = "ack" /\ toClient' = Append(toClient, Packet("SYNACK", expected'))
     ELSE UNCHANGED <<spc, toClient>>
  /\ UNCHANGED <<client, losses>>

\* The same SYN again: the SYN+ACK is sent again.
SynAgain ==
  /\ spc = "ack" /\ toServer # <<>>
  /\ Head(toServer) = Packet("SYN", client_initialSeq_no)
  /\ toServer' = Tail(toServer)
  /\ toClient' = Append(toClient, Packet("SYNACK", expected))
  /\ UNCHANGED <<client, serverVars, losses>>

\* The ACK, the first data, or anything else: CONNECTION_ESTABLISHED was set
\* when the SYN+ACK was sent, so the server goes on to the transfer.  Only the
\* expected data segment is kept for it, and answered.
EnterFlow ==
  /\ spc = "ack" /\ toServer # <<>>
  /\ Head(toServer) # Packet("SYN", client_initialSeq_no)
  /\ toServer' = Tail(toServer)
  /\ spc' = "flow"
  /\ toClient' = IF Head(toServer) = Packet("DATA", expected)
                 THEN Append(toClient, Packet("ACK", 0)) ELSE toClient
  /\ UNCHANGED <<client, client_initialSeq_no, expected, losses>>

\* In the transfer every packet is answered as data, whatever its flags.
Flow ==
  /\ spc = "flow" /\ toServer # <<>>
  /\ toServer' = Tail(toServer)
  /\ toClient' = Append(toClient, Packet("ACK", 0))
  /\ UNCHANGED <<client, serverVars, losses>>

ServerStep == FirstPacket \/ SynAgain \/ EnterFlow \/ Flow

way3handShake == initialiseFlags \/ SendSyn \/ LeaveBusyWait

HandshakeNext ==
  \/ way3handShake \/ SendData
  \/ \E k \in Numbers : Waiter(k) \/ Timer(k)
  \/ ServerStep
  \/ Lose /\ UNCHANGED <<attempt, handshakeFlags, threads, sent, serverVars>>

HandshakeSpec == HandshakeInit /\ [][HandshakeNext]_handshakeVars

\* Every thread is scheduled, a sleep ends, a sent packet is received unless lost.
HandshakeFairness ==
  /\ WF_handshakeVars(way3handShake) /\ WF_handshakeVars(ServerStep)
  /\ \A k \in Numbers : WF_handshakeVars(Waiter(k)) /\ WF_handshakeVars(Timer(k))

HandshakeFairSpec == HandshakeSpec /\ HandshakeFairness

-----------------------------------------------------------------------------
\* When the transfer has begun on both sides they number it alike, however often
\* the SYN was repeated and whichever SYN+ACK was taken: otherwise the server
\* would refuse every segment.
SameNumbers == (pc = "flow" /\ spc = "flow") => client_nextSeq_no = expected

\* However often the SYN was repeated, when the client transfers data at most the
\* last waiter still reads its socket, where it would take the transfer's
\* acknowledgements: the earlier ones have ended or are cancelled.
OnlyLastReader ==
  pc = "flow" => \A k \in Numbers : waiter[k] = "recv" => k = attempt \/ k \in cancelled

\* The busy wait of an attempt ends whatever is lost, as long as no waiter of an
\* earlier attempt, cancelled but still alive, has set IS_SYN_ACK_RECEIVED since
\* the attempt began: an answer that the attempt's own waiter takes ends the wait
\* by CONNECTION_ESTABLISHED or, when the timeout races it, by the timeout.
WaitEndsUnlessLate ==
  (pc = "wait") ~> (pc # "wait" \/ answeredBy \notin {0, attempt})

\* Client.cpp:243, "wait until eithere SYn ack timeout donot occur or connection
\* is not established": the busy wait ends.
HandshakeWaitEnds == (pc = "wait") ~> (pc # "wait")
=============================================================================
