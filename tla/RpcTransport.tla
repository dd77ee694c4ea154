---------------------------- MODULE RpcTransport ----------------------------
(***************************************************************************)
(* How daemons call one another (src/rpc): AD_RPC_SC::call_remote on the   *)
(* caller's side, my_rpc_trans on the other, and AD_RPC_TRANSPORT, which   *)
(* puts a length of 4 bytes before every piece thrift writes and takes     *)
(* them off again (read_more).                                             *)
(*                                                                         *)
(* A message is the sequence of the positions at which its frames end:     *)
(* what matters is where the sends of the caller and the reads of the      *)
(* other daemon cut it.  Each call opens a connection of its own.  The     *)
(* callers are coroutines of one daemon; what stops one stops them all.    *)
(***************************************************************************)
EXTENDS Integers, Sequences

CONSTANTS
  Caller,    \* coroutines of the calling daemon
  Message    \* the calls they make

\* The ends of a message's frames; a oneway call has no reply.
IsStream(ends) ==
  /\ ends \in Seq(Nat)
  /\ \A i \in 1..Len(ends) : ends[i] >= 4
  /\ \A i, j \in 1..Len(ends) : i < j => ends[j] >= ends[i] + 4

ASSUME MessageAssumption ==
  \A m \in Message : /\ IsStream(m.request) /\ IsStream(m.reply)
                     /\ m.request # <<>>

ASSUME SomeMessage == Message # {}

\* The buffers: TBufferedTransport's two, read_more's, and that of handleEvent.
WriteBuffer == 512
ReadBuffer == 512
Piece == 1024
RecvBuffer == 4096

VARIABLES
  call,        \* what a caller calls
  pc,          \* where its call_remote is
  frame,       \* the frames it has written
  buffered,    \* bytes in its write buffer
  sent,        \* bytes it has sent
  got,         \* bytes of the reply it has read
  lost,        \* whether the other daemon went away under its connection
  caller,      \* the calling daemon
  node,        \* the server's my_rpc_trans of a connection
  taken,       \* bytes it has received
  processing,  \* whether its handleRead is in the handler, which may yield
  executed,    \* how often the handler has run for this call
  reply,       \* bytes of the reply sent
  server       \* the called daemon

client_vars == <<call, pc, frame, buffered, sent, got, lost, caller>>

server_vars == <<node, taken, processing, executed, reply, server>>

vars == <<client_vars, server_vars>>

EndOf(ends, i) == IF i = 0 THEN 0 ELSE ends[i]

Size(ends) == EndOf(ends, Len(ends))

Oneway(m) == m.reply = <<>>

TypeOK ==
  /\ call \in [Caller -> Message]
  /\ pc \in [Caller -> {"idle", "write", "read", "done", "failed"}]
  /\ frame \in [Caller -> Nat] /\ buffered \in [Caller -> Nat]
  /\ sent \in [Caller -> Nat] /\ got \in [Caller -> Nat]
  /\ lost \in [Caller -> BOOLEAN]
  /\ caller \in {"up", "stuck"}
  /\ node \in [Caller -> BOOLEAN]
  /\ taken \in [Caller -> Nat]
  /\ processing \in [Caller -> BOOLEAN]
  /\ executed \in [Caller -> Nat] /\ reply \in [Caller -> Nat]
  /\ server \in {"up", "stuck", "aborted", "killed"}

Init ==
  /\ call \in [Caller -> Message]
  /\ pc = [c \in Caller |-> "idle"]
  /\ frame = [c \in Caller |-> 0] /\ buffered = [c \in Caller |-> 0]
  /\ sent = [c \in Caller |-> 0] /\ got = [c \in Caller |-> 0]
  /\ lost = [c \in Caller |-> FALSE]
  /\ caller = "up"
  /\ node = [c \in Caller |-> FALSE]
  /\ taken = [c \in Caller |-> 0]
  /\ processing = [c \in Caller |-> FALSE]
  /\ executed = [c \in Caller |-> 0] /\ reply = [c \in Caller |-> 0]
  /\ server = "up"

Listens == server \in {"up", "stuck"}

-----------------------------------------------------------------------------
(* AD_RPC_TRANSPORT::read_more *)

\* Up to position p the stream ends in a frame whose length is there and whose
\* body is not: the loop around the buffer goes on for ever.
SpinsAt(ends, p) ==
  \E i \in 1..Len(ends) : EndOf(ends, i - 1) + 4 <= p /\ p < ends[i]

\* Where the pieces of a chunk of b bytes end, as read_more reads them.
PieceEnds(b) == {Piece * k : k \in 1..(b \div Piece)} \cup {b}

\* Deviation: what is there of a message is executed.
ResultIfPatient(ends, b) ==
  IF \E p \in PieceEnds(b) : SpinsAt(ends, p) THEN "stuck" ELSE "executed"

\* handleRead of the first b bytes of a message.  An incomplete one is at its
\* end for thrift, whose exception nobody catches: co_routine_func is left by it.
HandleRead(ends, b) ==
  IF \E p \in PieceEnds(b) : SpinsAt(ends, p) THEN "stuck"
  ELSE IF b < Size(ends) THEN "aborted"
  ELSE "executed"

-----------------------------------------------------------------------------
(* The caller: call_remote *)

\* A caller begins anew when the connection before is gone (bound of the model).
call_remote(c, m) ==
  /\ caller = "up"
  /\ pc[c] \in {"idle", "done", "failed"}
  /\ ~node[c] /\ ~processing[c]
  /\ call' = [call EXCEPT ![c] = m]
  /\ pc' = [pc EXCEPT ![c] = IF Listens THEN "write" ELSE "failed"]
  /\ frame' = [frame EXCEPT ![c] = 0] /\ buffered' = [buffered EXCEPT ![c] = 0]
  /\ sent' = [sent EXCEPT ![c] = 0] /\ got' = [got EXCEPT ![c] = 0]
  /\ lost' = [lost EXCEPT ![c] = FALSE]
  /\ taken' = [taken EXCEPT ![c] = 0]
  /\ executed' = [executed EXCEPT ![c] = 0]
  /\ reply' = [reply EXCEPT ![c] = 0]
  /\ UNCHANGED <<caller, node, processing, server>>

\* The next frame, header and all, as write_virt hands it to the buffer.
FrameSize(c) ==
  EndOf(call[c].request, frame[c] + 1) - EndOf(call[c].request, frame[c])

\* Deviation: every frame is sent by itself.
SentAtOnce(have, len) == FALSE

\* TBufferedTransport keeps what fits into the buffer.
Fits(have, len) == have + len <= WriteBuffer

Writing(c) == caller = "up" /\ pc[c] = "write" /\ ~lost[c]

sends(c, n) == sent' = [sent EXCEPT ![c] = @ + n]

\* The buffer is sent when the next frame and it are two buffers long, and filled
\* up and sent when the frame is shorter; a frame that meets an empty buffer and
\* does not fit is sent directly.
write_virt(c) ==
  LET have == buffered[c]  len == FrameSize(c)
      drains == have > 0 /\ have + len >= 2 * WriteBuffer
  IN /\ Writing(c)
     /\ frame[c] < Len(call[c].request)
     /\ \/ /\ Fits(have, len)
           /\ buffered' = [buffered EXCEPT ![c] = have + len]
           /\ UNCHANGED sent
        \/ /\ ~Fits(have, len) /\ drains
           /\ buffered' = [buffered EXCEPT ![c] = 0]
           /\ sends(c, have)
        \/ /\ ~Fits(have, len) /\ ~drains /\ have > 0
           /\ buffered' = [buffered EXCEPT ![c] = have + len - WriteBuffer]
           /\ sends(c, WriteBuffer)
        \/ /\ ~Fits(have, len) /\ have = 0
           /\ sends(c, len)
           /\ UNCHANGED buffered
     /\ frame' = [frame EXCEPT ![c] = IF ~Fits(have, len) /\ drains THEN @ ELSE @ + 1]
     /\ UNCHANGED <<call, pc, got, lost, caller, server_vars>>

\* The rest is sent; a oneway call is over and its connection is closed.
flush(c) ==
  /\ Writing(c)
  /\ frame[c] = Len(call[c].request)
  /\ sends(c, buffered[c])
  /\ buffered' = [buffered EXCEPT ![c] = 0]
  /\ pc' = [pc EXCEPT ![c] = IF Oneway(call[c]) THEN "done" ELSE "read"]
  /\ UNCHANGED <<call, frame, got, lost, caller, server_vars>>

\* my_co_trans::read yields until there is something, then reads a buffer full,
\* which read_more takes apart.
read(c) ==
  LET n == IF reply[c] - got[c] > ReadBuffer THEN ReadBuffer ELSE reply[c] - got[c]
      p == got[c] + n
  IN /\ caller = "up"
     /\ pc[c] = "read"
     /\ n > 0
     /\ got' = [got EXCEPT ![c] = p]
     /\ IF SpinsAt(call[c].reply, p)
          THEN caller' = "stuck" /\ UNCHANGED pc
          ELSE /\ pc' = [pc EXCEPT ![c] = IF p = Size(call[c].reply) THEN "done" ELSE @]
               /\ UNCHANGED caller
     /\ UNCHANGED <<call, frame, buffered, sent, lost, server_vars>>

\* Deviation: an end of file is taken for nothing to read yet.
NeverNoticed(c) == FALSE

NoticesLoss(c) == lost[c]

\* The connection is gone: thrift's exception is caught and logged.
call_fails(c) ==
  /\ caller = "up"
  /\ pc[c] \in {"write", "read"}
  /\ NoticesLoss(c)
  /\ pc' = [pc EXCEPT ![c] = "failed"]
  /\ UNCHANGED <<call, frame, buffered, sent, got, lost, caller, server_vars>>

-----------------------------------------------------------------------------
(* The called daemon *)

Closed(c) == pc[c] \in {"done", "failed"}

\* A connection waits in the kernel until the listening node's handleEvent.
accept(c) ==
  /\ server = "up"
  /\ ~node[c] /\ ~lost[c]
  /\ pc[c] \in {"write", "read"} \/ (pc[c] = "done" /\ taken[c] < sent[c])
  /\ node' = [node EXCEPT ![c] = TRUE]
  /\ UNCHANGED <<client_vars, taken, processing, executed, reply, server>>

\* The process ends: connections and handlers are gone with it.
ends_as(how) ==
  /\ server' = how
  /\ node' = [c \in Caller |-> FALSE]
  /\ processing' = [c \in Caller |-> FALSE]
  /\ lost' = [c \in Caller |-> lost[c] \/ pc[c] # "idle"]

\* AD_EVENT_SC_TCP_DATA_NODE::handleEvent: one recv, of what has arrived.
handleEvent(c) ==
  LET n == IF sent[c] - taken[c] > RecvBuffer THEN RecvBuffer ELSE sent[c] - taken[c]
      result == HandleRead(call[c].request, taken[c] + n)
  IN /\ server = "up"
     /\ node[c]
     /\ n > 0
     /\ taken' = [taken EXCEPT ![c] = @ + n]
     /\ \/ /\ result = "executed"
           /\ processing' = [processing EXCEPT ![c] = TRUE]
           /\ executed' = [executed EXCEPT ![c] = @ + 1]
           /\ UNCHANGED <<node, lost, server>>
        \/ /\ result = "stuck"
           /\ server' = "stuck"
           /\ UNCHANGED <<node, processing, executed, lost>>
        \/ /\ result = "aborted"
           /\ ends_as("aborted")
           /\ UNCHANGED executed
     /\ UNCHANGED <<call, pc, frame, buffered, sent, got, caller, reply>>

\* The handler is done and the reply is sent by one send, to whom it may concern.
send_reply(c) ==
  /\ server = "up"
  /\ processing[c]
  /\ processing' = [processing EXCEPT ![c] = FALSE]
  /\ reply' = [reply EXCEPT ![c] = Size(call[c].reply)]
  /\ UNCHANGED <<client_vars, node, taken, executed, server>>

\* recv returns 0, also while the handler of a oneway call is still at work.
close_data_node(c) ==
  /\ server = "up"
  /\ node[c]
  /\ Closed(c) /\ taken[c] = sent[c]
  /\ node' = [node EXCEPT ![c] = FALSE]
  /\ UNCHANGED <<client_vars, taken, processing, executed, reply, server>>

\* stop_device, a crash, a machine that is switched off.
is_killed ==
  /\ server = "up"
  /\ ends_as("killed")
  /\ UNCHANGED <<call, pc, frame, buffered, sent, got, caller, taken, executed, reply>>

\* Its supervisor starts it again.
is_restarted ==
  /\ server \in {"aborted", "killed"}
  /\ server' = "up"
  /\ UNCHANGED <<client_vars, node, taken, processing, executed, reply>>

-----------------------------------------------------------------------------

client(c) == write_virt(c) \/ flush(c) \/ read(c) \/ call_fails(c)

handler(c) == accept(c) \/ handleEvent(c) \/ send_reply(c) \/ close_data_node(c)

Next ==
  \/ \E c \in Caller : client(c) \/ handler(c) \/ \E m \in Message : call_remote(c, m)
  \/ is_killed
  \/ is_restarted

Safe == Init /\ [][Next]_vars

\* Both loops run on, and the handlers of the calls return.
Fairness ==
  /\ \A c \in Caller : /\ WF_vars(client(c)) /\ WF_vars(accept(c))
                       /\ WF_vars(handleEvent(c)) /\ WF_vars(send_reply(c))
  /\ WF_vars(is_restarted)

Spec == Safe /\ Fairness

-----------------------------------------------------------------------------
(* Properties *)

\* Whatever the sends and reads cut, and whichever daemon fails in between, a call
\* is executed at most once, and one that returned was executed.
AnsweredOnce ==
  \A c \in Caller :
    /\ executed[c] <= 1
    /\ pc[c] = "done" /\ ~Oneway(call[c]) => executed[c] = 1

\* read_more's endless loop and the uncaught exception need a message longer than
\* the buffer it passes through; nothing shorter stops a daemon.
OnlyLongMessagesHarm ==
  [][/\ server' \in {"stuck", "aborted"} /\ server = "up" =>
          \E c \in Caller : taken'[c] # taken[c] /\ Size(call[c].request) > WriteBuffer
     /\ caller' # caller =>
          \E c \in Caller : got'[c] # got[c] /\ Size(call[c].reply) > ReadBuffer]_vars

\* There are no time limits: a call still ends, with the reply or because the other
\* daemon is gone, unless one of the two loops for ever.
CallsEnd ==
  \A c \in Caller :
    pc[c] \in {"write", "read"} ~>
      (pc[c] \in {"done", "failed"} \/ server = "stuck" \/ caller = "stuck")
=============================================================================
