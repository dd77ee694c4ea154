----------------------- MODULE RedisSubscriberProofs ------------------------
(***************************************************************************)
(* Proofs about RedisSubscriber, for any number of nodes and channels, and *)
(* however often Redis and the core go away.  That there is one subscriber *)
(* follows from whose connection m_redis_node is; that a lost message      *)
(* leaves a confirmation behind, from counting the confirmations in what a *)
(* node has not read.                                                      *)
(***************************************************************************)
EXTENDS RedisSubscriber, FiniteSetTheorems, SequenceTheorems, TLAPS

\* The nodes that have a subscription, or will.
Served == Registered \cup InSetup

\* There is nobody before the first restart since the core was started.  A node that
\* replaced itself leaves m_redis_node behind, so that later restarts do not find
\* it; up to then, what is registered is in m_redis_node.
SubscriberInv ==
  /\ restarts = 0 => Served = {}
  /\ core = "down" => \A n \in Node : node[n] = NoNode
  /\ ~reconnects => \A n \in InSetup : node[n].by = "restart"
  /\ ~overlapped =>
       /\ restarts <= 1 \/ ~reconnects => \A a, b \in Served : a = b
       /\ ~reconnects => Registered \subseteq {m_redis_node}

Count(s) == Cardinality({i \in DOMAIN s : s[i] = "confirmation"})

Unread(r) == Count(r.reader) + Count(r.socket)

Due(r) == r.swallowed + IF r.waits THEN 1 ELSE 0

\* What a node has not read has one confirmation for each message that it took for
\* one, and one more while it waits; a connection that ended lacks some.
Balanced(r) ==
  /\ Unread(r) <= Due(r)
  /\ r.conn = "up" => Unread(r) = Due(r)

IInv ==
  /\ TypeOK
  /\ SubscriberInv
  /\ \A n \in Node : Balanced(node[n])

-----------------------------------------------------------------------------
(* Confirmations in a sequence of replies *)

LEMMA CountEmpty == Count(<<>>) = 0
<1>1. {i \in DOMAIN <<>> : <<>>[i] = "confirmation"} = {}
  OBVIOUS
<1> QED
  BY <1>1, FS_EmptySet DEF Count

LEMMA CountType ==
  ASSUME NEW s \in Seq(Reply)
  PROVE  /\ IsFiniteSet({i \in DOMAIN s : s[i] = "confirmation"})
         /\ Count(s) \in Nat
<1> DEFINE C == {i \in DOMAIN s : s[i] = "confirmation"}
<1>1. IsFiniteSet(1..Len(s)) /\ C \in SUBSET (1..Len(s))
  BY FS_Interval
<1>2. IsFiniteSet(C)
  BY <1>1, FS_Subset
<1> QED
  BY <1>2, FS_CardinalityType DEF Count

LEMMA CountAppend ==
  ASSUME NEW s \in Seq(Reply), NEW e \in Reply
  PROVE  Count(Append(s, e)) = Count(s) + IF e = "confirmation" THEN 1 ELSE 0
<1> DEFINE C == {i \in DOMAIN s : s[i] = "confirmation"}
           D == {i \in DOMAIN Append(s, e) : Append(s, e)[i] = "confirmation"}
<1>1. IsFiniteSet(C) /\ Count(s) \in Nat /\ Count(s) = Cardinality(C)
  BY CountType DEF Count
<1>2. Len(s) + 1 \notin C
  OBVIOUS
<1>3. D = IF e = "confirmation" THEN C \cup {Len(s) + 1} ELSE C
  OBVIOUS
<1>4. Count(Append(s, e)) = Cardinality(D)
  BY DEF Count
<1> HIDE DEF C, D
<1>5. CASE e = "confirmation"
  <2>1. Cardinality(D) = Cardinality(C) + 1
    BY <1>1, <1>2, <1>3, <1>5, FS_AddElement
  <2> QED
    BY <1>1, <1>4, <1>5, <2>1
<1>6. CASE e # "confirmation"
  BY <1>1, <1>3, <1>4, <1>6
<1> QED
  BY <1>5, <1>6

LEMMA CountTail ==
  ASSUME NEW s \in Seq(Reply), s # <<>>
  PROVE  Count(s) = Count(Tail(s)) + IF Head(s) = "confirmation" THEN 1 ELSE 0
<1> DEFINE C == {i \in DOMAIN s : s[i] = "confirmation"}
           D == {i \in DOMAIN Tail(s) : Tail(s)[i] = "confirmation"}
           E == C \ {1}
           f == [i \in D |-> i + 1]
<1>1. /\ IsFiniteSet(C) /\ Count(s) = Cardinality(C)
      /\ IsFiniteSet(D) /\ Count(Tail(s)) = Cardinality(D) /\ Count(Tail(s)) \in Nat
  <2>1. Tail(s) \in Seq(Reply)
    OBVIOUS
  <2> QED
    BY <2>1, CountType DEF Count
<1>2. f \in Bijection(D, E)
  <2>1. \A i \in D : i \in Nat /\ i + 1 \in E
    OBVIOUS
  <2>2. \A j \in E : j \in Nat /\ j - 1 \in D /\ j = (j - 1) + 1
    OBVIOUS
  <2>3. f \in Injection(D, E)
    BY <2>1 DEF Injection, IsInjective
  <2>4. f \in Surjection(D, E)
    <3>1. \A j \in E : \E i \in D : f[i] = j
      BY <2>2
    <3> QED
      BY <2>1, <3>1 DEF Surjection
  <2> QED
    BY <2>3, <2>4 DEF Bijection
<1>3. Cardinality(E) = Cardinality(D)
  <2>1. ExistsBijection(D, E)
    BY <1>2 DEF ExistsBijection
  <2> QED
    BY <1>1, <2>1, FS_Bijection
<1>4. Cardinality(E) = IF 1 \in C THEN Cardinality(C) - 1 ELSE Cardinality(C)
  BY <1>1, FS_RemoveElement
<1>5. 1 \in C <=> Head(s) = "confirmation"
  OBVIOUS
<1>6. Cardinality(C) \in Nat
  BY <1>1, FS_CardinalityType
<1> HIDE DEF C, D, E
<1> QED
  BY <1>1, <1>3, <1>4, <1>5, <1>6

-----------------------------------------------------------------------------
(* Types *)

\* A record of a node with one field replaced.
LEMMA Updates ==
  ASSUME NEW r \in AD_REDIS_EVENT_NODE
  PROVE  /\ \A x \in {"none", "auth", "subscribe", "registered", "kept"} :
              /\ [r EXCEPT !.phase = x] \in AD_REDIS_EVENT_NODE
              /\ [r EXCEPT !.phase = x].conn = r.conn
         /\ \A x \in {"up", "eof", "error"} : [r EXCEPT !.conn = x] \in AD_REDIS_EVENT_NODE
         /\ \A x \in BOOLEAN : [r EXCEPT !.waits = x] \in AD_REDIS_EVENT_NODE
         /\ \A x \in Seq(Reply) : [r EXCEPT !.socket = x] \in AD_REDIS_EVENT_NODE
         /\ \A x \in 0..Channel : [r EXCEPT !.subscribed = x] \in AD_REDIS_EVENT_NODE
         /\ \A x \in Nat : [r EXCEPT !.swallowed = x] \in AD_REDIS_EVENT_NODE
  BY DEF AD_REDIS_EVENT_NODE

LEMMA TakeReplyType ==
  ASSUME TypeOK, NEW n \in Node, Readable(n)
  PROVE  /\ TakeReply(n) \in AD_REDIS_EVENT_NODE
         /\ Replies(n) \in Seq(Reply) /\ Replies(n) # <<>> /\ Head(Replies(n)) \in Reply
         /\ TakeReply(n).phase = node[n].phase /\ TakeReply(n).by = node[n].by
         /\ TakeReply(n).conn = node[n].conn
         /\ TakeReply(n).waits = node[n].waits
         /\ TakeReply(n).swallowed = node[n].swallowed
         /\ TakeReply(n).reader = Tail(Replies(n))
         /\ TakeReply(n).socket = IF node[n].reader # <<>> THEN node[n].socket ELSE <<>>
<1>1. node[n] \in AD_REDIS_EVENT_NODE
  BY DEF TypeOK
<1>2. Replies(n) \in Seq(Reply) /\ Replies(n) # <<>>
  BY <1>1 DEF Replies, Readable, AD_REDIS_EVENT_NODE
<1>3. Tail(Replies(n)) \in Seq(Reply) /\ Head(Replies(n)) \in Reply
  BY <1>2
<1> QED
  BY <1>1, <1>2, <1>3 DEF TakeReply, AD_REDIS_EVENT_NODE

LEMMA UnregisteredType ==
  ASSUME TypeOK, NEW n
  PROVE  Unregistered(n) \in [Node -> AD_REDIS_EVENT_NODE]
<1>1. NoNode \in AD_REDIS_EVENT_NODE
  BY NumbersAssumption DEF NoNode, AD_REDIS_EVENT_NODE
<1>2. ASSUME NEW k \in Node
      PROVE  [node[k] EXCEPT !.phase = "kept"] \in AD_REDIS_EVENT_NODE
  BY DEF TypeOK, AD_REDIS_EVENT_NODE
<1> QED
  BY <1>1, <1>2 DEF Unregistered, Registered, TypeOK

LEMMA CreateType ==
  ASSUME TypeOK, NEW n \in Node, NEW who \in {"restart", "reconnect"}, NEW m,
         create(n, who, Unregistered(m))
  PROVE  /\ node' \in [Node -> AD_REDIS_EVENT_NODE]
         /\ m_redis_node' \in Node \cup {nullptr}
         /\ core' \in {"up", "down"} /\ overlapped' \in BOOLEAN
<1>1. NoNode \in AD_REDIS_EVENT_NODE
  BY NumbersAssumption DEF NoNode, AD_REDIS_EVENT_NODE
<1>2. [NoNode EXCEPT !.phase = "auth", !.by = who] \in AD_REDIS_EVENT_NODE
  BY <1>1 DEF AD_REDIS_EVENT_NODE
<1>3. CASE redis = "up" /\ node' = [Unregistered(m) EXCEPT ![n] =
                                      [NoNode EXCEPT !.phase = "auth", !.by = who]]
            /\ UNCHANGED <<m_redis_node, core>> /\ overlapped' = (overlapped \/ InSetup # {})
  BY <1>2, <1>3, UnregisteredType DEF TypeOK
<1>4. CASE core_ends /\ UNCHANGED overlapped
  BY <1>1, <1>4 DEF core_ends, TypeOK
<1> QED
  BY <1>3, <1>4 DEF create

LEMMA SetupType ==
  ASSUME TypeOK, NEW n \in Node, setup(n)
  PROVE  TypeOK'
<1> USE DEF TypeOK
<1>0. node[n] \in AD_REDIS_EVENT_NODE /\ NoNode \in AD_REDIS_EVENT_NODE
  BY NumbersAssumption DEF NoNode, AD_REDIS_EVENT_NODE
<1>1. CASE authenticated(n)
  <2>1. [node[n] EXCEPT !.phase = "subscribe"] \in AD_REDIS_EVENT_NODE
    BY <1>0 DEF AD_REDIS_EVENT_NODE
  <2> QED
    BY <1>0, <1>1, <2>1 DEF authenticated, core_ends, env, history
<1>2. CASE subscribe(n)
  <2>1. node'[n] \in AD_REDIS_EVENT_NODE
    <3> DEFINE q == IF node[n].conn = "up" THEN Append(node[n].socket, "confirmation")
                                           ELSE node[n].socket
    <3>1. node[n].subscribed \in 0..Channel /\ node[n].socket \in Seq(Reply)
      BY <1>0 DEF AD_REDIS_EVENT_NODE
    <3>2. node[n].subscribed + 1 \in 0..Channel
      BY <1>2, <3>1, NumbersAssumption DEF subscribe
    <3>3. q \in Seq(Reply)
      BY <3>1 DEF Reply
    <3>4. node'[n] = [node[n] EXCEPT !.subscribed = @ + 1, !.waits = TRUE, !.socket = q]
      BY <1>2 DEF subscribe
    <3> QED
      BY <1>0, <3>2, <3>3, <3>4 DEF AD_REDIS_EVENT_NODE
  <2> QED
    BY <1>2, <2>1 DEF subscribe, env, history
<1>3. CASE subscribe_reply(n)
  <2>1. CASE Readable(n)
    <3>1. node'[n] \in AD_REDIS_EVENT_NODE
      <4> DEFINE k == IF Head(Replies(n)) = "message"
                        THEN TakeReply(n).swallowed + 1 ELSE TakeReply(n).swallowed
      <4>1. TakeReply(n) \in AD_REDIS_EVENT_NODE /\ k \in Nat
        BY <2>1, TakeReplyType DEF AD_REDIS_EVENT_NODE
      <4>2. node'[n] = [TakeReply(n) EXCEPT !.waits = FALSE, !.swallowed = k]
        BY <1>3, <2>1 DEF subscribe_reply
      <4> QED
        BY <4>1, <4>2 DEF AD_REDIS_EVENT_NODE
    <3> QED
      BY <1>3, <3>1 DEF subscribe_reply, env, history
  <2>2. CASE ~Readable(n)
    <3>1. node'[n] = [node[n] EXCEPT !.waits = FALSE]
      BY <1>3, <2>2 DEF subscribe_reply
    <3>2. node'[n] \in AD_REDIS_EVENT_NODE
      BY <1>0, <3>1, Updates
    <3> QED
      BY <1>3, <2>2, <3>2 DEF subscribe_reply, env, history
  <2> QED
    BY <2>1, <2>2
<1>4. CASE register(n)
  <2>1. [node[n] EXCEPT !.phase = "registered"] \in AD_REDIS_EVENT_NODE
    BY <1>0 DEF AD_REDIS_EVENT_NODE
  <2> QED
    BY <1>0, <1>4, <2>1 DEF register, env, history
<1> QED
  BY <1>1, <1>2, <1>3, <1>4 DEF setup

LEMMA HandleType ==
  ASSUME TypeOK, NEW n \in Node, handleEvent(n)
  PROVE  TypeOK'
<1>1. CASE handle_reply(n)
  <2>1. NoNode \in AD_REDIS_EVENT_NODE
    BY NumbersAssumption DEF NoNode, AD_REDIS_EVENT_NODE
  <2> QED
    BY <1>1, <2>1, TakeReplyType DEF handle_reply, core_ends, TypeOK, env, history
<1>2. CASE ignore_error(n)
  BY <1>2 DEF ignore_error, vars, env, history, TypeOK
<1>3. ASSUME NEW k \in Node, reconnect(n, k)
      PROVE  TypeOK'
  BY <1>3, CreateType DEF reconnect, TypeOK, env
<1> QED
  BY <1>1, <1>2, <1>3 DEF handleEvent

LEMMA TypeInductive == TypeOK /\ [Next]_vars => TypeOK'
<1> SUFFICES ASSUME TypeOK, [Next]_vars
             PROVE  TypeOK'
  OBVIOUS
<1>1. CASE UNCHANGED vars
  BY <1>1 DEF TypeOK, vars, env, history
<1>2. ASSUME NEW n \in Node, setup(n) \/ handleEvent(n)
      PROVE  TypeOK'
  BY <1>2, SetupType, HandleType
<1>3. ASSUME NEW n \in Node, restart_redis_subscriber(n)
      PROVE  TypeOK'
  BY <1>3, CreateType DEF restart_redis_subscriber, TypeOK, env
<1>4. ASSUME NEW i \in 1..Channel, publish(i)
      PROVE  TypeOK'
  <2>1. \A n \in Node : [node[n] EXCEPT !.socket = Append(@, "message")] \in AD_REDIS_EVENT_NODE
    <3> SUFFICES ASSUME NEW n \in Node
                 PROVE  [node[n] EXCEPT !.socket = Append(@, "message")] \in AD_REDIS_EVENT_NODE
      OBVIOUS
    <3>1. node[n].socket \in Seq(Reply)
      BY DEF TypeOK, AD_REDIS_EVENT_NODE
    <3>2. Append(node[n].socket, "message") \in Seq(Reply)
      BY <3>1 DEF Reply
    <3> QED
      BY <3>2, Updates DEF TypeOK
  <2> QED
    BY <1>4, <2>1 DEF publish, TypeOK, env, history
<1>5. CASE redis_leaves
  <2>1. PICK how \in {"eof", "error"} :
          node' = [n \in Node |-> IF node[n].phase # "none" /\ node[n].conn = "up"
                                    THEN [node[n] EXCEPT !.conn = how] ELSE node[n]]
    BY <1>5 DEF redis_leaves
  <2>2. \A n \in Node : [node[n] EXCEPT !.conn = how] \in AD_REDIS_EVENT_NODE
    BY Updates DEF TypeOK
  <2>3. node' \in [Node -> AD_REDIS_EVENT_NODE]
    BY <2>1, <2>2 DEF TypeOK
  <2> QED
    BY <1>5, <2>3 DEF redis_leaves, TypeOK, history
<1>6. CASE redis_returns
  BY <1>6 DEF redis_returns, TypeOK, history
<1>7. CASE core_starts
  BY <1>7 DEF core_starts, TypeOK, env
<1> QED
  BY <1>1, <1>2, <1>3, <1>4, <1>5, <1>6, <1>7 DEF Next

-----------------------------------------------------------------------------
(* Confirmations *)

LEMMA NoNodeBalanced == Balanced(NoNode)
  BY CountEmpty DEF NoNode, Balanced, Unread, Due

\* A reply that is taken is a confirmation less, or none.
LEMMA TakeReplyUnread ==
  ASSUME TypeOK, NEW n \in Node, Readable(n)
  PROVE  Unread(node[n]) = Unread(TakeReply(n))
                             + IF Head(Replies(n)) = "confirmation" THEN 1 ELSE 0
<1>1. node[n].reader \in Seq(Reply) /\ node[n].socket \in Seq(Reply)
  BY DEF TypeOK, AD_REDIS_EVENT_NODE
<1>2. /\ Count(node[n].reader) \in Nat /\ Count(node[n].socket) \in Nat
      /\ Count(Tail(Replies(n))) \in Nat
  <2>1. Tail(Replies(n)) \in Seq(Reply)
    BY TakeReplyType
  <2> QED
    BY <1>1, <2>1, CountType
<1>3. Count(Replies(n)) = Count(Tail(Replies(n)))
                            + IF Head(Replies(n)) = "confirmation" THEN 1 ELSE 0
  BY TakeReplyType, CountTail
<1>4. CASE node[n].reader # <<>>
  BY <1>2, <1>3, <1>4, TakeReplyType DEF Unread, Replies
<1>5. CASE node[n].reader = <<>>
  BY <1>2, <1>3, <1>5, TakeReplyType, CountEmpty DEF Unread, Replies
<1> QED
  BY <1>4, <1>5

LEMMA UnreadType ==
  ASSUME NEW r \in AD_REDIS_EVENT_NODE
  PROVE  Unread(r) \in Nat /\ Due(r) \in Nat
<1>1. Count(r.reader) \in Nat /\ Count(r.socket) \in Nat
  BY CountType DEF AD_REDIS_EVENT_NODE
<1> QED
  BY <1>1 DEF Unread, Due, AD_REDIS_EVENT_NODE

\* What does not touch the replies, or only makes the connection end, keeps the balance.
LEMMA SameBalance ==
  ASSUME NEW r \in AD_REDIS_EVENT_NODE, NEW s \in AD_REDIS_EVENT_NODE, Balanced(r),
         s.reader = r.reader, s.socket = r.socket, s.waits = r.waits,
         s.swallowed = r.swallowed, s.conn = "up" => r.conn = "up"
  PROVE  Balanced(s)
  BY DEF Balanced, Unread, Due

LEMMA UnregisteredBalanced ==
  ASSUME TypeOK, \A n \in Node : Balanced(node[n]), NEW m
  PROVE  \A n \in Node : Balanced(Unregistered(m)[n])
<1>1. ASSUME NEW k \in Node
      PROVE  /\ [node[k] EXCEPT !.phase = "kept"] \in AD_REDIS_EVENT_NODE
             /\ Balanced([node[k] EXCEPT !.phase = "kept"])
  <2> DEFINE r == [node[k] EXCEPT !.phase = "kept"]
  <2>1. r \in AD_REDIS_EVENT_NODE /\ node[k] \in AD_REDIS_EVENT_NODE
    BY DEF TypeOK, AD_REDIS_EVENT_NODE
  <2>2. /\ r.reader = node[k].reader /\ r.socket = node[k].socket /\ r.waits = node[k].waits
        /\ r.swallowed = node[k].swallowed /\ r.conn = node[k].conn
    BY DEF TypeOK, AD_REDIS_EVENT_NODE
  <2> QED
    BY <2>1, <2>2, SameBalance
<1> QED
  BY <1>1, NoNodeBalanced DEF Unregistered, Registered, TypeOK

LEMMA CreateBalanced ==
  ASSUME TypeOK, \A n \in Node : Balanced(node[n]),
         NEW n \in Node, NEW who \in {"restart", "reconnect"}, NEW m,
         create(n, who, Unregistered(m))
  PROVE  \A k \in Node : Balanced(node'[k])
<1>1. Balanced([NoNode EXCEPT !.phase = "auth", !.by = who])
  BY CountEmpty DEF NoNode, Balanced, Unread, Due
<1>2. CASE core_ends
  BY <1>2, NoNodeBalanced DEF core_ends
<1>3. CASE node' = [Unregistered(m) EXCEPT ![n] = [NoNode EXCEPT !.phase = "auth", !.by = who]]
  BY <1>1, <1>3, UnregisteredType, UnregisteredBalanced
<1> QED
  BY <1>2, <1>3 DEF create

LEMMA SetupBalanced ==
  ASSUME TypeOK, TypeOK', \A n \in Node : Balanced(node[n]), NEW n \in Node, setup(n)
  PROVE  \A k \in Node : Balanced(node'[k])
<1> DEFINE r == node[n]
           s == node'[n]
<1>0. r \in AD_REDIS_EVENT_NODE /\ s \in AD_REDIS_EVENT_NODE /\ Balanced(r)
  BY DEF TypeOK
<1>1. CASE core_ends
  BY <1>1, NoNodeBalanced DEF core_ends
<1>2. CASE authenticated(n) /\ ~core_ends
  <2>1. node' = [node EXCEPT ![n].phase = "subscribe"]
    BY <1>2 DEF authenticated
  <2>2. /\ s.reader = r.reader /\ s.socket = r.socket /\ s.waits = r.waits
        /\ s.swallowed = r.swallowed /\ s.conn = r.conn
    BY <1>0, <2>1 DEF TypeOK, AD_REDIS_EVENT_NODE
  <2>3. Balanced(s)
    BY <1>0, <2>2, SameBalance
  <2> QED
    BY <2>1, <2>3 DEF TypeOK
<1>3. CASE subscribe(n)
  <2>1. /\ s.reader = r.reader /\ s.swallowed = r.swallowed /\ s.conn = r.conn
        /\ s.waits = TRUE /\ r.waits = FALSE
        /\ s.socket = IF r.conn = "up" THEN Append(r.socket, "confirmation") ELSE r.socket
    BY <1>0, <1>3 DEF subscribe, TypeOK, AD_REDIS_EVENT_NODE
  <2>2. Unread(s) = Unread(r) + IF r.conn = "up" THEN 1 ELSE 0
    <3>1. /\ r.socket \in Seq(Reply) /\ "confirmation" \in Reply
          /\ Count(r.socket) \in Nat /\ Count(r.reader) \in Nat
      BY <1>0, CountType DEF AD_REDIS_EVENT_NODE, Reply
    <3>2. Count(Append(r.socket, "confirmation")) = Count(r.socket) + 1
      BY <3>1, CountAppend
    <3>3. Count(s.socket) = Count(r.socket) + IF r.conn = "up" THEN 1 ELSE 0
      BY <2>1, <3>1, <3>2
    <3>4. Count(s.reader) = Count(r.reader)
      BY <2>1
    <3> QED
      BY <3>1, <3>3, <3>4 DEF Unread
  <2>3. Due(s) = Due(r) + 1
    BY <1>0, <2>1 DEF Due, AD_REDIS_EVENT_NODE
  <2>4. Balanced(s)
    BY <1>0, <2>1, <2>2, <2>3, UnreadType DEF Balanced
  <2>5. node' = [node EXCEPT ![n] = s]
    BY <1>3 DEF subscribe, TypeOK
  <2> QED
    BY <2>4, <2>5 DEF TypeOK
<1>4. CASE subscribe_reply(n)
  <2>1. node' = [node EXCEPT ![n] = s]
    BY <1>4 DEF subscribe_reply, TypeOK
  <2>2. CASE Readable(n)
    <3>1. /\ s = [TakeReply(n) EXCEPT
                    !.waits = FALSE,
                    !.swallowed = IF Head(Replies(n)) = "message" THEN @ + 1 ELSE @]
          /\ r.waits = TRUE
      BY <1>4, <2>2 DEF subscribe_reply, TypeOK, AD_REDIS_EVENT_NODE
    <3>2. /\ s.reader = TakeReply(n).reader /\ s.socket = TakeReply(n).socket
          /\ s.conn = r.conn /\ s.waits = FALSE
          /\ s.swallowed = IF Head(Replies(n)) = "message" THEN r.swallowed + 1 ELSE r.swallowed
      BY <2>2, <3>1, TakeReplyType DEF AD_REDIS_EVENT_NODE
    <3>3. Unread(r) = Unread(s) + IF Head(Replies(n)) = "confirmation" THEN 1 ELSE 0
      BY <2>2, <3>2, TakeReplyUnread DEF Unread
    <3>4. Due(r) = Due(s) + IF Head(Replies(n)) = "message" THEN 0 ELSE 1
      BY <1>0, <3>1, <3>2 DEF Due, AD_REDIS_EVENT_NODE
    <3>5. Head(Replies(n)) \in {"message", "confirmation"}
      BY <2>2, TakeReplyType DEF Reply
    <3>6. Balanced(s)
      BY <1>0, <3>2, <3>3, <3>4, <3>5, UnreadType DEF Balanced
    <3> QED
      BY <2>1, <3>6 DEF TypeOK
  <2>3. CASE ~Readable(n)
    <3>1. s = [r EXCEPT !.waits = FALSE] /\ r.conn # "up"
      BY <1>4, <2>3 DEF subscribe_reply, TypeOK
    <3>2. r.reader = <<>> /\ r.socket = <<>>
      BY <2>3 DEF Readable, Replies
    <3>3. s.reader = <<>> /\ s.socket = <<>> /\ s.conn # "up"
      BY <1>0, <3>1, <3>2 DEF AD_REDIS_EVENT_NODE
    <3>4. Unread(s) = 0
      BY <3>3, CountEmpty DEF Unread
    <3>5. Balanced(s)
      BY <1>0, <3>3, <3>4, UnreadType DEF Balanced
    <3> QED
      BY <2>1, <3>5 DEF TypeOK
  <2> QED
    BY <2>2, <2>3
<1>5. CASE register(n)
  <2> DEFINE t == [r EXCEPT !.phase = "registered"]
  <2>1. t \in AD_REDIS_EVENT_NODE /\ Balanced(t)
    <3>1. /\ t \in AD_REDIS_EVENT_NODE
          /\ t.reader = r.reader /\ t.socket = r.socket /\ t.waits = r.waits
          /\ t.swallowed = r.swallowed /\ t.conn = r.conn
      BY <1>0 DEF AD_REDIS_EVENT_NODE
    <3> QED
      BY <1>0, <3>1, SameBalance
  <2>2. \A k \in Node : node'[k] \in {NoNode, node[k], IF k = n THEN t ELSE node[k]}
    BY <1>5 DEF register, TypeOK
  <2> QED
    BY <2>1, <2>2, NoNodeBalanced
<1> QED
  BY <1>1, <1>2, <1>3, <1>4, <1>5 DEF setup

LEMMA BalanceInductive ==
  ASSUME TypeOK, TypeOK', \A n \in Node : Balanced(node[n]), [Next]_vars
  PROVE  \A n \in Node : Balanced(node'[n])
<1>1. CASE UNCHANGED node
  BY <1>1
<1>2. CASE core_ends
  BY <1>2, NoNodeBalanced DEF core_ends
<1>3. ASSUME NEW n \in Node, setup(n)
      PROVE  \A k \in Node : Balanced(node'[k])
  BY <1>3, SetupBalanced
<1>4. ASSUME NEW n \in Node, restart_redis_subscriber(n)
      PROVE  \A k \in Node : Balanced(node'[k])
  BY <1>4, CreateBalanced DEF restart_redis_subscriber
<1>5. ASSUME NEW n \in Node, handleEvent(n)
      PROVE  \A k \in Node : Balanced(node'[k])
  <2>1. ASSUME NEW k \in Node, reconnect(n, k)
        PROVE  \A j \in Node : Balanced(node'[j])
    BY <2>1, CreateBalanced DEF reconnect
  <2>2. CASE handle_reply(n) /\ ~core_ends
    <3>1. /\ node' = [node EXCEPT ![n] = TakeReply(n)]
          /\ Readable(n) /\ Head(Replies(n)) = "message"
      BY <2>2 DEF handle_reply
    <3>2. Unread(TakeReply(n)) = Unread(node[n])
      BY <3>1, TakeReplyUnread, TakeReplyType, UnreadType
    <3>3. Balanced(TakeReply(n))
      BY <3>1, <3>2, TakeReplyType DEF Balanced, Due
    <3> QED
      BY <3>1, <3>3 DEF TypeOK
  <2>3. CASE ignore_error(n)
    BY <2>3 DEF ignore_error, vars
  <2> QED
    BY <1>2, <1>5, <2>1, <2>2, <2>3 DEF handleEvent, handle_reply
<1>6. ASSUME NEW i \in 1..Channel, publish(i)
      PROVE  \A k \in Node : Balanced(node'[k])
  <2> SUFFICES ASSUME NEW k \in Node
               PROVE  Balanced(node'[k])
    OBVIOUS
  <2>1. CASE node'[k] = node[k]
    BY <2>1
  <2>2. CASE node'[k] = [node[k] EXCEPT !.socket = Append(@, "message")]
    <3> DEFINE r == node[k]
               s == node'[k]
    <3>1. /\ r \in AD_REDIS_EVENT_NODE
          /\ s.reader = r.reader /\ s.socket = Append(r.socket, "message")
          /\ s.waits = r.waits /\ s.swallowed = r.swallowed /\ s.conn = r.conn
      BY <2>2 DEF TypeOK, AD_REDIS_EVENT_NODE
    <3>2. Count(s.socket) = Count(r.socket)
      <4>1. r.socket \in Seq(Reply) /\ "message" \in Reply
        BY <3>1 DEF AD_REDIS_EVENT_NODE, Reply
      <4>2. Count(r.socket) \in Nat
        BY <4>1, CountType
      <4>3. Count(Append(r.socket, "message")) = Count(r.socket)
        BY <4>1, <4>2, CountAppend
      <4> QED
        BY <3>1, <4>3
    <3>3. Unread(s) = Unread(r) /\ Due(s) = Due(r)
      BY <3>1, <3>2 DEF Unread, Due
    <3> QED
      BY <3>1, <3>3 DEF Balanced
  <2> QED
    BY <1>6, <2>1, <2>2 DEF publish
<1>7. CASE redis_leaves
  <2> SUFFICES ASSUME NEW k \in Node
               PROVE  Balanced(node'[k])
    OBVIOUS
  <2>1. PICK how \in {"eof", "error"} : node'[k] \in {node[k], [node[k] EXCEPT !.conn = how]}
    BY <1>7 DEF redis_leaves
  <2>2. CASE node'[k] = [node[k] EXCEPT !.conn = how]
    <3> DEFINE r == node[k]
               s == node'[k]
    <3>1. r \in AD_REDIS_EVENT_NODE /\ s \in AD_REDIS_EVENT_NODE
      BY DEF TypeOK
    <3>2. /\ s.reader = r.reader /\ s.socket = r.socket
          /\ s.waits = r.waits /\ s.swallowed = r.swallowed /\ s.conn # "up"
      BY <2>2, <3>1 DEF AD_REDIS_EVENT_NODE
    <3> QED
      BY <3>1, <3>2, SameBalance
  <2> QED
    BY <2>1, <2>2
<1> QED
  BY <1>1, <1>3, <1>4, <1>5, <1>6, <1>7 DEF Next, vars, redis_returns, core_starts

-----------------------------------------------------------------------------
(* One subscriber *)

\* A new node joins those that are being set up, and the one it replaces leaves.
LEMMA CreateServed ==
  ASSUME TypeOK, NEW n \in Node, NEW who \in {"restart", "reconnect"}, NEW m,
         create(n, who, Unregistered(m)), ~core_ends
  PROVE  /\ Registered' = Registered \ {m}
         /\ InSetup' = InSetup \cup {n}
         /\ node'[n].by = who
         /\ \A k \in InSetup \ {n} : node'[k].by = node[k].by
         /\ n \notin Registered /\ n \notin InSetup
         /\ UNCHANGED <<m_redis_node, core>>
         /\ overlapped' = (overlapped \/ InSetup # {})
<1> DEFINE r == [NoNode EXCEPT !.phase = "auth", !.by = who]
<1>1. /\ node[n] = NoNode
      /\ node' = [Unregistered(m) EXCEPT ![n] = r]
      /\ UNCHANGED <<m_redis_node, core>>
      /\ overlapped' = (overlapped \/ InSetup # {})
  BY DEF create
<1>2. NoNode.phase = "none" /\ r.phase = "auth" /\ r.by = who
  BY DEF NoNode
<1>3. n \notin Registered /\ n \notin InSetup
  BY <1>1, <1>2 DEF Registered, InSetup
<1>4. node'[n] = r /\ \A k \in Node \ {n} : node'[k] = Unregistered(m)[k]
  BY <1>1, UnregisteredType
<1>5. \A k \in Node : Unregistered(m)[k] =
        IF k = m /\ m \in Registered
          THEN IF m = m_redis_node THEN [node[k] EXCEPT !.phase = "kept"] ELSE NoNode
          ELSE node[k]
  BY DEF Unregistered, Registered, TypeOK
<1>6. \A k \in Node : [node[k] EXCEPT !.phase = "kept"].phase = "kept"
  BY Updates DEF TypeOK, AD_REDIS_EVENT_NODE
<1>7. \A k \in Node : /\ (k = m /\ m \in Registered) => Unregistered(m)[k].phase \in {"kept", "none"}
                      /\ ~(k = m /\ m \in Registered) => Unregistered(m)[k] = node[k]
  BY <1>2, <1>5, <1>6
<1> HIDE DEF r
<1>8. Registered' = Registered \ {m}
  BY <1>2, <1>3, <1>4, <1>7 DEF Registered
<1>9. InSetup' = InSetup \cup {n}
  BY <1>2, <1>4, <1>7 DEF InSetup, Registered
<1>10. \A k \in InSetup \ {n} : node'[k].by = node[k].by
  BY <1>4, <1>7 DEF InSetup, Registered
<1> QED
  BY <1>1, <1>2, <1>3, <1>4, <1>8, <1>9, <1>10

\* When the core ends there are no nodes, and nobody is a subscriber.
LEMMA CoreEnds ==
  ASSUME TypeOK, core_ends, SubscriberInv, UNCHANGED restarts
  PROVE  SubscriberInv'
<1>1. NoNode.phase = "none"
  BY DEF NoNode
<1>2. Registered' = {} /\ InSetup' = {}
  BY <1>1 DEF core_ends, Registered, InSetup
<1> QED
  BY <1>2 DEF core_ends, SubscriberInv, Served

LEMMA RestartSubscriber ==
  ASSUME TypeOK, SubscriberInv, NEW n \in Node, restart_redis_subscriber(n)
  PROVE  SubscriberInv'
<1>1. /\ core = "up" /\ restarts' = restarts + 1 /\ reconnects' = reconnects
      /\ create(n, "restart", Unregistered(m_redis_node))
  BY DEF restart_redis_subscriber, Free
<1>2. CASE core_ends
  <2>1. NoNode.phase = "none"
    BY DEF NoNode
  <2>2. Registered' = {} /\ InSetup' = {}
    BY <1>2, <2>1 DEF core_ends, Registered, InSetup
  <2> QED
    BY <1>2, <2>2 DEF core_ends, SubscriberInv, Served
<1>3. CASE ~core_ends
  <2>1. /\ Registered' = Registered \ {m_redis_node}
        /\ InSetup' = InSetup \cup {n}
        /\ node'[n].by = "restart"
        /\ \A k \in InSetup \ {n} : node'[k].by = node[k].by
        /\ core' = core /\ m_redis_node' = m_redis_node
        /\ overlapped' = (overlapped \/ InSetup # {})
    BY <1>1, <1>3, CreateServed
  <2>2. restarts' # 0
    BY <1>1 DEF TypeOK
  <2>3. ~reconnects' => \A k \in InSetup' : node'[k].by = "restart"
    BY <1>1, <2>1 DEF SubscriberInv
  <2>4. ASSUME ~overlapped', restarts' <= 1 \/ ~reconnects'
        PROVE  \A a, b \in Served' : a = b
    <3>1. InSetup = {} /\ ~overlapped
      BY <2>1, <2>4
    <3>2. Registered' = {}
      <4>1. CASE ~reconnects
        BY <2>1, <3>1, <4>1 DEF SubscriberInv
      <4>2. CASE restarts = 0
        BY <2>1, <4>2 DEF SubscriberInv, Served
      <4> QED
        BY <1>1, <2>4, <4>1, <4>2 DEF TypeOK
    <3> QED
      BY <2>1, <3>1, <3>2 DEF Served
  <2>5. ~overlapped' /\ ~reconnects' => Registered' \subseteq {m_redis_node'}
    BY <1>1, <2>1 DEF SubscriberInv
  <2> QED
    BY <1>1, <2>1, <2>2, <2>3, <2>4, <2>5 DEF SubscriberInv
<1> QED
  BY <1>2, <1>3

LEMMA ReconnectSubscriber ==
  ASSUME TypeOK, SubscriberInv, NEW n \in Node, NEW k \in Node,
         core = "up", n \in Registered, reconnect(n, k)
  PROVE  SubscriberInv'
<1>1. /\ restarts' = restarts /\ reconnects' = TRUE
      /\ create(k, "reconnect", Unregistered(n))
  BY DEF reconnect
<1>2. CASE core_ends
  BY <1>1, <1>2, CoreEnds
<1>3. CASE ~core_ends
  <2>1. /\ Registered' = Registered \ {n}
        /\ InSetup' = InSetup \cup {k}
        /\ core' = core
        /\ overlapped' = (overlapped \/ InSetup # {})
    BY <1>1, <1>3, CreateServed
  <2>2. restarts' # 0
    BY <1>1 DEF SubscriberInv, Served
  <2>3. ASSUME ~overlapped', restarts' <= 1
        PROVE  \A a, b \in Served' : a = b
    <3>1. InSetup = {} /\ ~overlapped /\ restarts <= 1
      BY <1>1, <2>1, <2>3
    <3>2. Registered = {n}
      BY <3>1 DEF SubscriberInv, Served
    <3> QED
      BY <2>1, <3>1, <3>2 DEF Served
  <2> QED
    BY <1>1, <2>1, <2>2, <2>3 DEF SubscriberInv
<1> QED
  BY <1>2, <1>3

\* Steps that neither begin nor end a node's service.
LEMMA SameServed ==
  ASSUME TypeOK, SubscriberInv, UNCHANGED <<m_redis_node, core, history>>,
         core = "up" \/ UNCHANGED node,
         node' \in [Node -> AD_REDIS_EVENT_NODE],
         \A n \in Node :
           /\ node'[n].by = node[n].by
           /\ n \in Registered' <=> n \in Registered
           /\ n \in InSetup' <=> n \in InSetup
  PROVE  SubscriberInv'
<1>1. Registered' = Registered /\ InSetup' = InSetup
  BY DEF Registered, InSetup
<1> QED
  BY <1>1 DEF SubscriberInv, Served, history, InSetup

LEMMA SetupSubscriber ==
  ASSUME TypeOK, TypeOK', SubscriberInv, NEW n \in Node, setup(n)
  PROVE  SubscriberInv'
<1>0. core = "up"
  <2>1. NoNode.phase = "none" /\ node[n].phase # "none"
    BY DEF setup, authenticated, subscribe, subscribe_reply, register, NoNode
  <2> QED
    BY <2>1 DEF SubscriberInv, TypeOK
<1>1. CASE core_ends
  BY <1>1, CoreEnds DEF setup, authenticated, subscribe, subscribe_reply, register, history
<1>2. CASE (authenticated(n) /\ ~core_ends) \/ subscribe(n) \/ subscribe_reply(n)
  <2>1. UNCHANGED <<m_redis_node, core, history>>
    BY <1>2 DEF authenticated, subscribe, subscribe_reply
  <2>2. /\ node'[n].by = node[n].by
        /\ node[n].phase \in {"auth", "subscribe"} /\ node'[n].phase \in {"auth", "subscribe"}
        /\ \A k \in Node \ {n} : node'[k] = node[k]
    <3>1. CASE authenticated(n) /\ ~core_ends
      BY <3>1 DEF authenticated, TypeOK, AD_REDIS_EVENT_NODE
    <3>2. CASE subscribe(n)
      <4> DEFINE q == IF node[n].conn = "up" THEN Append(node[n].socket, "confirmation")
                                             ELSE node[n].socket
      <4>1. /\ node'[n] = [node[n] EXCEPT !.subscribed = @ + 1, !.waits = TRUE, !.socket = q]
            /\ node[n].phase = "subscribe" /\ \A k \in Node \ {n} : node'[k] = node[k]
        BY <3>2 DEF subscribe, TypeOK
      <4>2. node'[n].phase = node[n].phase /\ node'[n].by = node[n].by
        BY <4>1 DEF TypeOK, AD_REDIS_EVENT_NODE
      <4> QED
        BY <4>1, <4>2
    <3>3. CASE subscribe_reply(n) /\ Readable(n)
      <4> DEFINE k == IF Head(Replies(n)) = "message"
                        THEN TakeReply(n).swallowed + 1 ELSE TakeReply(n).swallowed
      <4>1. /\ node'[n] = [TakeReply(n) EXCEPT !.waits = FALSE, !.swallowed = k]
            /\ node[n].phase = "subscribe" /\ \A j \in Node \ {n} : node'[j] = node[j]
        BY <3>3 DEF subscribe_reply, TypeOK
      <4>2. /\ TakeReply(n) \in AD_REDIS_EVENT_NODE
            /\ TakeReply(n).phase = node[n].phase /\ TakeReply(n).by = node[n].by
        BY <3>3, TakeReplyType
      <4> HIDE DEF k
      <4>3. node'[n].phase = node[n].phase /\ node'[n].by = node[n].by
        BY <4>1, <4>2 DEF AD_REDIS_EVENT_NODE
      <4> QED
        BY <4>1, <4>3
    <3>4. CASE subscribe_reply(n) /\ ~Readable(n)
      BY <3>4 DEF subscribe_reply, TypeOK, AD_REDIS_EVENT_NODE
    <3> QED
      BY <1>2, <3>1, <3>2, <3>3, <3>4
  <2>3. \A k \in Node :
          /\ node'[k].by = node[k].by
          /\ k \in Registered' <=> k \in Registered
          /\ k \in InSetup' <=> k \in InSetup
    BY <2>2 DEF Registered, InSetup
  <2> QED
    BY <1>0, <2>1, <2>3, SameServed DEF TypeOK
<1>3. CASE register(n)
  <2> DEFINE t == [node[n] EXCEPT !.phase = "registered"]
  <2>1. t.phase = "registered" /\ t.by = node[n].by /\ node[n].phase = "subscribe"
    BY <1>3 DEF register, TypeOK, AD_REDIS_EVENT_NODE
  <2>2. /\ node'[n] = t
        /\ \A k \in Node \ {n} : node'[k] = node[k] \/ (node[k].phase = "kept" /\ node'[k] = NoNode)
        /\ UNCHANGED <<core, restarts, reconnects, overlapped>>
    BY <1>3, <2>1 DEF register, TypeOK, history
  <2>3. NoNode.phase = "none"
    BY DEF NoNode
  <2>4. Registered' = Registered \cup {n} /\ InSetup' = InSetup \ {n} /\ n \in InSetup
    BY <2>1, <2>2, <2>3 DEF Registered, InSetup
  <2>5. \A k \in InSetup' : node'[k].by = node[k].by
    BY <2>2, <2>4, <2>3 DEF InSetup
  <2>6. Served' = Served
    BY <2>4 DEF Served
  <2>7. ASSUME ~overlapped', ~reconnects'
        PROVE  Registered' \subseteq {m_redis_node'}
    <3>1. node[n].by = "restart"
      BY <2>2, <2>4, <2>7 DEF SubscriberInv
    <3>2. m_redis_node' = n
      BY <1>3, <3>1 DEF register
    <3> QED
      BY <2>2, <2>4, <2>7, <3>2 DEF SubscriberInv, Served
  <2> QED
    BY <1>0, <2>2, <2>4, <2>5, <2>6, <2>7 DEF SubscriberInv
<1> QED
  BY <1>1, <1>2, <1>3 DEF setup

LEMMA SubscriberInductive ==
  ASSUME TypeOK, TypeOK', SubscriberInv, [Next]_vars
  PROVE  SubscriberInv'
<1>1. CASE UNCHANGED vars
  BY <1>1 DEF vars, history, SubscriberInv, Served, Registered, InSetup
<1>2. ASSUME NEW n \in Node, setup(n) \/ restart_redis_subscriber(n)
      PROVE  SubscriberInv'
  BY <1>2, SetupSubscriber, RestartSubscriber
<1>3. ASSUME NEW n \in Node, handleEvent(n)
      PROVE  SubscriberInv'
  <2>1. core = "up" /\ n \in Registered
    BY <1>3 DEF handleEvent, Free
  <2>2. ASSUME NEW k \in Node, reconnect(n, k)
        PROVE  SubscriberInv'
    BY <2>1, <2>2, ReconnectSubscriber
  <2>3. CASE ignore_error(n)
    BY <1>1, <2>3 DEF ignore_error
  <2>4. CASE handle_reply(n)
    <3>1. CASE core_ends
      BY <2>4, <3>1, CoreEnds DEF handle_reply, history
    <3>2. CASE ~core_ends
      <4>1. /\ node' = [node EXCEPT ![n] = TakeReply(n)] /\ Readable(n)
            /\ UNCHANGED <<m_redis_node, core, history>>
        BY <2>4, <3>2 DEF handle_reply
      <4>2. TakeReply(n).phase = node[n].phase /\ TakeReply(n).by = node[n].by
        BY <4>1, TakeReplyType
      <4>3. \A k \in Node : node'[k].phase = node[k].phase /\ node'[k].by = node[k].by
        BY <4>1, <4>2 DEF TypeOK
      <4> QED
        BY <2>1, <4>1, <4>3, SameServed DEF Registered, InSetup, TypeOK
    <3> QED
      BY <3>1, <3>2
  <2> QED
    BY <1>3, <2>2, <2>3, <2>4 DEF handleEvent
<1>4. ASSUME NEW i \in 1..Channel, publish(i)
      PROVE  SubscriberInv'
  <2>1. core = "up"
    <3>1. \E n \in Node : node[n] # NoNode
      <4>1. NoNode.phase = "none"
        BY DEF NoNode
      <4> QED
        BY <1>4, <4>1 DEF publish, Registered, InSetup
    <3> QED
      BY <3>1 DEF SubscriberInv, TypeOK
  <2>2. \A k \in Node : node'[k].phase = node[k].phase /\ node'[k].by = node[k].by
    <3> SUFFICES ASSUME NEW k \in Node
                 PROVE  node'[k].phase = node[k].phase /\ node'[k].by = node[k].by
      OBVIOUS
    <3> DEFINE q == Append(node[k].socket, "message")
    <3>1. node'[k] = node[k] \/ node'[k] = [node[k] EXCEPT !.socket = q]
      BY <1>4 DEF publish
    <3>2. node[k] \in AD_REDIS_EVENT_NODE
      BY DEF TypeOK
    <3> HIDE DEF q
    <3> QED
      BY <3>1, <3>2 DEF AD_REDIS_EVENT_NODE
  <2> QED
    BY <1>4, <2>1, <2>2, SameServed DEF publish, Registered, InSetup, TypeOK
<1>5. CASE redis_leaves
  <2>1. \A k \in Node : node'[k].phase = node[k].phase /\ node'[k].by = node[k].by
    <3>1. PICK how \in {"eof", "error"} :
            \A k \in Node : node'[k] \in {node[k], [node[k] EXCEPT !.conn = how]}
      BY <1>5 DEF redis_leaves
    <3> QED
      BY <3>1 DEF TypeOK, AD_REDIS_EVENT_NODE
  <2>2. core = "up" \/ node' = node
    <3>1. NoNode.phase = "none"
      BY DEF NoNode
    <3> QED
      BY <1>5, <3>1 DEF redis_leaves, SubscriberInv, TypeOK
  <2> QED
    BY <1>5, <2>1, <2>2, SameServed DEF redis_leaves, Registered, InSetup, TypeOK
<1>6. CASE redis_returns
  BY <1>6 DEF redis_returns, history, SubscriberInv, Served, Registered, InSetup
<1>7. CASE core_starts
  <2>1. NoNode.phase = "none"
    BY DEF NoNode
  <2>2. Registered' = {} /\ InSetup' = {}
    BY <1>7, <2>1 DEF core_starts, SubscriberInv, Registered, InSetup
  <2> QED
    BY <1>7, <2>2 DEF core_starts, SubscriberInv, Served
<1> QED
  BY <1>1, <1>2, <1>3, <1>4, <1>5, <1>6, <1>7 DEF Next

LEMMA Inductive == Safe => []IInv
<1>1. Init => IInv
  <2> SUFFICES ASSUME Init
               PROVE  IInv
    OBVIOUS
  <2>1. NoNode \in AD_REDIS_EVENT_NODE /\ NoNode.phase = "none"
    BY NumbersAssumption DEF NoNode, AD_REDIS_EVENT_NODE
  <2>2. TypeOK
    BY <2>1 DEF Init, TypeOK
  <2>3. Registered = {} /\ InSetup = {}
    BY <2>1 DEF Init, Registered, InSetup
  <2>4. SubscriberInv
    BY <2>3 DEF Init, SubscriberInv, Served
  <2> QED
    BY <2>2, <2>4, NoNodeBalanced DEF Init, IInv
<1>2. IInv /\ [Next]_vars => IInv'
  <2> SUFFICES ASSUME IInv, [Next]_vars
               PROVE  IInv'
    OBVIOUS
  <2>1. TypeOK'
    BY TypeInductive DEF IInv
  <2>2. \A n \in Node : Balanced(node'[n])
    BY <2>1, BalanceInductive DEF IInv
  <2>3. \A n \in Node : Balanced(node[n])'
    BY <2>2 DEF Balanced, Unread, Due
  <2> QED
    BY <2>1, <2>3, SubscriberInductive DEF IInv
<1> QED
  BY <1>1, <1>2, PTL DEF Safe

-----------------------------------------------------------------------------
(* What is guaranteed *)

\* Type correctness of the nodes.
THEOREM TypeCorrect == Safe => []TypeOK
<1>1. IInv => TypeOK
  BY DEF IInv
<1> QED
  BY <1>1, Inductive, PTL

\* A message has one subscriber, unless a node that replaced itself was restarted, or
\* two were being set up at the same time.
THEOREM SubscriberIsOne == Safe => []OneSubscriber
<1>1. IInv => OneSubscriber
  <2> SUFFICES ASSUME IInv, restarts <= 1 \/ ~reconnects, ~overlapped
               PROVE  Cardinality(Registered) <= 1
    BY DEF OneSubscriber
  <2>1. \A a, b \in Registered : a = b
    BY DEF IInv, SubscriberInv, Served
  <2>2. Registered = {} \/ \E a : Registered = {a}
    BY <2>1
  <2>3. CASE Registered = {}
    BY <2>3, FS_EmptySet
  <2>4. CASE \E a : Registered = {a}
    BY <2>4, FS_Singleton
  <2> QED
    BY <2>2, <2>3, <2>4
<1> QED
  BY <1>1, Inductive, PTL

\* Every message that was taken for the reply of a SUBSCRIBE leaves a confirmation
\* unread, and nothing else does.
THEOREM LossLeavesConfirmation == Safe => []LostForAConfirmation
<1>1. IInv => LostForAConfirmation
  BY DEF IInv, LostForAConfirmation, Confirmations, Balanced, Unread, Due, Count,
     Registered, InSetup
<1> QED
  BY <1>1, Inductive, PTL
=============================================================================
