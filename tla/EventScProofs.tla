---------------------------- MODULE EventScProofs ----------------------------
(***************************************************************************)
(* Proofs about yields, for any number of coroutines, descriptors, limits  *)
(* and sleeps: whoever is suspended can be reached, nothing left over from *)
(* an earlier yield reaches it, and what a yield returns is true.          *)
(***************************************************************************)
EXTENDS EventSc, TLAPS

\* A place holds the node that belongs there, and one of a yield belongs to a
\* coroutine that is suspended in that yield.
NodeOK(f) ==
  /\ Registered(f) =>
       /\ f \in Socket => \E c \in Co : m_fdToNode[f] = CoEventNode(c, f)
       /\ f \in Co => m_fdToNode[f] = TimerNode(f)
       /\ f \in Service => m_fdToNode[f] = ServiceNode(f)
  /\ LET n == m_fdToNode[f] IN
     /\ n.kind = "co_event" =>
          Suspended(n.co) /\ at[n.co] = "yield_by_fd" /\ fd_of[n.co] = f
     /\ n.kind = "timer" =>
          Suspended(n.co) /\ (at[n.co] = "yield_by_timer" \/ m_timer[n.co] > 0)

\* What is known of a coroutine's yield fits where its program is, and a program
\* that is a handler is not in a yield.
RecordFits(c) ==
  /\ at[c] = "yield_by_fd" <=> fd_of[c] \in Socket
  /\ at[c] = "code" => m_timer[c] = 0
  /\ at[c] # "code" => c \in m_co_routines /\ co_state[c] # "DEAD"
  /\ Suspended(c) => at[c] # "code"
  /\ func[c] # NoNode =>
       c \in m_co_routines /\ co_state[c] \in {"READY", "RUNNING"} /\ at[c] = "code"

HasItsNodes(c) ==
  Suspended(c) /\ c \notin dropped =>
    /\ at[c] = "yield_by_fd" => m_fdToNode[fd_of[c]] = CoEventNode(c, fd_of[c])
    /\ at[c] = "yield_by_timer" \/ m_timer[c] > 0 => m_fdToNode[c] = TimerNode(c)

IsHonest(c) ==
  at[c] = "yield_by_fd" /\ co_state[c] \in {"READY", "RUNNING"} =>
    IF m_yield_result[c] THEN fd_of[c] \in readable ELSE m_timer[c] > 0

CoOK(c) == RecordFits(c) /\ HasItsNodes(c) /\ IsHonest(c)

\* No two coroutines yield on one descriptor.
FdsAreOwn ==
  \A c, d \in Co : fd_of[c] = fd_of[d] /\ fd_of[c] # NoFd => c = d

HandlerKind == {"co_event", "timer"}

\* While the node of a yield is handled everything else stands still.
Alone(k) ==
  /\ m_fdToNode[func[k].fd] = func[k] /\ Suspended(func[k].co)
  /\ func[k].kind = "co_event" => func[k].fd \in readable
  /\ \A d \in m_co_routines \ {k} : co_state[d] = "SUSPEND"

HandlersAlone == \A k \in Co : func[k].kind \in HandlerKind => Alone(k)

IInv ==
  /\ TypeOK
  /\ SchedulerOK
  /\ \A f \in Fd : NodeOK(f)
  /\ \A c \in Co : CoOK(c)
  /\ FdsAreOwn
  /\ HandlersAlone

-----------------------------------------------------------------------------
(* Nodes and descriptors *)

\* The three sorts of descriptors do not overlap, and none is NoFd.
LEMMA FdSorts ==
  /\ Socket \cap Service = {} /\ Socket \cap Co = {} /\ Service \cap Co = {}
  /\ NoFd \notin Fd /\ nullptr \notin Co
  BY SocketAssumption DEF Fd, NoFd, Co, nullptr

\* What the fields of a node are.
LEMMA NodeFields ==
  /\ NoNode.kind = "none"
  /\ \A c \in Co, s \in Socket :
       CoEventNode(c, s).kind = "co_event" /\ CoEventNode(c, s).fd = s /\ CoEventNode(c, s).co = c
  /\ \A c \in Co : TimerNode(c).kind = "timer" /\ TimerNode(c).fd = c /\ TimerNode(c).co = c
  /\ \A s \in Service : ServiceNode(s).kind = "service" /\ ServiceNode(s).fd = s
  BY DEF NoNode, CoEventNode, TimerNode, ServiceNode

\* A node knows its descriptor, and of which sort it is.
LEMMA NodeSorts ==
  ASSUME NEW n \in Node
  PROVE  /\ n.kind \in {"none", "co_event", "timer", "service"}
         /\ n.kind = "none" <=> n = NoNode
         /\ n.kind = "co_event" => n.co \in Co /\ n.fd \in Socket /\ n = CoEventNode(n.co, n.fd)
         /\ n.kind = "timer" => n.co \in Co /\ n.fd = n.co /\ n = TimerNode(n.co)
         /\ n.kind = "service" => n.fd \in Service /\ n = ServiceNode(n.fd)
<1>1. CASE n = NoNode
  BY <1>1, NodeFields
<1>2. CASE \E c \in Co, s \in Socket : n = CoEventNode(c, s)
  BY <1>2, NodeFields
<1>3. CASE \E c \in Co : n = TimerNode(c)
  BY <1>3, NodeFields
<1>4. CASE \E s \in Service : n = ServiceNode(s)
  BY <1>4, NodeFields
<1> QED
  BY <1>1, <1>2, <1>3, <1>4 DEF Node

LEMMA NodeMembers ==
  /\ NoNode \in Node
  /\ \A c \in Co, s \in Socket : CoEventNode(c, s) \in Node
  /\ \A c \in Co : TimerNode(c) \in Node
  /\ \A s \in Service : ServiceNode(s) \in Node
  BY DEF Node

\* Where a node of a yield is registered.
LEMMA PlaceOfNode ==
  ASSUME TypeOK, NEW f \in Fd, NodeOK(f)
  PROVE  /\ m_fdToNode[f].kind = "co_event" =>
              f \in Socket /\ m_fdToNode[f].fd = f /\ m_fdToNode[f].co \in Co
         /\ m_fdToNode[f].kind = "timer" =>
              f \in Co /\ m_fdToNode[f] = TimerNode(f) /\ m_fdToNode[f].co = f
         /\ m_fdToNode[f].kind = "service" => f \in Service
         /\ Registered(f) => m_fdToNode[f].fd = f
<1>1. m_fdToNode[f] \in Node
  BY DEF TypeOK
<1>2. f \in Socket \/ f \in Service \/ f \in Co
  BY DEF Fd
<1> QED
  BY <1>1, <1>2, FdSorts, NodeFields, NodeSorts DEF NodeOK, Registered

\* Only one coroutine runs: while it runs a program, no node of a yield is handled.
LEMMA NoHandler ==
  ASSUME IInv, NEW c \in Co, Running(c), func[c].kind \notin HandlerKind
  PROVE  \A k \in Co : func[k].kind \notin HandlerKind
<1>1. c \in m_co_routines /\ co_state[c] = "RUNNING"
  BY DEF IInv, SchedulerOK, Running
<1> QED
  BY <1>1 DEF IInv, HandlersAlone, Alone

-----------------------------------------------------------------------------
(* The scheduler *)

\* Each of the context switches keeps the scheduler in step.
LEMMA AddKeeps ==
  ASSUME CoTypeOK, SchedulerOK, NEW k \in Co, add_co(k), UNCHANGED <<ready_co, m_current_co>>
  PROVE  /\ CoTypeOK' /\ SchedulerOK'
         /\ k \notin m_co_routines /\ co_state[k] = "DEAD"
<1>1. k \notin m_co_routines
  BY DEF add_co, IsNext, Co
<1>2. co_state[k] = "DEAD"
  BY <1>1 DEF SchedulerOK
<1>3. CoTypeOK'
  BY DEF CoTypeOK, add_co, ACR_STATE
<1> QED
  BY <1>1, <1>2, <1>3 DEF CoTypeOK, SchedulerOK, add_co

LEMMA ResumeKeeps ==
  ASSUME CoTypeOK, SchedulerOK, NEW c \in Co, resume_co(c)
  PROVE  CoTypeOK' /\ SchedulerOK' /\ c \in m_co_routines /\ co_state[c] = "READY"
<1>1. c \in m_co_routines /\ co_state[c] = "READY"
  BY DEF resume_co, SchedulerOK
<1>2. CoTypeOK'
  BY DEF CoTypeOK, resume_co, ACR_STATE
<1>3. SchedulerOK'
  BY <1>1 DEF CoTypeOK, SchedulerOK, resume_co, Co, nullptr
<1> QED
  BY <1>1, <1>2, <1>3

LEMMA LeaveKeeps ==
  ASSUME CoTypeOK, SchedulerOK, NEW c \in Co, yield_co(c) \/ co_routine_func(c)
  PROVE  CoTypeOK' /\ SchedulerOK' /\ c \in m_co_routines /\ co_state[c] = "RUNNING"
<1>1. c \in m_co_routines /\ co_state[c] = "RUNNING"
  BY DEF yield_co, co_routine_func, SchedulerOK, Running
<1>2. CoTypeOK'
  BY DEF CoTypeOK, yield_co, co_routine_func, ACR_STATE
<1>3. SchedulerOK'
  <2>1. /\ m_current_co' = nullptr /\ ready_co' = ready_co /\ m_co_routines' = m_co_routines
        /\ \/ co_state' = [co_state EXCEPT ![c] = "SUSPEND"]
           \/ co_state' = [co_state EXCEPT ![c] = "DEAD"]
        /\ m_current_co = c
    BY DEF yield_co, co_routine_func, Running
  <2>2. \A d \in Co : d # nullptr
    BY FdSorts
  <2> QED
    BY <1>1, <2>1, <2>2 DEF SchedulerOK, CoTypeOK
<1> QED
  BY <1>1, <1>2, <1>3

LEMMA RoundKeeps ==
  ASSUME CoTypeOK, SchedulerOK, next_round
  PROVE  CoTypeOK' /\ SchedulerOK'
<1>1. CoTypeOK'
  BY DEF CoTypeOK, next_round
<1>2. SchedulerOK'
  BY DEF CoTypeOK, SchedulerOK, next_round
<1> QED
  BY <1>1, <1>2

LEMMA WakeKeeps ==
  ASSUME CoTypeOK, SchedulerOK, NEW k \in Co, NEW c \in Co, Running(k), Suspended(c), wake(k, c)
  PROVE  /\ CoTypeOK' /\ SchedulerOK'
         /\ k # c /\ k \in m_co_routines /\ co_state[k] = "RUNNING"
<1>1. k # c /\ k \in m_co_routines /\ co_state[k] = "RUNNING"
  BY DEF Running, Suspended, SchedulerOK
<1>2. CoTypeOK'
  BY DEF CoTypeOK, wake, ACR_STATE
<1>3. SchedulerOK'
  BY <1>1 DEF CoTypeOK, SchedulerOK, wake, Co, nullptr, Running, Suspended
<1> QED
  BY <1>1, <1>2, <1>3

-----------------------------------------------------------------------------
(* What a step leaves alone *)

\* The step has nothing to do with c: it may learn that c is dropped, erase it when
\* it is DEAD, and make more descriptors readable.
Same(c) ==
  /\ co_state'[c] = co_state[c]
  /\ c \in m_co_routines' => c \in m_co_routines
  /\ c \in m_co_routines /\ co_state[c] # "DEAD" => c \in m_co_routines'
  /\ at'[c] = at[c] /\ fd_of'[c] = fd_of[c] /\ m_timer'[c] = m_timer[c]
  /\ func'[c] = func[c] /\ m_yield_result'[c] = m_yield_result[c]
  /\ dropped \subseteq dropped'
  /\ fd_of[c] \in readable => fd_of[c] \in readable'
  /\ \/ Suspended(c) => c \in dropped'
     \/ /\ fd_of[c] \in Socket => m_fdToNode'[fd_of[c]] = m_fdToNode[fd_of[c]]
        /\ m_fdToNode'[c] = m_fdToNode[c]

LEMMA SameCo ==
  ASSUME NEW c \in Co, CoOK(c), Same(c)
  PROVE  CoOK(c)'
<1>1. Suspended(c)' <=> Suspended(c)
  BY DEF Same, Suspended
<1>2. RecordFits(c)'
  BY <1>1 DEF CoOK, RecordFits, Same
<1>3. HasItsNodes(c)'
  BY <1>1 DEF CoOK, HasItsNodes, RecordFits, Same
<1>4. IsHonest(c)'
  BY DEF CoOK, IsHonest, Same
<1> QED
  BY <1>2, <1>3, <1>4 DEF CoOK

\* c stays in its yield, if it is in one.
Stays(c) ==
  Suspended(c) => /\ Suspended(c)' /\ at'[c] = at[c]
                  /\ fd_of'[c] = fd_of[c] /\ m_timer'[c] = m_timer[c]

LEMMA SameStays ==
  ASSUME NEW c \in Co, Same(c)
  PROVE  Stays(c)
  BY DEF Same, Stays, Suspended

LEMMA SameNode ==
  ASSUME TypeOK, NEW f \in Fd, NodeOK(f), m_fdToNode'[f] = m_fdToNode[f],
         \A c \in Co : m_fdToNode[f].co = c /\ m_fdToNode[f].kind \in HandlerKind => Stays(c)
  PROVE  NodeOK(f)'
<1>1. m_fdToNode[f].kind \in HandlerKind => m_fdToNode[f].co \in Co
  BY PlaceOfNode DEF HandlerKind, Fd
<1>2. m_fdToNode[f].kind \in HandlerKind => Stays(m_fdToNode[f].co)
  BY <1>1
<1> QED
  BY <1>2 DEF NodeOK, Registered, HandlerKind, Stays

LEMMA NoNodeOK ==
  ASSUME NEW f \in Fd, m_fdToNode'[f] = NoNode
  PROVE  NodeOK(f)'
  BY NodeFields DEF NodeOK, Registered

\* A step that leaves all nodes alone and brings no coroutine out of a yield.
LEMMA NodesStay ==
  ASSUME IInv, m_fdToNode' = m_fdToNode, \A c \in Co : Stays(c)
  PROVE  \A f \in Fd : NodeOK(f)'
  BY SameNode DEF IInv

LEMMA NoHandlers ==
  ASSUME \A k \in Co : func'[k].kind \notin HandlerKind
  PROVE  HandlersAlone'
  BY DEF HandlersAlone

-----------------------------------------------------------------------------
(* The steps of the programs *)

\* What goes for any step of a program: nothing is being handled.
LEMMA InCodeFacts ==
  ASSUME IInv, NEW c \in Co, InCode(c)
  PROVE  /\ c \in m_co_routines /\ co_state[c] = "RUNNING"
         /\ at[c] = "code" /\ func[c] = NoNode /\ m_timer[c] = 0
         /\ \A k \in Co : func[k].kind \notin HandlerKind
<1>1. Running(c) /\ at[c] = "code" /\ func[c] = NoNode
  BY DEF InCode
<1>2. c \in m_co_routines /\ co_state[c] = "RUNNING"
  BY <1>1 DEF IInv, SchedulerOK, Running
<1>3. m_timer[c] = 0
  BY <1>1 DEF IInv, CoOK, RecordFits
<1>4. func[c].kind \notin HandlerKind
  BY <1>1, NodeFields DEF HandlerKind
<1> QED
  BY <1>1, <1>2, <1>3, <1>4, NoHandler

\* Registering nodes at free descriptors puts them there and leaves the others.
LEMMA RegisterYield ==
  ASSUME TypeOK, NEW c \in Co, NEW s \in Socket, NEW nodes,
         nodes = {CoEventNode(c, s)} \/ nodes = {TimerNode(c)}
           \/ nodes = {CoEventNode(c, s), TimerNode(c)},
         registerNodes(nodes), ~Registered(s), ~Registered(c)
  PROVE  /\ m_fdToNode' \in [Fd -> Node]
         /\ CoEventNode(c, s) \in nodes => m_fdToNode'[s] = CoEventNode(c, s)
         /\ TimerNode(c) \in nodes => m_fdToNode'[c] = TimerNode(c)
         /\ \A f \in Fd : \/ m_fdToNode'[f] = m_fdToNode[f]
                          \/ f = s /\ m_fdToNode'[f] = CoEventNode(c, s)
                          \/ f = c /\ m_fdToNode'[f] = TimerNode(c)
<1>1. s \in Fd /\ c \in Fd /\ s # c
  BY FdSorts DEF Fd
<1>2. /\ CoEventNode(c, s).fd = s /\ TimerNode(c).fd = c
      /\ CoEventNode(c, s) # TimerNode(c)
      /\ CoEventNode(c, s) \in Node /\ TimerNode(c) \in Node
  BY NodeFields, NodeMembers
<1>3. \A n \in nodes : n = CoEventNode(c, s) \/ n = TimerNode(c)
  OBVIOUS
<1>4. ASSUME NEW f \in Fd
      PROVE  /\ f = s /\ CoEventNode(c, s) \in nodes => m_fdToNode'[f] = CoEventNode(c, s)
             /\ f = c /\ TimerNode(c) \in nodes => m_fdToNode'[f] = TimerNode(c)
             /\ ~(f = s /\ CoEventNode(c, s) \in nodes) /\ ~(f = c /\ TimerNode(c) \in nodes)
                  => m_fdToNode'[f] = m_fdToNode[f]
  <2> DEFINE chosen == CHOOSE n \in nodes : n.fd = f
  <2>1. m_fdToNode'[f] = IF ~Registered(f) /\ \E n \in nodes : n.fd = f
                           THEN chosen ELSE m_fdToNode[f]
    BY DEF registerNodes
  <2>2. (\E n \in nodes : n.fd = f) => chosen \in nodes /\ chosen.fd = f
    OBVIOUS
  <2> HIDE DEF chosen
  <2>3. CASE f = s /\ CoEventNode(c, s) \in nodes
    BY <1>1, <1>2, <1>3, <2>1, <2>2, <2>3
  <2>4. CASE f = c /\ TimerNode(c) \in nodes
    BY <1>1, <1>2, <1>3, <2>1, <2>2, <2>4
  <2>5. CASE ~(f = s /\ CoEventNode(c, s) \in nodes) /\ ~(f = c /\ TimerNode(c) \in nodes)
    BY <1>1, <1>2, <1>3, <2>1, <2>2, <2>5
  <2> QED
    BY <1>1, <2>3, <2>4, <2>5
<1>5. DOMAIN m_fdToNode' = Fd /\ m_fdToNode' = [f \in Fd |-> m_fdToNode'[f]]
  BY DEF registerNodes
<1>6. \A f \in Fd : m_fdToNode'[f] \in Node
  BY <1>2, <1>4 DEF TypeOK
<1> QED
  BY <1>1, <1>4, <1>5, <1>6

LEMMA RegisterTimer ==
  ASSUME TypeOK, NEW c \in Co, registerNodes({TimerNode(c)}), ~Registered(c)
  PROVE  /\ m_fdToNode' \in [Fd -> Node]
         /\ m_fdToNode'[c] = TimerNode(c)
         /\ \A f \in Fd \ {c} : m_fdToNode'[f] = m_fdToNode[f]
<1>1. c \in Fd /\ TimerNode(c).fd = c /\ TimerNode(c) \in Node
  BY NodeFields, NodeMembers DEF Fd
<1>2. (CHOOSE n \in {TimerNode(c)} : n.fd = c) = TimerNode(c)
  BY <1>1
<1>3. \A f \in Fd : m_fdToNode'[f] = IF f = c THEN TimerNode(c) ELSE m_fdToNode[f]
  BY <1>1, <1>2 DEF registerNodes
<1>4. m_fdToNode' = [f \in Fd |-> m_fdToNode'[f]]
  BY DEF registerNodes
<1>5. \A f \in Fd : m_fdToNode'[f] \in Node
  BY <1>1, <1>3 DEF TypeOK
<1> QED
  BY <1>1, <1>3, <1>4, <1>5

\* A running coroutine has no timer of a yield.
LEMMA NoTimer ==
  ASSUME IInv, NEW c \in Co, co_state[c] = "RUNNING"
  PROVE  ~Registered(c)
<1>1. c \in Fd /\ NodeOK(c)
  BY DEF IInv, Fd
<1> QED
  BY <1>1, NodeFields DEF NodeOK, Suspended, Registered

\* What both kinds of yield have in common, given the nodes that are registered.
LEMMA YieldIInv ==
  ASSUME IInv, NEW c \in Co, InCode(c), yield_co(c),
         m_fdToNode' \in [Fd -> Node],
         at' \in [Co -> {"code", "yield_by_fd", "yield_by_timer"}],
         fd_of' \in [Co -> Socket \cup {NoFd}],
         m_timer' \in [Co -> {0} \cup Limit \cup {1000 * sec : sec \in Sleep}],
         expired' = expired \ {c},
         UNCHANGED <<func, m_yield_result, readable, dropped>>,
         \A d \in Co \ {c} : at'[d] = at[d] /\ fd_of'[d] = fd_of[d] /\ m_timer'[d] = m_timer[d],
         at'[c] \in {"yield_by_fd", "yield_by_timer"},
         at'[c] = "yield_by_fd" <=> fd_of'[c] \in Socket,
         fd_of'[c] \in Socket => \A d \in Co : fd_of[d] # fd_of'[c],
         fd_of'[c] \in Socket => m_fdToNode'[fd_of'[c]] = CoEventNode(c, fd_of'[c]),
         at'[c] = "yield_by_timer" \/ m_timer'[c] > 0 => m_fdToNode'[c] = TimerNode(c),
         m_fdToNode'[c] = NoNode \/ at'[c] = "yield_by_timer" \/ m_timer'[c] > 0,
         \A f \in Fd \ {fd_of'[c], c} : m_fdToNode'[f] = m_fdToNode[f]
  PROVE  IInv'
<1>1. TypeOK /\ CoTypeOK /\ SchedulerOK
  BY DEF IInv, TypeOK
<1>2. CoTypeOK' /\ SchedulerOK'
  BY <1>1, LeaveKeeps
<1>3. /\ c \in m_co_routines /\ co_state[c] = "RUNNING"
      /\ at[c] = "code" /\ func[c] = NoNode
      /\ \A k \in Co : func[k].kind \notin HandlerKind
  BY InCodeFacts
<1>4. TypeOK'
  BY <1>1, <1>2 DEF TypeOK, Fd, Node, Co
<1>5. co_state'[c] = "SUSPEND" /\ m_co_routines' = m_co_routines
  BY <1>1 DEF yield_co, CoTypeOK
<1>6. \A d \in Co \ {c} : Same(d)
  <2> SUFFICES ASSUME NEW d \in Co \ {c} PROVE Same(d)
    OBVIOUS
  <2>1. co_state'[d] = co_state[d]
    BY <1>1 DEF yield_co, CoTypeOK
  <2>2. d \in Fd /\ d # fd_of'[c] /\ d # c
    BY <1>1, FdSorts DEF Fd, TypeOK
  <2>3. m_fdToNode'[d] = m_fdToNode[d]
    BY <2>2
  <2>4. fd_of[d] \in Socket => m_fdToNode'[fd_of[d]] = m_fdToNode[fd_of[d]]
    <3>1. SUFFICES ASSUME fd_of[d] \in Socket
                   PROVE  fd_of[d] \in Fd /\ fd_of[d] # c /\ fd_of[d] # fd_of'[c]
      OBVIOUS
    <3> QED
      BY <3>1, FdSorts DEF Fd
  <2> QED
    BY <1>5, <2>1, <2>3, <2>4 DEF Same
<1>7. CoOK(c)'
  <2>1. RecordFits(c)'
    BY <1>3, <1>5 DEF RecordFits, Suspended
  <2>2. HasItsNodes(c)'
    BY <1>4 DEF HasItsNodes, TypeOK
  <2>3. IsHonest(c)'
    BY <1>5 DEF IsHonest
  <2> QED
    BY <2>1, <2>2, <2>3 DEF CoOK
<1>8. \A d \in Co : CoOK(d)'
  BY <1>6, <1>7, SameCo DEF IInv
<1>9. \A d \in Co : Stays(d)
  BY <1>3, <1>6, SameStays DEF Stays, Suspended
<1>10. ASSUME NEW f \in Fd PROVE NodeOK(f)'
  <2>1. CASE f # fd_of'[c] /\ f # c
    BY <1>1, <1>9, <2>1, SameNode DEF IInv
  <2>2. CASE f = fd_of'[c]
    <3>1. f \in Socket /\ f \notin Co /\ f \notin Service /\ m_fdToNode'[f] = CoEventNode(c, f)
      BY <1>4, <2>2, FdSorts DEF TypeOK
    <3>2. /\ m_fdToNode'[f].kind = "co_event" /\ m_fdToNode'[f].co = c
      BY <3>1, NodeFields
    <3> QED
      BY <1>3, <1>5, <2>2, <3>1, <3>2 DEF NodeOK, Suspended
  <2>3. CASE f = c /\ m_fdToNode'[f] = NoNode
    BY <2>3, NoNodeOK
  <2>4. CASE f = c /\ m_fdToNode'[f] # NoNode
    <3>1. f \notin Socket /\ f \notin Service /\ m_fdToNode'[f] = TimerNode(c)
      BY <2>4, FdSorts
    <3>2. /\ m_fdToNode'[f].kind = "timer" /\ m_fdToNode'[f].co = c
      BY <3>1, NodeFields
    <3> QED
      BY <1>3, <1>5, <2>4, <3>1, <3>2 DEF NodeOK, Suspended
  <2> QED
    BY <2>1, <2>2, <2>3, <2>4
<1>11. FdsAreOwn'
  <2> SUFFICES ASSUME NEW d \in Co, NEW e \in Co, fd_of'[d] = fd_of'[e], fd_of'[d] # NoFd
               PROVE  d = e
    BY DEF FdsAreOwn
  <2>1. fd_of'[d] \in Socket /\ fd_of'[e] \in Socket
    BY <1>4 DEF TypeOK
  <2>2. CASE d # c /\ e # c
    BY <2>2 DEF IInv, FdsAreOwn
  <2>3. CASE d = c \/ e = c
    BY <2>1, <2>3
  <2> QED
    BY <2>2, <2>3
<1>12. HandlersAlone'
  BY <1>3, NoHandlers
<1> QED
  BY <1>2, <1>4, <1>8, <1>10, <1>11, <1>12 DEF IInv, Fd

LEMMA YieldByFdIInv ==
  ASSUME IInv, NEW c \in Co, NEW s \in Socket, NEW limit \in Limit, yield_by_fd(c, s, limit)
  PROVE  IInv'
<1>1. TypeOK /\ InCode(c) /\ co_state[c] = "RUNNING"
  BY InCodeFacts DEF IInv, yield_by_fd
<1>2. ~Registered(c)
  BY <1>1, NoTimer
<1>3. limit \in Nat /\ 0 \in Nat /\ s # c
  BY FdSorts, SocketAssumption
<1>4. /\ m_fdToNode' \in [Fd -> Node]
      /\ m_fdToNode'[s] = CoEventNode(c, s)
      /\ limit > 0 => m_fdToNode'[c] = TimerNode(c)
      /\ \A f \in Fd : f # s /\ (f # c \/ ~(limit > 0)) => m_fdToNode'[f] = m_fdToNode[f]
  <2>1. CASE limit > 0
    <3>1. NodesOfYield(c, s, limit) = {CoEventNode(c, s), TimerNode(c)}
      BY <2>1 DEF NodesOfYield
    <3>2. registerNodes({CoEventNode(c, s), TimerNode(c)}) /\ ~Registered(s)
      BY <3>1 DEF yield_by_fd
    <3> QED
      BY <1>1, <1>2, <2>1, <3>2, RegisterYield
  <2>2. CASE ~(limit > 0)
    <3>1. NodesOfYield(c, s, limit) = {CoEventNode(c, s)}
      BY <2>2 DEF NodesOfYield
    <3>2. registerNodes({CoEventNode(c, s)}) /\ ~Registered(s)
      BY <3>1 DEF yield_by_fd
    <3>3. \A f \in Fd : f # s => m_fdToNode'[f] = m_fdToNode[f]
      <4> SUFFICES ASSUME NEW f \in Fd, f # s PROVE m_fdToNode'[f] = m_fdToNode[f]
        OBVIOUS
      <4>1. ~\E n \in {CoEventNode(c, s)} : n.fd = f
        BY NodeFields
      <4> QED
        BY <3>2, <4>1 DEF registerNodes
    <3> QED
      BY <1>1, <1>2, <2>2, <3>2, <3>3, RegisterYield
  <2> QED
    BY <2>1, <2>2
<1>5. /\ at' = [at EXCEPT ![c] = "yield_by_fd"]
      /\ fd_of' = [fd_of EXCEPT ![c] = s]
      /\ m_timer' = [m_timer EXCEPT ![c] = limit]
      /\ expired' = expired \ {c}
      /\ yield_co(c)
      /\ \A d \in Co : fd_of[d] # s
      /\ UNCHANGED <<func, m_yield_result, readable, dropped>>
  BY DEF yield_by_fd
<1>6. /\ at' \in [Co -> {"code", "yield_by_fd", "yield_by_timer"}]
      /\ fd_of' \in [Co -> Socket \cup {NoFd}]
      /\ m_timer' \in [Co -> {0} \cup Limit \cup {1000 * sec : sec \in Sleep}]
  BY <1>1, <1>5 DEF TypeOK
<1>7. /\ at'[c] = "yield_by_fd" /\ fd_of'[c] = s /\ m_timer'[c] = limit
      /\ \A d \in Co \ {c} :
           at'[d] = at[d] /\ fd_of'[d] = fd_of[d] /\ m_timer'[d] = m_timer[d]
  BY <1>1, <1>5 DEF TypeOK
<1>8. m_fdToNode'[c] = NoNode \/ m_timer'[c] > 0
  BY <1>2, <1>3, <1>4, <1>7 DEF Registered, Fd
<1> QED
  BY <1>1, <1>4, <1>5, <1>6, <1>7, <1>8, YieldIInv

LEMMA YieldByTimerIInv ==
  ASSUME IInv, NEW c \in Co, NEW sec \in Sleep, yield_by_timer(c, sec)
  PROVE  IInv'
<1>1. TypeOK /\ InCode(c) /\ co_state[c] = "RUNNING" /\ at[c] = "code"
  BY InCodeFacts DEF IInv, yield_by_timer
<1>2. ~Registered(c)
  BY <1>1, NoTimer
<1>3. /\ m_fdToNode' \in [Fd -> Node]
      /\ m_fdToNode'[c] = TimerNode(c)
      /\ \A f \in Fd \ {c} : m_fdToNode'[f] = m_fdToNode[f]
  BY <1>1, <1>2, RegisterTimer DEF yield_by_timer
<1>4. fd_of[c] = NoFd /\ NoFd \notin Socket
  BY <1>1, FdSorts DEF IInv, CoOK, RecordFits, TypeOK, Fd
<1>5. /\ at' = [at EXCEPT ![c] = "yield_by_timer"]
      /\ fd_of' = fd_of
      /\ m_timer' = [m_timer EXCEPT ![c] = 1000 * sec]
      /\ expired' = expired \ {c}
      /\ yield_co(c)
      /\ UNCHANGED <<func, m_yield_result, readable, dropped>>
  BY DEF yield_by_timer
<1>6. /\ at' \in [Co -> {"code", "yield_by_fd", "yield_by_timer"}]
      /\ fd_of' \in [Co -> Socket \cup {NoFd}]
      /\ m_timer' \in [Co -> {0} \cup Limit \cup {1000 * t : t \in Sleep}]
  BY <1>1, <1>5 DEF TypeOK
<1>7. /\ at'[c] = "yield_by_timer" /\ fd_of'[c] = NoFd
      /\ \A d \in Co \ {c} :
           at'[d] = at[d] /\ fd_of'[d] = fd_of[d] /\ m_timer'[d] = m_timer[d]
  BY <1>1, <1>4, <1>5 DEF TypeOK
<1> QED
  BY <1>1, <1>3, <1>4, <1>5, <1>6, <1>7, YieldIInv

\* A coroutine that was woken goes on and has read its descriptor.
LEMMA YieldReturnsIInv ==
  ASSUME IInv, NEW c \in Co, yield_returns(c)
  PROVE  IInv'
<1>1. TypeOK /\ Running(c) /\ at[c] # "code"
  BY DEF IInv, yield_returns
<1>2. /\ at' = [at EXCEPT ![c] = "code"]
      /\ fd_of' = [fd_of EXCEPT ![c] = NoFd]
      /\ m_timer' = [m_timer EXCEPT ![c] = 0]
      /\ readable' = readable \ {fd_of[c]}
      /\ UNCHANGED <<sched, m_fdToNode, func, m_yield_result, expired, dropped>>
  BY DEF yield_returns
<1>3. co_state[c] = "RUNNING" /\ func[c] = NoNode
  BY <1>1 DEF IInv, SchedulerOK, Running, CoOK, RecordFits
<1>4. \A k \in Co : func[k].kind \notin HandlerKind
  BY <1>1, <1>3, NodeFields, NoHandler DEF HandlerKind
<1>5. TypeOK' /\ SchedulerOK'
  BY <1>1, <1>2 DEF TypeOK, CoTypeOK, IInv, SchedulerOK, sched, Fd, Node, Co
<1>6. at'[c] = "code" /\ fd_of'[c] = NoFd /\ m_timer'[c] = 0
  BY <1>1, <1>2 DEF TypeOK
<1>7. \A d \in Co \ {c} : Same(d)
  <2> SUFFICES ASSUME NEW d \in Co \ {c} PROVE Same(d)
    OBVIOUS
  <2>1. fd_of[d] \in readable => fd_of[d] \in readable'
    <3>1. SUFFICES ASSUME fd_of[d] \in readable PROVE fd_of[d] # fd_of[c]
      BY <1>2
    <3>2. fd_of[d] # NoFd
      BY <1>1, <3>1, FdSorts DEF TypeOK, Fd
    <3> QED
      BY <3>2 DEF IInv, FdsAreOwn
  <2> QED
    BY <1>1, <1>2, <2>1 DEF Same, sched, TypeOK
<1>8. CoOK(c)'
  <2>1. RecordFits(c)'
    BY <1>2, <1>3, <1>6, FdSorts DEF RecordFits, Suspended, sched, Fd
  <2> QED
    BY <1>2, <1>3, <1>6, <2>1 DEF CoOK, HasItsNodes, IsHonest, Suspended, sched
<1>9. \A d \in Co : CoOK(d)'
  BY <1>7, <1>8, SameCo DEF IInv
<1>10. \A d \in Co : Stays(d)
  BY <1>3, <1>7, SameStays DEF Stays, Suspended
<1>11. \A f \in Fd : NodeOK(f)'
  BY <1>2, <1>10, NodesStay
<1>12. FdsAreOwn'
  <2> SUFFICES ASSUME NEW d \in Co, NEW e \in Co, fd_of'[d] = fd_of'[e], fd_of'[d] # NoFd
               PROVE  d = e
    BY DEF FdsAreOwn
  <2>1. fd_of'[d] = fd_of[d] /\ fd_of'[e] = fd_of[e]
    BY <1>1, <1>2, <1>6 DEF TypeOK
  <2> QED
    BY <2>1 DEF IInv, FdsAreOwn
<1>13. HandlersAlone'
  BY <1>2, <1>4, NoHandlers
<1> QED
  BY <1>5, <1>9, <1>11, <1>12, <1>13 DEF IInv, Fd

\* Nothing is known yet of the next coroutine.
LEMMA NewCo ==
  ASSUME IInv, NEW k \in Co, k \notin m_co_routines
  PROVE  at[k] = "code" /\ func[k] = NoNode /\ m_timer[k] = 0 /\ fd_of[k] \notin Socket
  BY DEF IInv, CoOK, RecordFits

\* A coroutine is added, for a program or for a handler.
LEMMA AddIInv ==
  ASSUME IInv, NEW k \in Co, add_co(k), NEW n \in Node,
         func' = [func EXCEPT ![k] = n],
         m_yield_result' = [m_yield_result EXCEPT ![k] = TRUE],
         UNCHANGED <<ready_co, m_current_co, m_fdToNode, at, fd_of, m_timer, readable,
                     expired, dropped>>,
         HandlersAlone'
  PROVE  IInv'
<1>1. TypeOK /\ CoTypeOK /\ SchedulerOK
  BY DEF IInv, TypeOK
<1>2. CoTypeOK' /\ SchedulerOK' /\ k \notin m_co_routines /\ co_state[k] = "DEAD"
  BY <1>1, AddKeeps
<1>3. TypeOK'
  BY <1>1, <1>2 DEF TypeOK, Fd, Node, Co
<1>4. at[k] = "code" /\ func[k] = NoNode /\ m_timer[k] = 0 /\ fd_of[k] \notin Socket
  BY <1>2, NewCo
<1>5. co_state'[k] = "READY" /\ m_co_routines' = m_co_routines \cup {k} /\ func'[k] = n
  BY <1>1 DEF add_co, CoTypeOK, TypeOK
<1>6. \A d \in Co \ {k} : Same(d)
  BY <1>1, <1>5 DEF Same, add_co, TypeOK, CoTypeOK
<1>7. CoOK(k)'
  BY <1>4, <1>5 DEF CoOK, RecordFits, HasItsNodes, IsHonest, Suspended
<1>8. \A d \in Co : CoOK(d)'
  BY <1>6, <1>7, SameCo DEF IInv
<1>9. \A d \in Co : Stays(d)
  BY <1>2, <1>6, SameStays DEF Stays, Suspended
<1>10. \A f \in Fd : NodeOK(f)'
  BY <1>9, NodesStay
<1>11. FdsAreOwn'
  BY DEF IInv, FdsAreOwn
<1> QED
  BY <1>2, <1>3, <1>8, <1>10, <1>11 DEF IInv, Fd

LEMMA SpawnIInv ==
  ASSUME IInv, NEW c \in Co, NEW k \in Co, spawn(c, k)
  PROVE  IInv'
<1>1. TypeOK /\ CoTypeOK /\ SchedulerOK /\ InCode(c) /\ add_co(k)
  BY DEF IInv, TypeOK, spawn
<1>2. k \notin m_co_routines
  BY <1>1, AddKeeps DEF spawn
<1>3. func[k] = NoNode /\ NoNode \in Node
  BY <1>2, NewCo, NodeMembers
<1>4. func' = [func EXCEPT ![k] = NoNode]
  BY <1>1, <1>3 DEF spawn, TypeOK
<1>5. HandlersAlone'
  BY <1>1, InCodeFacts, NoHandlers DEF spawn
<1> QED
  BY <1>1, <1>3, <1>4, <1>5, AddIInv DEF spawn

LEMMA FinishIInv ==
  ASSUME IInv, NEW c \in Co, finish(c)
  PROVE  IInv'
<1>1. TypeOK /\ CoTypeOK /\ SchedulerOK /\ InCode(c) /\ co_routine_func(c) /\ UNCHANGED events
  BY DEF IInv, TypeOK, finish
<1>2. CoTypeOK' /\ SchedulerOK'
  BY <1>1, LeaveKeeps
<1>3. /\ co_state[c] = "RUNNING" /\ at[c] = "code" /\ func[c] = NoNode
      /\ \A k \in Co : func[k].kind \notin HandlerKind
  BY <1>1, InCodeFacts
<1>4. TypeOK'
  BY <1>1, <1>2 DEF TypeOK, events, Fd, Node, Co
<1>5. co_state'[c] = "DEAD" /\ m_co_routines' = m_co_routines
  BY <1>1 DEF co_routine_func, CoTypeOK
<1>6. \A d \in Co \ {c} : Same(d)
  BY <1>1, <1>5 DEF Same, co_routine_func, CoTypeOK, events
<1>7. CoOK(c)'
  BY <1>1, <1>3, <1>5 DEF IInv, CoOK, RecordFits, HasItsNodes, IsHonest, Suspended, events
<1>8. \A d \in Co : CoOK(d)'
  BY <1>6, <1>7, SameCo DEF IInv
<1>9. \A d \in Co : Stays(d)
  BY <1>3, <1>6, SameStays DEF Stays, Suspended
<1>10. \A f \in Fd : NodeOK(f)'
  BY <1>1, <1>9, NodesStay DEF events
<1>11. FdsAreOwn' /\ HandlersAlone'
  BY <1>1, <1>3, NoHandlers DEF IInv, FdsAreOwn, events
<1> QED
  BY <1>2, <1>4, <1>8, <1>10, <1>11 DEF IInv, Fd

\* Whoever is suspended when the loop is stopped stays so for ever.
LEMMA StopIInv ==
  ASSUME IInv, NEW c \in Co, stopEventLoop(c)
  PROVE  IInv'
<1>1. /\ InCode(c) /\ unregisterNodes(Fd)
      /\ dropped' = dropped \cup {d \in m_co_routines : co_state[d] = "SUSPEND"}
      /\ UNCHANGED <<sched, func, at, fd_of, m_timer, m_yield_result, readable, expired>>
  BY DEF stopEventLoop
<1>2. m_fdToNode' = [f \in Fd |-> NoNode] /\ NoNode \in Node
  BY <1>1, NodeMembers DEF unregisterNodes
<1>3. TypeOK' /\ SchedulerOK'
  <2>1. CoTypeOK' /\ SchedulerOK'
    BY <1>1 DEF IInv, TypeOK, CoTypeOK, SchedulerOK, sched
  <2>2. m_fdToNode' \in [Fd -> Node] /\ dropped' \in SUBSET Co
    BY <1>1, <1>2 DEF IInv, TypeOK, CoTypeOK
  <2> QED
    BY <1>1, <2>1, <2>2 DEF IInv, TypeOK, Fd, Node, Co
<1>4. \A d \in Co : Same(d)
  <2> SUFFICES ASSUME NEW d \in Co PROVE Same(d)
    OBVIOUS
  <2>1. CASE Suspended(d)
    BY <1>1, <2>1 DEF Same, sched, Suspended
  <2>2. CASE ~Suspended(d)
    BY <1>1, <2>2 DEF Same, sched
  <2> QED
    BY <2>1, <2>2
<1>5. \A d \in Co : CoOK(d)'
  BY <1>4, SameCo DEF IInv
<1>6. \A f \in Fd : NodeOK(f)'
  BY <1>2, NoNodeOK
<1>7. FdsAreOwn' /\ HandlersAlone'
  BY <1>1, InCodeFacts, NoHandlers DEF IInv, FdsAreOwn
<1> QED
  BY <1>3, <1>5, <1>6, <1>7 DEF IInv, Fd

\* A service reads its own descriptor, which is nobody's yield's.
LEMMA HandleServiceIInv ==
  ASSUME IInv, NEW k \in Co, handle_service(k)
  PROVE  IInv'
<1>1. TypeOK /\ Running(k) /\ func[k].kind = "service"
  BY DEF IInv, handle_service
<1>2. /\ readable' = readable \ {func[k].fd}
      /\ func' = [func EXCEPT ![k] = NoNode]
      /\ UNCHANGED <<sched, m_fdToNode, at, fd_of, m_timer, m_yield_result, expired, dropped>>
  BY DEF handle_service
<1>3. func[k].fd \in Service
  BY <1>1, NodeSorts DEF TypeOK
<1>4. \A j \in Co : func[j].kind \notin HandlerKind
  BY <1>1, NoHandler DEF HandlerKind
<1>5. \A j \in Co : func'[j].kind \notin HandlerKind
  BY <1>1, <1>2, <1>4, NodeFields DEF TypeOK, HandlerKind
<1>6. TypeOK' /\ SchedulerOK'
  BY <1>1, <1>2, NodeMembers DEF TypeOK, CoTypeOK, IInv, SchedulerOK, sched, Fd, Node, Co
<1>7. \A d \in Co : fd_of[d] \in readable => fd_of[d] \in readable'
  BY <1>1, <1>2, <1>3, FdSorts DEF TypeOK, Fd
<1>8. \A d \in Co \ {k} : Same(d)
  BY <1>1, <1>2, <1>7 DEF Same, sched, TypeOK
<1>9. co_state[k] = "RUNNING" /\ func'[k] = NoNode /\ at[k] = "code"
  <2>1. func[k] # NoNode
    BY <1>1, NodeFields
  <2> QED
    BY <1>1, <1>2, <2>1 DEF IInv, SchedulerOK, Running, TypeOK, CoOK, RecordFits
<1>10. CoOK(k)'
  BY <1>2, <1>9 DEF IInv, CoOK, RecordFits, HasItsNodes, IsHonest, Suspended, sched
<1>11. \A d \in Co : CoOK(d)'
  BY <1>8, <1>10, SameCo DEF IInv
<1>12. \A d \in Co : Stays(d)
  BY <1>8, <1>9, SameStays DEF Stays, Suspended
<1>13. \A f \in Fd : NodeOK(f)'
  BY <1>2, <1>12, NodesStay
<1>14. FdsAreOwn' /\ HandlersAlone'
  BY <1>2, <1>5, NoHandlers DEF IInv, FdsAreOwn
<1> QED
  BY <1>6, <1>11, <1>13, <1>14 DEF IInv, Fd

-----------------------------------------------------------------------------
(* The steps of the loop and of the kernel *)

LEMMA ResumeIInv ==
  ASSUME IInv, NEW c \in Co, resume(c)
  PROVE  IInv'
<1>1. TypeOK /\ CoTypeOK /\ SchedulerOK /\ resume_co(c) /\ UNCHANGED events
  BY DEF IInv, TypeOK, resume
<1>2. CoTypeOK' /\ SchedulerOK' /\ c \in m_co_routines /\ co_state[c] = "READY"
  BY <1>1, ResumeKeeps
<1>3. TypeOK'
  BY <1>1, <1>2 DEF TypeOK, events, Fd, Node, Co
<1>4. co_state'[c] = "RUNNING" /\ m_co_routines' = m_co_routines
  BY <1>1 DEF resume_co, CoTypeOK
<1>5. \A d \in Co \ {c} : Same(d)
  BY <1>1, <1>4 DEF Same, resume_co, CoTypeOK, events
<1>6. CoOK(c)'
  BY <1>1, <1>2, <1>4 DEF IInv, CoOK, RecordFits, HasItsNodes, IsHonest, Suspended, events
<1>7. \A d \in Co : CoOK(d)'
  BY <1>5, <1>6, SameCo DEF IInv
<1>8. \A d \in Co : Stays(d)
  BY <1>2, <1>5, SameStays DEF Stays, Suspended
<1>9. \A f \in Fd : NodeOK(f)'
  BY <1>1, <1>8, NodesStay DEF events
<1>10. FdsAreOwn'
  BY <1>1 DEF IInv, FdsAreOwn, events
<1>11. HandlersAlone'
  <2> SUFFICES ASSUME NEW k \in Co, func'[k].kind \in HandlerKind
               PROVE  Alone(k)'
    BY DEF HandlersAlone
  <2>1. func' = func /\ m_fdToNode' = m_fdToNode /\ readable' = readable
    BY <1>1 DEF events
  <2>2. /\ m_fdToNode[func[k].fd] = func[k] /\ Suspended(func[k].co)
        /\ func[k].kind = "co_event" => func[k].fd \in readable
        /\ \A d \in m_co_routines \ {k} : co_state[d] = "SUSPEND"
    BY <2>1 DEF IInv, HandlersAlone, Alone
  <2>3. c = k
    BY <1>2, <2>2
  <2>4. func[k].co \in Co
    BY <1>1, <2>1, NodeSorts DEF TypeOK, HandlerKind
  <2>5. func[k].co \in m_co_routines' /\ co_state'[func[k].co] = "SUSPEND"
    BY <1>8, <2>2, <2>4 DEF Stays, Suspended
  <2>6. \A d \in m_co_routines \ {k} : co_state'[d] = "SUSPEND"
    BY <1>1, <2>2, <2>3 DEF resume_co, CoTypeOK
  <2> QED
    BY <1>4, <2>1, <2>2, <2>5, <2>6 DEF Alone, Suspended
<1> QED
  BY <1>2, <1>3, <1>7, <1>9, <1>10, <1>11 DEF IInv, Fd

LEMMA RoundIInv ==
  ASSUME IInv, round
  PROVE  IInv'
<1>1. TypeOK /\ CoTypeOK /\ SchedulerOK /\ next_round /\ UNCHANGED events
  BY DEF IInv, TypeOK, round
<1>2. CoTypeOK' /\ SchedulerOK'
  BY <1>1, RoundKeeps
<1>3. TypeOK'
  BY <1>1, <1>2 DEF TypeOK, events, Fd, Node, Co
<1>4. \A d \in Co : Same(d)
  BY <1>1 DEF Same, next_round, events
<1>5. \A d \in Co : CoOK(d)'
  BY <1>4, SameCo DEF IInv
<1>6. \A d \in Co : Stays(d)
  BY <1>4, SameStays
<1>7. \A f \in Fd : NodeOK(f)'
  BY <1>1, <1>6, NodesStay DEF events
<1>8. FdsAreOwn'
  BY <1>1 DEF IInv, FdsAreOwn, events
<1>9. HandlersAlone'
  <2> SUFFICES ASSUME NEW k \in Co, func'[k].kind \in HandlerKind
               PROVE  Alone(k)'
    BY DEF HandlersAlone
  <2>1. func' = func /\ m_fdToNode' = m_fdToNode /\ readable' = readable
    BY <1>1 DEF events
  <2>2. /\ m_fdToNode[func[k].fd] = func[k] /\ Suspended(func[k].co)
        /\ func[k].kind = "co_event" => func[k].fd \in readable
        /\ \A d \in m_co_routines \ {k} : co_state[d] = "SUSPEND"
    BY <2>1 DEF IInv, HandlersAlone, Alone
  <2>3. func[k].co \in Co
    BY <1>1, <2>1, NodeSorts DEF TypeOK, HandlerKind
  <2>4. func[k].co \in m_co_routines' /\ co_state'[func[k].co] = "SUSPEND"
    BY <1>6, <2>2, <2>3 DEF Stays, Suspended
  <2>5. \A d \in m_co_routines' \ {k} : co_state'[d] = "SUSPEND"
    BY <1>1, <2>2 DEF next_round
  <2> QED
    BY <2>1, <2>2, <2>4, <2>5 DEF Alone, Suspended
<1> QED
  BY <1>2, <1>3, <1>5, <1>7, <1>8, <1>9 DEF IInv, Fd

\* The kernel only makes more ready.
LEMMA KernelIInv ==
  ASSUME IInv, UNCHANGED <<sched, m_fdToNode, func, at, fd_of, m_timer, m_yield_result, dropped>>,
         readable \subseteq readable', readable' \in SUBSET (Socket \cup Service),
         expired' \in SUBSET Co
  PROVE  IInv'
<1>1. TypeOK /\ SchedulerOK
  BY DEF IInv
<1>2. TypeOK' /\ SchedulerOK'
  BY <1>1 DEF TypeOK, CoTypeOK, SchedulerOK, sched, Fd, Node, Co
<1>3. \A d \in Co : Same(d)
  BY DEF Same, sched
<1>4. \A d \in Co : CoOK(d)'
  BY <1>3, SameCo DEF IInv
<1>5. \A d \in Co : Stays(d)
  BY <1>3, SameStays
<1>6. \A f \in Fd : NodeOK(f)'
  BY <1>5, NodesStay
<1>7. FdsAreOwn'
  BY DEF IInv, FdsAreOwn
<1>8. HandlersAlone'
  BY DEF IInv, HandlersAlone, Alone, Suspended, sched
<1> QED
  BY <1>2, <1>4, <1>6, <1>7, <1>8 DEF IInv, Fd

LEMMA OutsideIInv ==
  ASSUME IInv,
         (\E s \in Socket \cup Service : arrives(s)) \/ (\E c \in Co : expires(c))
           \/ UNCHANGED vars
  PROVE  IInv'
<1>1. TypeOK
  BY DEF IInv
<1>2. CASE \E s \in Socket \cup Service : arrives(s)
  <2>1. PICK s \in Socket \cup Service : arrives(s)
    BY <1>2
  <2> QED
    BY <1>1, <2>1, KernelIInv DEF arrives, TypeOK
<1>3. CASE \E c \in Co : expires(c)
  <2>1. PICK c \in Co : expires(c)
    BY <1>3
  <2> QED
    BY <1>1, <2>1, KernelIInv DEF expires, TypeOK
<1>4. CASE UNCHANGED vars
  BY <1>1, <1>4, KernelIInv DEF vars, events, TypeOK
<1> QED
  BY <1>2, <1>3, <1>4

\* When the loop fetches an event everything is suspended; what it starts to
\* handle is registered, and is alone.
LEMMA EpollWaitIInv ==
  ASSUME IInv, NEW f \in Fd, NEW k \in Co, epoll_wait(f, k)
  PROVE  IInv'
<1> DEFINE n == m_fdToNode[f]
<1>1. TypeOK /\ CoTypeOK /\ SchedulerOK /\ NodeOK(f) /\ n \in Node
  BY DEF IInv, TypeOK
<1>2. /\ in_epoll_wait /\ Registered(f) /\ f \in readable \cup expired
      /\ add_co(k) /\ func' = [func EXCEPT ![k] = n]
      /\ m_yield_result' = [m_yield_result EXCEPT ![k] = TRUE]
      /\ UNCHANGED <<ready_co, m_current_co, m_fdToNode, at, fd_of, m_timer, readable,
                     expired, dropped>>
  BY DEF epoll_wait
<1>3. k \notin m_co_routines
  BY <1>1, <1>2, AddKeeps
<1>4. n.fd = f
  BY <1>1, <1>2, PlaceOfNode
<1>5. HandlersAlone'
  <2> SUFFICES ASSUME NEW j \in Co, func'[j].kind \in HandlerKind
               PROVE  Alone(j)'
    BY DEF HandlersAlone
  <2>1. j = k
    <3>1. SUFFICES ASSUME j # k PROVE FALSE
      OBVIOUS
    <3>2. func[j] # NoNode
      BY <1>1, <1>2, <3>1, NodeFields DEF TypeOK, HandlerKind
    <3> QED
      BY <1>2, <3>2 DEF IInv, CoOK, RecordFits, in_epoll_wait
  <2>2. func'[j] = n /\ n.kind \in HandlerKind
    BY <1>1, <1>2, <2>1 DEF TypeOK
  <2>3. Suspended(n.co)
    BY <1>1, <2>2 DEF NodeOK, HandlerKind
  <2>4. n.co \in Co
    BY <1>1, <2>2, NodeSorts DEF HandlerKind
  <2>5. Suspended(n.co)'
    BY <1>1, <1>2, <1>3, <2>3, <2>4 DEF Suspended, add_co, CoTypeOK
  <2>6. n.kind = "co_event" => f \in readable
    BY <1>1, <1>2, <1>4, NodeSorts, FdSorts DEF TypeOK
  <2>7. \A d \in m_co_routines' \ {k} : co_state'[d] = "SUSPEND"
    BY <1>1, <1>2 DEF add_co, CoTypeOK, in_epoll_wait
  <2> QED
    BY <1>2, <1>4, <2>1, <2>2, <2>5, <2>6, <2>7 DEF Alone, Suspended
<1> HIDE DEF n
<1> QED
  BY <1>1, <1>2, <1>5, AddIInv

-----------------------------------------------------------------------------
(* The handlers of yields *)

\* What is known when the node of a yield is handled.
LEMMA HandlerFacts ==
  ASSUME IInv, NEW k \in Co, Running(k), func[k].kind \in HandlerKind
  PROVE  LET c == func[k].co IN
         /\ c \in Co /\ Suspended(c) /\ k # c
         /\ m_fdToNode[func[k].fd] = func[k] /\ func[k].fd \in Fd
         /\ func[k].kind = "co_event" =>
              func[k].fd = fd_of[c] /\ fd_of[c] \in readable /\ at[c] = "yield_by_fd"
         /\ func[k].kind = "timer" => at[c] = "yield_by_timer" \/ m_timer[c] > 0
         /\ co_state[k] = "RUNNING" /\ at[k] = "code" /\ m_timer[k] = 0
         /\ \A d \in m_co_routines \ {k} : co_state[d] = "SUSPEND"
<1> DEFINE c == func[k].co
<1>1. TypeOK /\ Alone(k)
  BY DEF IInv, HandlersAlone
<1>2. func[k] \in Node /\ func[k] # NoNode
  BY <1>1, NodeFields DEF TypeOK, HandlerKind
<1>3. c \in Co /\ func[k].fd \in Fd
  BY <1>2, NodeSorts DEF HandlerKind, Fd
<1>4. co_state[k] = "RUNNING" /\ at[k] = "code" /\ m_timer[k] = 0
  BY <1>2 DEF IInv, SchedulerOK, Running, CoOK, RecordFits
<1>5. Suspended(c) /\ m_fdToNode[func[k].fd] = func[k]
  BY <1>1 DEF Alone
<1>6. NodeOK(func[k].fd)
  BY <1>3 DEF IInv
<1>7. func[k].kind = "co_event" =>
        func[k].fd = fd_of[c] /\ fd_of[c] \in readable /\ at[c] = "yield_by_fd"
  BY <1>1, <1>5, <1>6 DEF NodeOK, Alone
<1>8. func[k].kind = "timer" => at[c] = "yield_by_timer" \/ m_timer[c] > 0
  BY <1>5, <1>6 DEF NodeOK
<1> QED
  BY <1>1, <1>3, <1>4, <1>5, <1>7, <1>8 DEF Alone, Suspended

\* A handler takes away the nodes of the yield and wakes its coroutine with a
\* result that is true.
LEMMA WakeIInv ==
  ASSUME IInv, NEW k \in Co, NEW c \in Co, Running(k), func[k].kind \in HandlerKind,
         c = func[k].co, wake(k, c), NEW fds, unregisterNodes(fds),
         at[c] = "yield_by_fd" => fd_of[c] \in fds,
         at[c] = "yield_by_timer" \/ m_timer[c] > 0 => c \in fds,
         \A f \in fds : f = fd_of[c] \/ f = c,
         m_yield_result' \in [Co -> BOOLEAN],
         \A d \in Co \ {c} : m_yield_result'[d] = m_yield_result[d],
         at[c] = "yield_by_fd" /\ m_yield_result'[c] = TRUE => fd_of[c] \in readable,
         at[c] = "yield_by_fd" /\ m_yield_result'[c] = FALSE => m_timer[c] > 0,
         expired' \in SUBSET Co
  PROVE  IInv'
<1>1. TypeOK /\ CoTypeOK /\ SchedulerOK
  BY DEF IInv, TypeOK
<1>2. /\ Suspended(c) /\ k # c
      /\ co_state[k] = "RUNNING" /\ at[k] = "code" /\ m_timer[k] = 0
      /\ \A d \in m_co_routines \ {k} : co_state[d] = "SUSPEND"
  BY HandlerFacts
<1>3. CoTypeOK' /\ SchedulerOK'
  BY <1>1, <1>2, WakeKeeps
<1>4. /\ co_state' = [co_state EXCEPT ![c] = "READY", ![k] = "DEAD"]
      /\ func' = [func EXCEPT ![k] = NoNode]
      /\ UNCHANGED <<m_co_routines, ready_co, at, fd_of, m_timer, readable, dropped>>
  BY DEF wake
<1>5. m_fdToNode' \in [Fd -> Node] /\ func' \in [Co -> Node]
  BY <1>1, <1>4, NodeMembers DEF unregisterNodes, TypeOK
<1>6. TypeOK'
  BY <1>1, <1>3, <1>4, <1>5 DEF TypeOK, Fd, Node, Co
<1>7. \A f \in Fd : m_fdToNode'[f] = IF f \in fds THEN NoNode ELSE m_fdToNode[f]
  BY DEF unregisterNodes
<1>8. /\ co_state'[c] = "READY" /\ co_state'[k] = "DEAD"
      /\ func'[k] = NoNode /\ func'[c] = func[c]
      /\ \A d \in Co \ {c, k} : co_state'[d] = co_state[d] /\ func'[d] = func[d]
  BY <1>1, <1>2, <1>4 DEF CoTypeOK, TypeOK
<1>9. \A d \in Co \ {c, k} : Same(d)
  <2> SUFFICES ASSUME NEW d \in Co \ {c, k} PROVE Same(d)
    OBVIOUS
  <2>1. d \in Fd /\ d \notin fds
    BY <1>1, FdSorts DEF Fd, TypeOK
  <2>2. fd_of[d] \in Socket => fd_of[d] \in Fd /\ fd_of[d] \notin fds
    <3>1. SUFFICES ASSUME fd_of[d] \in Socket
                   PROVE  fd_of[d] \in Fd /\ fd_of[d] # c /\ fd_of[d] # fd_of[c]
      OBVIOUS
    <3>2. fd_of[d] \in Fd /\ fd_of[d] # c /\ fd_of[d] # NoFd
      BY <3>1, FdSorts DEF Fd
    <3> QED
      BY <3>2 DEF IInv, FdsAreOwn
  <2>3. /\ fd_of[d] \in Socket => m_fdToNode'[fd_of[d]] = m_fdToNode[fd_of[d]]
        /\ m_fdToNode'[d] = m_fdToNode[d]
    BY <1>7, <2>1, <2>2
  <2> QED
    BY <1>4, <1>8, <2>3 DEF Same
<1>10. CoOK(c)'
  <2>1. RecordFits(c)'
    BY <1>2, <1>4, <1>8 DEF IInv, CoOK, RecordFits, Suspended
  <2>2. HasItsNodes(c)'
    BY <1>8 DEF HasItsNodes, Suspended
  <2>3. m_yield_result'[c] = TRUE \/ m_yield_result'[c] = FALSE
    OBVIOUS
  <2>4. IsHonest(c)'
    BY <1>4, <2>3 DEF IsHonest
  <2> QED
    BY <2>1, <2>2, <2>4 DEF CoOK
<1>11. CoOK(k)'
  <2>1. RecordFits(k)'
    BY <1>2, <1>4, <1>8 DEF IInv, CoOK, RecordFits, Suspended
  <2>2. HasItsNodes(k)' /\ IsHonest(k)'
    BY <1>2, <1>4, <1>8 DEF HasItsNodes, IsHonest, Suspended
  <2> QED
    BY <2>1, <2>2 DEF CoOK
<1>12. \A d \in Co : CoOK(d)'
  BY <1>9, <1>10, <1>11, SameCo DEF IInv
<1>13. \A d \in Co \ {c} : Stays(d)
  BY <1>2, <1>9, SameStays DEF Stays, Suspended
<1>14. ASSUME NEW f \in Fd PROVE NodeOK(f)'
  <2>1. NodeOK(f)
    BY DEF IInv
  <2>2. CASE f \in fds
    BY <1>7, <2>2, NoNodeOK
  <2>3. CASE f \notin fds
    <3>1. m_fdToNode'[f] = m_fdToNode[f]
      BY <1>7, <2>3
    <3>2. m_fdToNode[f].kind \in HandlerKind => m_fdToNode[f].co # c
      <4>1. m_fdToNode[f].kind = "co_event" => m_fdToNode[f].co # c
        BY <2>1, <2>3 DEF NodeOK
      <4>2. m_fdToNode[f].kind = "timer" => m_fdToNode[f].co # c
        BY <1>1, <2>1, <2>3, PlaceOfNode DEF NodeOK
      <4> QED
        BY <4>1, <4>2 DEF HandlerKind
    <3> QED
      BY <1>1, <1>13, <2>1, <3>1, <3>2, SameNode
  <2> QED
    BY <2>2, <2>3
<1>15. FdsAreOwn'
  BY <1>4 DEF IInv, FdsAreOwn
<1>16. HandlersAlone'
  <2>1. \A j \in Co \ {k} : func[j].kind \notin HandlerKind
    BY <1>2 DEF IInv, HandlersAlone, Alone, SchedulerOK, Running
  <2>2. \A j \in Co : func'[j].kind \notin HandlerKind
    BY <1>1, <1>4, <2>1, NodeFields DEF TypeOK, HandlerKind
  <2> QED
    BY <2>2, NoHandlers
<1> QED
  BY <1>3, <1>6, <1>12, <1>14, <1>15, <1>16 DEF IInv, Fd

LEMMA HandleCoEventIInv ==
  ASSUME IInv, NEW k \in Co, handle_co_event(k)
  PROVE  IInv'
<1> DEFINE c == func[k].co
           fds == DescriptorsOfYield(c)
<1>1. TypeOK /\ Running(k) /\ func[k].kind = "co_event" /\ wake(k, c) /\ unregisterNodes(fds)
  BY DEF IInv, handle_co_event
<1>2. func[k].kind \in HandlerKind
  BY <1>1 DEF HandlerKind
<1>3. c \in Co /\ at[c] = "yield_by_fd" /\ fd_of[c] \in readable
  BY <1>1, <1>2, HandlerFacts
<1>4. /\ fd_of[c] \in fds /\ (m_timer[c] > 0 => c \in fds)
      /\ \A f \in fds : f = fd_of[c] \/ f = c
  BY DEF DescriptorsOfYield
<1>5. m_yield_result' = [m_yield_result EXCEPT ![c] = TRUE] /\ expired' = expired
  BY <1>1 DEF handle_co_event, ResultOf
<1>6. /\ m_yield_result' \in [Co -> BOOLEAN] /\ expired' \in SUBSET Co
      /\ m_yield_result'[c]
      /\ \A d \in Co \ {c} : m_yield_result'[d] = m_yield_result[d]
  BY <1>1, <1>3, <1>5 DEF TypeOK
<1> HIDE DEF fds
<1> QED
  BY <1>1, <1>2, <1>3, <1>4, <1>6, WakeIInv

LEMMA HandleTimerIInv ==
  ASSUME IInv, NEW k \in Co, handle_timer(k)
  PROVE  IInv'
<1> DEFINE c == func[k].co
<1>1. TypeOK /\ Running(k) /\ func[k].kind = "timer" /\ wake(k, c) /\ expired' = expired \ {c}
  BY DEF IInv, handle_timer
<1>2. func[k].kind \in HandlerKind
  BY <1>1 DEF HandlerKind
<1>3. c \in Co /\ (at[c] = "yield_by_timer" \/ m_timer[c] > 0) /\ Suspended(c)
  BY <1>1, <1>2, HandlerFacts
<1>4. expired' \in SUBSET Co
  BY <1>1 DEF TypeOK
<1>5. CASE at[c] = "yield_by_fd"
  <2> DEFINE fds == DescriptorsOfYield(c)
  <2>1. m_timer[c] > 0 /\ at[c] # "yield_by_timer"
    BY <1>3, <1>5
  <2>2. /\ fd_of[c] \in fds /\ c \in fds
        /\ \A f \in fds : f = fd_of[c] \/ f = c
    BY <2>1 DEF DescriptorsOfYield
  <2>3. m_yield_result' = [m_yield_result EXCEPT ![c] = FALSE]
    BY <1>1, <1>5 DEF handle_timer, ResultOf
  <2>4. unregisterNodes(fds)
    BY <1>5 DEF handle_timer
  <2>5. /\ m_yield_result' \in [Co -> BOOLEAN]
        /\ m_yield_result'[c] # TRUE
        /\ \A d \in Co \ {c} : m_yield_result'[d] = m_yield_result[d]
    BY <1>1, <1>3, <2>3 DEF TypeOK
  <2>6. c = func[k].co
    OBVIOUS
  <2> HIDE DEF fds, c
  <2> QED
    BY <1>1, <1>2, <1>3, <1>4, <2>1, <2>2, <2>4, <2>5, <2>6, WakeIInv
<1>6. CASE at[c] # "yield_by_fd"
  <2> DEFINE fds == {c}
  <2>1. c \in fds /\ \A f \in fds : f = c
    OBVIOUS
  <2>2. unregisterNodes(fds) /\ m_yield_result' = m_yield_result
    BY <1>6 DEF handle_timer
  <2>3. /\ m_yield_result' \in [Co -> BOOLEAN]
        /\ \A d \in Co \ {c} : m_yield_result'[d] = m_yield_result[d]
    BY <1>1, <2>2 DEF TypeOK
  <2> HIDE DEF fds
  <2> QED
    BY <1>1, <1>2, <1>3, <1>4, <1>6, <2>1, <2>2, <2>3, WakeIInv
<1> QED
  BY <1>5, <1>6

-----------------------------------------------------------------------------
(* The invariant *)

LEMMA InitIInv == Init => IInv
<1> SUFFICES ASSUME Init PROVE IInv
  OBVIOUS
<1>1. CoTypeOK /\ SchedulerOK
  BY FdSorts DEF Init, InitCo, CoTypeOK, SchedulerOK, ACR_STATE
<1>2. TypeOK
  <2>1. m_fdToNode \in [Fd -> Node]
    BY NodeMembers DEF Init
  <2> QED
    BY <1>1, <2>1, NodeMembers DEF Init, TypeOK
<1>3. ASSUME NEW f \in Fd PROVE NodeOK(f)
  <2>1. CASE f \in Service
    <3>1. m_fdToNode[f] = ServiceNode(f) /\ f \notin Socket /\ f \notin Co
      BY <2>1, FdSorts DEF Init
    <3> QED
      BY <2>1, <3>1, NodeFields DEF NodeOK
  <2>2. CASE f \notin Service
    BY <2>2, NodeFields DEF Init, NodeOK, Registered
  <2> QED
    BY <2>1, <2>2
<1>4. \A c \in Co : CoOK(c)
  BY FdSorts DEF Init, InitCo, CoOK, RecordFits, HasItsNodes, IsHonest, Suspended, Fd
<1>5. FdsAreOwn /\ HandlersAlone
  BY NodeFields DEF Init, FdsAreOwn, HandlersAlone, HandlerKind
<1> QED
  BY <1>1, <1>2, <1>3, <1>4, <1>5 DEF IInv

LEMMA NextIInv == IInv /\ [Next]_vars => IInv'
<1> SUFFICES ASSUME IInv, [Next]_vars PROVE IInv'
  OBVIOUS
<1>1. ASSUME NEW c \in Co, program(c)
      PROVE  IInv'
  BY <1>1, YieldByFdIInv, YieldByTimerIInv, StopIInv, FinishIInv DEF program, yields
<1>2. ASSUME NEW c \in Co, handler(c)
      PROVE  IInv'
  BY <1>2, HandleCoEventIInv, HandleTimerIInv, HandleServiceIInv DEF handler
<1>3. ASSUME NEW c \in Co, resume(c) \/ yield_returns(c)
      PROVE  IInv'
  BY <1>3, ResumeIInv, YieldReturnsIInv
<1>4. CASE round
  BY <1>4, RoundIInv
<1>5. ASSUME NEW c \in Co, NEW k \in Co, spawn(c, k)
      PROVE  IInv'
  BY <1>5, SpawnIInv
<1>6. ASSUME NEW f \in Fd, NEW k \in Co, epoll_wait(f, k)
      PROVE  IInv'
  BY <1>6, EpollWaitIInv
<1>7. CASE (\E s \in Socket \cup Service : arrives(s)) \/ (\E c \in Co : expires(c))
             \/ UNCHANGED vars
  BY <1>7, OutsideIInv
<1> QED
  BY <1>1, <1>2, <1>3, <1>4, <1>5, <1>6, <1>7 DEF Next

\* The invariant holds for any number of coroutines, descriptors and times, with
\* events, expiries and stops in any order.
THEOREM Inductive == Safe => []IInv
<1>1. Init => IInv
  BY InitIInv
<1>2. IInv /\ [Next]_vars => IInv'
  BY NextIInv
<1> QED
  BY <1>1, <1>2, PTL DEF Safe

-----------------------------------------------------------------------------
(* What follows *)

\* Coroutines, nodes and yields are what they should be.
THEOREM TypeCorrect == Safe => []TypeOK
<1>1. IInv => TypeOK
  BY DEF IInv
<1> QED
  BY <1>1, Inductive, PTL

\* Whoever yields is reachable: yield_by_fd and yield_by_timer leave the nodes that
\* bring it back, and nothing but a stop of the loop takes them away.
THEOREM WaitersReachable == Safe => []YieldHasItsNodes
<1>1. IInv => YieldHasItsNodes
  BY DEF IInv, CoOK, RecordFits, HasItsNodes, YieldHasItsNodes
<1> QED
  BY <1>1, Inductive, PTL

\* handleEvent leaves nothing of an ended yield behind.
THEOREM NothingStale == Safe => []NoStaleNode
<1>1. IInv => NoStaleNode
  BY DEF IInv, NodeOK, NoStaleNode
<1> QED
  BY <1>1, Inductive, PTL

\* What yield_by_fd returns is true of the descriptor and of the limit.
THEOREM ResultsHonest == Safe => []ResultIsHonest
<1>1. IInv => ResultIsHonest
  <2> SUFFICES ASSUME IInv, NEW c \in m_co_routines,
                      at[c] = "yield_by_fd" /\ co_state[c] \in {"READY", "RUNNING"}
               PROVE  IF m_yield_result[c] THEN fd_of[c] \in readable ELSE m_timer[c] > 0
    BY DEF ResultIsHonest
  <2>1. c \in Co
    BY DEF IInv, TypeOK, CoTypeOK
  <2> QED
    BY <2>1 DEF IInv, CoOK, IsHonest
<1> QED
  BY <1>1, Inductive, PTL

\* The event and the time limit of one yield are never both handled: the handler
\* of a yield's node runs alone and finds its node registered.
THEOREM HandlerAlone == Safe => []HandlerRunsAlone
<1>1. IInv => HandlerRunsAlone
  <2> SUFFICES ASSUME IInv, NEW k \in m_co_routines, func[k].kind \in HandlerKind
               PROVE  /\ m_fdToNode[func[k].fd] = func[k] /\ Suspended(func[k].co)
                      /\ \A d \in m_co_routines \ {k} : co_state[d] = "SUSPEND"
    BY DEF HandlerRunsAlone, HandlerKind
  <2>1. k \in Co
    BY DEF IInv, TypeOK, CoTypeOK
  <2> QED
    BY <2>1 DEF IInv, HandlersAlone, Alone
<1> QED
  BY <1>1, Inductive, PTL
=============================================================================
