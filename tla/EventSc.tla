------------------------------ MODULE EventSc ------------------------------
(***************************************************************************)
(* AD_EVENT_SC (src/public/event_sc): how a coroutine waits for a file     *)
(* descriptor, for a timer, or for whichever comes first, and how the      *)
(* loop's epoll_wait brings it back.                                       *)
(*                                                                         *)
(* A registered node is handled by a coroutine of its own: epoll_wait      *)
(* gives one event, the loop adds a coroutine that runs the node's         *)
(* handleEvent, and the next rounds run it.  handleEvent of the two nodes  *)
(* a yield registers (AD_CO_EVENT_NODE and its timer) does not yield; that *)
(* of a service (a listening socket, a connection, a user's timer) does    *)
(* whatever its program does, like any coroutine.                          *)
(*                                                                         *)
(* The descriptor a coroutine yields on is its own: the socket call_remote *)
(* or a redis command has just opened, the pidfd of a child.               *)
(***************************************************************************)
EXTENDS CoRoutine, FiniteSets

NoFd == 0

CONSTANTS
  Socket,   \* descriptors coroutines yield on
  Service,  \* descriptors of nodes that stay registered
  Limit,    \* the time limits of yield_by_fd, in milliseconds; 0 is none
  Sleep     \* the times of yield_by_timer, in seconds

\* A timer has the number of its coroutine for a descriptor.
ASSUME SocketAssumption ==
  /\ Socket \cap Service = {}
  /\ (Socket \cup Service) \cap Co = {}
  /\ NoFd \notin Socket \cup Service
  /\ Limit \subseteq Nat /\ Sleep \subseteq Nat

VARIABLES
  m_fdToNode,      \* descriptor -> registered node
  func,            \* the node whose handleEvent a coroutine runs, or NoNode
  at,              \* where a coroutine's program is: in its own code or a yield
  fd_of,           \* the descriptor of a coroutine's yield_by_fd
  m_timer,         \* the time its yield has started a timer with, in milliseconds
  m_yield_result,  \* what its yield_by_fd will return
  readable,        \* the descriptors with something to read
  expired,         \* the coroutines whose yield's timer has expired
  dropped          \* the coroutines that stopEventLoop left without a node

events == <<m_fdToNode, func, at, fd_of, m_timer, m_yield_result, readable,
            expired, dropped>>

vars == <<sched, events>>

\* The timer of a yield gets a timerfd of its own; it is known by the coroutine.
Fd == Socket \cup Service \cup Co

NoNode == [kind |-> "none", fd |-> NoFd, co |-> nullptr]

CoEventNode(c, s) == [kind |-> "co_event", fd |-> s, co |-> c]

TimerNode(c) == [kind |-> "timer", fd |-> c, co |-> c]

ServiceNode(s) == [kind |-> "service", fd |-> s, co |-> nullptr]

Node ==
  {NoNode} \cup {CoEventNode(c, s) : c \in Co, s \in Socket}
    \cup {TimerNode(c) : c \in Co} \cup {ServiceNode(s) : s \in Service}

TypeOK ==
  /\ CoTypeOK
  /\ m_fdToNode \in [Fd -> Node]
  /\ func \in [Co -> Node]
  /\ at \in [Co -> {"code", "yield_by_fd", "yield_by_timer"}]
  /\ fd_of \in [Co -> Socket \cup {NoFd}]
  /\ m_timer \in [Co -> {0} \cup Limit \cup {1000 * sec : sec \in Sleep}]
  /\ m_yield_result \in [Co -> BOOLEAN]
  /\ readable \in SUBSET (Socket \cup Service)
  /\ expired \in SUBSET Co
  /\ dropped \in SUBSET Co

Init ==
  /\ InitCo
  /\ m_fdToNode = [f \in Fd |-> IF f \in Service THEN ServiceNode(f) ELSE NoNode]
  /\ func = [c \in Co |-> NoNode]
  /\ at = [c \in Co |-> "code"]
  /\ fd_of = [c \in Co |-> NoFd]
  /\ m_timer = [c \in Co |-> 0]
  /\ m_yield_result = [c \in Co |-> TRUE]
  /\ readable = {}
  /\ expired = {}
  /\ dropped = {}

\* The program of a coroutine, when it is not the handler of a yield's node.
InCode(c) == Running(c) /\ at[c] = "code" /\ func[c] = NoNode

-----------------------------------------------------------------------------
(* registerNode and unregisterNode *)

Registered(f) == m_fdToNode[f] # NoNode

\* Of the nodes given, those whose descriptor has none yet are registered.
registerNodes(nodes) ==
  m_fdToNode' = [f \in Fd |->
                   IF ~Registered(f) /\ \E n \in nodes : n.fd = f
                     THEN CHOOSE n \in nodes : n.fd = f
                     ELSE m_fdToNode[f]]

\* Whatever node these descriptors have is removed.
unregisterNodes(fds) ==
  m_fdToNode' = [f \in Fd |-> IF f \in fds THEN NoNode ELSE m_fdToNode[f]]

-----------------------------------------------------------------------------
(* What the program of a coroutine does *)

\* Deviation: the time limit is not started.
NodesWithoutTimer(c, s, limit) == {CoEventNode(c, s)}

NodesOfYield(c, s, limit) ==
  {CoEventNode(c, s)} \cup IF limit > 0 THEN {TimerNode(c)} ELSE {}

\* s is a descriptor of c's own that nobody else waits on.
yield_by_fd(c, s, limit) ==
  /\ InCode(c)
  /\ ~Registered(s) /\ \A d \in Co : fd_of[d] # s
  /\ registerNodes(NodesOfYield(c, s, limit))
  /\ at' = [at EXCEPT ![c] = "yield_by_fd"]
  /\ fd_of' = [fd_of EXCEPT ![c] = s]
  /\ m_timer' = [m_timer EXCEPT ![c] = limit]
  /\ expired' = expired \ {c}
  /\ yield_co(c)
  /\ UNCHANGED <<func, m_yield_result, readable, dropped>>

yield_by_timer(c, sec) ==
  /\ InCode(c)
  /\ registerNodes({TimerNode(c)})
  /\ at' = [at EXCEPT ![c] = "yield_by_timer"]
  /\ m_timer' = [m_timer EXCEPT ![c] = 1000 * sec]
  /\ expired' = expired \ {c}
  /\ yield_co(c)
  /\ UNCHANGED <<func, fd_of, m_yield_result, readable, dropped>>

\* c is resumed in its yield and goes on.  yield_by_fd that returned true is
\* followed by a read of the descriptor; then the descriptor is closed or will
\* be yielded on again.
yield_returns(c) ==
  /\ Running(c)
  /\ at[c] # "code"
  /\ at' = [at EXCEPT ![c] = "code"]
  /\ fd_of' = [fd_of EXCEPT ![c] = NoFd]
  /\ m_timer' = [m_timer EXCEPT ![c] = 0]
  /\ readable' = readable \ {fd_of[c]}
  /\ UNCHANGED <<sched, m_fdToNode, func, m_yield_result, expired, dropped>>

\* The last number is kept for the handlers of yields (bound of the model).
spawn(c, k) ==
  /\ InCode(c)
  /\ k < MaxCo
  /\ add_co(k)
  /\ m_yield_result' = [m_yield_result EXCEPT ![k] = TRUE]
  /\ UNCHANGED <<ready_co, m_current_co, m_fdToNode, func, at, fd_of, m_timer,
                 readable, expired, dropped>>

finish(c) ==
  /\ InCode(c)
  /\ co_routine_func(c)
  /\ UNCHANGED events

\* stop_server: every node is removed, whoever waits for it.
stopEventLoop(c) ==
  /\ InCode(c)
  /\ unregisterNodes(Fd)
  /\ dropped' = dropped \cup {d \in m_co_routines : co_state[d] = "SUSPEND"}
  /\ UNCHANGED <<sched, func, at, fd_of, m_timer, m_yield_result, readable, expired>>

-----------------------------------------------------------------------------
(* The loop *)

\* One event is fetched and a coroutine for its node added.
epoll_wait(f, k) ==
  /\ in_epoll_wait
  /\ Registered(f)
  /\ f \in readable \cup expired
  /\ m_fdToNode[f].kind = "service" => k < MaxCo
  /\ add_co(k)
  /\ func' = [func EXCEPT ![k] = m_fdToNode[f]]
  /\ m_yield_result' = [m_yield_result EXCEPT ![k] = TRUE]
  /\ UNCHANGED <<ready_co, m_current_co, m_fdToNode, at, fd_of, m_timer, readable,
                 expired, dropped>>

\* Deviation: handleEvent leaves the timer of the yield registered.
DescriptorsOnly(c) == {fd_of[c]}

\* AD_CO_EVENT_NODE::handleEvent stops the timer and unregisters the node.
DescriptorsOfYield(c) == {fd_of[c]} \cup IF m_timer[c] > 0 THEN {c} ELSE {}

\* Deviation: the timer sets the result before it calls handleEvent.
ResultOfLastCall(node) == TRUE

\* handleEvent sets the result to true, the timer's callback then to false.
ResultOf(node) == node.kind = "co_event"

\* Handler k wakes the coroutine of its node and returns.
wake(k, c) ==
  /\ co_state' = [co_state EXCEPT ![c] = "READY", ![k] = "DEAD"]
  /\ m_current_co' = nullptr
  /\ func' = [func EXCEPT ![k] = NoNode]
  /\ UNCHANGED <<m_co_routines, ready_co, at, fd_of, m_timer, readable, dropped>>

\* AD_CO_EVENT_NODE::handleEvent: the descriptor has become readable first.
handle_co_event(k) ==
  LET c == func[k].co IN
  /\ Running(k)
  /\ func[k].kind = "co_event"
  /\ unregisterNodes(DescriptorsOfYield(c))
  /\ m_yield_result' = [m_yield_result EXCEPT ![c] = ResultOf(func[k])]
  /\ wake(k, c)
  /\ UNCHANGED expired

\* AD_EVENT_SC_TIMER_NODE::handleEvent of a yield's timer: the timerfd is read
\* and the callback of yield_by_fd or yield_by_timer is called.
handle_timer(k) ==
  LET c == func[k].co IN
  /\ Running(k)
  /\ func[k].kind = "timer"
  /\ c \in expired
  /\ expired' = expired \ {c}
  /\ IF at[c] = "yield_by_fd"
       THEN /\ unregisterNodes(DescriptorsOfYield(c))
            /\ m_yield_result' = [m_yield_result EXCEPT ![c] = ResultOf(func[k])]
       ELSE /\ unregisterNodes({c})
            /\ UNCHANGED m_yield_result
  /\ wake(k, c)

\* handleEvent of a service reads its descriptor and goes on as a program.
handle_service(k) ==
  /\ Running(k)
  /\ func[k].kind = "service"
  /\ readable' = readable \ {func[k].fd}
  /\ func' = [func EXCEPT ![k] = NoNode]
  /\ UNCHANGED <<sched, m_fdToNode, at, fd_of, m_timer, m_yield_result, expired, dropped>>

resume(c) == resume_co(c) /\ UNCHANGED events

round == next_round /\ UNCHANGED events

-----------------------------------------------------------------------------
(* The kernel *)

arrives(s) ==
  /\ s \notin readable
  /\ Registered(s)
  /\ readable' = readable \cup {s}
  /\ UNCHANGED <<sched, m_fdToNode, func, at, fd_of, m_timer, m_yield_result, expired,
                 dropped>>

\* Deviation: the time is set in nanoseconds within the second.
ArmedWithin(c) == m_timer[c] \in 1 .. 999

\* timerfd_settime takes a number of seconds and of nanoseconds.  It refuses a
\* second's worth of the latter, which is how yield_by_fd gives its limit, and
\* nobody looks at its result; with both 0 the timer does not run either.
Armed(c) ==
  IF at[c] = "yield_by_fd" THEN m_timer[c] \in 1 .. 999 ELSE m_timer[c] > 0

expires(c) ==
  /\ c \notin expired
  /\ m_fdToNode[c].kind = "timer"
  /\ Armed(c)
  /\ expired' = expired \cup {c}
  /\ UNCHANGED <<sched, m_fdToNode, func, at, fd_of, m_timer, m_yield_result, readable,
                 dropped>>

-----------------------------------------------------------------------------

yields(c) ==
  \/ \E s \in Socket, limit \in Limit : yield_by_fd(c, s, limit)
  \/ \E sec \in Sleep : yield_by_timer(c, sec)

program(c) ==
  \/ yields(c)
  \/ stopEventLoop(c)
  \/ finish(c)

handler(c) == handle_co_event(c) \/ handle_timer(c) \/ handle_service(c)

Next ==
  \/ round
  \/ \E c \in Co : resume(c) \/ program(c) \/ handler(c) \/ yield_returns(c)
                     \/ expires(c)
  \/ \E c, k \in Co : spawn(c, k)
  \/ \E f \in Fd, k \in Co : epoll_wait(f, k)
  \/ \E s \in Socket \cup Service : arrives(s)

Safe == Init /\ [][Next]_vars

\* The loop runs on, timers expire, epoll serves its ready descriptors in turn,
\* and a program does finitely much between two yields.
Fairness ==
  /\ WF_vars(round)
  /\ \A c \in Co :
       /\ WF_vars(resume(c)) /\ WF_vars(handler(c)) /\ WF_vars(yield_returns(c))
       /\ WF_vars(expires(c))
       /\ SF_vars(yields(c) \/ finish(c))
  /\ \A f \in Fd : SF_vars(\E k \in Co : epoll_wait(f, k))

Spec == Safe /\ Fairness

-----------------------------------------------------------------------------
(* Properties *)

Suspended(c) == c \in m_co_routines /\ co_state[c] = "SUSPEND"

\* Whoever is suspended in a yield has the nodes that will bring it back, unless
\* the loop was stopped meanwhile: no waiter is unreachable.
YieldHasItsNodes ==
  \A c \in Co : Suspended(c) /\ c \notin dropped =>
    /\ at[c] = "yield_by_fd" => m_fdToNode[fd_of[c]] = CoEventNode(c, fd_of[c])
    /\ at[c] = "yield_by_timer" \/ m_timer[c] > 0 => m_fdToNode[c] = TimerNode(c)
    /\ at[c] # "code"

\* The other way round, a node of a yield belongs to a coroutine that is still
\* suspended in that yield: no event or timer left over from an earlier yield
\* can end a later one.
NoStaleNode ==
  \A f \in Fd :
    LET n == m_fdToNode[f] IN
    /\ n.kind = "co_event" =>
         Suspended(n.co) /\ at[n.co] = "yield_by_fd" /\ fd_of[n.co] = f
    /\ n.kind = "timer" => Suspended(n.co) /\ (at[n.co] = "yield_by_timer" \/ m_timer[n.co] > 0)

\* yield_by_fd returns true only when there is something to read, so the read
\* behind it does not block the whole daemon; it returns false only for a yield
\* that had a time limit.
ResultIsHonest ==
  \A c \in m_co_routines :
    at[c] = "yield_by_fd" /\ co_state[c] \in {"READY", "RUNNING"} =>
      IF m_yield_result[c] THEN fd_of[c] \in readable ELSE m_timer[c] > 0

\* The handler of a yield's node runs alone, on a node that is still registered:
\* the descriptor and the timer never both end the same yield.
HandlerRunsAlone ==
  \A k \in m_co_routines :
    func[k].kind \in {"co_event", "timer"} =>
      /\ m_fdToNode[func[k].fd] = func[k] /\ Suspended(func[k].co)
      /\ \A d \in m_co_routines \ {k} : co_state[d] = "SUSPEND"

\* A sleep, a yield with a time limit below a second, and one on a descriptor that
\* has become readable end, unless the loop is stopped.  (A limit of a second or
\* more, as sion's callers give it, and a sleep of 0 need not.)
YieldEnds ==
  \A c \in Co :
    (/\ Suspended(c)
     /\ \/ fd_of[c] \in readable
        \/ at[c] = "yield_by_timer" /\ m_timer[c] > 0
        \/ at[c] = "yield_by_fd" /\ m_timer[c] \in 1 .. 999)
      ~> (~Suspended(c) \/ c \in dropped)
=============================================================================
