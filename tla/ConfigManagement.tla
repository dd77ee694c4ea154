-------------------------- MODULE ConfigManagement --------------------------
(***************************************************************************)
(* The core daemon's config_management service and its supervision of the  *)
(* daemons it forks (src/core/rpc_imp_lib/config_rpc.cpp): device drivers  *)
(* and state machines, each with a port of its own.                        *)
(*                                                                         *)
(* A daemon is forked with the first port neither map lists; a node on its *)
(* pidfd forks it again, after two seconds, when it ended with an error.   *)
(* Stopping a daemon takes it off its map, sends it a oneway command (a    *)
(* blocking connect and a send: nothing yields) and waits for its end.     *)
(*                                                                         *)
(* Every call is a coroutine of one loop.  The steps here end where the    *)
(* coroutine yields: at the two-second timer and at the wait for the end.  *)
(* Between them other calls, the daemons and the operating system act.     *)
(*                                                                         *)
(* The loop keeps its nodes by the number of their descriptor              *)
(* (ad_event_sc.cpp).  Closing a descriptor somebody waits for leaves its  *)
(* entry there for ever, and registerNode refuses the next descriptor that *)
(* gets the number: a node, or the timer of a handler.                     *)
(***************************************************************************)
EXTENDS Naturals, FiniteSets

CONSTANTS
  Node,      \* SUBPROCESS_EVENT_SC_NODEs: as many daemons as there may be at a time
  Port,      \* AD_CONST_DAEMON_MIN_PORT .. AD_CONST_DAEMON_MAX_PORT - 1
  MaxClosed  \* bound: descriptors that restarts close under waiters

ASSUME PortAssumption == Port \in SUBSET (Nat \ {0}) /\ IsFiniteSet(Port)

ASSUME MaxClosedAssumption == MaxClosed \in Nat

VARIABLES
  m_map,             \* m_device_map and m_sm_map: port -> the daemon configured
  m_subprocess_map,  \* port -> node
  kind_of,           \* what a node's daemon is
  port_of,           \* the port among its arguments
  sup,               \* a node in the loop, or what has become of it
  proc,              \* the process that a node forked last
  waiting,           \* the stop call that waits for the end of a node's process
  lingering,         \* ports the system refuses although no process has them
  stale,             \* numbers no descriptor has, that the loop keeps an entry of
  closed             \* descriptors that restarts have closed under a waiter

vars == <<m_map, m_subprocess_map, kind_of, port_of, sup, proc, waiting, lingering,
          stale, closed>>

None == "none"

NoPort == 0

Kind == {"device", "sm"}

\* A process has been forked, listens at its port or failed to, or has been told
\* to stop; it has ended with status 0, or with another or by a signal.
Alive == {"starting", "serving", "deaf", "stopping"}

Ended == {"exited", "failed"}

\* registered with the loop; in its handler's delay; no longer in the loop, because
\* it was let go; never in it, since its descriptor has a stale number; in a delay
\* that does not end, since the timer's has; destroyed without having been in it.
Sup == {"registered", "delay", "gone", "refused", "asleep", "dropped"}

TypeOK ==
  /\ m_map \in [Kind -> [Port -> Node \cup {None}]]
  /\ m_subprocess_map \in [Port -> Node \cup {None}]
  /\ kind_of \in [Node -> Kind \cup {None}]
  /\ port_of \in [Node -> Port \cup {NoPort}]
  /\ sup \in [Node -> Sup]
  /\ proc \in [Node -> Alive \cup Ended \cup {None}]
  /\ waiting \in [Node -> {"no", "waiting", "lost", "refused"}]
  /\ lingering \in SUBSET Port
  /\ stale \in Nat
  /\ closed \in Nat

Init ==
  /\ m_map = [k \in Kind |-> [p \in Port |-> None]]
  /\ m_subprocess_map = [p \in Port |-> None]
  /\ kind_of = [n \in Node |-> None]
  /\ port_of = [n \in Node |-> NoPort]
  /\ sup = [n \in Node |-> "gone"]
  /\ proc = [n \in Node |-> None]
  /\ waiting = [n \in Node |-> "no"]
  /\ lingering = {}
  /\ stale = 0
  /\ closed = 0

-----------------------------------------------------------------------------
(* The service *)

\* Deviation: only the map of the daemon's own kind is looked at.
FreeOfKind(k) == {p \in Port : m_map[k][p] = None}

FreePorts(k) == {p \in Port : \A j \in Kind : m_map[j][p] = None}

\* The first free port; 0 if there is none.
IsFirstFree(k, port) ==
  \/ FreePorts(k) = {} /\ port = NoPort
  \/ port \in FreePorts(k) /\ \A q \in FreePorts(k) : port <= q

\* A node nobody will refer to, once a start has taken the port, stands for one
\* that is created.  A call that waits in vain, and a handler that sleeps for ever,
\* are not followed any further; they keep the numbers they have.
Unused(n, port) ==
  /\ proc[n] \in {None} \cup Ended
  /\ sup[n] \notin {"registered", "delay"}
  /\ waiting[n] # "waiting"
  /\ \A p \in Port \ {port} : m_subprocess_map[p] # n
  /\ \A k \in Kind, p \in Port : m_map[k][p] # n

\* registerNode for a descriptor just opened: it may have a stale number.  A node
\* that is refused and kept nowhere is destroyed, and its number free again.
registerNode(n, kept) ==
  \/ sup' = [sup EXCEPT ![n] = "registered"] /\ UNCHANGED stale
  \/ /\ stale > 0
     /\ sup' = [sup EXCEPT ![n] = IF kept THEN "refused" ELSE "dropped"]
     /\ stale' = IF kept THEN stale - 1 ELSE stale

\* start_device and start_sm.  The process is forked even without a port; then it
\* is in no map.
start(k, n, port) ==
  /\ IsFirstFree(k, port)
  /\ Unused(n, port)
  /\ kind_of' = [kind_of EXCEPT ![n] = k]
  /\ port_of' = [port_of EXCEPT ![n] = port]
  /\ proc' = [proc EXCEPT ![n] = "starting"]
  /\ waiting' = [waiting EXCEPT ![n] = "no"]
  /\ registerNode(n, port # NoPort)
  /\ IF port = NoPort THEN UNCHANGED <<m_map, m_subprocess_map>>
       ELSE /\ m_map' = [m_map EXCEPT ![k][port] = n]
            /\ m_subprocess_map' = [m_subprocess_map EXCEPT ![port] = n]
  /\ UNCHANGED <<lingering, closed>>

\* The processes that accept the stop command for a daemon of kind k at a port.
Listens(k, port) ==
  {n \in Node : proc[n] = "serving" /\ port_of[n] = port /\ kind_of[n] = k}

\* wait_stop_daemon up to its yield: the waiter takes the handler's place.  A
\* handler in its delay has left the loop already and is not disturbed.  Where the
\* node was refused, the waiter is refused as well.
wait_stop_daemon(n) ==
  /\ waiting' = [waiting EXCEPT ![n] = IF sup[n] = "refused" THEN "refused"
                                       ELSE "waiting"]
  /\ sup' = [sup EXCEPT ![n] = IF sup[n] = "registered" THEN "gone" ELSE @]

\* stop_device and stop_sm, for a port on the map.  If nothing listens there the
\* command is lost.  There may be no node to wait for.
stop(k, port) ==
  LET n == m_subprocess_map[port] IN
  /\ m_map[k][port] # None
  /\ m_map' = [m_map EXCEPT ![k][port] = None]
  /\ proc' = [d \in Node |-> IF d \in Listens(k, port) THEN "stopping" ELSE proc[d]]
  /\ IF n = None THEN UNCHANGED <<waiting, sup>> ELSE wait_stop_daemon(n)
  /\ UNCHANGED <<m_subprocess_map, kind_of, port_of, lingering, stale, closed>>

\* The rest of wait_stop_daemon: whatever node the port has now is erased.  A node
\* that is in no call and was refused by the loop is destroyed by that.
stop_returns(n) ==
  LET d == m_subprocess_map[port_of[n]] IN
  /\ waiting[n] = "waiting"
  /\ proc[n] \in Ended
  /\ waiting' = [waiting EXCEPT ![n] = "no"]
  /\ m_subprocess_map' = [m_subprocess_map EXCEPT ![port_of[n]] = None]
  /\ IF d \in Node /\ sup[d] = "refused" /\ waiting[d] = "no"
       THEN sup' = [sup EXCEPT ![d] = "dropped"] /\ stale' = stale + 1
       ELSE UNCHANGED <<sup, stale>>
  /\ UNCHANGED <<m_map, kind_of, port_of, proc, lingering, closed>>

-----------------------------------------------------------------------------
(* The supervision *)

\* Deviation: the exit status is not looked at.
NeedRestartAlways(n) == proc[n] \in Ended

NeedRestart(n) == proc[n] = "failed"

\* handleEvent of the node, up to its timer, whose number may be a stale one.
handleEvent(n) ==
  /\ sup[n] = "registered"
  /\ proc[n] \in Ended
  /\ IF ~NeedRestart(n) THEN sup' = [sup EXCEPT ![n] = "gone"] /\ UNCHANGED stale
     ELSE \/ sup' = [sup EXCEPT ![n] = "delay"] /\ UNCHANGED stale
          \/ stale > 0 /\ sup' = [sup EXCEPT ![n] = "asleep"] /\ stale' = stale - 1
  /\ UNCHANGED <<m_map, m_subprocess_map, kind_of, port_of, proc, waiting, lingering,
                 closed>>

\* Deviation: the new process is not watched.
SupAfterFork(n) == sup' = [sup EXCEPT ![n] = "gone"] /\ UNCHANGED stale

IsKept(n) == waiting[n] # "no" \/ \E p \in Port : m_subprocess_map[p] = n

\* The node's descriptor is closed, one on the new process opened and registered.
\* Closed under a waiter it leaves its number stale, and that may be the number
\* the new one gets.
SupOfFork(n) ==
  IF waiting[n] # "waiting" THEN registerNode(n, IsKept(n))
  ELSE \/ sup' = [sup EXCEPT ![n] = "registered"] /\ stale' = stale + 1
       \/ sup' = [sup EXCEPT ![n] = "refused"] /\ UNCHANGED stale

\* handleEvent after the two seconds.
restart(n) ==
  /\ sup[n] = "delay"
  /\ waiting[n] = "waiting" => closed < MaxClosed
  /\ proc' = [proc EXCEPT ![n] = "starting"]
  /\ SupOfFork(n)
  /\ IF waiting[n] = "waiting"
       THEN waiting' = [waiting EXCEPT ![n] = "lost"] /\ closed' = closed + 1
       ELSE UNCHANGED <<waiting, closed>>
  /\ UNCHANGED <<m_map, m_subprocess_map, kind_of, port_of, lingering>>

-----------------------------------------------------------------------------
(* The daemons and the system *)

\* A process that has the socket of a port.
Holds(n, port) == proc[n] \in {"serving", "stopping"} /\ port_of[n] = port

\* Port 0 stands for any port.
CanBind(port) ==
  \/ port = NoPort
  \/ port \notin lingering /\ \A n \in Node : ~Holds(n, port)

\* enable_rpc_server in the daemon's main.  Without its socket, a driver goes on
\* with its timers; a state machine's loop has nothing to wait for, and main
\* returns 0.
daemon_listens(n) ==
  /\ proc[n] = "starting"
  /\ proc' = [proc EXCEPT ![n] = IF CanBind(port_of[n]) THEN "serving"
                                 ELSE IF kind_of[n] = "device" THEN "deaf"
                                 ELSE "exited"]
  /\ UNCHANGED <<m_map, m_subprocess_map, kind_of, port_of, sup, waiting, lingering,
                 stale, closed>>

\* The sockets are not set to reuse an address: the port of a process that ends
\* with connections open stays refused for a while.
daemon_ends(n, status) ==
  /\ proc' = [proc EXCEPT ![n] = status]
  /\ lingering' \in
       {lingering} \cup
         {lingering \cup {p} : p \in {q \in Port : Holds(n, q)}}
  /\ UNCHANGED <<m_map, m_subprocess_map, kind_of, port_of, sup, waiting, stale, closed>>

\* Deviation: stop_server only disables the RPC server; a driver's timers go on.
daemon_goes_on(n) ==
  /\ proc[n] = "stopping"
  /\ IF kind_of[n] = "device"
       THEN /\ proc' = [proc EXCEPT ![n] = "deaf"]
            /\ UNCHANGED <<m_map, m_subprocess_map, kind_of, port_of, sup, waiting,
                           lingering, stale, closed>>
       ELSE daemon_ends(n, "exited")

\* stop_server: the loop ends and main returns 0.
daemon_stops(n) == proc[n] = "stopping" /\ daemon_ends(n, "exited")

\* A signal, an abort, or the driver's own status check.
daemon_fails(n) == proc[n] \in Alive /\ daemon_ends(n, "failed")

port_is_free(port) ==
  /\ port \in lingering
  /\ lingering' = lingering \ {port}
  /\ UNCHANGED <<m_map, m_subprocess_map, kind_of, port_of, sup, proc, waiting,
                 stale, closed>>

-----------------------------------------------------------------------------

Next ==
  \/ \E k \in Kind :
       \/ \E n \in Node, p \in Port \cup {NoPort} : start(k, n, p)
       \/ \E p \in Port : stop(k, p)
  \/ \E n \in Node :
       \/ stop_returns(n)
       \/ handleEvent(n)
       \/ restart(n)
       \/ daemon_listens(n)
       \/ daemon_stops(n)
       \/ daemon_fails(n)
  \/ \E p \in Port : port_is_free(p)

Safe == Init /\ [][Next]_vars

\* The core loop handles every event and timer it is given, and a daemon goes on
\* to listen or, when told so, to end.  Nothing is assumed of callers, failures
\* and the system's ports.
Fairness ==
  \A n \in Node :
    /\ WF_vars(stop_returns(n))
    /\ WF_vars(handleEvent(n))
    /\ WF_vars(restart(n))
    /\ WF_vars(daemon_listens(n))
    /\ WF_vars(daemon_stops(n))

Spec == Safe /\ Fairness

-----------------------------------------------------------------------------
(* Properties *)

Listed(n) == \E k \in Kind : \E p \in Port : m_map[k][p] = n

\* A port is one daemon's: never on both maps, whatever is started and stopped
\* while other calls wait.
OnePortOneDaemon ==
  \A p \in Port : \E k \in Kind : m_map[k][p] = None

\* A stop never waits for another daemon than the one it was called for: the node
\* of a listed port is the listed daemon's.  (It may be missing: a call that
\* stopped the daemon before it at this port erases it.)
StopWaitsForItsOwn ==
  \A k \in Kind : \A p \in Port :
    m_map[k][p] # None => m_subprocess_map[p] \in {m_map[k][p], None}

\* A stale number is in the way of a node or of its handler's delay.
OnStaleNumber(n) == sup[n] \in {"refused", "asleep", "dropped"}

\* A device on the list is watched: its end will be noticed, or has been.  No stop,
\* no end and no restart of any daemon lets it go.  The loop may have refused it a
\* number, but never before a restart has closed a descriptor under a waiter.
ListedDeviceIsWatched ==
  \A p \in Port :
    LET n == m_map["device"][p] IN
      n # None => \/ sup[n] \in {"registered", "delay"}
                  \/ OnStaleNumber(n) /\ closed > 0

\* A daemon somebody waits for while it lives will not be started again, even if
\* it dies before the stop command reaches it.
WaitedForIsLetGo ==
  \A n \in Node :
    waiting[n] = "waiting" /\ proc[n] \in Alive => sup[n] \notin {"registered", "delay"}

\* A process that the core has forked is replaced only after it failed: never
\* when it was told to stop and did, and never while it lives.
OnlyFailuresAreRestarted ==
  [][\A n \in Node :
       proc'[n] = "starting" /\ proc[n] # "starting" =>
         (proc[n] = "failed" \/ Unused(n, port_of'[n]))]_vars

\* A listed device that failed comes back, unless it is taken off the list or a
\* stale number is in the way.
FailedDeviceComesBack ==
  \A n \in Node :
    (Listed(n) /\ kind_of[n] = "device" /\ proc[n] = "failed")
      ~> (proc[n] \in Alive \/ ~Listed(n) \/ OnStaleNumber(n))

\* A stop returns when the daemon it waits for got the command, unless it was
\* refused with the daemon's node.
DeliveredStopReturns ==
  \A n \in Node :
    (waiting[n] \in {"waiting", "refused"} /\ proc[n] = "stopping")
      ~> (waiting[n] = "no" \/ sup[n] = "refused")

\* What the command line's help says of list, that it lists the processes that
\* were started: one that runs and is not being stopped is on a map.
RunningIsListed ==
  \A n \in Node :
    proc[n] \in Alive /\ waiting[n] \notin {"waiting", "refused"} => Listed(n)
=============================================================================
