----------------------- MODULE ConfigManagementProofs -----------------------
(***************************************************************************)
(* Proofs about the supervision of daemons, for any number of daemons and  *)
(* ports: what the maps, the nodes and the processes have to do with one   *)
(* another while calls, handlers and processes come in between each other. *)
(* Then proofs about the configuration that those daemons are started      *)
(* from, for every set of states and every configuration: what the saved   *)
(* commands make of it, wherever the core daemon ended.                    *)
(***************************************************************************)
EXTENDS ConfigManagement, Configuration, FiniteSetTheorems, SequenceTheorems, TLAPS

\* A daemon on a map is there under what its node was made for.
MapsKnowTheirNodes ==
  \A k \in Kind : \A p \in Port :
    m_map[k][p] # None => kind_of[m_map[k][p]] = k /\ port_of[m_map[k][p]] = p

\* Nobody stops or waits for a daemon that is on a map; and a device there has not
\* ended for good, so that nobody has let its node go.
ListedIsNotStopped ==
  \A k \in Kind : \A p \in Port :
    LET n == m_map[k][p] IN
    n # None => /\ proc[n] # "stopping" /\ waiting[n] # "waiting"
                /\ k = "device" => proc[n] # "exited" /\ sup[n] # "gone"

\* A handler is in its delay after a failure only, and one that is registered has
\* nobody waiting in its place.
HandlersInTurn ==
  \A n \in Node : /\ sup[n] = "delay" => proc[n] = "failed"
                  /\ waiting[n] = "waiting" => sup[n] # "registered"

\* Numbers are stale, and in the way, only once a descriptor was closed under a waiter.
StaleAfterClosing ==
  stale > 0 \/ (\E n \in Node : OnStaleNumber(n)) => closed > 0

IInv ==
  /\ TypeOK
  /\ OnePortOneDaemon
  /\ StopWaitsForItsOwn
  /\ MapsKnowTheirNodes
  /\ ListedIsNotStopped
  /\ HandlersInTurn
  /\ StaleAfterClosing

-----------------------------------------------------------------------------

LEMMA NoPortIsNone == NoPort \notin Port
  BY PortAssumption DEF NoPort

\* The port that is chosen is on neither map.
LEMMA FirstFreeIsFree ==
  ASSUME NEW k \in Kind, NEW port, IsFirstFree(k, port)
  PROVE  port = NoPort \/ (port \in Port /\ \A j \in Kind : m_map[j][port] = None)
  BY DEF IsFirstFree, FreePorts

-----------------------------------------------------------------------------
(* The initial states *)

LEMMA InitIInv == Init => IInv
<1> SUFFICES ASSUME Init PROVE IInv
  OBVIOUS
<1>1. TypeOK
  BY DEF Init, TypeOK, Kind, Sup
<1>2. OnePortOneDaemon /\ StopWaitsForItsOwn /\ MapsKnowTheirNodes /\ ListedIsNotStopped
  BY DEF Init, OnePortOneDaemon, StopWaitsForItsOwn, MapsKnowTheirNodes,
         ListedIsNotStopped, Kind
<1>3. HandlersInTurn /\ StaleAfterClosing
  BY DEF Init, HandlersInTurn, StaleAfterClosing, OnStaleNumber
<1> QED
  BY <1>1, <1>2, <1>3 DEF IInv

-----------------------------------------------------------------------------
(* The steps of the service *)

\* A node is registered, or a stale number was there.
LEMMA Registering ==
  ASSUME IInv, NEW n \in Node, NEW STATE kept, registerNode(n, kept)
  PROVE  \E s \in {"registered", "refused", "dropped"} :
           /\ sup' = [sup EXCEPT ![n] = s]
           /\ stale' \in Nat /\ stale' <= stale
           /\ s # "registered" => closed > 0
<1>1. stale \in Nat /\ (stale > 0 => closed > 0)
  BY DEF IInv, TypeOK, StaleAfterClosing
<1> QED
  BY <1>1 DEF registerNode

\* What a step has to keep of stale numbers, when it changes one node's place.
LEMMA StaleStep ==
  ASSUME IInv, NEW n \in Node, NEW s, sup' = [sup EXCEPT ![n] = s], closed' = closed,
         stale' > 0 => closed > 0,
         s \in {"refused", "asleep", "dropped"} => closed > 0
  PROVE  StaleAfterClosing'
<1>1. \A d \in Node : sup'[d] = sup[d] \/ sup'[d] = s
  BY DEF IInv, TypeOK
<1> QED
  BY <1>1 DEF IInv, StaleAfterClosing, OnStaleNumber

\* A start puts a node nobody refers to at a port nobody has.
LEMMA StartIInv ==
  ASSUME IInv, NEW k \in Kind, NEW n \in Node, NEW port, start(k, n, port)
  PROVE  IInv'
<1>1. TypeOK
  BY DEF IInv
<1>2. /\ Unused(n, port)
      /\ kind_of' = [kind_of EXCEPT ![n] = k]
      /\ port_of' = [port_of EXCEPT ![n] = port]
      /\ proc' = [proc EXCEPT ![n] = "starting"]
      /\ waiting' = [waiting EXCEPT ![n] = "no"]
      /\ lingering' = lingering /\ closed' = closed
  BY DEF start
<1>13. PICK s \in {"registered", "refused", "dropped"} :
         /\ sup' = [sup EXCEPT ![n] = s]
         /\ stale' \in Nat /\ stale' <= stale
         /\ s # "registered" => closed > 0
  <2>1. registerNode(n, port # NoPort)
    BY DEF start
  <2> QED
    BY <2>1, Registering
<1>3. \/ port = NoPort /\ m_map' = m_map /\ m_subprocess_map' = m_subprocess_map
      \/ /\ port \in Port /\ \A j \in Kind : m_map[j][port] = None
         /\ m_map' = [m_map EXCEPT ![k][port] = n]
         /\ m_subprocess_map' = [m_subprocess_map EXCEPT ![port] = n]
  BY FirstFreeIsFree DEF start
<1>4. \A j \in Kind, p \in Port : m_map[j][p] # n
  BY <1>2 DEF Unused
<1>5. \A j \in Kind, p \in Port :
        \/ m_map'[j][p] = m_map[j][p]
        \/ /\ m_map'[j][p] = n /\ j = k /\ p = port /\ m_subprocess_map'[p] = n
           /\ \A i \in Kind : m_map[i][p] = None
  BY <1>1, <1>3 DEF TypeOK
<1>6. \A j \in Kind, p \in Port :
         m_map'[j][p] = m_map[j][p] => \/ m_map[j][p] = None
                                       \/ m_subprocess_map'[p] = m_subprocess_map[p]
  BY <1>1, <1>3 DEF TypeOK
<1>7. TypeOK'
  <2>1. m_map' \in [Kind -> [Port -> Node \cup {None}]]
    BY <1>1, <1>3 DEF TypeOK
  <2>2. m_subprocess_map' \in [Port -> Node \cup {None}]
    BY <1>1, <1>3 DEF TypeOK
  <2>3. port \in Port \cup {NoPort}
    BY <1>3
  <2> QED
    BY <1>1, <1>2, <1>13, <2>1, <2>2, <2>3 DEF TypeOK, Alive, Sup
<1>8. OnePortOneDaemon'
  <2> SUFFICES ASSUME NEW p \in Port PROVE \E j \in Kind : m_map'[j][p] = None
    BY DEF OnePortOneDaemon
  <2>1. CASE \A j \in Kind : m_map'[j][p] = m_map[j][p]
    BY <2>1 DEF IInv, OnePortOneDaemon
  <2>2. CASE \E j \in Kind : m_map'[j][p] # m_map[j][p]
    <3>1. PICK i \in Kind : i # k
      BY DEF Kind
    <3>2. m_map'[i][p] = m_map[i][p] /\ m_map[i][p] = None
      BY <1>5, <2>2, <3>1
    <3> QED
      BY <3>2
  <2> QED
    BY <2>1, <2>2
<1>9. StopWaitsForItsOwn'
  BY <1>5, <1>6 DEF IInv, StopWaitsForItsOwn
<1>10. MapsKnowTheirNodes'
  <2> SUFFICES ASSUME NEW j \in Kind, NEW p \in Port, m_map'[j][p] # None
               PROVE  kind_of'[m_map'[j][p]] = j /\ port_of'[m_map'[j][p]] = p
    BY DEF MapsKnowTheirNodes
  <2>1. CASE m_map'[j][p] = m_map[j][p]
    BY <1>1, <1>2, <1>4, <2>1 DEF IInv, MapsKnowTheirNodes, TypeOK
  <2>2. CASE m_map'[j][p] # m_map[j][p]
    BY <1>1, <1>2, <1>5, <2>2 DEF TypeOK
  <2> QED
    BY <2>1, <2>2
<1>11. ListedIsNotStopped'
  <2> SUFFICES ASSUME NEW j \in Kind, NEW p \in Port, NEW d, d = m_map'[j][p], d # None
               PROVE  /\ proc'[d] # "stopping" /\ waiting'[d] # "waiting"
                      /\ j = "device" => proc'[d] # "exited" /\ sup'[d] # "gone"
    BY DEF ListedIsNotStopped
  <2>1. CASE m_map'[j][p] = m_map[j][p]
    BY <1>1, <1>2, <1>4, <1>13, <2>1 DEF IInv, ListedIsNotStopped, TypeOK
  <2>2. CASE m_map'[j][p] # m_map[j][p]
    BY <1>1, <1>2, <1>5, <1>13, <2>2 DEF TypeOK
  <2> QED
    BY <2>1, <2>2
<1>12. HandlersInTurn'
  BY <1>1, <1>2, <1>13 DEF IInv, HandlersInTurn, TypeOK
<1>14. StaleAfterClosing'
  <2>1. stale' > 0 => closed > 0
    BY <1>1, <1>13 DEF IInv, StaleAfterClosing, TypeOK
  <2> QED
    BY <1>2, <1>13, <2>1, StaleStep
<1> QED
  BY <1>7, <1>8, <1>9, <1>10, <1>11, <1>12, <1>14 DEF IInv

\* A stop takes a daemon off the map, tells it so, and waits for no other.
LEMMA StopIInv ==
  ASSUME IInv, NEW k \in Kind, NEW port \in Port, stop(k, port)
  PROVE  IInv'
<1> DEFINE n == m_subprocess_map[port]
           l == m_map[k][port]
<1>1. TypeOK
  BY DEF IInv
<1>2. /\ l # None
      /\ m_map' = [m_map EXCEPT ![k][port] = None]
      /\ proc' = [d \in Node |-> IF d \in Listens(k, port) THEN "stopping" ELSE proc[d]]
      /\ UNCHANGED <<m_subprocess_map, kind_of, port_of, lingering, stale, closed>>
  BY DEF stop
<1>3. \/ n = None /\ waiting' = waiting /\ sup' = sup
      \/ /\ n # None
         /\ waiting' = [waiting EXCEPT ![n] = IF sup[n] = "refused" THEN "refused" ELSE "waiting"]
         /\ sup' = [sup EXCEPT ![n] = IF sup[n] = "registered" THEN "gone" ELSE @]
  BY DEF stop, wait_stop_daemon
<1>4. n # None => n = l /\ n \in Node /\ kind_of[n] = k /\ port_of[n] = port
  BY <1>1, <1>2 DEF IInv, StopWaitsForItsOwn, MapsKnowTheirNodes, TypeOK
<1>5. \A j \in Kind, q \in Port :
        m_map'[j][q] # None => m_map'[j][q] = m_map[j][q] /\ ~(j = k /\ q = port)
  BY <1>1, <1>2 DEF TypeOK
<1>6. \A d \in Node : proc'[d] # proc[d] => /\ proc'[d] = "stopping" /\ proc[d] = "serving"
                                            /\ kind_of[d] = k /\ port_of[d] = port
  BY <1>1, <1>2 DEF TypeOK, Listens
<1> HIDE DEF n, l
<1>7. TypeOK'
  <2>1. m_map' \in [Kind -> [Port -> Node \cup {None}]]
    BY <1>1, <1>2 DEF TypeOK
  <2>2. proc' \in [Node -> Alive \cup Ended \cup {None}]
    BY <1>1, <1>2 DEF TypeOK, Alive
  <2>3. waiting' \in [Node -> {"no", "waiting", "lost", "refused"}]
    BY <1>1, <1>3 DEF TypeOK
  <2>4. sup' \in [Node -> Sup]
    BY <1>1, <1>3, <1>4 DEF TypeOK, Sup
  <2> QED
    BY <1>1, <1>2, <2>1, <2>2, <2>3, <2>4 DEF TypeOK
<1>8. OnePortOneDaemon'
  <2> SUFFICES ASSUME NEW p \in Port PROVE \E j \in Kind : m_map'[j][p] = None
    BY DEF OnePortOneDaemon
  <2>1. PICK j \in Kind : m_map[j][p] = None
    BY DEF IInv, OnePortOneDaemon
  <2> QED
    BY <1>5, <2>1
<1>9. StopWaitsForItsOwn'
  BY <1>2, <1>5 DEF IInv, StopWaitsForItsOwn
<1>10. MapsKnowTheirNodes'
  BY <1>2, <1>5 DEF IInv, MapsKnowTheirNodes
<1>11. ListedIsNotStopped'
  <2> SUFFICES ASSUME NEW j \in Kind, NEW q \in Port, NEW d, d = m_map'[j][q], d # None
               PROVE  /\ proc'[d] # "stopping" /\ waiting'[d] # "waiting"
                      /\ j = "device" => proc'[d] # "exited" /\ sup'[d] # "gone"
    BY DEF ListedIsNotStopped
  <2>1. d = m_map[j][q] /\ ~(j = k /\ q = port)
    BY <1>5
  <2>2. d \in Node /\ kind_of[d] = j /\ port_of[d] = q
    BY <1>1, <2>1 DEF IInv, MapsKnowTheirNodes, TypeOK
  <2>3. /\ proc[d] # "stopping" /\ waiting[d] # "waiting"
        /\ j = "device" => proc[d] # "exited" /\ sup[d] # "gone"
    BY <2>1 DEF IInv, ListedIsNotStopped
  <2>4. proc'[d] = proc[d]
    BY <1>6, <2>1, <2>2
  <2>5. waiting'[d] = waiting[d] /\ sup'[d] = sup[d]
    BY <1>1, <1>3, <1>4, <2>1, <2>2 DEF TypeOK
  <2> QED
    BY <2>3, <2>4, <2>5
<1>12. HandlersInTurn'
  <2> SUFFICES ASSUME NEW d \in Node
               PROVE  /\ sup'[d] = "delay" => proc'[d] = "failed"
                      /\ waiting'[d] = "waiting" => sup'[d] # "registered"
    BY DEF HandlersInTurn
  <2>1. /\ sup[d] = "delay" => proc[d] = "failed"
        /\ waiting[d] = "waiting" => sup[d] # "registered"
    BY DEF IInv, HandlersInTurn
  <2>2. CASE d = n
    BY <1>1, <1>3, <1>6, <2>1, <2>2 DEF TypeOK
  <2>3. CASE d # n
    BY <1>1, <1>3, <1>6, <2>1, <2>3 DEF TypeOK
  <2> QED
    BY <2>2, <2>3
<1>13. StaleAfterClosing'
  <2>1. \A d \in Node : sup'[d] = sup[d] \/ sup'[d] = "gone"
    BY <1>1, <1>3, <1>4 DEF TypeOK
  <2> QED
    BY <1>2, <2>1 DEF IInv, StaleAfterClosing, OnStaleNumber
<1> QED
  BY <1>7, <1>8, <1>9, <1>10, <1>11, <1>12, <1>13 DEF IInv

\* The end of a stop can only erase a node from the map, and destroy it if the loop
\* had refused it.
LEMMA StopReturnsIInv ==
  ASSUME IInv, NEW n \in Node, stop_returns(n)
  PROVE  IInv'
<1>1. TypeOK
  BY DEF IInv
<1>2. /\ waiting' = [waiting EXCEPT ![n] = "no"]
      /\ m_subprocess_map' = [m_subprocess_map EXCEPT ![port_of[n]] = None]
      /\ UNCHANGED <<m_map, kind_of, port_of, proc, lingering, closed>>
  BY DEF stop_returns
<1>3. \A p \in Port : m_subprocess_map'[p] \in {m_subprocess_map[p], None}
  BY <1>1, <1>2 DEF TypeOK
<1>4. \A d \in Node : waiting'[d] = "waiting" => waiting[d] = "waiting"
  BY <1>1, <1>2 DEF TypeOK
<1>5. /\ sup' \in [Node -> Sup] /\ stale' \in Nat
      /\ stale' > 0 => closed > 0
      /\ \A e \in Node : \/ sup'[e] = sup[e]
                         \/ sup[e] = "refused" /\ sup'[e] = "dropped" /\ closed > 0
  <2> DEFINE d == m_subprocess_map[port_of[n]]
  <2> HIDE DEF d
  <2>1. CASE UNCHANGED <<sup, stale>>
    BY <1>1, <2>1 DEF IInv, StaleAfterClosing, TypeOK
  <2>2. CASE /\ d \in Node /\ sup[d] = "refused"
             /\ sup' = [sup EXCEPT ![d] = "dropped"] /\ stale' = stale + 1
    <3>1. closed > 0
      BY <2>2 DEF IInv, StaleAfterClosing, OnStaleNumber
    <3> QED
      BY <1>1, <2>2, <3>1 DEF TypeOK, Sup
  <2> QED
    BY <2>1, <2>2 DEF stop_returns, d
<1>6. TypeOK'
  BY <1>1, <1>2, <1>5 DEF TypeOK
<1>7. OnePortOneDaemon' /\ StopWaitsForItsOwn' /\ MapsKnowTheirNodes'
  BY <1>2, <1>3 DEF IInv, OnePortOneDaemon, StopWaitsForItsOwn, MapsKnowTheirNodes
<1>8. ListedIsNotStopped'
  BY <1>1, <1>2, <1>4, <1>5 DEF IInv, ListedIsNotStopped, TypeOK
<1>9. HandlersInTurn'
  BY <1>2, <1>4, <1>5 DEF IInv, HandlersInTurn
<1>10. StaleAfterClosing'
  BY <1>2, <1>5 DEF IInv, StaleAfterClosing, OnStaleNumber
<1> QED
  BY <1>6, <1>7, <1>8, <1>9, <1>10 DEF IInv

-----------------------------------------------------------------------------
(* The steps of the supervision, of the daemons and of the system *)

\* What is asked of the supervision of one node, given whether and as what the
\* node is on a map.
NodeInOrder(n, s, pr, w, c) ==
  /\ n # None /\ Listed(n) =>
       /\ pr # "stopping" /\ w # "waiting"
       /\ kind_of[n] = "device" => pr # "exited" /\ s # "gone"
  /\ s = "delay" => pr = "failed"
  /\ w = "waiting" => s # "registered"
  /\ s \in {"refused", "asleep", "dropped"} => c > 0

LEMMA NodesInOrder ==
  ASSUME IInv, NEW n \in Node
  PROVE  NodeInOrder(n, sup[n], proc[n], waiting[n], closed)
<1>1. ASSUME NEW k \in Kind, NEW p \in Port, m_map[k][p] = n, n # None
      PROVE  /\ proc[n] # "stopping" /\ waiting[n] # "waiting"
             /\ kind_of[n] = "device" => proc[n] # "exited" /\ sup[n] # "gone"
  BY <1>1 DEF IInv, MapsKnowTheirNodes, ListedIsNotStopped
<1> QED
  BY <1>1 DEF IInv, HandlersInTurn, StaleAfterClosing, OnStaleNumber, NodeInOrder, Listed

\* A step that changes one node's handler, process or wait, and no map.
Touches(n) ==
  /\ sup' \in [Node -> Sup]
  /\ proc' \in [Node -> Alive \cup Ended \cup {None}]
  /\ waiting' \in [Node -> {"no", "waiting", "lost", "refused"}]
  /\ lingering' \in SUBSET Port
  /\ stale' \in Nat /\ (stale' > 0 => closed' > 0)
  /\ closed' \in Nat /\ closed <= closed'
  /\ \A d \in Node \ {n} :
       sup'[d] = sup[d] /\ proc'[d] = proc[d] /\ waiting'[d] = waiting[d]
  /\ UNCHANGED <<m_map, m_subprocess_map, kind_of, port_of>>

LEMMA OneNodeIInv ==
  ASSUME IInv, NEW n \in Node, Touches(n),
         NodeInOrder(n, sup'[n], proc'[n], waiting'[n], closed')
  PROVE  IInv'
<1>1. TypeOK
  BY DEF IInv
<1>2. TypeOK'
  BY <1>1 DEF TypeOK, Touches
<1>3. OnePortOneDaemon' /\ StopWaitsForItsOwn' /\ MapsKnowTheirNodes'
  BY DEF Touches, IInv, OnePortOneDaemon, StopWaitsForItsOwn, MapsKnowTheirNodes
<1>4. ListedIsNotStopped'
  <2> SUFFICES ASSUME NEW j \in Kind, NEW q \in Port, NEW d, d = m_map'[j][q], d # None
               PROVE  /\ proc'[d] # "stopping" /\ waiting'[d] # "waiting"
                      /\ j = "device" => proc'[d] # "exited" /\ sup'[d] # "gone"
    BY DEF ListedIsNotStopped
  <2>1. d = m_map[j][q] /\ d \in Node /\ kind_of[d] = j
    BY <1>1 DEF Touches, IInv, MapsKnowTheirNodes, TypeOK
  <2>2. CASE d = n
    <3>1. Listed(n)
      BY <2>1, <2>2 DEF Listed
    <3> QED
      BY <2>1, <2>2, <3>1 DEF NodeInOrder
  <2>3. CASE d # n
    <3>1. sup'[d] = sup[d] /\ proc'[d] = proc[d] /\ waiting'[d] = waiting[d]
      BY <2>1, <2>3 DEF Touches
    <3> QED
      BY <2>1, <3>1 DEF IInv, ListedIsNotStopped
  <2> QED
    BY <2>2, <2>3
<1>5. HandlersInTurn'
  <2> SUFFICES ASSUME NEW d \in Node
               PROVE  /\ sup'[d] = "delay" => proc'[d] = "failed"
                      /\ waiting'[d] = "waiting" => sup'[d] # "registered"
    BY DEF HandlersInTurn
  <2>1. CASE d = n
    BY <2>1 DEF NodeInOrder
  <2>2. CASE d # n
    BY <2>2 DEF Touches, IInv, HandlersInTurn
  <2> QED
    BY <2>1, <2>2
<1>6. StaleAfterClosing'
  <2>1. stale' > 0 => closed' > 0
    BY DEF Touches
  <2>2. ASSUME NEW d \in Node, OnStaleNumber(d)'
        PROVE  closed' > 0
    <3>1. CASE d = n
      BY <2>2, <3>1 DEF NodeInOrder, OnStaleNumber
    <3>2. CASE d # n
      <4>1. closed > 0
        BY <2>2, <3>2 DEF Touches, IInv, StaleAfterClosing, OnStaleNumber
      <4> QED
        BY <1>1, <4>1 DEF Touches, TypeOK
    <3> QED
      BY <3>1, <3>2
  <2> QED
    BY <2>1, <2>2 DEF StaleAfterClosing
<1> QED
  BY <1>2, <1>3, <1>4, <1>5, <1>6 DEF IInv

LEMMA HandleEventIInv ==
  ASSUME IInv, NEW n \in Node, handleEvent(n)
  PROVE  IInv'
<1>1. /\ TypeOK /\ NodeInOrder(n, sup[n], proc[n], waiting[n], closed)
      /\ stale > 0 => closed > 0
  BY NodesInOrder DEF IInv, StaleAfterClosing
<1>2. PICK s \in {"delay", "gone", "asleep"} :
        /\ sup' = [sup EXCEPT ![n] = s]
        /\ stale' \in Nat /\ (stale' > 0 => closed > 0)
        /\ s = "gone" <=> ~NeedRestart(n)
        /\ s = "asleep" => closed > 0
  BY <1>1 DEF handleEvent, TypeOK
<1>3. Touches(n)
  BY <1>1, <1>2 DEF Touches, handleEvent, TypeOK, Sup
<1>4. sup'[n] = s /\ proc' = proc /\ waiting' = waiting /\ closed' = closed
  BY <1>1, <1>2 DEF handleEvent, TypeOK
<1>5. NodeInOrder(n, sup'[n], proc'[n], waiting'[n], closed')
  BY <1>1, <1>2, <1>4 DEF NodeInOrder, handleEvent, NeedRestart, Ended
<1> QED
  BY <1>3, <1>5, OneNodeIInv

\* A restart closes a descriptor under a waiter, or finds no more stale numbers than
\* there were.
LEMMA RestartIInv ==
  ASSUME IInv, NEW n \in Node, restart(n)
  PROVE  IInv'
<1>1. /\ TypeOK /\ NodeInOrder(n, sup[n], proc[n], waiting[n], closed)
      /\ stale > 0 => closed > 0
  BY NodesInOrder DEF IInv, StaleAfterClosing
<1>2. closed' \in Nat /\ closed <= closed' /\ (waiting[n] = "waiting" => closed' > 0)
  BY <1>1 DEF restart, TypeOK
<1>3. PICK s \in {"registered", "refused", "dropped"} :
        /\ sup' = [sup EXCEPT ![n] = s]
        /\ stale' \in Nat /\ (stale' > 0 => closed' > 0)
        /\ s # "registered" => closed' > 0
  <2>1. CASE waiting[n] # "waiting"
    <3>1. registerNode(n, IsKept(n))
      BY <2>1 DEF restart, SupOfFork
    <3>2. closed' = closed
      BY <2>1 DEF restart
    <3> QED
      BY <1>1, <3>1, <3>2, Registering DEF TypeOK
  <2>2. CASE waiting[n] = "waiting"
    BY <1>1, <1>2, <2>2 DEF restart, SupOfFork, TypeOK
  <2> QED
    BY <2>1, <2>2
<1>4. Touches(n)
  <2>1. proc' \in [Node -> Alive \cup Ended \cup {None}]
    BY <1>1 DEF restart, TypeOK, Alive
  <2>2. waiting' \in [Node -> {"no", "waiting", "lost", "refused"}]
    BY <1>1 DEF restart, TypeOK
  <2>3. sup' \in [Node -> Sup]
    BY <1>1, <1>3 DEF TypeOK, Sup
  <2> QED
    BY <1>1, <1>2, <1>3, <2>1, <2>2, <2>3 DEF Touches, restart, TypeOK
<1>5. sup'[n] = s /\ proc'[n] = "starting" /\ waiting'[n] # "waiting"
  BY <1>1, <1>3 DEF restart, TypeOK
<1>6. NodeInOrder(n, sup'[n], proc'[n], waiting'[n], closed')
  BY <1>1, <1>3, <1>5 DEF NodeInOrder
<1> QED
  BY <1>4, <1>6, OneNodeIInv

LEMMA DaemonListensIInv ==
  ASSUME IInv, NEW n \in Node, daemon_listens(n)
  PROVE  IInv'
<1>1. /\ TypeOK /\ NodeInOrder(n, sup[n], proc[n], waiting[n], closed)
      /\ stale > 0 => closed > 0
  BY NodesInOrder DEF IInv, StaleAfterClosing
<1>2. Touches(n)
  BY <1>1 DEF Touches, daemon_listens, TypeOK, Alive, Ended
<1>3. /\ proc'[n] \in {"serving", "deaf", "exited"}
      /\ proc'[n] = "exited" => kind_of[n] # "device"
  BY <1>1 DEF daemon_listens, TypeOK
<1>4. NodeInOrder(n, sup'[n], proc'[n], waiting'[n], closed')
  BY <1>1, <1>3 DEF NodeInOrder, daemon_listens
<1> QED
  BY <1>2, <1>4, OneNodeIInv

\* A daemon ends with 0 only when it was told to, and then it is on no map.
LEMMA DaemonEndsIInv ==
  ASSUME IInv, NEW n \in Node, daemon_stops(n) \/ daemon_fails(n)
  PROVE  IInv'
<1>1. /\ TypeOK /\ NodeInOrder(n, sup[n], proc[n], waiting[n], closed)
      /\ stale > 0 => closed > 0
  BY NodesInOrder DEF IInv, StaleAfterClosing
<1>2. PICK status \in Ended : /\ daemon_ends(n, status)
                              /\ status = "exited" => proc[n] = "stopping"
                              /\ proc[n] \in Alive
  BY DEF daemon_stops, daemon_fails, Ended, Alive
<1>3. lingering' \in SUBSET Port
  BY <1>1, <1>2 DEF daemon_ends, TypeOK
<1>4. Touches(n)
  BY <1>1, <1>2, <1>3 DEF Touches, daemon_ends, TypeOK
<1>5. proc'[n] = status /\ sup' = sup /\ waiting' = waiting /\ closed' = closed
  BY <1>1, <1>2 DEF daemon_ends, TypeOK
<1>6. NodeInOrder(n, sup'[n], proc'[n], waiting'[n], closed')
  BY <1>1, <1>2, <1>5 DEF NodeInOrder, Ended, Alive
<1> QED
  BY <1>4, <1>6, OneNodeIInv

LEMMA PortIsFreeIInv ==
  ASSUME IInv, NEW p \in Port, port_is_free(p)
  PROVE  IInv'
<1>1. /\ lingering' \in SUBSET Port
      /\ UNCHANGED <<m_map, m_subprocess_map, kind_of, port_of, sup, proc, waiting, stale, closed>>
  BY DEF IInv, TypeOK, port_is_free
<1> QED
  BY <1>1 DEF IInv, TypeOK, OnePortOneDaemon, StopWaitsForItsOwn, MapsKnowTheirNodes,
              ListedIsNotStopped, HandlersInTurn, StaleAfterClosing, OnStaleNumber

LEMMA NextIInv == IInv /\ [Next]_vars => IInv'
<1> SUFFICES ASSUME IInv, [Next]_vars PROVE IInv'
  OBVIOUS
<1>1. CASE \E k \in Kind, n \in Node, p \in Port \cup {NoPort} : start(k, n, p)
  BY <1>1, StartIInv
<1>2. CASE \E k \in Kind, p \in Port : stop(k, p)
  BY <1>2, StopIInv
<1>3. CASE \E n \in Node : stop_returns(n)
  BY <1>3, StopReturnsIInv
<1>4. CASE \E n \in Node : handleEvent(n)
  BY <1>4, HandleEventIInv
<1>5. CASE \E n \in Node : restart(n)
  BY <1>5, RestartIInv
<1>6. CASE \E n \in Node : daemon_listens(n)
  BY <1>6, DaemonListensIInv
<1>7. CASE \E n \in Node : daemon_stops(n) \/ daemon_fails(n)
  BY <1>7, DaemonEndsIInv
<1>8. CASE \E p \in Port : port_is_free(p)
  BY <1>8, PortIsFreeIInv
<1>9. CASE UNCHANGED vars
  BY <1>9 DEF vars, IInv, TypeOK, OnePortOneDaemon, StopWaitsForItsOwn,
              MapsKnowTheirNodes, ListedIsNotStopped, HandlersInTurn, StaleAfterClosing,
              OnStaleNumber
<1> QED
  BY <1>1, <1>2, <1>3, <1>4, <1>5, <1>6, <1>7, <1>8, <1>9 DEF Next

-----------------------------------------------------------------------------
(* What follows *)

\* The invariant holds for any number of daemons and ports, whatever is started,
\* stopped, restarted or fails in whatever order.
THEOREM Inductive == Safe => []IInv
<1>1. Init => IInv
  BY InitIInv
<1>2. IInv /\ [Next]_vars => IInv'
  BY NextIInv
<1> QED
  BY <1>1, <1>2, PTL DEF Safe

\* Ports, nodes and handlers are what they should be.
THEOREM TypeCorrect == Safe => []TypeOK
<1>1. IInv => TypeOK
  BY DEF IInv
<1> QED
  BY <1>1, Inductive, PTL

\* Two daemons never have one port, and a stop waits for the daemon it is for:
\* neither start_daemon nor wait_stop_daemon is confused by calls in between.
THEOREM PortsCorrect == Safe => [](OnePortOneDaemon /\ StopWaitsForItsOwn)
<1>1. IInv => OnePortOneDaemon /\ StopWaitsForItsOwn
  BY DEF IInv
<1> QED
  BY <1>1, Inductive, PTL

\* A device on the list keeps its node: nothing lets it go, and if the loop did not
\* take it, a restart had closed a descriptor under a waiter before.
THEOREM DevicesWatched == Safe => []ListedDeviceIsWatched
<1>1. IInv => ListedDeviceIsWatched
  <2> SUFFICES ASSUME IInv, NEW p \in Port, NEW n, n = m_map["device"][p], n # None
               PROVE  \/ sup[n] \in {"registered", "delay"}
                      \/ OnStaleNumber(n) /\ closed > 0
    BY DEF ListedDeviceIsWatched
  <2>1. n \in Node /\ sup[n] \in Sup /\ sup[n] # "gone"
    BY DEF IInv, TypeOK, ListedIsNotStopped, Kind
  <2> QED
    BY <2>1 DEF IInv, StaleAfterClosing, OnStaleNumber, Sup
<1> QED
  BY <1>1, Inductive, PTL

\* While a stop waits for a living daemon, no handler will start it again.
THEOREM LetGo == Safe => []WaitedForIsLetGo
<1>1. IInv => WaitedForIsLetGo
  BY DEF IInv, HandlersInTurn, TypeOK, WaitedForIsLetGo, Alive
<1> QED
  BY <1>1, Inductive, PTL

\* What is forked again had failed.
THEOREM FailuresOnly == Safe => OnlyFailuresAreRestarted
<1> DEFINE A == \A n \in Node :
                  proc'[n] = "starting" /\ proc[n] # "starting" =>
                    (proc[n] = "failed" \/ Unused(n, port_of'[n]))
<1>1. IInv /\ [Next]_vars => [A]_vars
  <2> SUFFICES ASSUME IInv, Next, NEW n \in Node,
                      proc'[n] = "starting", proc[n] # "starting"
               PROVE  proc[n] = "failed" \/ Unused(n, port_of'[n])
    OBVIOUS
  <2>1. TypeOK
    BY DEF IInv
  <2>2. ASSUME NEW k \in Kind, NEW d \in Node, NEW p \in Port \cup {NoPort}, start(k, d, p)
        PROVE  Unused(n, port_of'[n])
    BY <2>1, <2>2 DEF start, TypeOK
  <2>3. ASSUME NEW k \in Kind, NEW p \in Port, stop(k, p)
        PROVE  FALSE
    BY <2>1, <2>3 DEF stop, TypeOK
  <2>4. ASSUME NEW d \in Node, restart(d)
        PROVE  proc[n] = "failed"
    BY <2>1, <2>4 DEF restart, TypeOK, IInv, HandlersInTurn
  <2>5. ASSUME NEW d \in Node, daemon_listens(d)
        PROVE  FALSE
    BY <2>1, <2>5 DEF daemon_listens, TypeOK
  <2>6. ASSUME NEW d \in Node, daemon_stops(d) \/ daemon_fails(d)
        PROVE  FALSE
    BY <2>1, <2>6 DEF daemon_stops, daemon_fails, daemon_ends, TypeOK
  <2>7. ASSUME NEW d \in Node, stop_returns(d) \/ handleEvent(d)
        PROVE  FALSE
    BY <2>7 DEF stop_returns, handleEvent
  <2>8. ASSUME NEW p \in Port, port_is_free(p)
        PROVE  FALSE
    BY <2>8 DEF port_is_free
  <2> QED
    BY <2>2, <2>3, <2>4, <2>5, <2>6, <2>7, <2>8 DEF Next
<1>2. Safe => [][Next]_vars
  BY DEF Safe
<1>3. Safe => [][A]_vars
  BY <1>1, <1>2, Inductive, PTL
<1> QED
  BY <1>3 DEF OnlyFailuresAreRestarted

-----------------------------------------------------------------------------
(* THE CONFIGURATION: joined sequences, whatever is in them *)

\* Whatever holds of 0, and of k + 1 when it holds of k, holds of n.
LEMMA UpTo ==
  ASSUME NEW n \in Nat, NEW G, 0 \in G, \A k \in 0 .. n - 1 : k \in G => k + 1 \in G
  PROVE  \A k \in 0 .. n : k \in G
<1> DEFINE Missing == {k \in 0 .. n : k \notin G}
<1> SUFFICES ASSUME Missing # {}
             PROVE  FALSE
  OBVIOUS
<1>1. Missing \subseteq Nat
  OBVIOUS
<1>2. PICK k \in Missing : \A l \in Missing : ~(<<l, k>> \in OpToRel(<, Nat))
  <2> HIDE DEF Missing
  <2> QED
    BY <1>1, NatLessThanWellFounded, WFMin
<1>3. \A l \in Missing : ~(l < k)
  BY <1>1, <1>2 DEF OpToRel
<1> QED
  BY <1>3

\* Every entry of out is an entry of one of the first m sequences, with what precedes
\* it there before it, and no entry of theirs is missing.
Pieces(out, seqs, m) ==
  /\ \A i \in 1 .. Len(out) : \E j \in 1 .. m : \E k \in 1 .. Len(seqs[j]) :
       /\ out[i] = seqs[j][k]
       /\ \A l \in 1 .. k - 1 : \E h \in 1 .. i - 1 : out[h] = seqs[j][l]
  /\ \A j \in 1 .. m : \A k \in 1 .. Len(seqs[j]) : \E i \in 1 .. Len(out) :
       out[i] = seqs[j][k]

\* One more sequence after them.
LEMMA PiecesConcat ==
  ASSUME NEW S, NEW m \in Nat, NEW seqs, NEW out \in Seq(S), Pieces(out, seqs, m),
         seqs[m + 1] \in Seq(S), \A j \in 1 .. m : seqs[j] \in Seq(S)
  PROVE  out \o seqs[m + 1] \in Seq(S) /\ Pieces(out \o seqs[m + 1], seqs, m + 1)
<1> DEFINE t == seqs[m + 1]
           all == out \o t
<1>1. /\ all \in Seq(S) /\ Len(all) = Len(out) + Len(t)
      /\ Len(out) \in Nat /\ Len(t) \in Nat
      /\ \A i \in 1 .. Len(out) : all[i] = out[i]
      /\ \A k \in 1 .. Len(t) : all[Len(out) + k] = t[k]
  BY ConcatProperties, LenProperties
<1> HIDE DEF all, t
<1>2. ASSUME NEW i \in 1 .. Len(all)
      PROVE  \E j \in 1 .. m + 1 : \E k \in 1 .. Len(seqs[j]) :
               /\ all[i] = seqs[j][k]
               /\ \A l \in 1 .. k - 1 : \E h \in 1 .. i - 1 : all[h] = seqs[j][l]
  <2>1. CASE i <= Len(out)
    <3>1. i \in 1 .. Len(out)
      BY <1>1, <2>1
    <3>2. PICK j \in 1 .. m : \E k \in 1 .. Len(seqs[j]) :
               /\ out[i] = seqs[j][k]
               /\ \A l \in 1 .. k - 1 : \E h \in 1 .. i - 1 : out[h] = seqs[j][l]
      BY <3>1 DEF Pieces
    <3>3. PICK k \in 1 .. Len(seqs[j]) :
               /\ out[i] = seqs[j][k]
               /\ \A l \in 1 .. k - 1 : \E h \in 1 .. i - 1 : out[h] = seqs[j][l]
      BY <3>2
    <3>4. \A h \in 1 .. i - 1 : all[h] = out[h]
      BY <1>1, <2>1
    <3>5. all[i] = seqs[j][k] /\ \A l \in 1 .. k - 1 : \E h \in 1 .. i - 1 : all[h] = seqs[j][l]
      BY <1>1, <3>1, <3>3, <3>4
    <3>6. j \in 1 .. m + 1
      OBVIOUS
    <3> QED
      BY <3>5, <3>6, Zenon
  <2>2. CASE i > Len(out)
    <3> DEFINE k == i - Len(out)
    <3>1. k \in 1 .. Len(t) /\ i = Len(out) + k
      <4>1. i \in Nat /\ i <= Len(out) + Len(t)
        BY <1>1
      <4> QED
        BY <1>1, <2>2, <4>1
    <3>2. \A l \in 1 .. k - 1 : Len(out) + l \in 1 .. i - 1 /\ all[Len(out) + l] = t[l]
      <4> SUFFICES ASSUME NEW l \in 1 .. k - 1
                   PROVE  Len(out) + l \in 1 .. i - 1 /\ all[Len(out) + l] = t[l]
        OBVIOUS
      <4>1. l \in 1 .. Len(t) /\ Len(out) + l \in 1 .. i - 1
        <5> HIDE DEF k
        <5> QED
          BY <1>1, <3>1
      <4> QED
        BY <1>1, <4>1
    <3>3. all[i] = t[k]
      BY <1>1, <3>1
    <3> HIDE DEF k
    <3>4. \A l \in 1 .. k - 1 : \E h \in 1 .. i - 1 : all[h] = t[l]
      BY <3>2
    <3>5. m + 1 \in 1 .. m + 1
      OBVIOUS
    <3> QED
      BY <3>1, <3>3, <3>4, <3>5, Zenon DEF t
  <2> QED
    BY <1>1, <2>1, <2>2
<1>3. ASSUME NEW j \in 1 .. m + 1, NEW k \in 1 .. Len(seqs[j])
      PROVE  \E i \in 1 .. Len(all) : all[i] = seqs[j][k]
  <2>1. CASE j = m + 1
    <3>1. k \in 1 .. Len(t)
      BY <2>1 DEF t
    <3>2. Len(out) + k \in 1 .. Len(all) /\ all[Len(out) + k] = seqs[j][k]
      BY <1>1, <2>1, <3>1 DEF t
    <3> QED
      BY <3>2
  <2>2. CASE j # m + 1
    <3>1. j \in 1 .. m
      BY <2>2
    <3>2. PICK i \in 1 .. Len(out) : out[i] = seqs[j][k]
      BY <3>1 DEF Pieces
    <3>3. i \in 1 .. Len(all) /\ all[i] = seqs[j][k]
      BY <1>1, <3>2
    <3> QED
      BY <3>3
  <2> QED
    BY <2>1, <2>2
<1>4. Pieces(all, seqs, m + 1)
  BY <1>2, <1>3 DEF Pieces
<1> QED
  BY <1>1, <1>4 DEF all, t

\* g joins the first k sequences, one after the other.
Joins(g, seqs, k) ==
  g = [i \in 1 .. k |-> IF i = 1 THEN seqs[i] ELSE g[i - 1] \o seqs[i]]

\* There is a function that joins them all.
LEMMA JoinsExist ==
  ASSUME NEW n \in Nat, NEW seqs
  PROVE  \E g : Joins(g, seqs, n)
<1> DEFINE G == {k \in 0 .. n : \E g : Joins(g, seqs, k)}
<1>1. 0 \in G
  <2>1. Joins([i \in 1 .. 0 |-> 0], seqs, 0)
    BY DEF Joins
  <2> QED
    BY <2>1
<1>2. ASSUME NEW k \in 0 .. n - 1, k \in G
      PROVE  k + 1 \in G
  <2>1. PICK g : Joins(g, seqs, k)
    BY <1>2
  <2> DEFINE h == [i \in 1 .. k + 1 |-> IF i = 1 THEN seqs[i] ELSE g[i - 1] \o seqs[i]]
  <2>2. ASSUME NEW i \in 1 .. k
        PROVE  h[i] = g[i]
    <3>1. g[i] = IF i = 1 THEN seqs[i] ELSE g[i - 1] \o seqs[i]
      BY <2>1 DEF Joins
    <3>2. i \in 1 .. k + 1
      OBVIOUS
    <3> QED
      BY <3>1, <3>2
  <2>3. ASSUME NEW i \in 1 .. k + 1, i # 1
        PROVE  h[i - 1] = g[i - 1]
    <3>1. i - 1 \in 1 .. k
      BY <2>3
    <3> HIDE DEF h
    <3> QED
      BY <2>2, <3>1
  <2>4. h = [i \in 1 .. k + 1 |-> IF i = 1 THEN seqs[i] ELSE h[i - 1] \o seqs[i]]
    <3> DEFINE e(i) == IF i = 1 THEN seqs[i] ELSE g[i - 1] \o seqs[i]
               d(i) == IF i = 1 THEN seqs[i] ELSE h[i - 1] \o seqs[i]
    <3>1. \A i \in 1 .. k + 1 : e(i) = d(i)
      BY <2>3
    <3>2. h = [i \in 1 .. k + 1 |-> e(i)]
      OBVIOUS
    <3> HIDE DEF e, d, h
    <3>3. h = [i \in 1 .. k + 1 |-> d(i)]
      BY <3>1, <3>2
    <3> QED
      BY <3>3 DEF d
  <2> HIDE DEF h
  <2>5. Joins(h, seqs, k + 1)
    BY <2>4 DEF Joins
  <2>6. k + 1 \in 0 .. n
    OBVIOUS
  <2> QED
    BY <2>5, <2>6
<1>3. n \in G
  <2> HIDE DEF G
  <2>1. \A k \in 0 .. n : k \in G
    BY <1>1, <1>2, UpTo
  <2> QED
    BY <2>1
<1> QED
  BY <1>3

\* FlattenSeq loses nothing and keeps the order within each sequence.
LEMMA FlattenPieces ==
  ASSUME NEW S, NEW n \in Nat, NEW seqs \in [1 .. n -> Seq(S)]
  PROVE  FlattenSeq(seqs) \in Seq(S) /\ Pieces(FlattenSeq(seqs), seqs, n)
<1>1. Len(seqs) = n /\ seqs \in Seq(Seq(S))
  BY IsASeq, LenProperties
<1>2. CASE n = 0
  <2>1. FlattenSeq(seqs) = seqs /\ Len(seqs) = 0
    BY <1>1, <1>2 DEF FlattenSeq
  <2>2. seqs = << >>
    BY <1>1, <1>2
  <2> QED
    BY <1>2, <2>1, <2>2 DEF Pieces
<1>3. CASE n # 0
  <2> DEFINE f == CHOOSE g : Joins(g, seqs, n)
  <2>1. Joins(f, seqs, n)
    BY JoinsExist
  <2>2. FlattenSeq(seqs) = f[n]
    BY <1>1, <1>3 DEF FlattenSeq, Joins
  <2> HIDE DEF f
  <2>3. \A i \in 1 .. n : f[i] = IF i = 1 THEN seqs[i] ELSE f[i - 1] \o seqs[i]
    BY <2>1 DEF Joins
  <2>4. f[1] = seqs[1]
    BY <1>3, <2>3
  <2>5. ASSUME NEW k \in 1 .. n - 1
        PROVE  f[k + 1] = f[k] \o seqs[k + 1]
    <3>1. k + 1 \in 1 .. n /\ k + 1 # 1 /\ (k + 1) - 1 = k
      OBVIOUS
    <3> QED
      BY <2>3, <3>1
  <2> DEFINE H == {k \in 0 .. n : k # 0 => f[k] \in Seq(S) /\ Pieces(f[k], seqs, k)}
  <2>7. ASSUME NEW k \in 0 .. n - 1, k \in H
        PROVE  k + 1 \in H
    <3>1. CASE k = 0
      <4>1. seqs[1] \in Seq(S)
        BY <1>3
      <4>2. Pieces(seqs[1], seqs, 1)
        BY <4>1, LenProperties DEF Pieces
      <4> QED
        BY <2>4, <3>1, <4>1, <4>2
    <3>2. CASE k # 0
      <4>1. f[k] \in Seq(S) /\ Pieces(f[k], seqs, k)
        BY <2>7, <3>2
      <4>2. seqs[k + 1] \in Seq(S) /\ \A j \in 1 .. k : seqs[j] \in Seq(S)
        OBVIOUS
      <4>3. f[k] \o seqs[k + 1] \in Seq(S) /\ Pieces(f[k] \o seqs[k + 1], seqs, k + 1)
        BY <4>1, <4>2, PiecesConcat
      <4>4. k \in 1 .. n - 1
        BY <3>2
      <4>5. f[k + 1] = f[k] \o seqs[k + 1]
        BY <2>5, <4>4
      <4>6. f[k + 1] \in Seq(S) /\ Pieces(f[k + 1], seqs, k + 1)
        BY <4>3, <4>5
      <4>7. k + 1 \in 0 .. n
        OBVIOUS
      <4> QED
        BY <4>6, <4>7
    <3> QED
      BY <3>1, <3>2
  <2>8. n \in H
    <3>1. 0 \in H
      OBVIOUS
    <3> HIDE DEF H
    <3>2. \A k \in 0 .. n : k \in H
      BY <2>7, <3>1, UpTo
    <3> QED
      BY <3>2
  <2> QED
    BY <1>3, <2>2, <2>8
<1> QED
  BY <1>2, <1>3

\* SetToSeq enumerates.
LEMMA SetToSeqOnto ==
  ASSUME NEW S, IsFiniteSet(S)
  PROVE  /\ SetToSeq(S) \in Seq(S)
         /\ \A x \in S : \E i \in 1 .. Len(SetToSeq(S)) : SetToSeq(S)[i] = x
<1> DEFINE n == Cardinality(S)
           f == SetToSeq(S)
<1>1. n \in Nat /\ ExistsBijection(1 .. n, S)
  BY FS_CardinalityType
<1>2. \E g \in [1 .. n -> S] : IsInjective(g)
  BY <1>1 DEF ExistsBijection, Bijection, Injection
<1>3. f \in [1 .. n -> S] /\ IsInjective(f)
  BY <1>2 DEF SetToSeq
<1> HIDE DEF f
<1>4. f \in Injection(1 .. n, S)
  BY <1>3 DEF Injection
<1>5. Cardinality(1 .. n) = Cardinality(S)
  BY <1>1, FS_Interval
<1>6. f \in Surjection(1 .. n, S)
  BY <1>4, <1>5, FS_Injection
<1>7. f \in Seq(S) /\ Len(f) = n
  BY <1>1, <1>3, IsASeq, LenProperties
<1> QED
  BY <1>6, <1>7 DEF Surjection, f
-----------------------------------------------------------------------------
(* Texts that are printed and read back *)

\* The splitter at a word w of a sentence, or behind a backslash in one.
InSentence(b, mark, w) == [state |-> "sentence", prev |-> b, mark |-> mark, words |-> <<w>>]
AtEscape(mark, w) == [state |-> "escape", prev |-> "sentence", mark |-> mark, words |-> <<w>>]

LEMMA PutLast ==
  ASSUME NEW w, NEW c
  PROVE  Put(<<w>>, c) = <<Append(w, c)>>
<1>1. Len(<<w>>) = 1 /\ DOMAIN <<w>> = {1}
  OBVIOUS
<1> QED
  BY <1>1 DEF Put

LEMMA EvalBackslash ==
  ASSUME NEW b, NEW mark \in Marks, NEW w
  PROVE  Eval(InSentence(b, mark, w), "backslash") = AtEscape(mark, w)
<1> DEFINE sp == InSentence(b, mark, w)
<1>1. sp.state = "sentence" /\ sp.words = <<w>>
  BY DEF InSentence
<1>2. Eval(sp, "backslash") = [sp EXCEPT !.state = "escape", !.prev = "sentence", !.words = <<w>>]
  BY <1>1 DEF Eval, InSentence, Marks
<1> QED
  BY <1>2 DEF InSentence, AtEscape

LEMMA EvalMark ==
  ASSUME NEW b, NEW mark \in Marks, NEW w
  PROVE  Eval(InSentence(b, mark, w), mark).words = <<w>>
  BY DEF Eval, InSentence, Marks

LEMMA EvalInSentence ==
  ASSUME NEW b, NEW mark, NEW w, NEW c, c \notin {"backslash", mark}
  PROVE  Eval(InSentence(b, mark, w), c) = InSentence(b, mark, Append(w, c))
  BY PutLast DEF Eval, InSentence

LEMMA EvalAtEscape ==
  ASSUME NEW mark \in Marks, NEW w, NEW c
  PROVE  /\ c \in Marks => Eval(AtEscape(mark, w), c) = InSentence("sentence", mark, Append(w, c))
         /\ c \notin Marks \cup {"backslash"} =>
              Eval(AtEscape(mark, w), c)
                = InSentence("sentence", mark, Append(Append(w, "backslash"), c))
  BY PutLast DEF Eval, InSentence, AtEscape, Marks

\* g is the splitter after each of the first n symbols.
Scans(g, text, mark, n) ==
  g = [k \in 0 .. n |->
         IF k = 0 THEN [state |-> "sentence", prev |-> "space", mark |-> mark, words |-> << <<>> >>]
         ELSE EvalAll(g[k - 1], Printed(text[k], mark))]

LEMMA ScansExist ==
  ASSUME NEW n \in Nat, NEW text, NEW mark
  PROVE  \E g : Scans(g, text, mark, n)
<1> DEFINE begin == [state |-> "sentence", prev |-> "space", mark |-> mark, words |-> << <<>> >>]
           next(g, k) == EvalAll(g[k - 1], Printed(text[k], mark))
           G == {k \in 0 .. n : \E g : g = [i \in 0 .. k |-> IF i = 0 THEN begin ELSE next(g, i)]}
<1>1. 0 \in G
  <2> DEFINE g == [i \in 0 .. 0 |-> begin]
             d(i) == IF i = 0 THEN begin ELSE next(g, i)
  <2>1. \A i \in 0 .. 0 : d(i) = begin
    OBVIOUS
  <2> HIDE DEF d, begin
  <2>2. g = [i \in 0 .. 0 |-> d(i)]
    BY <2>1
  <2>3. 0 \in 0 .. n
    OBVIOUS
  <2> HIDE DEF g
  <2> QED
    BY <2>2, <2>3 DEF d
<1>2. ASSUME NEW k \in 0 .. n - 1, k \in G
      PROVE  k + 1 \in G
  <2>1. PICK g : g = [i \in 0 .. k |-> IF i = 0 THEN begin ELSE next(g, i)]
    BY <1>2
  <2> DEFINE h == [i \in 0 .. k + 1 |-> IF i = 0 THEN begin ELSE next(g, i)]
  <2>2. \A i \in 0 .. k : h[i] = g[i]
    <3> SUFFICES ASSUME NEW i \in 0 .. k
                 PROVE  h[i] = g[i]
      OBVIOUS
    <3> HIDE DEF next, begin
    <3>1. g[i] = IF i = 0 THEN begin ELSE next(g, i)
      BY <2>1
    <3> QED
      BY <3>1
  <2>3. ASSUME NEW i \in 0 .. k + 1, i # 0
        PROVE  next(h, i) = next(g, i)
    <3>1. i - 1 \in 0 .. k
      BY <2>3
    <3> HIDE DEF h
    <3>2. h[i - 1] = g[i - 1]
      BY <2>2, <3>1
    <3> QED
      BY <3>2
  <2>4. h = [i \in 0 .. k + 1 |-> IF i = 0 THEN begin ELSE next(h, i)]
    <3> DEFINE e(i) == IF i = 0 THEN begin ELSE next(g, i)
               d(i) == IF i = 0 THEN begin ELSE next(h, i)
    <3>1. \A i \in 0 .. k + 1 : e(i) = d(i)
      BY <2>3
    <3>2. h = [i \in 0 .. k + 1 |-> e(i)]
      OBVIOUS
    <3> HIDE DEF e, d, h
    <3>3. h = [i \in 0 .. k + 1 |-> d(i)]
      BY <3>1, <3>2
    <3> QED
      BY <3>3 DEF d
  <2> HIDE DEF h
  <2>5. k + 1 \in 0 .. n
    OBVIOUS
  <2> QED
    BY <2>4, <2>5
<1>3. n \in G
  <2> HIDE DEF G
  <2>1. \A k \in 0 .. n : k \in G
    BY <1>1, <1>2, UpTo
  <2> QED
    BY <2>1
<1> QED
  BY <1>3 DEF Scans

\* A symbol as it comes out of the splitter.
Seen(c, mark) == IF mark = "quote" /\ c = "newline" THEN "angles" ELSE c

\* A plain text is one sentence, as it was.
LEMMA PlainIsOneWord ==
  ASSUME NEW text \in Seq(Symbol), NEW mark \in Marks, NEW without, Plain(text, without),
         mark = "apostrophe" => "apostrophe" \in without
  PROVE  Split(text, mark) = << [i \in 1 .. Len(text) |-> Seen(text[i], mark)] >>
<1> DEFINE n == Len(text)
           word(k) == [i \in 1 .. k |-> Seen(text[i], mark)]
           g == CHOOSE f : Scans(f, text, mark, n)
<1>1. n \in Nat /\ \A k \in 1 .. n : text[k] \in Symbol
  BY LenProperties, ElementOfSeq
<1>2. Scans(g, text, mark, n)
  BY <1>1, ScansExist
<1>3. Split(text, mark) = Eval(g[n], mark).words
  BY DEF Split, Scans
<1> HIDE DEF g
<1>4. \A k \in 1 .. n : /\ text[k] \notin without
                        /\ text[k] = "backslash" =>
                             k < n /\ text[k + 1] \notin Marks \cup {"backslash"}
  BY DEF Plain
<1>5. g[0] = InSentence("space", mark, << >>)
  BY <1>1, <1>2 DEF Scans, InSentence
<1>6. \A k \in 1 .. n : g[k] = EvalAll(g[k - 1], Printed(text[k], mark))
  BY <1>1, <1>2 DEF Scans
<1> HIDE DEF n
<1>7. ASSUME NEW k \in Nat
      PROVE  Append(word(k), Seen(text[k + 1], mark)) = word(k + 1)
  <2> DEFINE e(i) == Seen(text[i], mark)
  <2>1. word(k) = [i \in 1 .. k |-> e(i)] /\ word(k + 1) = [i \in 1 .. k + 1 |-> e(i)]
    OBVIOUS
  <2> HIDE DEF e
  <2>2. Append([i \in 1 .. k |-> e(i)], e(k + 1)) = [i \in 1 .. k + 1 |-> e(i)]
    OBVIOUS
  <2> QED
    BY <2>1, <2>2 DEF e
<1> DEFINE Back(k) == k > 0 /\ text[k] = "backslash"
           Right(k) == IF Back(k) THEN g[k] = AtEscape(mark, word(k - 1))
                       ELSE \E b : g[k] = InSentence(b, mark, word(k))
           G == {k \in 0 .. n : Right(k)}
<1>8. 0 \in G
  <2>1. word(0) = << >>
    OBVIOUS
  <2> HIDE DEF word
  <2> QED
    BY <1>1, <1>5, <2>1
<1> HIDE DEF word
<1>9. ASSUME NEW k \in 0 .. n - 1, k \in G
      PROVE  k + 1 \in G
  <2> DEFINE c == text[k + 1]
  <2>1. /\ k + 1 \in 1 .. n /\ k + 1 \in 0 .. n /\ (k + 1) - 1 = k /\ k + 1 > 0 /\ k \in Nat
        /\ c \in Symbol
    BY <1>1
  <2>2. g[k + 1] = EvalAll(g[k], Printed(c, mark))
    BY <1>6, <2>1
  <2>3. Append(word(k), Seen(c, mark)) = word(k + 1)
    BY <1>7, <2>1
  <2>4. /\ \A x : Len(<<x>>) = 1 /\ <<x>>[1] = x
        /\ \A x, y : Len(<<x, y>>) = 2 /\ <<x, y>>[1] = x /\ <<x, y>>[2] = y
    OBVIOUS
  <2> HIDE DEF c
  <2>5. CASE Back(k)
    <3>1. k \in 1 .. n /\ text[k] = "backslash" /\ g[k] = AtEscape(mark, word(k - 1))
      BY <1>9, <2>5
    <3>2. c \notin Marks \cup {"backslash"}
      BY <1>4, <3>1 DEF c
    <3>3. Printed(c, mark) = <<Seen(c, mark)>> /\ Seen(c, mark) \notin Marks \cup {"backslash"}
      BY <3>2 DEF Printed, Seen, Marks
    <3>4. Append(word(k - 1), "backslash") = word(k)
      <4>1. k - 1 \in Nat /\ (k - 1) + 1 = k
        BY <2>1, <3>1
      <4>2. Seen(text[k], mark) = "backslash"
        BY <3>1 DEF Seen
      <4> QED
        BY <1>7, <4>1, <4>2
    <3>5. g[k + 1] = Eval(g[k], Seen(c, mark))
      BY <2>2, <2>4, <3>3 DEF EvalAll
    <3>6. Eval(AtEscape(mark, word(k - 1)), Seen(c, mark))
            = InSentence("sentence", mark, Append(Append(word(k - 1), "backslash"), Seen(c, mark)))
      BY <3>3, EvalAtEscape, Zenon
    <3>7. g[k + 1] = InSentence("sentence", mark, word(k + 1))
      BY <2>3, <3>1, <3>4, <3>5, <3>6
    <3>8. ~Back(k + 1)
      BY <3>2 DEF c
    <3> HIDE DEF Back
    <3>9. Right(k + 1)
      BY <3>7, <3>8
    <3> QED
      BY <2>1, <3>9
  <2>6. CASE ~Back(k)
    <3>1. PICK b : g[k] = InSentence(b, mark, word(k))
      BY <1>9, <2>6
    <3> DEFINE w == word(k)
    <3> HIDE DEF w
    <3>5. Eval(InSentence(b, mark, w), "backslash") = AtEscape(mark, w)
      BY EvalBackslash
    <3>7. ASSUME NEW x, x \notin {"backslash", mark}
          PROVE  Eval(InSentence(b, mark, w), x) = InSentence(b, mark, Append(w, x))
      BY <3>7, EvalInSentence
    <3>6. g[k] = InSentence(b, mark, w)
      BY <3>1 DEF w
    <3>2. CASE c = "backslash"
      <4>1. Printed(c, mark) = <<c>>
        BY <3>2 DEF Printed
      <4>2. g[k + 1] = AtEscape(mark, word(k))
        <5>1. g[k + 1] = Eval(g[k], c)
          BY <2>2, <2>4, <4>1 DEF EvalAll
        <5> QED
          BY <3>2, <3>5, <3>6, <5>1 DEF w
      <4>3. Back(k + 1) /\ word((k + 1) - 1) = word(k)
        BY <2>1, <3>2 DEF c
      <4> HIDE DEF Back
      <4>4. Right(k + 1)
        BY <4>2, <4>3
      <4> QED
        BY <2>1, <4>4
    <3>3. CASE c = "quote" /\ mark = "quote"
      <4>1. Printed(c, mark) = <<"backslash", "quote">> /\ Seen(c, mark) = c
        BY <3>3 DEF Printed, Seen
      <4>2. g[k + 1] = Eval(Eval(g[k], "backslash"), "quote")
        BY <2>2, <2>4, <4>1 DEF EvalAll
      <4>3. Eval(g[k], "backslash") = AtEscape(mark, word(k))
        BY <3>5, <3>6 DEF w
      <4>4. g[k + 1] = InSentence("sentence", mark, word(k + 1))
        <5>1. "quote" \in Marks
          BY DEF Marks
        <5>2. Eval(AtEscape(mark, word(k)), "quote")
                = InSentence("sentence", mark, Append(word(k), "quote"))
          BY <5>1, EvalAtEscape, Zenon
        <5> QED
          BY <2>3, <3>3, <4>1, <4>2, <4>3, <5>2
      <4>5. ~Back(k + 1)
        BY <3>3 DEF c
      <4> HIDE DEF Back
      <4>6. Right(k + 1)
        BY <4>4, <4>5
      <4> QED
        BY <2>1, <4>6
    <3>4. CASE c # "backslash" /\ ~(c = "quote" /\ mark = "quote")
      <4>1. c # mark
        <5>1. mark = "quote" \/ mark = "apostrophe"
          BY DEF Marks
        <5> QED
          BY <1>4, <2>1, <3>4, <5>1 DEF c
      <4>2. Printed(c, mark) = <<Seen(c, mark)>> /\ Seen(c, mark) \notin {"backslash", mark}
        BY <3>4, <4>1 DEF Printed, Seen, Marks
      <4>3. g[k + 1] = Eval(g[k], Seen(c, mark))
        BY <2>2, <2>4, <4>2 DEF EvalAll
      <4>4. g[k + 1] = InSentence(b, mark, word(k + 1))
        <5>1. Eval(InSentence(b, mark, w), Seen(c, mark)) = InSentence(b, mark, Append(w, Seen(c, mark)))
          BY <3>7, <4>2
        <5> QED
          BY <2>3, <3>6, <4>3, <5>1 DEF w
      <4>5. ~Back(k + 1)
        BY <3>4 DEF c
      <4> HIDE DEF Back
      <4>6. Right(k + 1)
        BY <4>4, <4>5
      <4> QED
        BY <2>1, <4>6
    <3> QED
      BY <3>2, <3>3, <3>4
  <2> QED
    BY <2>5, <2>6
<1>10. n \in G
  <2> HIDE DEF G
  <2>1. \A k \in 0 .. n : k \in G
    BY <1>1, <1>8, <1>9, UpTo
  <2> QED
    BY <1>1, <2>1
<1>11. ~Back(n)
  BY <1>1, <1>4
<1>12. PICK b : g[n] = InSentence(b, mark, word(n))
  BY <1>10, <1>11
<1>13. Split(text, mark) = <<word(n)>>
  BY <1>3, <1>12, EvalMark
<1> QED
  BY <1>13 DEF word, n

\* The parameter of a line with one word.
LEMMA OneParameter ==
  ASSUME NEW w, w # << >>
  PROVE  Parameter(<<w>>) = w
<1> DEFINE full == {i \in 1 .. Len(<<w>>) : <<w>>[i] # << >>}
<1>1. Len(<<w>>) = 1 /\ <<w>>[1] = w /\ 1 .. 1 = {1}
  OBVIOUS
<1>2. full = {1}
  BY <1>1
<1>3. Min({1}) = 1
  BY DEF Min
<1> QED
  BY <1>1, <1>2, <1>3 DEF Parameter

\* A plain script, and a plain argument, is read back as it was.
LEMMA PlainCode ==
  ASSUME NEW code \in Code, Plain(code, {"angles"})
  PROVE  ReadCode(code) = code
<1> DEFINE w == [i \in 1 .. Len(code) |-> Seen(code[i], "quote")]
           lua == [i \in 1 .. Len(w) |-> IF w[i] = "angles" THEN "newline" ELSE w[i]]
<1>1. code \in Seq(Symbol) /\ code # << >> /\ code # Unset /\ Unset \notin Seq(Symbol)
  BY ConfigurationAssumption
<1>2. /\ Len(code) \in Nat /\ Len(code) # 0 /\ code \in [1 .. Len(code) -> Symbol]
      /\ \A i \in 1 .. Len(code) : code[i] \in Symbol
  BY <1>1, EmptySeq, LenProperties, ElementOfSeq
<1>3. Split(code, "quote") = <<w>>
  BY <1>1, PlainIsOneWord DEF Marks
<1>4. w \in [1 .. Len(code) -> Symbol]
  BY <1>2 DEF Seen, Symbol, Blank
<1>5. w \in Seq(Symbol) /\ Len(w) = Len(code)
  BY <1>2, <1>4, IsASeq, LenProperties
<1>6. w # << >> /\ w # Unset
  BY <1>1, <1>2, <1>5, EmptySeq
<1>7. Parameter(Split(code, "quote")) = w
  BY <1>3, <1>6, OneParameter
<1>8. lua = code
  <2>1. ASSUME NEW i \in 1 .. Len(code)
        PROVE  (IF w[i] = "angles" THEN "newline" ELSE w[i]) = code[i]
    BY <2>1 DEF Plain, Seen
  <2>2. code = [i \in 1 .. Len(code) |-> code[i]]
    BY <1>2
  <2> DEFINE e(i) == IF w[i] = "angles" THEN "newline" ELSE w[i]
  <2>3. \A i \in 1 .. Len(code) : e(i) = code[i]
    BY <2>1
  <2>4. lua = [i \in 1 .. Len(code) |-> e(i)]
    BY <1>5
  <2> HIDE DEF e, lua
  <2> QED
    BY <2>2, <2>3, <2>4
<1> DEFINE read == Parameter(Split(code, "quote"))
<1>9. ReadCode(code) = IF code = Unset \/ read = Unset THEN Unset
                       ELSE LET l == [i \in 1 .. Len(read) |->
                                        IF read[i] = "angles" THEN "newline" ELSE read[i]]
                            IN  IF l \in Code THEN l ELSE Unset
  BY DEF ReadCode
<1> HIDE DEF w, lua, read
<1>10. read = w
  BY <1>7 DEF read
<1> QED
  BY <1>1, <1>6, <1>8, <1>9, <1>10 DEF lua

LEMMA PlainArgs ==
  ASSUME NEW args \in Args, Plain(args, {"apostrophe"})
  PROVE  ReadArgs(args) = args
<1> DEFINE w == [i \in 1 .. Len(args) |-> Seen(args[i], "apostrophe")]
<1>1. args \in Seq(Symbol) /\ args # << >> /\ args # Unset
  BY ConfigurationAssumption
<1>2. Split(args, "apostrophe") = <<w>>
  BY <1>1, PlainIsOneWord DEF Marks
<1>3. w = args
  <2>1. args \in [1 .. Len(args) -> Symbol]
    BY <1>1, LenProperties
  <2>2. \A c : Seen(c, "apostrophe") = c
    BY DEF Seen
  <2> QED
    BY <2>1, <2>2
<1> HIDE DEF w
<1>4. Parameter(<<args>>) = args
  BY <1>1, OneParameter
<1> QED
  BY <1>1, <1>2, <1>3, <1>4 DEF ReadArgs
-----------------------------------------------------------------------------
(* What saved commands are *)

\* The commands an import executes.
Making ==
  [op : {"create_state", "set_init"}, s : State]
    \cup [op : {"set_next", "add_event"}, s : State, to : State]
    \cup [op : {"input_action"}, s : State, code : Code]
    \cup [op : {"add_device"}, args : Args]
    \cup [op : {"params"}, redis : Params]

Create(s) == [op |-> "create_state", s |-> s]

\* c makes a part of cfg.
IsMaker(cfg, c) ==
  \/ \E s \in cfg.states :
       \/ c = Create(s)
       \/ cfg.action[s] # Unset
            /\ c = [op |-> "input_action", s |-> s, code |-> cfg.action[s]]
       \/ cfg.next[s] # Unset /\ c = [op |-> "set_next", s |-> s, to |-> cfg.next[s]]
       \/ cfg.event[s] # Unset /\ c = [op |-> "add_event", s |-> s, to |-> cfg.event[s]]
  \/ cfg.device # Unset /\ c = [op |-> "add_device", args |-> cfg.device]
  \/ cfg.init # Unset /\ c = [op |-> "set_init", s |-> cfg.init]
  \/ cfg.redis # Unset /\ c = [op |-> "params", redis |-> cfg.redis]

\* The states a command names and does not create.
Needs(c) ==
  CASE c.op \in {"set_init", "input_action"} -> {c.s}
    [] c.op \in {"set_next", "add_event"} -> {c.s, c.to}
    [] OTHER -> {}

\* seq has the command c.
Has(seq, c) == \E i \in 1 .. Len(seq) : seq[i] = c

\* A state that a command of seq names is known before, or created by an earlier one.
Ordered(seq, known) ==
  \A i \in 1 .. Len(seq) : \A s \in Needs(seq[i]) :
    s \in known \/ \E j \in 1 .. i - 1 : seq[j] = Create(s)

\* The commands seq make cfg, and each state before anything names it.
Builds(seq, cfg) ==
  /\ seq \in Seq(Making)
  /\ \A c \in Making : Has(seq, c) <=> IsMaker(cfg, c)
  /\ Ordered(seq, {})

-----------------------------------------------------------------------------
(* Sequences of commands *)

LEMMA HasConcat ==
  ASSUME NEW S, NEW a \in Seq(S), NEW b \in Seq(S), NEW c
  PROVE  a \o b \in Seq(S) /\ (Has(a \o b, c) <=> Has(a, c) \/ Has(b, c))
<1> DEFINE all == a \o b
<1>1. /\ all \in Seq(S) /\ Len(all) = Len(a) + Len(b)
      /\ Len(a) \in Nat /\ Len(b) \in Nat
      /\ \A i \in 1 .. Len(a) + Len(b) : all[i] = IF i <= Len(a) THEN a[i] ELSE b[i - Len(a)]
  BY ConcatProperties, LenProperties
<1> HIDE DEF all
<1>2. ASSUME NEW i \in 1 .. Len(all), all[i] = c
      PROVE  Has(a, c) \/ Has(b, c)
  <2>1. i <= Len(a) => i \in 1 .. Len(a) /\ a[i] = c
    BY <1>1, <1>2
  <2>2. ~(i <= Len(a)) => i - Len(a) \in 1 .. Len(b) /\ b[i - Len(a)] = c
    BY <1>1, <1>2
  <2> QED
    BY <2>1, <2>2 DEF Has
<1>3. ASSUME NEW i \in 1 .. Len(a), a[i] = c
      PROVE  i \in 1 .. Len(all) /\ all[i] = c
  BY <1>1, <1>3
<1>4. ASSUME NEW i \in 1 .. Len(b), b[i] = c
      PROVE  Len(a) + i \in 1 .. Len(all) /\ all[Len(a) + i] = c
  <2>1. /\ Len(a) + i \in 1 .. Len(a) + Len(b)
        /\ ~(Len(a) + i <= Len(a)) /\ Len(a) + i - Len(a) = i
    BY <1>1
  <2> QED
    BY <1>1, <1>4, <2>1
<1>5. Has(all, c) <=> Has(a, c) \/ Has(b, c)
  BY <1>2, <1>3, <1>4 DEF Has
<1> QED
  BY <1>1, <1>5 DEF all

LEMMA OrderedConcat ==
  ASSUME NEW S, NEW a \in Seq(S), NEW b \in Seq(S), NEW known, NEW more, Ordered(a, known),
         Ordered(b, more), \A s \in more : s \in known \/ Has(a, Create(s))
  PROVE  Ordered(a \o b, known)
<1> DEFINE all == a \o b
<1>1. /\ all \in Seq(S) /\ Len(all) = Len(a) + Len(b)
      /\ Len(a) \in Nat /\ Len(b) \in Nat
      /\ \A i \in 1 .. Len(a) + Len(b) : all[i] = IF i <= Len(a) THEN a[i] ELSE b[i - Len(a)]
  BY ConcatProperties, LenProperties
<1> HIDE DEF all
<1>2. ASSUME NEW i \in 1 .. Len(all), NEW s \in Needs(all[i])
      PROVE  s \in known \/ \E j \in 1 .. i - 1 : all[j] = Create(s)
  <2>1. CASE i <= Len(a)
    <3>1. i \in 1 .. Len(a) /\ all[i] = a[i]
      BY <1>1, <2>1
    <3>2. s \in known \/ \E j \in 1 .. i - 1 : a[j] = Create(s)
      BY <1>2, <3>1 DEF Ordered
    <3>3. \A j \in 1 .. i - 1 : all[j] = a[j]
      BY <1>1, <2>1
    <3> QED
      BY <3>2, <3>3
  <2>2. CASE ~(i <= Len(a))
    <3> DEFINE k == i - Len(a)
    <3>1. k \in 1 .. Len(b) /\ all[i] = b[k]
      BY <1>1, <2>2
    <3>2. s \in more \/ \E j \in 1 .. k - 1 : b[j] = Create(s)
      BY <1>2, <3>1 DEF Ordered
    <3>3. ASSUME NEW j \in 1 .. k - 1, b[j] = Create(s)
          PROVE  Len(a) + j \in 1 .. i - 1 /\ all[Len(a) + j] = Create(s)
      BY <1>1, <2>2, <3>3
    <3>4. ASSUME NEW j \in 1 .. Len(a), a[j] = Create(s)
          PROVE  j \in 1 .. i - 1 /\ all[j] = Create(s)
      BY <1>1, <2>2, <3>4
    <3>5. s \in more => s \in known \/ \E j \in 1 .. Len(a) : a[j] = Create(s)
      BY DEF Has
    <3> HIDE DEF k
    <3> QED
      BY <3>2, <3>3, <3>4, <3>5, Zenon
  <2> QED
    BY <2>1, <2>2
<1>3. Ordered(all, known)
  BY <1>2 DEF Ordered
<1> QED
  BY <1>3 DEF all

\* FlattenSeq loses no command, makes none up and orders them as they were.
LEMMA FlattenCommands ==
  ASSUME NEW S, NEW n \in Nat, NEW seqs \in [1 .. n -> Seq(S)], NEW known,
         \A j \in 1 .. n : Ordered(seqs[j], known)
  PROVE  /\ FlattenSeq(seqs) \in Seq(S)
         /\ \A c : Has(FlattenSeq(seqs), c) <=> \E j \in 1 .. n : Has(seqs[j], c)
         /\ Ordered(FlattenSeq(seqs), known)
<1> DEFINE out == FlattenSeq(seqs)
<1>1. out \in Seq(S) /\ Pieces(out, seqs, n)
  BY FlattenPieces
<1> HIDE DEF out
<1>2. ASSUME NEW c
      PROVE  Has(out, c) <=> \E j \in 1 .. n : Has(seqs[j], c)
  <2>1. ASSUME NEW i \in 1 .. Len(out), out[i] = c
        PROVE  \E j \in 1 .. n : Has(seqs[j], c)
    <3>1. \E j \in 1 .. n : \E k \in 1 .. Len(seqs[j]) : out[i] = seqs[j][k]
      BY <1>1 DEF Pieces
    <3> QED
      BY <2>1, <3>1 DEF Has
  <2>2. ASSUME NEW j \in 1 .. n, NEW k \in 1 .. Len(seqs[j]), seqs[j][k] = c
        PROVE  Has(out, c)
    <3>1. \E i \in 1 .. Len(out) : out[i] = seqs[j][k]
      BY <1>1 DEF Pieces
    <3> QED
      BY <2>2, <3>1 DEF Has
  <2> QED
    BY <2>1, <2>2 DEF Has
<1>3. ASSUME NEW i \in 1 .. Len(out), NEW s \in Needs(out[i])
      PROVE  s \in known \/ \E h \in 1 .. i - 1 : out[h] = Create(s)
  <2>1. PICK j \in 1 .. n : \E k \in 1 .. Len(seqs[j]) :
          /\ out[i] = seqs[j][k]
          /\ \A l \in 1 .. k - 1 : \E h \in 1 .. i - 1 : out[h] = seqs[j][l]
    BY <1>1 DEF Pieces
  <2>2. PICK k \in 1 .. Len(seqs[j]) :
          /\ out[i] = seqs[j][k]
          /\ \A l \in 1 .. k - 1 : \E h \in 1 .. i - 1 : out[h] = seqs[j][l]
    BY <2>1
  <2>3. s \in known \/ \E l \in 1 .. k - 1 : seqs[j][l] = Create(s)
    BY <1>3, <2>2 DEF Ordered
  <2> QED
    BY <2>2, <2>3
<1>4. Ordered(out, known)
  BY <1>3 DEF Ordered
<1> QED
  BY <1>1, <1>2, <1>4 DEF out

\* What is left when the first command is taken.
LEMMA TailCommands ==
  ASSUME NEW S, NEW seq \in Seq(S), seq # << >>, NEW known, Ordered(seq, known),
         NEW more, known \subseteq more, \A s : Head(seq) = Create(s) => s \in more
  PROVE  /\ Head(seq) \in S /\ Tail(seq) \in Seq(S)
         /\ \A c : Has(seq, c) <=> c = Head(seq) \/ Has(Tail(seq), c)
         /\ Needs(Head(seq)) \subseteq known
         /\ Ordered(Tail(seq), more)
<1> DEFINE h == Head(seq)
           t == Tail(seq)
<1>1. /\ h \in S /\ t \in Seq(S) /\ Len(t) = Len(seq) - 1
      /\ \A i \in 1 .. Len(t) : t[i] = seq[i + 1]
      /\ h = seq[1] /\ Len(seq) \in Nat \ {0}
  BY HeadTailProperties, EmptySeq, LenProperties
<1> HIDE DEF h, t
<1>2. ASSUME NEW c
      PROVE  Has(seq, c) <=> c = h \/ Has(t, c)
  <2>1. ASSUME NEW i \in 1 .. Len(seq), seq[i] = c, i # 1
        PROVE  i - 1 \in 1 .. Len(t) /\ t[i - 1] = c
    BY <1>1, <2>1
  <2>2. ASSUME NEW i \in 1 .. Len(t), t[i] = c
        PROVE  i + 1 \in 1 .. Len(seq) /\ seq[i + 1] = c
    BY <1>1, <2>2
  <2>3. 1 \in 1 .. Len(seq)
    BY <1>1
  <2> QED
    BY <1>1, <2>1, <2>2, <2>3 DEF Has
<1>3. Needs(h) \subseteq known
  <2>1. 1 \in 1 .. Len(seq) /\ 1 .. (1 - 1) = {}
    BY <1>1
  <2> QED
    BY <1>1, <2>1 DEF Ordered
<1>4. ASSUME NEW i \in 1 .. Len(t), NEW s \in Needs(t[i])
      PROVE  s \in known \/ h = Create(s) \/ \E j \in 1 .. i - 1 : t[j] = Create(s)
  <2>1. i + 1 \in 1 .. Len(seq) /\ s \in Needs(seq[i + 1]) /\ (i + 1) - 1 = i
    BY <1>1, <1>4
  <2>2. s \in known \/ \E j \in 1 .. i : seq[j] = Create(s)
    BY <2>1 DEF Ordered
  <2>3. ASSUME NEW j \in 1 .. i, seq[j] = Create(s), j # 1
        PROVE  j - 1 \in 1 .. i - 1 /\ t[j - 1] = Create(s)
    BY <1>1, <2>3
  <2> QED
    BY <1>1, <2>2, <2>3
<1> QED
  BY <1>1, <1>2, <1>3, <1>4 DEF h, t, Ordered

-----------------------------------------------------------------------------
(* The commands that make a configuration *)

Good == {cfg \in Config : Consistent(cfg)}

\* A configuration needs none but its own states.
LEMMA MakerType ==
  ASSUME NEW cfg \in Good, NEW c, IsMaker(cfg, c)
  PROVE  c \in Making /\ Needs(c) \subseteq cfg.states
<1>1. /\ cfg.states \subseteq State /\ cfg.init \in State \cup {Unset}
      /\ cfg.device \in Args \cup {Unset} /\ cfg.redis \in Params \cup {Unset}
      /\ cfg.init \in cfg.states \cup {Unset}
      /\ \A s \in cfg.states : /\ cfg.action[s] \in Code \cup {Unset}
                               /\ cfg.next[s] \in cfg.states \cup {Unset}
                               /\ cfg.event[s] \in cfg.states \cup {Unset}
  BY DEF Good, Config, Consistent
<1>2. ASSUME NEW s \in cfg.states,
             \/ c = Create(s)
             \/ cfg.action[s] # Unset
                  /\ c = [op |-> "input_action", s |-> s, code |-> cfg.action[s]]
      PROVE  c \in Making /\ Needs(c) \subseteq cfg.states
  BY <1>1, <1>2 DEF Making, Needs, Create
<1>3. ASSUME NEW s \in cfg.states,
             \/ cfg.next[s] # Unset /\ c = [op |-> "set_next", s |-> s, to |-> cfg.next[s]]
             \/ cfg.event[s] # Unset /\ c = [op |-> "add_event", s |-> s, to |-> cfg.event[s]]
      PROVE  c \in Making /\ Needs(c) \subseteq cfg.states
  BY <1>1, <1>3 DEF Making, Needs
<1>4. ASSUME \/ cfg.device # Unset /\ c = [op |-> "add_device", args |-> cfg.device]
             \/ cfg.init # Unset /\ c = [op |-> "set_init", s |-> cfg.init]
             \/ cfg.redis # Unset /\ c = [op |-> "params", redis |-> cfg.redis]
      PROVE  c \in Making /\ Needs(c) \subseteq cfg.states
  BY <1>1, <1>4 DEF Making, Needs
<1> QED
  BY <1>2, <1>3, <1>4 DEF IsMaker

\* One command, if there is what it makes.
LEMMA MakesOne ==
  ASSUME NEW present \in BOOLEAN, NEW S, NEW known, NEW c,
         present => c \in S /\ Needs(c) \subseteq known
  PROVE  /\ Makes(present, c) \in Seq(S)
         /\ \A d : Has(Makes(present, c), d) <=> present /\ d = c
         /\ Ordered(Makes(present, c), known)
<1>1. CASE present
  <2>1. Makes(present, c) = <<c>> /\ c \in S /\ Len(<<c>>) = 1
    BY <1>1 DEF Makes
  <2>2. <<c>>[1] = c /\ 1 .. 1 = {1} /\ <<c>> \in Seq(S)
    BY <2>1
  <2>3. \A d : Has(<<c>>, d) <=> d = c
    BY <2>1, <2>2 DEF Has
  <2>4. Ordered(<<c>>, known)
    BY <1>1, <2>1, <2>2 DEF Ordered
  <2> QED
    BY <1>1, <2>1, <2>2, <2>3, <2>4
<1>2. CASE ~present
  <2>1. Makes(present, c) = << >> /\ Len(<< >>) = 0 /\ << >> \in Seq(S)
    BY <1>2 DEF Makes
  <2> QED
    BY <1>2, <2>1 DEF Has, Ordered
<1> QED
  BY <1>1, <1>2

\* The commands of one state.
LEMMA MakesStateCommands ==
  ASSUME NEW cfg \in Good, NEW s \in cfg.states
  PROVE  /\ MakesState(cfg, s) \in Seq(Making)
         /\ \A c : Has(MakesState(cfg, s), c) <=>
              \/ c = Create(s)
              \/ cfg.action[s] # Unset
                   /\ c = [op |-> "input_action", s |-> s, code |-> cfg.action[s]]
         /\ Ordered(MakesState(cfg, s), {})
<1> DEFINE act == [op |-> "input_action", s |-> s, code |-> cfg.action[s]]
           a == Makes(TRUE, Create(s))
           b == Makes(cfg.action[s] # Unset, act)
<1>1. MakesState(cfg, s) = a \o b
  BY DEF MakesState, Makes, Create
<1>2. IsMaker(cfg, Create(s)) /\ (cfg.action[s] # Unset => IsMaker(cfg, act))
  BY DEF IsMaker
<1>3. Create(s) \in Making /\ (cfg.action[s] # Unset => act \in Making)
  BY <1>2, MakerType
<1>4. Needs(Create(s)) = {} /\ Needs(act) = {s}
  BY DEF Needs, Create
<1> HIDE DEF act
<1>5. a \in Seq(Making) /\ (\A c : Has(a, c) <=> c = Create(s)) /\ Ordered(a, {})
  BY <1>3, <1>4, MakesOne
<1>6. /\ b \in Seq(Making) /\ Ordered(b, {s})
      /\ \A c : Has(b, c) <=> cfg.action[s] # Unset /\ c = act
  BY <1>3, <1>4, MakesOne
<1> HIDE DEF a, b
<1>7. a \o b \in Seq(Making) /\ \A c : Has(a \o b, c) <=> Has(a, c) \/ Has(b, c)
  BY <1>5, <1>6, HasConcat
<1>8. Ordered(a \o b, {})
  BY <1>5, <1>6, OrderedConcat
<1> QED
  BY <1>1, <1>5, <1>6, <1>7, <1>8 DEF act

LEMMA MakesTransitionsCommands ==
  ASSUME NEW cfg \in Good, NEW s \in cfg.states
  PROVE  /\ MakesTransitions(cfg, s) \in Seq(Making)
         /\ \A c : Has(MakesTransitions(cfg, s), c) <=>
              \/ cfg.next[s] # Unset /\ c = [op |-> "set_next", s |-> s, to |-> cfg.next[s]]
              \/ cfg.event[s] # Unset
                   /\ c = [op |-> "add_event", s |-> s, to |-> cfg.event[s]]
         /\ Ordered(MakesTransitions(cfg, s), cfg.states)
<1> DEFINE nx == [op |-> "set_next", s |-> s, to |-> cfg.next[s]]
           ev == [op |-> "add_event", s |-> s, to |-> cfg.event[s]]
           a == Makes(cfg.next[s] # Unset, nx)
           b == Makes(cfg.event[s] # Unset, ev)
<1>1. MakesTransitions(cfg, s) = a \o b
  BY DEF MakesTransitions
<1>2. (cfg.next[s] # Unset => IsMaker(cfg, nx)) /\ (cfg.event[s] # Unset => IsMaker(cfg, ev))
  BY DEF IsMaker
<1>3. /\ cfg.next[s] # Unset => nx \in Making /\ Needs(nx) \subseteq cfg.states
      /\ cfg.event[s] # Unset => ev \in Making /\ Needs(ev) \subseteq cfg.states
  BY <1>2, MakerType
<1> HIDE DEF nx, ev
<1>4. /\ a \in Seq(Making) /\ Ordered(a, cfg.states)
      /\ \A c : Has(a, c) <=> cfg.next[s] # Unset /\ c = nx
  BY <1>3, MakesOne
<1>5. /\ b \in Seq(Making) /\ Ordered(b, cfg.states)
      /\ \A c : Has(b, c) <=> cfg.event[s] # Unset /\ c = ev
  BY <1>3, MakesOne
<1> HIDE DEF a, b
<1>6. a \o b \in Seq(Making) /\ \A c : Has(a \o b, c) <=> Has(a, c) \/ Has(b, c)
  BY <1>4, <1>5, HasConcat
<1>7. Ordered(a \o b, cfg.states)
  BY <1>4, <1>5, OrderedConcat
<1> QED
  BY <1>1, <1>4, <1>5, <1>6, <1>7 DEF nx, ev

\* StatesOf lists the states.
LEMMA StatesOfAll ==
  ASSUME NEW cfg \in Good
  PROVE  /\ Len(StatesOf(cfg)) \in Nat
         /\ \A i \in 1 .. Len(StatesOf(cfg)) : StatesOf(cfg)[i] \in cfg.states
         /\ \A s \in cfg.states : \E i \in 1 .. Len(StatesOf(cfg)) : StatesOf(cfg)[i] = s
<1>1. IsFiniteSet(cfg.states)
  <2>1. cfg.states \subseteq State
    BY DEF Good, Config
  <2> QED
    BY <2>1, ConfigurationAssumption, FS_Subset
<1> DEFINE q == StatesOf(cfg)
<1>2. q \in Seq(cfg.states) /\ \A s \in cfg.states : \E i \in 1 .. Len(q) : q[i] = s
  BY <1>1, SetToSeqOnto DEF StatesOf
<1> HIDE DEF q
<1>3. Len(q) \in Nat /\ \A i \in 1 .. Len(q) : q[i] \in cfg.states
  BY <1>2, ElementOfSeq, LenProperties
<1> QED
  BY <1>2, <1>3 DEF q

\* All of the states, and all of the transitions.
LEMMA MakesStatesCommands ==
  ASSUME NEW cfg \in Good
  PROVE  /\ ForStates(cfg, MakesState) \in Seq(Making)
         /\ \A c : Has(ForStates(cfg, MakesState), c) <=>
              \E s \in cfg.states : Has(MakesState(cfg, s), c)
         /\ Ordered(ForStates(cfg, MakesState), {})
<1> DEFINE q == StatesOf(cfg)
           n == Len(q)
           seqs == [i \in 1 .. n |-> MakesState(cfg, q[i])]
<1>1. ForStates(cfg, MakesState) = FlattenSeq(seqs)
  BY DEF ForStates
<1>2. /\ n \in Nat /\ \A i \in 1 .. n : q[i] \in cfg.states
      /\ \A s \in cfg.states : \E i \in 1 .. n : q[i] = s
  BY StatesOfAll
<1> HIDE DEF n, q
<1>3. seqs \in [1 .. n -> Seq(Making)] /\ \A i \in 1 .. n : Ordered(seqs[i], {})
  BY <1>2, MakesStateCommands
<1>4. \A i \in 1 .. n : seqs[i] = MakesState(cfg, q[i])
  OBVIOUS
<1> HIDE DEF seqs
<1>5. /\ FlattenSeq(seqs) \in Seq(Making) /\ Ordered(FlattenSeq(seqs), {})
      /\ \A c : Has(FlattenSeq(seqs), c) <=> \E i \in 1 .. n : Has(seqs[i], c)
  BY <1>2, <1>3, FlattenCommands
<1>6. ASSUME NEW c
      PROVE  (\E i \in 1 .. n : Has(seqs[i], c)) <=>
               \E s \in cfg.states : Has(MakesState(cfg, s), c)
  BY <1>2, <1>4
<1> QED
  BY <1>1, <1>5, <1>6

LEMMA MakesAllTransitions ==
  ASSUME NEW cfg \in Good
  PROVE  /\ ForStates(cfg, MakesTransitions) \in Seq(Making)
         /\ \A c : Has(ForStates(cfg, MakesTransitions), c) <=>
              \E s \in cfg.states : Has(MakesTransitions(cfg, s), c)
         /\ Ordered(ForStates(cfg, MakesTransitions), cfg.states)
<1> DEFINE q == StatesOf(cfg)
           n == Len(q)
           seqs == [i \in 1 .. n |-> MakesTransitions(cfg, q[i])]
<1>1. ForStates(cfg, MakesTransitions) = FlattenSeq(seqs)
  BY DEF ForStates
<1>2. /\ n \in Nat /\ \A i \in 1 .. n : q[i] \in cfg.states
      /\ \A s \in cfg.states : \E i \in 1 .. n : q[i] = s
  BY StatesOfAll
<1> HIDE DEF n, q
<1>3. seqs \in [1 .. n -> Seq(Making)] /\ \A i \in 1 .. n : Ordered(seqs[i], cfg.states)
  BY <1>2, MakesTransitionsCommands
<1>4. \A i \in 1 .. n : seqs[i] = MakesTransitions(cfg, q[i])
  OBVIOUS
<1> HIDE DEF seqs
<1>5. /\ FlattenSeq(seqs) \in Seq(Making) /\ Ordered(FlattenSeq(seqs), cfg.states)
      /\ \A c : Has(FlattenSeq(seqs), c) <=> \E i \in 1 .. n : Has(seqs[i], c)
  BY <1>2, <1>3, FlattenCommands
<1>6. ASSUME NEW c
      PROVE  (\E i \in 1 .. n : Has(seqs[i], c)) <=>
               \E s \in cfg.states : Has(MakesTransitions(cfg, s), c)
  BY <1>2, <1>4
<1> QED
  BY <1>1, <1>5, <1>6

\* make_bdr makes every part of a configuration and nothing else, in an order in which
\* every command finds what it names.
LEMMA MakeBdrBuilds ==
  ASSUME NEW cfg \in Good
  PROVE  Builds(make_bdr(cfg), cfg)
<1> DEFINE dev == [op |-> "add_device", args |-> cfg.device]
           ini == [op |-> "set_init", s |-> cfg.init]
           par == [op |-> "params", redis |-> cfg.redis]
           d == Makes(cfg.device # Unset, dev)
           m == ForStates(cfg, MakesState)
           t == ForStates(cfg, MakesTransitions)
           i == Makes(cfg.init # Unset, ini)
           r == Makes(cfg.redis # Unset, par)
<1>1. make_bdr(cfg) = ((d \o (m \o t)) \o i) \o r
  BY DEF make_bdr, MakesStates
<1>2. /\ cfg.device # Unset => IsMaker(cfg, dev)
      /\ cfg.init # Unset => IsMaker(cfg, ini)
      /\ cfg.redis # Unset => IsMaker(cfg, par)
  BY DEF IsMaker
<1>3. ASSUME NEW c, IsMaker(cfg, c)
      PROVE  c \in Making /\ Needs(c) \subseteq cfg.states
  BY <1>3, MakerType
<1>17. Needs(dev) = {} /\ Needs(par) = {}
  BY DEF Needs
<1> HIDE DEF dev, ini, par
<1>4. /\ d \in Seq(Making) /\ Ordered(d, {})
      /\ \A c : Has(d, c) <=> cfg.device # Unset /\ c = dev
  <2>1. cfg.device # Unset => dev \in Making /\ Needs(dev) \subseteq {}
    BY <1>2, <1>3, <1>17
  <2> QED
    BY <2>1, MakesOne
<1>5. /\ i \in Seq(Making) /\ Ordered(i, cfg.states)
      /\ \A c : Has(i, c) <=> cfg.init # Unset /\ c = ini
  <2>1. cfg.init # Unset => ini \in Making /\ Needs(ini) \subseteq cfg.states
    BY <1>2, <1>3
  <2> QED
    BY <2>1, MakesOne
<1>15. /\ r \in Seq(Making) /\ Ordered(r, {})
       /\ \A c : Has(r, c) <=> cfg.redis # Unset /\ c = par
  <2>1. cfg.redis # Unset => par \in Making /\ Needs(par) \subseteq {}
    BY <1>2, <1>3, <1>17
  <2> QED
    BY <2>1, MakesOne
<1>6. /\ m \in Seq(Making) /\ Ordered(m, {})
      /\ \A c : Has(m, c) <=> \E s \in cfg.states : Has(MakesState(cfg, s), c)
  BY MakesStatesCommands
<1>7. /\ t \in Seq(Making) /\ Ordered(t, cfg.states)
      /\ \A c : Has(t, c) <=> \E s \in cfg.states : Has(MakesTransitions(cfg, s), c)
  BY MakesAllTransitions
<1>8. \A s \in cfg.states : Has(m, Create(s))
  BY <1>6, MakesStateCommands
<1> HIDE DEF d, m, t, i, r
<1>9. /\ m \o t \in Seq(Making) /\ Ordered(m \o t, {})
      /\ \A c : Has(m \o t, c) <=> Has(m, c) \/ Has(t, c)
  BY <1>6, <1>7, <1>8, HasConcat, OrderedConcat
<1> DEFINE mt == m \o t
<1> HIDE DEF mt
<1>10. /\ d \o mt \in Seq(Making) /\ Ordered(d \o mt, {})
       /\ \A c : Has(d \o mt, c) <=> Has(d, c) \/ Has(mt, c)
  <2>1. mt \in Seq(Making) /\ Ordered(mt, {})
    BY <1>9 DEF mt
  <2> QED
    BY <1>4, <2>1, HasConcat, OrderedConcat
<1>11. \A s \in cfg.states : Has(d \o mt, Create(s))
  BY <1>8, <1>9, <1>10 DEF mt
<1> DEFINE dmt == d \o mt
<1> HIDE DEF dmt
<1>12. /\ dmt \o i \in Seq(Making) /\ Ordered(dmt \o i, {})
       /\ \A c : Has(dmt \o i, c) <=> Has(dmt, c) \/ Has(i, c)
  <2>1. dmt \in Seq(Making) /\ Ordered(dmt, {}) /\ \A s \in cfg.states : Has(dmt, Create(s))
    BY <1>10, <1>11 DEF dmt
  <2> QED
    BY <1>5, <2>1, HasConcat, OrderedConcat
<1> DEFINE dmti == dmt \o i
<1> HIDE DEF dmti
<1>16. /\ dmti \o r \in Seq(Making) /\ Ordered(dmti \o r, {})
       /\ \A c : Has(dmti \o r, c) <=> Has(dmti, c) \/ Has(r, c)
  <2>1. dmti \in Seq(Making) /\ Ordered(dmti, {})
    BY <1>12 DEF dmti
  <2> QED
    BY <1>15, <2>1, HasConcat, OrderedConcat
<1>13. make_bdr(cfg) = dmti \o r
  BY <1>1 DEF dmti, dmt, mt
<1>14. ASSUME NEW c
       PROVE  Has(make_bdr(cfg), c) <=> IsMaker(cfg, c)
  <2>1. Has(make_bdr(cfg), c) <=>
          Has(d, c) \/ Has(m, c) \/ Has(t, c) \/ Has(i, c) \/ Has(r, c)
    BY <1>9, <1>10, <1>12, <1>13, <1>16 DEF dmti, dmt, mt
  <2> DEFINE Of1(s) ==
               \/ c = Create(s)
               \/ cfg.action[s] # Unset
                    /\ c = [op |-> "input_action", s |-> s, code |-> cfg.action[s]]
             Of2(s) ==
               \/ cfg.next[s] # Unset /\ c = [op |-> "set_next", s |-> s, to |-> cfg.next[s]]
               \/ cfg.event[s] # Unset
                    /\ c = [op |-> "add_event", s |-> s, to |-> cfg.event[s]]
  <2>2. Has(m, c) <=> \E s \in cfg.states : Of1(s)
    BY <1>6, MakesStateCommands
  <2>3. Has(t, c) <=> \E s \in cfg.states : Of2(s)
    BY <1>7, MakesTransitionsCommands
  <2>4. IsMaker(cfg, c) <=> \/ \E s \in cfg.states : Of1(s) \/ Of2(s)
                            \/ cfg.device # Unset /\ c = dev
                            \/ cfg.init # Unset /\ c = ini
                            \/ cfg.redis # Unset /\ c = par
    BY DEF IsMaker, dev, ini, par
  <2> HIDE DEF Of1, Of2
  <2> QED
    BY <1>4, <1>5, <1>15, <2>1, <2>2, <2>3, <2>4
<1> QED
  BY <1>13, <1>14, <1>16 DEF Builds

LEMMA NothingBuildsEmpty == Builds(<< >>, Empty)
<1>1. Len(<< >>) = 0 /\ << >> \in Seq(Making)
  OBVIOUS
<1> QED
  BY <1>1 DEF Builds, Has, Ordered, IsMaker, Empty

-----------------------------------------------------------------------------
(* The invariant *)

Clears == [op : {"clear_states", "clear_redis"}]

At == {"idle", "read", "clears"} \cup Writing \cup Saving

ConfTypeOK ==
  /\ {file, base, stands} \subseteq Good \cup {Torn} /\ promised \in Good
  /\ copy \in [Session -> Good]
  /\ at \in [Session -> At]
  /\ cmd \in [Session -> Command \cup Clears \cup {NoCommand}]
  /\ todo \in Seq(Making) /\ saved \in Seq(Making)
  /\ dirty \subseteq Session
  /\ edits \in Nat /\ kills \in Nat /\ renewals \in Nat
  /\ quiet \in BOOLEAN /\ alone \in BOOLEAN

\* A session that is about to write has a command that its copy accepts.
Checked ==
  \A p \in Session :
    /\ at[p] \in {"read"} \cup Writing =>
         cmd[p] \in Command \cup Clears /\ Accepted(copy[p], cmd[p])
    /\ at[p] = "clears" => cmd[p] \in Clears

\* The import neither clears nor saves.
Imports ==
  /\ at[Import] \in {"idle", "read"} \cup Writing
  /\ at[Import] # "idle" => cmd[Import] \in Making

\* What is saved, unless it is cut or mixed, are commands, in an order in which each finds
\* what it names, that make what the command line reads of the configuration that was
\* saved: nothing, or what was promised.
SavedBuilds ==
  /\ stands # Torn => Builds(saved, stands)
  /\ stands \in {Empty, AsRead(promised), Torn}

\* What the import works on: its copy, from when it has read it until it is written.
Working == IF at[Import] = "idle" THEN file ELSE copy[Import]

\* The import has c yet to execute.
Pending(c) ==
  \/ at[Import] # "idle" /\ cmd[Import] = c
  \/ Has(todo, c)

\* The part that c makes is there.
Done(cfg, c) ==
  CASE c.op = "create_state" -> c.s \in cfg.states
    [] c.op = "set_init" -> cfg.init = c.s
    [] c.op = "input_action" -> cfg.action[c.s] = c.code
    [] c.op = "set_next" -> cfg.next[c.s] = c.to
    [] c.op = "add_event" -> cfg.event[c.s] # Unset
    [] c.op = "add_device" -> cfg.device # Unset
    [] c.op = "params" -> cfg.redis = c.redis

\* In each part, cfg is as old or as new.
Between(cfg, old, new) ==
  /\ old.states \subseteq cfg.states /\ cfg.states \subseteq new.states
  /\ cfg.init \in {old.init, new.init}
  /\ cfg.device \in {old.device, new.device}
  /\ cfg.redis \in {old.redis, new.redis}
  /\ \A s \in State : /\ cfg.action[s] \in {old.action[s], new.action[s]}
                      /\ cfg.next[s] \in {old.next[s], new.next[s]}
                      /\ cfg.event[s] \in {old.event[s], new.event[s]}

\* The states that are there when the command under way is done.
Underway ==
  Working.states \cup {s \in State : at[Import] # "idle" /\ cmd[Import] = Create(s)}

\* The import is on its way from base to what it shall make of it: what is not made yet
\* is still to be executed, and a state before what names it.
ImportOnItsWay ==
  /\ Working # Torn
  /\ at[Import] = "read" => file = copy[Import]
  /\ Between(Working, base, Merged(base, stands))
  /\ \A c \in Making : IF IsMaker(stands, c) THEN Done(Working, c) \/ Pending(c)
                                             ELSE ~Pending(c)
  /\ Ordered(todo, Underway)

\* While no terminal comes between, nobody writes but the import, over nothing of others;
\* and if it began with whole files, it is on its way.
OnItsWay ==
  quiet =>
    /\ \A t \in Terminal : at[t] \notin {"clears"} \cup Writing \cup Saving
    /\ Import \notin dirty
    /\ Torn \notin {base, stands} => ImportOnItsWay

\* cfg has nothing that whole has not.
Part(cfg, whole) == Between(cfg, Empty, whole)

\* Nothing whole but parts of what was promised.
Parts ==
  /\ file # Torn => Part(file, promised)
  /\ Working # Torn => Part(Working, promised)
  /\ \A c \in Making : Pending(c) => IsMaker(promised, c)
  /\ quiet /\ base # Torn => Part(base, promised)

\* Until somebody edits, there is nothing else, if what was promised is read back as it is.
NothingElse == alone => stands # Torn /\ (Legible(promised) => Parts)

\* Before the container has ended once there is no import, and what was promised is
\* there; in the first that follows an end without a loss it begins with that.
FirstTime ==
  /\ kills = 0 => todo = <<>> /\ at[Import] = "idle" /\ ~quiet
  /\ alone /\ kills = 0 => file = promised
  /\ alone /\ kills = 1 /\ renewals = 0 /\ quiet => base = promised

ConfInv ==
  ConfTypeOK /\ Checked /\ Imports /\ SavedBuilds /\ OnItsWay /\ NothingElse /\ FirstTime

-----------------------------------------------------------------------------
(* What a command makes of a configuration *)

LEMMA GoodParts ==
  ASSUME NEW cfg
  PROVE  cfg \in Good <=>
           /\ cfg = [states |-> cfg.states, init |-> cfg.init, action |-> cfg.action,
                     next |-> cfg.next, event |-> cfg.event, device |-> cfg.device,
                     redis |-> cfg.redis]
           /\ cfg.states \subseteq State
           /\ cfg.init \in State \cup {Unset}
           /\ cfg.action \in [State -> Code \cup {Unset}]
           /\ cfg.next \in [State -> State \cup {Unset}]
           /\ cfg.event \in [State -> State \cup {Unset}]
           /\ cfg.device \in Args \cup {Unset}
           /\ cfg.redis \in Params \cup {Unset}
           /\ Consistent(cfg)
  BY DEF Good, Config

LEMMA EmptyGood == Empty \in Good
  BY DEF Good, Config, Consistent, Empty

\* What is read back of a configuration is one, and the same if it is legible.
LEMMA AsReadGood ==
  ASSUME NEW cfg \in Good
  PROVE  /\ AsRead(cfg) \in Good
         /\ Legible(cfg) => AsRead(cfg) = cfg
<1>1. /\ cfg = [states |-> cfg.states, init |-> cfg.init, action |-> cfg.action,
                next |-> cfg.next, event |-> cfg.event, device |-> cfg.device,
                redis |-> cfg.redis]
      /\ cfg.action \in [State -> Code \cup {Unset}] /\ cfg.device \in Args \cup {Unset}
  BY GoodParts
<1>2. ReadCode(Unset) = Unset /\ ReadArgs(Unset) = Unset
  BY DEF ReadCode, ReadArgs
<1>3. ASSUME NEW code
      PROVE  ReadCode(code) \in Code \cup {Unset}
  <2> DEFINE read == Parameter(Split(code, "quote"))
             lua == [i \in 1 .. Len(read) |-> IF read[i] = "angles" THEN "newline" ELSE read[i]]
  <2>1. ReadCode(code) = IF code = Unset THEN Unset
                         ELSE IF read = Unset THEN Unset
                         ELSE IF lua \in Code THEN lua ELSE Unset
    BY DEF ReadCode
  <2> HIDE DEF read, lua
  <2> QED
    BY <2>1
<1>4. ReadArgs(cfg.device) \in Args \cup {Unset}
  <2>1. \A args \in Args : ReadArgs(args) \in Args \cup {Unset}
    BY ConfigurationAssumption
  <2>2. cfg.device \in Args \cup {Unset}
    BY <1>1
  <2> QED
    BY <1>2, <2>1, <2>2
<1> DEFINE scripts == [s \in State |-> ReadCode(cfg.action[s])]
<1>5. AsRead(cfg) = [states |-> cfg.states, init |-> cfg.init, action |-> scripts,
                     next |-> cfg.next, event |-> cfg.event,
                     device |-> ReadArgs(cfg.device), redis |-> cfg.redis]
  <2>1. AsRead(cfg) = [cfg EXCEPT !.action = scripts, !.device = ReadArgs(cfg.device)]
    BY DEF AsRead
  <2>2. cfg = [states |-> cfg.states, init |-> cfg.init, action |-> cfg.action,
               next |-> cfg.next, event |-> cfg.event, device |-> cfg.device,
               redis |-> cfg.redis]
    BY <1>1
  <2> HIDE DEF scripts
  <2> QED
    BY <2>1, <2>2
<1>6. scripts \in [State -> Code \cup {Unset}]
  BY <1>3
<1>7. \A s \in State : cfg.action[s] = Unset => scripts[s] = Unset
  BY <1>2
<1>8. ASSUME Legible(cfg)
      PROVE  scripts = cfg.action /\ ReadArgs(cfg.device) = cfg.device
  <2>1. \A s \in State : ReadCode(cfg.action[s]) = cfg.action[s]
    BY <1>1, <1>2, <1>8, PlainCode DEF Legible
  <2>2. ReadArgs(cfg.device) = cfg.device
    BY <1>1, <1>2, <1>8, PlainArgs DEF Legible
  <2>3. cfg.action = [s \in State |-> cfg.action[s]]
    BY <1>1
  <2> DEFINE e(s) == ReadCode(cfg.action[s])
  <2>4. \A s \in State : e(s) = cfg.action[s]
    BY <2>1
  <2>5. scripts = [s \in State |-> e(s)]
    OBVIOUS
  <2> HIDE DEF scripts, e
  <2> QED
    BY <2>2, <2>3, <2>4, <2>5
<1> HIDE DEF scripts
<1>9. AsRead(cfg) \in Good
  <2> DEFINE new == AsRead(cfg)
  <2>1. /\ new = [states |-> new.states, init |-> new.init, action |-> new.action,
                  next |-> new.next, event |-> new.event, device |-> new.device,
                  redis |-> new.redis]
        /\ new.states = cfg.states /\ new.init = cfg.init /\ new.action = scripts
        /\ new.next = cfg.next /\ new.event = cfg.event /\ new.redis = cfg.redis
        /\ new.device = ReadArgs(cfg.device)
    BY <1>5
  <2> HIDE DEF new
  <2>2. Consistent(new)
    BY <1>7, <2>1, GoodParts DEF Consistent
  <2>3. new \in Good
    BY <1>4, <1>6, <2>1, <2>2, GoodParts
  <2> QED
    BY <2>3 DEF new
<1>10. Legible(cfg) => AsRead(cfg) = cfg
  BY <1>1, <1>5, <1>8
<1> QED
  BY <1>9, <1>10

\* A torn file is no configuration.
LEMMA TornIsNone == Torn \notin Good
  BY ConfigurationAssumption DEF Good

\* Some commands in their order.
LEMMA SomeCommands ==
  ASSUME NEW cmds \in Seq(Making), NEW i \in Int, NEW j \in Int, 1 <= i, j <= Len(cmds)
  PROVE  SubSeq(cmds, i, j) \in Seq(Making)
<1>1. \A k \in i .. j : cmds[k] \in Making
  BY LenProperties, ElementOfSeq
<1> QED
  BY <1>1, SubSeqProperties

LEMMA ClearedGood ==
  ASSUME NEW cfg, cfg.device \in Args \cup {Unset}, cfg.redis \in Params \cup {Unset}
  PROVE  ClearStates(cfg) \in Good
<1> DEFINE new == ClearStates(cfg)
           none == [s \in State |-> Unset]
<1>1. new = [states |-> {}, init |-> Unset, action |-> none, next |-> none, event |-> none,
             device |-> cfg.device, redis |-> cfg.redis]
  <2>1. new = [Empty EXCEPT !.device = cfg.device, !.redis = cfg.redis]
    BY DEF ClearStates
  <2>2. Empty = [states |-> {}, init |-> Unset, action |-> none, next |-> none,
                 event |-> none, device |-> Unset, redis |-> Unset]
    BY DEF Empty
  <2> HIDE DEF new, none
  <2> QED
    BY <2>1, <2>2
<1> HIDE DEF new
<1>2. new \in Config
  BY <1>1 DEF Config
<1>3. Consistent(new)
  BY <1>1 DEF Consistent
<1> QED
  BY <1>2, <1>3 DEF Good, new

\* An accepted command names what there is and leaves nothing that names what is not.
LEMMA EditedGood ==
  ASSUME NEW cfg \in Good, NEW c \in Command \cup Clears, Accepted(cfg, c)
  PROVE  Edited(cfg, c) \in Good
<1> USE GoodParts
<1>1. ASSUME c.op \in {"create_state", "set_init"}, c.s \in State
      PROVE  Edited(cfg, c) \in Good
  BY <1>1 DEF Edited, Accepted, Known, Consistent
<1>2. ASSUME c.op = "input_action", c.s \in State, c.code \in Code
      PROVE  Edited(cfg, c) \in Good
  BY <1>2 DEF Edited, Accepted, Known, Consistent
<1>3. ASSUME c.op = "set_next", c.s \in State, c.to \in State
      PROVE  Edited(cfg, c) \in Good
  BY <1>3 DEF Edited, Accepted, Known, Consistent
<1>4. ASSUME c.op = "add_event", c.s \in State, c.to \in State
      PROVE  Edited(cfg, c) \in Good
  BY <1>4 DEF Edited, Accepted, Known, Consistent
<1>5. ASSUME c.op = "add_device", c.args \in Args
      PROVE  Edited(cfg, c) \in Good
  BY <1>5 DEF Edited, Accepted, Known, Consistent
<1>6. ASSUME c.op = "clear"
      PROVE  Edited(cfg, c) \in Good
  BY <1>6 DEF Edited, Accepted, Known, Consistent
<1>7. ASSUME c.op = "clear_states"
      PROVE  Edited(cfg, c) \in Good
  <2>1. Edited(cfg, c) = ClearStates(cfg)
    BY <1>7 DEF Edited
  <2>2. cfg.device \in Args \cup {Unset} /\ cfg.redis \in Params \cup {Unset}
    OBVIOUS
  <2> QED
    BY <2>1, <2>2, ClearedGood
<1>8. ASSUME c.op = "params", c.redis \in Params
      PROVE  Edited(cfg, c) \in Good
  BY <1>8 DEF Edited, Accepted, Known, Consistent
<1>9. ASSUME c.op = "clear_redis"
      PROVE  Edited(cfg, c) \in Good
  BY <1>9 DEF Edited, Accepted, Known, Consistent
<1> QED
  BY <1>1, <1>2, <1>3, <1>4, <1>5, <1>6, <1>7, <1>8, <1>9 DEF Command, Clears

\* The commands of an import by their kind.
LEMMA MakingKinds ==
  ASSUME NEW c \in Making
  PROVE  /\ c \in Command
         /\ \/ c.op = "create_state" /\ c.s \in State /\ c = Create(c.s)
            \/ c.op = "set_init" /\ c.s \in State
            \/ c.op = "input_action" /\ c.s \in State /\ c.code \in Code
            \/ c.op = "set_next" /\ c.s \in State /\ c.to \in State
            \/ c.op = "add_event" /\ c.s \in State /\ c.to \in State
            \/ c.op = "add_device" /\ c.args \in Args
            \/ c.op = "params" /\ c.redis \in Params
  BY DEF Making, Command, Create

\* What a command is that makes a part of cfg.
LEMMA MakerKinds ==
  ASSUME NEW cfg \in Good, NEW c, IsMaker(cfg, c)
  PROVE  \/ c.op = "create_state" /\ c.s \in cfg.states
         \/ c.op = "set_init" /\ c.s = cfg.init /\ c.s # Unset
         \/ c.op = "input_action" /\ c.s \in cfg.states
              /\ c.code = cfg.action[c.s] /\ c.code # Unset
         \/ c.op = "set_next" /\ c.s \in cfg.states /\ c.to = cfg.next[c.s] /\ c.to # Unset
         \/ c.op = "add_event" /\ c.s \in cfg.states /\ c.to = cfg.event[c.s] /\ c.to # Unset
         \/ c.op = "add_device" /\ c.args = cfg.device /\ c.args # Unset
         \/ c.op = "params" /\ c.redis = cfg.redis /\ c.redis # Unset
  BY DEF IsMaker, Create

\* A command is refused only if what it makes is there.
LEMMA RefusedIsDone ==
  ASSUME NEW cfg \in Good, NEW c \in Making, Needs(c) \subseteq cfg.states, ~Accepted(cfg, c)
  PROVE  Done(cfg, c)
  BY MakingKinds DEF Needs, Accepted, Known, Done

\* What is there when a command has been executed, kind by kind.
LEMMA DoneParts ==
  ASSUME NEW cfg, NEW s, NEW x
  PROVE  /\ Done(cfg, Create(s)) <=> s \in cfg.states
         /\ Done(cfg, [op |-> "set_init", s |-> s]) <=> cfg.init = s
         /\ Done(cfg, [op |-> "input_action", s |-> s, code |-> x]) <=> cfg.action[s] = x
         /\ Done(cfg, [op |-> "set_next", s |-> s, to |-> x]) <=> cfg.next[s] = x
         /\ Done(cfg, [op |-> "add_event", s |-> s, to |-> x]) <=> cfg.event[s] # Unset
         /\ Done(cfg, [op |-> "add_device", args |-> x]) <=> cfg.device # Unset
         /\ Done(cfg, [op |-> "params", redis |-> x]) <=> cfg.redis = x
  BY DEF Done, Create

\* A configuration that has the parts of another has what was done to it.
LEMMA DoneSame ==
  ASSUME NEW a, NEW b, NEW d \in Making, Done(a, d),
         a.states \subseteq b.states,
         d.op = "set_init" /\ a.init = d.s => b.init = d.s,
         d.op = "input_action" /\ a.action[d.s] = d.code => b.action[d.s] = d.code,
         d.op = "set_next" /\ a.next[d.s] = d.to => b.next[d.s] = d.to,
         d.op = "add_event" /\ a.event[d.s] # Unset => b.event[d.s] # Unset,
         d.op = "add_device" /\ a.device # Unset => b.device # Unset,
         d.op = "params" /\ a.redis = d.redis => b.redis = d.redis
  PROVE  Done(b, d)
  BY MakingKinds DEF Done

\* The parts of an edited configuration.
LEMMA EditedParts ==
  ASSUME NEW cfg \in Good, NEW c \in Making
  PROVE  LET new == Edited(cfg, c) IN
         /\ new.states = IF c.op = "create_state" THEN cfg.states \cup {c.s} ELSE cfg.states
         /\ new.init = IF c.op = "set_init" THEN c.s ELSE cfg.init
         /\ new.device = IF c.op = "add_device" THEN c.args ELSE cfg.device
         /\ new.redis = IF c.op = "params" THEN c.redis ELSE cfg.redis
         /\ new.action = IF c.op = "input_action" THEN [cfg.action EXCEPT ![c.s] = c.code]
                                                  ELSE cfg.action
         /\ new.next = IF c.op = "set_next" THEN [cfg.next EXCEPT ![c.s] = c.to] ELSE cfg.next
         /\ new.event = IF c.op = "add_event" THEN [cfg.event EXCEPT ![c.s] = c.to]
                                              ELSE cfg.event
<1>1. cfg = [states |-> cfg.states, init |-> cfg.init, action |-> cfg.action,
             next |-> cfg.next, event |-> cfg.event, device |-> cfg.device,
             redis |-> cfg.redis]
  BY GoodParts
<1>2. CASE c.op = "create_state"
  BY <1>1, <1>2 DEF Edited
<1>3. CASE c.op = "set_init"
  BY <1>1, <1>3 DEF Edited
<1>4. CASE c.op = "input_action"
  BY <1>1, <1>4 DEF Edited
<1>5. CASE c.op = "set_next"
  BY <1>1, <1>5 DEF Edited
<1>6. CASE c.op = "add_event"
  BY <1>1, <1>6 DEF Edited
<1>7. CASE c.op = "add_device"
  BY <1>1, <1>7 DEF Edited
<1>8. CASE c.op = "params"
  BY <1>1, <1>8 DEF Edited
<1> QED
  BY <1>2, <1>3, <1>4, <1>5, <1>6, <1>7, <1>8, MakingKinds

LEMMA EditedDone ==
  ASSUME NEW cfg \in Good, NEW c \in Making
  PROVE  Done(Edited(cfg, c), c)
<1> DEFINE new == Edited(cfg, c)
<1>1. /\ c.op = "create_state" => new.states = cfg.states \cup {c.s}
      /\ c.op = "set_init" => new.init = c.s
      /\ c.op = "add_device" => new.device = c.args
      /\ c.op = "params" => new.redis = c.redis
      /\ c.op = "input_action" => new.action = [cfg.action EXCEPT ![c.s] = c.code]
      /\ c.op = "set_next" => new.next = [cfg.next EXCEPT ![c.s] = c.to]
      /\ c.op = "add_event" => new.event = [cfg.event EXCEPT ![c.s] = c.to]
  BY EditedParts
<1>2. /\ DOMAIN cfg.action = State /\ DOMAIN cfg.next = State /\ DOMAIN cfg.event = State
      /\ Unset \notin State \cup Args
  BY GoodParts, ConfigurationAssumption
<1> HIDE DEF new
<1>3. /\ c.op = "create_state" => c.s \in new.states
      /\ c.op = "set_init" => new.init = c.s
      /\ c.op = "add_device" => new.device # Unset
      /\ c.op = "params" => new.redis = c.redis
      /\ c.op = "input_action" => new.action[c.s] = c.code
      /\ c.op = "set_next" => new.next[c.s] = c.to
      /\ c.op = "add_event" => new.event[c.s] # Unset
  BY <1>1, <1>2, MakingKinds
<1>4. Done(new, c)
  BY <1>3, MakingKinds DEF Done
<1> QED
  BY <1>4 DEF new

\* Commands that make one configuration do not undo each other.
LEMMA StaysDone ==
  ASSUME NEW cfg \in Good, NEW whole \in Good, NEW c \in Making, NEW d \in Making,
         IsMaker(whole, c), IsMaker(whole, d), Done(cfg, d)
  PROVE  Done(Edited(cfg, c), d)
<1> DEFINE new == Edited(cfg, c)
<1>1. /\ new.states = IF c.op = "create_state" THEN cfg.states \cup {c.s} ELSE cfg.states
      /\ new.init = IF c.op = "set_init" THEN c.s ELSE cfg.init
      /\ new.device = IF c.op = "add_device" THEN c.args ELSE cfg.device
      /\ new.redis = IF c.op = "params" THEN c.redis ELSE cfg.redis
      /\ new.action = IF c.op = "input_action" THEN [cfg.action EXCEPT ![c.s] = c.code]
                                               ELSE cfg.action
      /\ new.next = IF c.op = "set_next" THEN [cfg.next EXCEPT ![c.s] = c.to] ELSE cfg.next
      /\ new.event = IF c.op = "add_event" THEN [cfg.event EXCEPT ![c.s] = c.to]
                                           ELSE cfg.event
  BY EditedParts
<1> HIDE DEF new
<1>2. /\ DOMAIN cfg.action = State /\ DOMAIN cfg.next = State /\ DOMAIN cfg.event = State
      /\ Unset \notin State \cup Args
  BY GoodParts, ConfigurationAssumption
<1>3. d.op = "set_init" /\ cfg.init = d.s => new.init = d.s
  BY <1>1, MakerKinds
<1>4. d.op = "input_action" /\ cfg.action[d.s] = d.code => new.action[d.s] = d.code
  BY <1>1, <1>2, MakerKinds, MakingKinds
<1>5. d.op = "set_next" /\ cfg.next[d.s] = d.to => new.next[d.s] = d.to
  BY <1>1, <1>2, MakerKinds, MakingKinds
<1>6. d.op = "add_event" /\ cfg.event[d.s] # Unset => new.event[d.s] # Unset
  BY <1>1, <1>2, MakingKinds
<1>7. d.op = "add_device" /\ cfg.device # Unset => new.device # Unset
  BY <1>1, <1>2, MakingKinds
<1>9. d.op = "params" /\ cfg.redis = d.redis => new.redis = d.redis
  BY <1>1, MakerKinds
<1>8. Done(new, d)
  BY <1>1, <1>3, <1>4, <1>5, <1>6, <1>7, <1>9, DoneSame
<1> QED
  BY <1>8 DEF new

\* What saved commands make of a configuration, part by part.
LEMMA MergedParts ==
  ASSUME NEW old, NEW whole
  PROVE  LET all == Merged(old, whole) IN
         /\ all.states = old.states \cup whole.states
         /\ all.init = IF whole.init # Unset THEN whole.init ELSE old.init
         /\ all.device = IF old.device # Unset THEN old.device ELSE whole.device
         /\ all.redis = IF whole.redis # Unset THEN whole.redis ELSE old.redis
         /\ \A s \in State :
              /\ all.action[s] = IF whole.action[s] # Unset THEN whole.action[s] ELSE old.action[s]
              /\ all.next[s] = IF whole.next[s] # Unset THEN whole.next[s] ELSE old.next[s]
              /\ all.event[s] = IF old.event[s] # Unset THEN old.event[s] ELSE whole.event[s]
  BY DEF Merged

\* A configuration is its parts.
LEMMA SameParts ==
  ASSUME NEW cfg \in Good, NEW old, NEW whole,
         LET all == Merged(old, whole) IN
         /\ cfg.states = all.states /\ cfg.init = all.init /\ cfg.device = all.device
         /\ cfg.redis = all.redis
         /\ \A s \in State : /\ cfg.action[s] = all.action[s]
                             /\ cfg.next[s] = all.next[s]
                             /\ cfg.event[s] = all.event[s]
  PROVE  cfg = Merged(old, whole)
<1> DEFINE all == Merged(old, whole)
<1>1. /\ all = [states |-> all.states, init |-> all.init, action |-> all.action,
                next |-> all.next, event |-> all.event, device |-> all.device,
                redis |-> all.redis]
      /\ all.action = [s \in State |-> all.action[s]]
      /\ all.next = [s \in State |-> all.next[s]]
      /\ all.event = [s \in State |-> all.event[s]]
  BY DEF Merged
<1>2. /\ cfg = [states |-> cfg.states, init |-> cfg.init, action |-> cfg.action,
                next |-> cfg.next, event |-> cfg.event, device |-> cfg.device,
                redis |-> cfg.redis]
      /\ cfg.action = [s \in State |-> cfg.action[s]]
      /\ cfg.next = [s \in State |-> cfg.next[s]]
      /\ cfg.event = [s \in State |-> cfg.event[s]]
  BY GoodParts
<1>3. /\ cfg.states = all.states /\ cfg.init = all.init /\ cfg.device = all.device
      /\ cfg.redis = all.redis
      /\ \A s \in State : /\ cfg.action[s] = all.action[s]
                          /\ cfg.next[s] = all.next[s]
                          /\ cfg.event[s] = all.event[s]
  OBVIOUS
<1> HIDE DEF all
<1>4. cfg.action = all.action /\ cfg.next = all.next /\ cfg.event = all.event
  BY <1>1, <1>2, <1>3
<1>5. cfg = all
  BY <1>1, <1>2, <1>3, <1>4
<1> QED
  BY <1>5 DEF all

\* What is executed is on its way to what saved commands make of old.
LEMMA EditedBetween ==
  ASSUME NEW cfg \in Good, NEW old \in Good, NEW whole \in Good, NEW c \in Making,
         IsMaker(whole, c), Accepted(cfg, c), Between(cfg, old, Merged(old, whole))
  PROVE  Between(Edited(cfg, c), old, Merged(old, whole))
<1> DEFINE new == Edited(cfg, c)
           all == Merged(old, whole)
<1>1. /\ all.states = old.states \cup whole.states
      /\ all.init = IF whole.init # Unset THEN whole.init ELSE old.init
      /\ all.device = IF old.device # Unset THEN old.device ELSE whole.device
      /\ all.redis = IF whole.redis # Unset THEN whole.redis ELSE old.redis
      /\ \A s \in State :
           /\ all.action[s] = IF whole.action[s] # Unset THEN whole.action[s] ELSE old.action[s]
           /\ all.next[s] = IF whole.next[s] # Unset THEN whole.next[s] ELSE old.next[s]
           /\ all.event[s] = IF old.event[s] # Unset THEN old.event[s] ELSE whole.event[s]
  BY MergedParts
<1>2. /\ new.states = IF c.op = "create_state" THEN cfg.states \cup {c.s} ELSE cfg.states
      /\ new.init = IF c.op = "set_init" THEN c.s ELSE cfg.init
      /\ new.device = IF c.op = "add_device" THEN c.args ELSE cfg.device
      /\ new.redis = IF c.op = "params" THEN c.redis ELSE cfg.redis
      /\ new.action = IF c.op = "input_action" THEN [cfg.action EXCEPT ![c.s] = c.code]
                                               ELSE cfg.action
      /\ new.next = IF c.op = "set_next" THEN [cfg.next EXCEPT ![c.s] = c.to] ELSE cfg.next
      /\ new.event = IF c.op = "add_event" THEN [cfg.event EXCEPT ![c.s] = c.to]
                                           ELSE cfg.event
  BY EditedParts
<1>3. /\ old.states \subseteq cfg.states /\ cfg.states \subseteq all.states
      /\ cfg.init \in {old.init, all.init}
      /\ cfg.device \in {old.device, all.device}
      /\ cfg.redis \in {old.redis, all.redis}
      /\ \A s \in State : /\ cfg.action[s] \in {old.action[s], all.action[s]}
                          /\ cfg.next[s] \in {old.next[s], all.next[s]}
                          /\ cfg.event[s] \in {old.event[s], all.event[s]}
  BY DEF Between
<1> HIDE DEF new, all
<1>4. /\ DOMAIN cfg.action = State /\ DOMAIN cfg.next = State /\ DOMAIN cfg.event = State
  BY GoodParts
<1>5. /\ c.op = "add_event" => cfg.event[c.s] = Unset
      /\ c.op = "add_device" => cfg.device = Unset
  BY DEF Accepted
<1>6. old.states \subseteq new.states /\ new.states \subseteq all.states
  BY <1>1, <1>2, <1>3, MakerKinds
<1>7. /\ new.init \in {old.init, all.init} /\ new.device \in {old.device, all.device}
      /\ new.redis \in {old.redis, all.redis}
  BY <1>1, <1>2, <1>3, <1>5, MakerKinds
<1>8. ASSUME NEW s \in State
      PROVE  /\ new.action[s] \in {old.action[s], all.action[s]}
             /\ new.next[s] \in {old.next[s], all.next[s]}
             /\ new.event[s] \in {old.event[s], all.event[s]}
  <2>1. /\ new.action[s] = IF c.op = "input_action" /\ s = c.s THEN c.code ELSE cfg.action[s]
        /\ new.next[s] = IF c.op = "set_next" /\ s = c.s THEN c.to ELSE cfg.next[s]
        /\ new.event[s] = IF c.op = "add_event" /\ s = c.s THEN c.to ELSE cfg.event[s]
    BY <1>2, <1>4
  <2>2. /\ c.op = "input_action" => c.code = whole.action[c.s] /\ c.code # Unset
        /\ c.op = "set_next" => c.to = whole.next[c.s] /\ c.to # Unset
        /\ c.op = "add_event" => c.to = whole.event[c.s] /\ c.to # Unset
    BY MakerKinds
  <2> QED
    BY <1>1, <1>3, <1>5, <2>1, <2>2
<1>9. Between(new, old, all)
  BY <1>6, <1>7, <1>8 DEF Between
<1> QED
  BY <1>9 DEF new, all

\* When every command has been executed, the configuration is what they make of old.
LEMMA AllDone ==
  ASSUME NEW cfg \in Good, NEW old \in Good, NEW whole \in Good,
         Between(cfg, old, Merged(old, whole)),
         \A c \in Making : IsMaker(whole, c) => Done(cfg, c)
  PROVE  cfg = Merged(old, whole)
<1> DEFINE all == Merged(old, whole)
<1>1. /\ all.states = old.states \cup whole.states
      /\ all.init = IF whole.init # Unset THEN whole.init ELSE old.init
      /\ all.device = IF old.device # Unset THEN old.device ELSE whole.device
      /\ all.redis = IF whole.redis # Unset THEN whole.redis ELSE old.redis
      /\ \A s \in State :
           /\ all.action[s] = IF whole.action[s] # Unset THEN whole.action[s] ELSE old.action[s]
           /\ all.next[s] = IF whole.next[s] # Unset THEN whole.next[s] ELSE old.next[s]
           /\ all.event[s] = IF old.event[s] # Unset THEN old.event[s] ELSE whole.event[s]
  BY MergedParts
<1>2. /\ old.states \subseteq cfg.states /\ cfg.states \subseteq all.states
      /\ cfg.init \in {old.init, all.init}
      /\ cfg.device \in {old.device, all.device}
      /\ cfg.redis \in {old.redis, all.redis}
      /\ \A s \in State : /\ cfg.action[s] \in {old.action[s], all.action[s]}
                          /\ cfg.next[s] \in {old.next[s], all.next[s]}
                          /\ cfg.event[s] \in {old.event[s], all.event[s]}
  BY DEF Between
<1> HIDE DEF all
<1>3. ASSUME NEW c, IsMaker(whole, c)
      PROVE  Done(cfg, c)
  BY <1>3, MakerType
<1>4. whole.states \subseteq cfg.states
  <2>1. \A s \in whole.states : IsMaker(whole, Create(s))
    BY DEF IsMaker
  <2> QED
    BY <1>3, <2>1, DoneParts
<1>5. whole.init # Unset => cfg.init = whole.init
  <2>1. whole.init # Unset => IsMaker(whole, [op |-> "set_init", s |-> whole.init])
    BY DEF IsMaker
  <2>2. Done(cfg, [op |-> "set_init", s |-> whole.init]) <=> cfg.init = whole.init
    BY DEF Done
  <2> QED
    BY <1>3, <2>1, <2>2
<1>6. whole.device # Unset => cfg.device # Unset
  <2>1. whole.device # Unset => IsMaker(whole, [op |-> "add_device", args |-> whole.device])
    BY DEF IsMaker
  <2>2. Done(cfg, [op |-> "add_device", args |-> whole.device]) <=> cfg.device # Unset
    BY DEF Done
  <2> QED
    BY <1>3, <2>1, <2>2
<1>10. whole.redis # Unset => cfg.redis = whole.redis
  <2>1. whole.redis # Unset => IsMaker(whole, [op |-> "params", redis |-> whole.redis])
    BY DEF IsMaker
  <2>2. Done(cfg, [op |-> "params", redis |-> whole.redis]) <=> cfg.redis = whole.redis
    BY DEF Done
  <2> QED
    BY <1>3, <2>1, <2>2
<1>7. ASSUME NEW s \in State
      PROVE  /\ cfg.action[s] = all.action[s]
             /\ cfg.next[s] = all.next[s]
             /\ cfg.event[s] = all.event[s]
  <2>1. s \notin whole.states =>
          whole.action[s] = Unset /\ whole.next[s] = Unset /\ whole.event[s] = Unset
    BY GoodParts DEF Consistent
  <2>2. whole.action[s] # Unset => cfg.action[s] = whole.action[s]
    <3>1. whole.action[s] # Unset =>
            IsMaker(whole, [op |-> "input_action", s |-> s, code |-> whole.action[s]])
      BY <2>1 DEF IsMaker
    <3>2. Done(cfg, [op |-> "input_action", s |-> s, code |-> whole.action[s]])
            <=> cfg.action[s] = whole.action[s]
      BY DEF Done
    <3> QED
      BY <1>3, <3>1, <3>2
  <2>3. whole.next[s] # Unset => cfg.next[s] = whole.next[s]
    <3>1. whole.next[s] # Unset =>
            IsMaker(whole, [op |-> "set_next", s |-> s, to |-> whole.next[s]])
      BY <2>1 DEF IsMaker
    <3>2. Done(cfg, [op |-> "set_next", s |-> s, to |-> whole.next[s]])
            <=> cfg.next[s] = whole.next[s]
      BY DEF Done
    <3> QED
      BY <1>3, <3>1, <3>2
  <2>4. whole.event[s] # Unset => cfg.event[s] # Unset
    <3>1. whole.event[s] # Unset =>
            IsMaker(whole, [op |-> "add_event", s |-> s, to |-> whole.event[s]])
      BY <2>1 DEF IsMaker
    <3>2. Done(cfg, [op |-> "add_event", s |-> s, to |-> whole.event[s]]) <=> cfg.event[s] # Unset
      BY DEF Done
    <3> QED
      BY <1>3, <3>1, <3>2
  <2> QED
    BY <1>1, <1>2, <2>2, <2>3, <2>4
<1>8. /\ cfg.states = all.states /\ cfg.init = all.init /\ cfg.device = all.device
      /\ cfg.redis = all.redis
  BY <1>1, <1>2, <1>4, <1>5, <1>6, <1>10
<1>9. cfg = Merged(old, whole)
  BY <1>7, <1>8, SameParts DEF all
<1> QED
  BY <1>9

\* Parts of a configuration become the whole of it, and it stays what it is.
LEMMA MergedWhole ==
  ASSUME NEW part \in Good, NEW whole \in Good, Part(part, whole)
  PROVE  Merged(part, whole) = whole
<1>1. /\ part.states \subseteq whole.states
      /\ part.init \in {Unset, whole.init} /\ part.device \in {Unset, whole.device}
      /\ part.redis \in {Unset, whole.redis}
      /\ \A s \in State : /\ part.action[s] \in {Unset, whole.action[s]}
                          /\ part.next[s] \in {Unset, whole.next[s]}
                          /\ part.event[s] \in {Unset, whole.event[s]}
  BY DEF Part, Between, Empty
<1> DEFINE all == Merged(part, whole)
<1>2. /\ all.states = part.states \cup whole.states
      /\ all.init = IF whole.init # Unset THEN whole.init ELSE part.init
      /\ all.device = IF part.device # Unset THEN part.device ELSE whole.device
      /\ all.redis = IF whole.redis # Unset THEN whole.redis ELSE part.redis
      /\ \A s \in State :
           /\ all.action[s] = IF whole.action[s] # Unset THEN whole.action[s] ELSE part.action[s]
           /\ all.next[s] = IF whole.next[s] # Unset THEN whole.next[s] ELSE part.next[s]
           /\ all.event[s] = IF part.event[s] # Unset THEN part.event[s] ELSE whole.event[s]
  BY MergedParts
<1> HIDE DEF all
<1>3. /\ whole.states = all.states /\ whole.init = all.init /\ whole.device = all.device
      /\ whole.redis = all.redis
      /\ \A s \in State : /\ whole.action[s] = all.action[s]
                          /\ whole.next[s] = all.next[s]
                          /\ whole.event[s] = all.event[s]
  BY <1>1, <1>2
<1>4. whole = Merged(part, whole)
  BY <1>3, SameParts DEF all
<1> QED
  BY <1>4

LEMMA MergedNothing ==
  ASSUME NEW cfg \in Good
  PROVE  Merged(cfg, Empty) = cfg
<1>1. /\ Empty.states = {} /\ Empty.init = Unset /\ Empty.device = Unset
      /\ Empty.redis = Unset
      /\ \A s \in State : /\ Empty.action[s] = Unset
                          /\ Empty.next[s] = Unset
                          /\ Empty.event[s] = Unset
  BY DEF Empty
<1> DEFINE all == Merged(cfg, Empty)
<1>2. /\ all.states = cfg.states \cup Empty.states
      /\ all.init = IF Empty.init # Unset THEN Empty.init ELSE cfg.init
      /\ all.device = IF cfg.device # Unset THEN cfg.device ELSE Empty.device
      /\ all.redis = IF Empty.redis # Unset THEN Empty.redis ELSE cfg.redis
      /\ \A s \in State :
           /\ all.action[s] = IF Empty.action[s] # Unset THEN Empty.action[s] ELSE cfg.action[s]
           /\ all.next[s] = IF Empty.next[s] # Unset THEN Empty.next[s] ELSE cfg.next[s]
           /\ all.event[s] = IF cfg.event[s] # Unset THEN cfg.event[s] ELSE Empty.event[s]
  BY MergedParts
<1> HIDE DEF all
<1>3. /\ cfg.states = all.states /\ cfg.init = all.init /\ cfg.device = all.device
      /\ cfg.redis = all.redis
      /\ \A s \in State : /\ cfg.action[s] = all.action[s]
                          /\ cfg.next[s] = all.next[s]
                          /\ cfg.event[s] = all.event[s]
  BY <1>1, <1>2
<1>4. cfg = Merged(cfg, Empty)
  BY <1>3, SameParts DEF all
<1> QED
  BY <1>4

LEMMA PartOfIt ==
  ASSUME NEW cfg \in Good
  PROVE  Part(cfg, cfg) /\ Part(Empty, cfg)
  BY GoodParts DEF Part, Between, Empty

\* The commands of a part's whole leave a part.
LEMMA EditedPart ==
  ASSUME NEW cfg \in Good, NEW whole \in Good, NEW c \in Making,
         IsMaker(whole, c), Accepted(cfg, c), Part(cfg, whole)
  PROVE  Part(Edited(cfg, c), whole)
<1>1. Merged(Empty, whole) = whole
  BY EmptyGood, PartOfIt, MergedWhole
<1> QED
  BY <1>1, EmptyGood, EditedBetween DEF Part

\* An import begins at what there is.
LEMMA BetweenStart ==
  ASSUME NEW old \in Good, NEW whole \in Good
  PROVE  Between(old, old, Merged(old, whole))
<1>1. /\ Merged(old, whole).states = old.states \cup whole.states
  BY MergedParts
<1> QED
  BY <1>1 DEF Between

\* Nothing is made of nothing.
LEMMA NoMaker ==
  ASSUME NEW c
  PROVE  ~IsMaker(Empty, c)
  BY DEF IsMaker, Empty

-----------------------------------------------------------------------------
(* Steps *)

LEMMA OrderedMore ==
  ASSUME NEW seq, NEW known, NEW more, known \subseteq more, Ordered(seq, known)
  PROVE  Ordered(seq, more)
  BY DEF Ordered

LEMMA SessionType ==
  /\ Import \in Session /\ Terminal \subseteq Session
  /\ \A t \in Terminal : t # Import
  /\ \A p \in Session : p # Import => p \in Terminal
  BY ConfigurationAssumption DEF Session

\* What leaves the import and the file alone.
LEMMA ImportUntouched ==
  ASSUME Imports, todo' = todo, at'[Import] = at[Import], cmd'[Import] = cmd[Import],
         copy'[Import] = copy[Import]
  PROVE  /\ Imports' /\ (file' = file => Working' = Working /\ Underway' = Underway)
         /\ \A c : Pending(c)' <=> Pending(c)
  BY DEF Imports, Working, Underway, Pending

\* Once a terminal has written, nothing is said of the import before the next start.
LEMMA TerminalWrites ==
  ASSUME ConfInv, ~quiet', ~alone', UNCHANGED <<todo, kills>>, at'[Import] = at[Import]
  PROVE  OnItsWay' /\ NothingElse' /\ FirstTime'
  BY DEF ConfInv, FirstTime, OnItsWay, NothingElse

LEMMA InitConf == ConfInit => ConfInv
<1> SUFFICES ASSUME ConfInit
             PROVE  ConfInv
  OBVIOUS
<1>1. file \in Good /\ AsRead(file) \in Good
  BY ConfigurationAssumption, AsReadGood DEF ConfInit, Good
<1>2. todo = << >> /\ << >> \in Seq(Making) /\ Len(<< >>) = 0
  BY DEF ConfInit
<1>3. Builds(saved, stands) /\ saved \in Seq(Making)
  BY <1>1, MakeBdrBuilds DEF ConfInit, Builds
<1>4. ConfTypeOK
  BY <1>1, <1>2, <1>3, EmptyGood DEF ConfInit, ConfTypeOK, At
<1>5. Checked /\ Imports
  BY SessionType DEF ConfInit, Checked, Imports, Writing
<1>6. SavedBuilds
  BY <1>3 DEF ConfInit, SavedBuilds
<1>7. OnItsWay
  BY DEF ConfInit, OnItsWay
<1>8. NothingElse
  <2>1. Working = file /\ \A c : ~Pending(c)
    BY <1>2, SessionType DEF ConfInit, Working, Pending, Has
  <2>2. Part(file, promised) /\ ~quiet
    BY <1>1, PartOfIt DEF ConfInit
  <2>3. stands # Torn
    BY <1>1, TornIsNone DEF ConfInit
  <2> QED
    BY <2>1, <2>2, <2>3 DEF NothingElse, Parts
<1>9. FirstTime
  BY SessionType DEF ConfInit, FirstTime
<1> QED
  BY <1>4, <1>5, <1>6, <1>7, <1>8, <1>9 DEF ConfInv

LEMMA EnterConf ==
  ASSUME ConfInv, NEW t \in Terminal, NEW c \in Command, enter(t, c)
  PROVE  ConfInv'
<1> USE DEF ConfInv
<1>1. /\ UNCHANGED <<file, saved, todo, dirty, kills, renewals, base, stands, promised, quiet,
                     alone>>
      /\ edits' = edits + 1 /\ execute(t, c)
  BY DEF enter, history
<1>2. t \in Session /\ t # Import /\ Import \in Session
  BY SessionType
<1>3. \/ /\ at[t] = "idle" /\ file \in Good /\ Accepted(file, c)
         /\ at' = [at EXCEPT ![t] = "read"]
         /\ cmd' = [cmd EXCEPT ![t] = c]
         /\ copy' = [copy EXCEPT ![t] = file]
      \/ UNCHANGED session
  BY <1>1 DEF execute, ConfTypeOK
<1>4. /\ at' \in [Session -> At]
      /\ cmd' \in [Session -> Command \cup Clears \cup {NoCommand}]
      /\ copy' \in [Session -> Good]
      /\ \A p \in Session \ {t} : at'[p] = at[p] /\ cmd'[p] = cmd[p] /\ copy'[p] = copy[p]
  BY <1>2, <1>3 DEF session, ConfTypeOK, At
<1>5. \/ at'[t] = "read" /\ cmd'[t] = c /\ copy'[t] = file /\ Accepted(file, c)
      \/ at'[t] = at[t] /\ cmd'[t] = cmd[t] /\ copy'[t] = copy[t]
  BY <1>2, <1>3 DEF session, ConfTypeOK
<1>6. ConfTypeOK'
  BY <1>1, <1>4 DEF ConfTypeOK
<1>7. Checked'
  BY <1>4, <1>5 DEF Checked
<1>8. Imports' /\ Working' = Working /\ Underway' = Underway /\ \A d : Pending(d)' <=> Pending(d)
  BY <1>1, <1>2, <1>4, ImportUntouched
<1>9. SavedBuilds'
  BY <1>1 DEF SavedBuilds
<1>10. OnItsWay'
  <2>1. \A u \in Terminal : at'[u] # "read" => at[u] = at'[u]
    BY <1>4, <1>5, SessionType
  <2>2. ImportOnItsWay => ImportOnItsWay'
    BY <1>1, <1>2, <1>4, <1>8 DEF ImportOnItsWay
  <2> QED
    BY <1>1, <2>1, <2>2 DEF OnItsWay, Writing, Saving
<1>11. NothingElse'
  BY <1>1, <1>8 DEF NothingElse, Parts
<1>12. FirstTime'
  BY <1>1, <1>2, <1>4 DEF FirstTime
<1> QED
  BY <1>6, <1>7, <1>8, <1>9, <1>10, <1>11, <1>12

LEMMA NextConf ==
  ASSUME ConfInv, import_next
  PROVE  ConfInv'
<1> USE DEF ConfInv
<1> DEFINE c == Head(todo)
<1>1. /\ UNCHANGED <<file, saved, dirty, edits, kills, renewals, base, stands, promised, quiet,
                     alone>>
      /\ todo # << >> /\ todo' = Tail(todo) /\ execute(Import, c)
  BY DEF import_next, bounds, history
<1>2. Import \in Session /\ at[Import] = "idle"
  BY <1>1, SessionType DEF execute
<1>3. /\ c \in Making /\ Tail(todo) \in Seq(Making)
      /\ \A d : Has(todo, d) <=> d = c \/ Has(Tail(todo), d)
  <2> DEFINE known == UNION {Needs(todo[i]) : i \in 1 .. Len(todo)}
             more == known \cup {c.s}
  <2>1. Ordered(todo, known) /\ known \subseteq more
    BY DEF Ordered
  <2>2. \A s : c = Create(s) => s \in more
    BY DEF Create
  <2>3. todo \in Seq(Making)
    BY DEF ConfTypeOK
  <2> HIDE DEF known, more
  <2> QED
    BY <1>1, <2>1, <2>2, <2>3, TailCommands
<1>4. c \in Command
  BY <1>3, MakingKinds
<1> HIDE DEF c
<1>5. CASE file # Torn /\ Accepted(file, c)
  <2>1. /\ at' = [at EXCEPT ![Import] = "read"]
        /\ cmd' = [cmd EXCEPT ![Import] = c]
        /\ copy' = [copy EXCEPT ![Import] = file]
    BY <1>1, <1>5 DEF execute
  <2>2. ConfTypeOK'
    BY <1>1, <1>3, <1>4, <1>5, <2>1 DEF ConfTypeOK, At
  <2>3. at'[Import] = "read" /\ cmd'[Import] = c /\ copy'[Import] = file
    BY <1>2, <2>1 DEF ConfTypeOK
  <2>4. \A p \in Session \ {Import} : at'[p] = at[p] /\ cmd'[p] = cmd[p] /\ copy'[p] = copy[p]
    BY <2>1 DEF ConfTypeOK
  <2>5. Checked'
    BY <1>4, <1>5, <2>3, <2>4 DEF Checked
  <2>6. Imports'
    BY <1>3, <2>3 DEF Imports
  <2>7. Working' = Working /\ Working = file
    BY <1>1, <1>2, <2>3 DEF Working
  <2>8. \A d : Pending(d)' <=> Pending(d)
    BY <1>1, <1>2, <1>3, <2>3 DEF Pending
  <2>9. ASSUME Ordered(todo, Underway)
        PROVE  Ordered(todo, Underway)'
    <3>1. Underway = file.states
      BY <1>2, <2>7 DEF Underway
    <3>2. Underway' = file.states \cup {s \in State : c = Create(s)}
      BY <2>3, <2>7, <1>1 DEF Underway
    <3>3. \A s : c = Create(s) => s \in State
      BY <1>3, MakingKinds DEF Create
    <3>4. \A s : c = Create(s) => s \in Underway'
      BY <3>2, <3>3
    <3>5. Ordered(Tail(todo), Underway')
      BY <1>1, <2>9, <3>1, <3>2, <3>4, TailCommands DEF ConfTypeOK, c
    <3> QED
      BY <1>1, <3>5 DEF Ordered
  <2>10. OnItsWay'
    <3>1. \A u \in Terminal : at'[u] = at[u]
      BY <2>4, SessionType
    <3>2. ImportOnItsWay => ImportOnItsWay'
      BY <1>1, <2>3, <2>7, <2>8, <2>9 DEF ImportOnItsWay
    <3> QED
      BY <1>1, <3>1, <3>2 DEF OnItsWay
  <2>11. NothingElse'
    BY <1>1, <2>7, <2>8 DEF NothingElse, Parts
  <2>12. FirstTime' /\ SavedBuilds'
    BY <1>1 DEF FirstTime, SavedBuilds
  <2> QED
    BY <2>2, <2>5, <2>6, <2>10, <2>11, <2>12
<1>6. CASE ~(file # Torn /\ Accepted(file, c))
  <2>1. UNCHANGED <<at, cmd, copy>>
    BY <1>1, <1>6 DEF execute, session
  <2>2. ConfTypeOK'
    BY <1>1, <1>3, <2>1 DEF ConfTypeOK
  <2>3. Checked' /\ Imports'
    BY <2>1 DEF Checked, Imports
  <2>4. Working' = Working /\ Working = file /\ Underway' = file.states /\ Underway = file.states
    BY <1>1, <1>2, <2>1 DEF Working, Underway
  <2>5. \A d : Pending(d) <=> d = c \/ Pending(d)'
    BY <1>1, <1>2, <1>3, <2>1 DEF Pending
  <2>6. ASSUME Ordered(todo, Underway), file # Torn
        PROVE  Ordered(todo, Underway)' /\ Done(file, c)
    <3>1. \A s : c = Create(s) => s \in file.states
      BY <1>6, <2>6 DEF Accepted, Known, Create
    <3>2. Needs(c) \subseteq file.states /\ Ordered(Tail(todo), file.states)
      BY <1>1, <2>4, <2>6, <3>1, TailCommands DEF ConfTypeOK, c
    <3>3. Done(file, c)
      BY <1>3, <1>6, <2>6, <3>2, RefusedIsDone DEF ConfTypeOK
    <3> QED
      BY <1>1, <2>4, <3>2, <3>3 DEF Ordered
  <2>7. OnItsWay'
    <3>1. ImportOnItsWay => ImportOnItsWay'
      BY <1>1, <2>1, <2>4, <2>5, <2>6 DEF ImportOnItsWay
    <3> QED
      BY <1>1, <2>1, <3>1 DEF OnItsWay
  <2>8. NothingElse'
    BY <1>1, <2>4, <2>5 DEF NothingElse, Parts
  <2>9. FirstTime' /\ SavedBuilds'
    BY <1>1, <2>1 DEF FirstTime, SavedBuilds
  <2> QED
    BY <2>2, <2>3, <2>7, <2>8, <2>9
<1> QED
  BY <1>5, <1>6

LEMMA OpenConf ==
  ASSUME ConfInv, NEW p \in Session, open_file(p) \/ write_part(p)
  PROVE  ConfInv'
<1> USE DEF ConfInv
<1>1. /\ at[p] \in {"read"} \cup Writing /\ file' \in {Empty, Torn}
      /\ \E new \in Writing : at' = [at EXCEPT ![p] = new]
      /\ quiet' = (quiet /\ p = Import) /\ alone' = (alone /\ p = Import)
      /\ UNCHANGED <<saved, todo, cmd, copy, edits, kills, renewals, base, stands, promised>>
  BY DEF open_file, write_part, Noted, bounds, Writing
<1>2. /\ dirty' \subseteq Session
      /\ p \notin dirty => p \notin dirty'
  BY DEF open_file, write_part, Emptied, Overlaid, ConfTypeOK
<1>3. at'[p] \in Writing /\ at' \in [Session -> At] /\ \A q \in Session \ {p} : at'[q] = at[q]
  BY <1>1 DEF ConfTypeOK, At
<1>4. ConfTypeOK'
  BY <1>1, <1>2, <1>3, EmptyGood DEF ConfTypeOK
<1>5. Checked'
  BY <1>1, <1>3 DEF Checked, Writing
<1>6. Imports'
  BY <1>1, <1>3, SessionType DEF Imports, Writing
<1>7. SavedBuilds'
  BY <1>1 DEF SavedBuilds
<1>8. CASE p # Import
  <2>1. ~quiet' /\ ~alone' /\ at'[Import] = at[Import]
    BY <1>1, <1>3, <1>8, SessionType
  <2> QED
    BY <1>1, <1>4, <1>5, <1>6, <1>7, <2>1, TerminalWrites
<1>9. CASE p = Import
  <2>1. (\A u \in Terminal : at'[u] = at[u]) /\ at[Import] # "idle"
    BY <1>1, <1>3, <1>9, SessionType DEF Writing
  <2>2. Working' = Working /\ Underway' = Underway /\ \A c : Pending(c)' <=> Pending(c)
    BY <1>1, <1>3, <1>9, <2>1 DEF Working, Underway, Pending, Writing
  <2>3. ImportOnItsWay => ImportOnItsWay'
    BY <1>1, <1>3, <1>9, <2>2 DEF ImportOnItsWay, Writing
  <2>4. OnItsWay'
    BY <1>1, <1>2, <1>9, <2>1, <2>3 DEF OnItsWay
  <2>5. NothingElse'
    BY <1>1, <1>9, <2>2, PartOfIt DEF NothingElse, Parts, ConfTypeOK
  <2>6. FirstTime'
    BY <1>1, <1>9, <2>1 DEF FirstTime
  <2> QED
    BY <1>4, <1>5, <1>6, <1>7, <2>4, <2>5, <2>6
<1> QED
  BY <1>8, <1>9

LEMMA WriteConf ==
  ASSUME ConfInv, NEW p \in Session, write_file(p)
  PROVE  ConfInv'
<1> USE DEF ConfInv
<1> DEFINE c == cmd[p]
           cfg == copy[p]
<1>1. /\ at[p] \in Writing
      /\ file' \in {Edited(cfg, c), Torn} /\ (p \notin dirty => file' = Edited(cfg, c))
      /\ quiet' = (quiet /\ p = Import) /\ alone' = (alone /\ p = Import)
      /\ UNCHANGED <<saved, todo, edits, kills, renewals, base, stands, promised>>
  BY DEF write_file, Noted, bounds
<1>2. IF c.op \in {"clear", "clear_states"}
      THEN \E op \in {"clear_states", "clear_redis"} :
             /\ at' = [at EXCEPT ![p] = "clears"]
             /\ cmd' = [cmd EXCEPT ![p] = [op |-> op]]
             /\ copy' = [copy EXCEPT ![p] = Empty]
      ELSE Over(p)
  BY DEF write_file, Follows
<1>3. \E new \in {"idle", "clears"}, next \in Clears \cup {NoCommand} :
         /\ at' = [at EXCEPT ![p] = new] /\ cmd' = [cmd EXCEPT ![p] = next]
         /\ copy' = [copy EXCEPT ![p] = Empty]
         /\ new = "clears" => next \in Clears
         /\ c.op \notin {"clear", "clear_states"} => new = "idle"
  BY <1>2 DEF Over, Clears
<1>4. cfg \in Good /\ c \in Command \cup Clears /\ Accepted(cfg, c)
  BY <1>1 DEF Checked, ConfTypeOK
<1>5. Edited(cfg, c) \in Good
  BY <1>4, EditedGood
<1>6. dirty' \subseteq Session /\ (p \notin dirty => p \notin dirty')
  BY DEF write_file, Overlaid, ConfTypeOK
<1>7. /\ \A q \in Session \ {p} : at'[q] = at[q] /\ cmd'[q] = cmd[q] /\ copy'[q] = copy[q]
      /\ at'[p] \in {"idle", "clears"} /\ (at'[p] = "clears" => cmd'[p] \in Clears)
      /\ c.op \notin {"clear", "clear_states"} => at'[p] = "idle"
  BY <1>3 DEF ConfTypeOK
<1> HIDE DEF c, cfg
<1>8. ConfTypeOK'
  BY <1>1, <1>3, <1>5, <1>6, EmptyGood DEF ConfTypeOK, At
<1>9. Checked'
  BY <1>7 DEF Checked, Writing
<1>10. SavedBuilds'
  BY <1>1 DEF SavedBuilds
<1>11. CASE p # Import
  <2>1. /\ ~quiet' /\ ~alone' /\ at'[Import] = at[Import] /\ cmd'[Import] = cmd[Import]
        /\ copy'[Import] = copy[Import]
    BY <1>1, <1>7, <1>11, SessionType
  <2> QED
    BY <1>1, <1>8, <1>9, <1>10, <2>1, ImportUntouched, TerminalWrites
<1>12. CASE p = Import
  <2>1. c \in Making
    BY <1>1, <1>12 DEF Imports, Writing, c
  <2>2. at'[Import] = "idle" /\ Import \in Session
    BY <1>7, <1>12, <2>1, MakingKinds
  <2>3. Imports'
    BY <2>2 DEF Imports
  <2>4. Working = cfg /\ Working' = file'
    BY <1>1, <1>12, <2>2 DEF Working, Writing, cfg
  <2>5. Pending(c) /\ \A d : Pending(d) <=> d = c \/ Pending(d)'
    BY <1>1, <1>12, <2>2 DEF Pending, Writing, c
  <2>6. file' = Edited(cfg, c) => Underway \subseteq Underway'
    <3>1. Underway = cfg.states \cup {s \in State : c = Create(s)}
      BY <1>1, <1>12, <2>4 DEF Underway, Writing, c
    <3>2. file' = Edited(cfg, c) => Underway' = Edited(cfg, c).states
      BY <2>2, <2>4 DEF Underway
    <3>3. \A s : c = Create(s) => c.op = "create_state" /\ c.s = s
      BY DEF Create
    <3>4. cfg.states \subseteq Edited(cfg, c).states
      BY <1>4, <2>1, EditedParts
    <3>5. c.op = "create_state" => c.s \in Edited(cfg, c).states
      BY <1>4, <2>1, EditedParts
    <3> QED
      BY <3>1, <3>2, <3>3, <3>4, <3>5
  <2>7. ASSUME quiet, Torn \notin {base, stands}
        PROVE  ImportOnItsWay'
    <3>1. file' = Edited(cfg, c) /\ base \in Good /\ stands \in Good
      BY <1>1, <1>12, <2>7 DEF OnItsWay, ConfTypeOK
    <3>2. IsMaker(stands, c)
      BY <2>1, <2>5, <2>7 DEF OnItsWay, ImportOnItsWay
    <3>3. Between(Working, base, Merged(base, stands))'
      BY <1>1, <1>4, <2>1, <2>4, <2>7, <3>1, <3>2, EditedBetween DEF OnItsWay, ImportOnItsWay
    <3>4. ASSUME NEW d \in Making, IsMaker(stands, d)
          PROVE  Done(Working, d)' \/ Pending(d)'
      <4>1. CASE Pending(d)'
        BY <4>1
      <4>2. CASE d = c
        BY <1>4, <2>1, <2>4, <3>1, <4>2, EditedDone
      <4>3. CASE ~Pending(d)' /\ d # c
        <5>1. Done(cfg, d)
          BY <2>4, <2>5, <2>7, <3>4, <4>3 DEF OnItsWay, ImportOnItsWay
        <5> QED
          BY <1>4, <2>1, <2>4, <3>1, <3>2, <3>4, <5>1, StaysDone
      <4> QED
        BY <4>1, <4>2, <4>3
    <3>5. ASSUME NEW d \in Making, ~IsMaker(stands, d)
          PROVE  ~Pending(d)'
      BY <2>5, <2>7, <3>5 DEF OnItsWay, ImportOnItsWay
    <3>6. Ordered(todo, Underway)'
      BY <1>1, <2>6, <2>7, <3>1, OrderedMore DEF OnItsWay, ImportOnItsWay
    <3>7. Working' # Torn
      BY <1>5, <2>4, <3>1, TornIsNone
    <3> QED
      BY <1>1, <2>2, <3>3, <3>4, <3>5, <3>6, <3>7 DEF ImportOnItsWay
  <2>8. OnItsWay'
    <3>1. \A u \in Terminal : at'[u] = at[u]
      BY <1>7, <1>12, SessionType
    <3> QED
      BY <1>1, <1>6, <1>12, <2>7, <3>1 DEF OnItsWay
  <2>9. ASSUME alone, Legible(promised), Parts
        PROVE  Parts'
    <3>1. IsMaker(promised, c) /\ Part(cfg, promised)
      BY <1>4, <2>1, <2>4, <2>5, <2>9, TornIsNone DEF Parts
    <3>2. Part(Edited(cfg, c), promised)
      BY <1>4, <2>1, <3>1, EditedPart DEF ConfTypeOK
    <3> QED
      BY <1>1, <2>4, <2>5, <2>9, <3>2 DEF Parts
  <2>10. NothingElse'
    BY <1>1, <2>9 DEF NothingElse
  <2>11. FirstTime'
    BY <1>1, <1>12 DEF FirstTime, Writing
  <2> QED
    BY <1>8, <1>9, <1>10, <2>3, <2>8, <2>10, <2>11
<1> QED
  BY <1>11, <1>12

\* A terminal that has cleared a part, or saves, changes nothing of the import and of the
\* file: it has written before in its command, or emptied the file of commands.
LEMMA TerminalGoesOn ==
  ASSUME ConfInv, NEW p \in Session, at[p] \in {"clears"} \cup Saving,
         UNCHANGED <<file, todo, kills, renewals, base, quiet>>,
         \A q \in Session \ {p} : at'[q] = at[q] /\ cmd'[q] = cmd[q] /\ copy'[q] = copy[q]
  PROVE  /\ p # Import /\ ~quiet' /\ Imports' /\ OnItsWay'
         /\ Working' = Working /\ \A c : Pending(c)' <=> Pending(c)
<1> USE DEF ConfInv
<1>1. p # Import
  BY DEF Imports, Writing, Saving
<1>2. ~quiet'
  BY <1>1, SessionType DEF OnItsWay
<1>3. Imports' /\ Working' = Working /\ \A c : Pending(c)' <=> Pending(c)
  BY <1>1, SessionType, ImportUntouched
<1> QED
  BY <1>1, <1>2, <1>3 DEF OnItsWay

LEMMA ClearConf ==
  ASSUME ConfInv, NEW p \in Session, clear_next(p)
  PROVE  ConfInv'
<1> USE DEF ConfInv
<1>1. /\ at[p] = "clears" /\ UNCHANGED <<file, saved, todo, dirty, bounds, history>>
      /\ \/ Over(p)
         \/ /\ file \in Good
            /\ at' = [at EXCEPT ![p] = "read"] /\ copy' = [copy EXCEPT ![p] = file]
            /\ UNCHANGED cmd
  BY DEF clear_next, ConfTypeOK
<1>2. /\ at' \in [Session -> At]
      /\ cmd' \in [Session -> Command \cup Clears \cup {NoCommand}]
      /\ copy' \in [Session -> Good]
      /\ \A q \in Session \ {p} : at'[q] = at[q] /\ cmd'[q] = cmd[q] /\ copy'[q] = copy[q]
      /\ at'[p] = "idle" \/ (at'[p] = "read" /\ cmd'[p] = cmd[p])
  BY <1>1, EmptyGood DEF Over, ConfTypeOK, At
<1>3. ConfTypeOK'
  BY <1>1, <1>2 DEF ConfTypeOK, bounds, history
<1>4. Checked'
  <2>1. cmd[p] \in Clears
    BY <1>1 DEF Checked
  <2>2. Accepted(copy'[p], cmd[p])
    BY <2>1 DEF Accepted, Clears
  <2> QED
    BY <1>2, <2>1, <2>2 DEF Checked, Writing
<1>5. /\ p # Import /\ ~quiet' /\ Imports' /\ OnItsWay'
      /\ Working' = Working /\ \A c : Pending(c)' <=> Pending(c)
  BY <1>1, <1>2, TerminalGoesOn DEF bounds, history
<1>6. SavedBuilds' /\ NothingElse'
  BY <1>1, <1>5 DEF SavedBuilds, NothingElse, Parts, history
<1>7. FirstTime'
  BY <1>1, <1>2, <1>5, SessionType DEF FirstTime, history, bounds
<1> QED
  BY <1>3, <1>4, <1>5, <1>6, <1>7

LEMMA SaveConf ==
  ASSUME ConfInv, NEW t \in Terminal, save(t)
  PROVE  ConfInv'
<1> USE DEF ConfInv
<1>1. /\ at[t] = "idle" /\ at' = [at EXCEPT ![t] = "save"]
      /\ saved' = << >> /\ stands' = Empty /\ ~quiet' /\ edits' = edits + 1
      /\ quiet' \in BOOLEAN /\ dirty' \subseteq Session
      /\ UNCHANGED <<file, todo, cmd, copy, kills, renewals, base, promised, alone>>
  BY DEF save, Emptied
<1>2. /\ t \in Session /\ t # Import /\ Import \in Session
      /\ \A q \in Session \ {t} : at'[q] = at[q]
      /\ at'[t] = "save" /\ at' \in [Session -> At]
  BY <1>1, SessionType DEF ConfTypeOK, At, Saving
<1>3. saved' \in Seq(Making) /\ Builds(saved', stands') /\ stands' \in Good
  BY <1>1, NothingBuildsEmpty, EmptyGood DEF Builds
<1>4. ConfTypeOK'
  BY <1>1, <1>2, <1>3 DEF ConfTypeOK
<1>5. Checked'
  BY <1>1, <1>2 DEF Checked, Writing
<1>6. SavedBuilds'
  BY <1>1, <1>3 DEF SavedBuilds
<1>7. Imports' /\ Working' = Working /\ \A c : Pending(c)' <=> Pending(c)
  BY <1>1, <1>2, ImportUntouched
<1>8. OnItsWay' /\ FirstTime'
  BY <1>1, <1>2 DEF OnItsWay, FirstTime
<1>9. NothingElse'
  BY <1>1, <1>3, <1>7, TornIsNone DEF NothingElse, Parts
<1> QED
  BY <1>4, <1>5, <1>6, <1>7, <1>8, <1>9

LEMMA SaveReadsConf ==
  ASSUME ConfInv, NEW p \in Session, save_reads(p)
  PROVE  ConfInv'
<1> USE DEF ConfInv
<1>1. /\ at[p] \in {"save", "save_states", "save_redis"}
      /\ UNCHANGED <<file, saved, todo, bounds, history>> /\ dirty' \subseteq Session
      /\ \/ Over(p)
         \/ /\ file \in Good /\ copy' = [copy EXCEPT ![p] = Read(p)] /\ UNCHANGED cmd
            /\ \E new \in {"save_states", "save_redis", "save_write"} :
                 at' = [at EXCEPT ![p] = new]
  BY DEF save_reads, Reads, ConfTypeOK
<1>2. ASSUME file \in Good
      PROVE  Read(p) \in Good
  <2> DEFINE new == Read(p)
  <2>1. copy[p] \in Good
    BY DEF ConfTypeOK
  <2>2. /\ new = [states |-> new.states, init |-> new.init, action |-> new.action,
                  next |-> new.next, event |-> new.event, device |-> new.device,
                  redis |-> new.redis]
        /\ new.device \in {file.device, copy[p].device}
        /\ new.redis \in {Unset, file.redis}
        /\ \E cfg \in {Empty, file, copy[p]} :
             /\ new.states = cfg.states /\ new.init = cfg.init /\ new.action = cfg.action
             /\ new.next = cfg.next /\ new.event = cfg.event
    <3>1. CASE at[p] = "save"
      <4>1. new = [Empty EXCEPT !.device = file.device]
        BY <3>1 DEF Read
      <4> HIDE DEF new
      <4>2. /\ Empty = [states |-> Empty.states, init |-> Empty.init, action |-> Empty.action,
                        next |-> Empty.next, event |-> Empty.event, device |-> Empty.device,
                        redis |-> Empty.redis]
            /\ Empty.redis = Unset
        BY DEF Empty
      <4> QED
        BY <4>1, <4>2
    <3>2. CASE at[p] = "save_states"
      <4>1. new = [file EXCEPT !.device = copy[p].device, !.redis = Unset]
        BY <3>2 DEF Read
      <4>2. file = [states |-> file.states, init |-> file.init, action |-> file.action,
                    next |-> file.next, event |-> file.event, device |-> file.device,
                    redis |-> file.redis]
        BY <1>2, GoodParts
      <4> HIDE DEF new
      <4> QED
        BY <4>1, <4>2
    <3>3. CASE at[p] = "save_redis"
      <4>1. new = [copy[p] EXCEPT !.redis = file.redis]
        BY <3>3 DEF Read
      <4> DEFINE cfg == copy[p]
      <4>2. cfg = [states |-> cfg.states, init |-> cfg.init, action |-> cfg.action,
                   next |-> cfg.next, event |-> cfg.event, device |-> cfg.device,
                   redis |-> cfg.redis]
        BY <2>1, GoodParts
      <4> HIDE DEF new
      <4> QED
        BY <4>1, <4>2
    <3> QED
      BY <1>1, <3>1, <3>2, <3>3
  <2> HIDE DEF new
  <2>3. new \in Good
    BY <1>2, <2>1, <2>2, EmptyGood, GoodParts DEF Consistent
  <2> QED
    BY <2>3 DEF new
<1>3. /\ at' \in [Session -> At] /\ at'[p] \notin {"read", "clears"} \cup Writing
      /\ cmd' \in [Session -> Command \cup Clears \cup {NoCommand}]
      /\ \A q \in Session \ {p} : at'[q] = at[q] /\ cmd'[q] = cmd[q] /\ copy'[q] = copy[q]
  BY <1>1 DEF Over, ConfTypeOK, At, Saving, Writing
<1>4. copy' \in [Session -> Good]
  BY <1>1, <1>2, EmptyGood DEF Over, ConfTypeOK
<1>5. ConfTypeOK'
  BY <1>1, <1>3, <1>4 DEF ConfTypeOK, bounds, history
<1>6. Checked'
  BY <1>3 DEF Checked
<1>7. /\ p # Import /\ ~quiet' /\ Imports' /\ OnItsWay'
      /\ Working' = Working /\ \A c : Pending(c)' <=> Pending(c)
  BY <1>1, <1>3, TerminalGoesOn DEF bounds, history, Saving
<1>8. SavedBuilds' /\ NothingElse'
  BY <1>1, <1>7 DEF SavedBuilds, NothingElse, Parts, history
<1>9. FirstTime'
  BY <1>1, <1>3, <1>7, SessionType DEF FirstTime, history, bounds
<1> QED
  BY <1>5, <1>6, <1>7, <1>8, <1>9

LEMMA SavePartConf ==
  ASSUME ConfInv, NEW p \in Session, save_part(p)
  PROVE  ConfInv'
<1> USE DEF ConfInv
<1>1. /\ at[p] = "save_write" /\ at' = [at EXCEPT ![p] = "save_part"]
      /\ stands' = Torn /\ alone' = FALSE /\ dirty' \subseteq Session
      /\ UNCHANGED <<file, todo, cmd, copy, bounds, base, promised, quiet>>
  BY DEF save_part, Overlaid, ConfTypeOK
<1>2. saved' \in Seq(Making)
  <2> DEFINE own == make_bdr(AsRead(copy[p]))
  <2>1. own \in Seq(Making)
    BY AsReadGood, MakeBdrBuilds DEF ConfTypeOK, Builds
  <2>2. PICK k \in 0 .. Len(own) : saved' = SubSeq(own, 1, k)
    BY DEF save_part
  <2> HIDE DEF own
  <2>3. k \in Int /\ k <= Len(own)
    BY <2>1, LenProperties
  <2> QED
    BY <2>1, <2>2, <2>3, SomeCommands
<1>3. /\ at' \in [Session -> At] /\ at'[p] = "save_part"
      /\ \A q \in Session \ {p} : at'[q] = at[q]
  BY <1>1 DEF ConfTypeOK, At, Saving
<1>4. ConfTypeOK'
  BY <1>1, <1>2, <1>3 DEF ConfTypeOK, bounds
<1>5. Checked'
  BY <1>1, <1>3 DEF Checked, Writing
<1>6. p # Import /\ ~quiet' /\ Imports' /\ OnItsWay'
  BY <1>1, <1>3, TerminalGoesOn DEF bounds, Saving
<1>7. SavedBuilds' /\ NothingElse'
  BY <1>1 DEF SavedBuilds, NothingElse
<1>8. FirstTime'
  BY <1>1, <1>3, <1>6, SessionType DEF FirstTime, bounds
<1> QED
  BY <1>4, <1>5, <1>6, <1>7, <1>8

\* Whatever is left of commands when others are written over them are commands.
LEMMA LandsCommands ==
  ASSUME ConfTypeOK, NEW t, NEW own \in Seq(Making), NEW cmds \in Lands(t, own)
  PROVE  cmds \in Seq(Making)
<1>1. saved \in Seq(Making) /\ Len(saved) \in Nat /\ Len(own) \in Nat
  BY LenProperties DEF ConfTypeOK
<1>2. ASSUME NEW rest \in Behind(saved)
      PROVE  rest \in Seq(Making)
  <2>1. CASE rest = << >>
    BY <2>1
  <2>2. CASE rest # << >>
    <3>1. PICK k \in 2 .. Len(saved) : rest = SubSeq(saved, k, Len(saved))
      BY <1>2, <2>2 DEF Behind
    <3>2. k \in Int /\ Len(saved) \in Int /\ 1 <= k
      BY <1>1
    <3> QED
      BY <1>1, <3>1, <3>2, SomeCommands
  <2> QED
    BY <2>1, <2>2
<1>3. CASE t \notin dirty
  BY <1>3 DEF Lands
<1>4. CASE t \in dirty /\ at[t] = "save_write"
  <2>1. PICK rest \in Behind(saved) : cmds = own \o rest
    BY <1>4 DEF Lands
  <2>2. rest \in Seq(Making)
    BY <1>2
  <2>3. own \o rest \in Seq(Making)
    BY <2>2, ConcatProperties
  <2> QED
    BY <2>1, <2>3
<1>5. CASE t \in dirty /\ at[t] # "save_write"
  <2>1. PICK i \in 0 .. Len(saved), j \in 2 .. Len(own) + 1, rest \in Behind(saved) :
          cmds = SubSeq(saved, 1, i) \o SubSeq(own, j, Len(own)) \o rest
    <3> DEFINE Ends(i, j, rest) == SubSeq(saved, 1, i) \o SubSeq(own, j, Len(own)) \o rest
    <3>1. Lands(t, own) = {Ends(i, j, rest) : i \in 0 .. Len(saved), j \in 2 .. Len(own) + 1,
                                              rest \in Behind(saved)}
      BY <1>5 DEF Lands
    <3> HIDE DEF Ends
    <3>2. \E i \in 0 .. Len(saved), j \in 2 .. Len(own) + 1, rest \in Behind(saved) :
            cmds = Ends(i, j, rest)
      BY <3>1
    <3> QED
      BY <3>2 DEF Ends
  <2>2. SubSeq(saved, 1, i) \in Seq(Making) /\ SubSeq(own, j, Len(own)) \in Seq(Making)
    <3>1. i \in Int /\ i <= Len(saved) /\ j \in Int /\ 1 <= j /\ Len(own) \in Int
      BY <1>1
    <3> QED
      BY <1>1, <3>1, SomeCommands
  <2>3. SubSeq(saved, 1, i) \o SubSeq(own, j, Len(own)) \in Seq(Making)
    BY <2>2, ConcatProperties
  <2> QED
    BY <1>2, <2>1, <2>3, ConcatProperties
<1> QED
  BY <1>3, <1>4, <1>5

LEMMA SaveEndsConf ==
  ASSUME ConfInv, NEW p \in Session, save_ends(p)
  PROVE  ConfInv'
<1> USE DEF ConfInv
<1> DEFINE cfg == copy[p]
           own == make_bdr(AsRead(cfg))
<1>1. /\ at[p] \in Saving /\ Over(p) /\ promised' = cfg
      /\ saved' \in Lands(p, own)
      /\ stands' = IF saved' = own THEN AsRead(cfg) ELSE Torn
      /\ alone' = (Imported /\ cfg = file /\ p \notin dirty)
      /\ dirty' = Overlaid(p, Saving) \ {p}
      /\ UNCHANGED <<file, todo, bounds, base, quiet>>
  BY DEF save_ends, Saving
<1>2. cfg \in Good /\ AsRead(cfg) \in Good /\ Builds(own, AsRead(cfg)) /\ own \in Seq(Making)
  <2>1. cfg \in Good
    BY DEF ConfTypeOK
  <2>2. AsRead(cfg) \in Good
    BY <2>1, AsReadGood
  <2>3. Builds(own, AsRead(cfg))
    BY <2>2, MakeBdrBuilds
  <2> QED
    BY <2>1, <2>2, <2>3 DEF Builds
<1>3. saved' \in Seq(Making) /\ (p \notin dirty => saved' = own)
  <2>1. p \notin dirty => saved' = own
    BY <1>1 DEF Lands
  <2> HIDE DEF own
  <2>2. saved' \in Seq(Making)
    BY <1>1, <1>2, LandsCommands
  <2> QED
    BY <2>1, <2>2
<1>4. /\ at' \in [Session -> At] /\ at'[p] = "idle"
      /\ cmd' \in [Session -> Command \cup Clears \cup {NoCommand}]
      /\ copy' \in [Session -> Good]
      /\ \A q \in Session \ {p} : at'[q] = at[q] /\ cmd'[q] = cmd[q] /\ copy'[q] = copy[q]
      /\ dirty' \subseteq Session
  BY <1>1, EmptyGood DEF Over, Overlaid, ConfTypeOK, At
<1> HIDE DEF own, cfg
<1>5. ConfTypeOK'
  BY <1>1, <1>2, <1>3, <1>4 DEF ConfTypeOK, Imported, bounds
<1>6. Checked'
  BY <1>4 DEF Checked, Writing
<1>7. SavedBuilds'
  BY <1>1, <1>2 DEF SavedBuilds
<1>8. /\ p # Import /\ ~quiet' /\ Imports' /\ OnItsWay'
      /\ Working' = Working /\ \A c : Pending(c)' <=> Pending(c)
  BY <1>1, <1>4, TerminalGoesOn DEF bounds
<1>9. NothingElse'
  <2>1. ASSUME alone'
        PROVE  todo = << >> /\ at[Import] = "idle" /\ cfg = file /\ stands' = AsRead(cfg)
    BY <1>1, <1>3, <2>1 DEF Imported
  <2>2. ASSUME alone'
        PROVE  Working = file /\ \A c : ~Pending(c)
    <3>1. Len(<< >>) = 0
      OBVIOUS
    <3> QED
      BY <2>1, <2>2, <3>1 DEF Working, Pending, Has
  <2>3. Part(cfg, cfg)
    BY <1>2, PartOfIt
  <2>4. alone' => stands' # Torn
    BY <1>2, <2>1, TornIsNone
  <2> QED
    BY <1>1, <1>8, <2>1, <2>2, <2>3, <2>4 DEF NothingElse, Parts
<1>10. FirstTime'
  BY <1>1, <1>4, <1>8, SessionType DEF FirstTime, bounds
<1> QED
  BY <1>5, <1>6, <1>7, <1>8, <1>9, <1>10

LEMMA StartConf ==
  ASSUME ConfInv, core_starts
  PROVE  ConfInv'
<1> USE DEF ConfInv
<1>1. /\ kills' = kills + 1 /\ todo' = saved /\ base' = file' /\ quiet' /\ dirty' = {}
      /\ quiet' \in BOOLEAN
      /\ at' = [q \in Session |-> "idle"] /\ cmd' = [q \in Session |-> NoCommand]
      /\ copy' = [q \in Session |-> Empty]
      /\ \/ file' = file /\ renewals' = renewals
         \/ file' = Empty /\ renewals' = renewals + 1
      /\ UNCHANGED <<saved, edits, stands, promised, alone>>
  BY DEF core_starts, Kept
<1>2. file' \in Good \cup {Torn}
  BY <1>1, EmptyGood DEF ConfTypeOK
<1>3. kills' \in Nat \ {0} /\ (kills' = 1 => kills = 0) /\ renewals' \in Nat
  BY <1>1 DEF ConfTypeOK
<1>4. ConfTypeOK'
  BY <1>1, <1>2, <1>3, EmptyGood DEF ConfTypeOK, At
<1>5. Checked' /\ Imports' /\ SavedBuilds'
  BY <1>1, SessionType DEF Checked, Imports, SavedBuilds, Writing
<1>6. /\ Working' = file'
      /\ \A c \in Making : Pending(c)' <=> Has(saved, c)
  BY <1>1, SessionType DEF Working, Pending
<1>7. stands # Torn => \A c \in Making : Has(saved, c) <=> IsMaker(stands, c)
  BY DEF SavedBuilds, Builds
<1>8. ASSUME Torn \notin {base', stands}
      PROVE  ImportOnItsWay'
  <2>1. Between(file', file', Merged(file', stands'))
    BY <1>1, <1>2, <1>8, BetweenStart DEF ConfTypeOK
  <2>2. Ordered(todo, Underway)'
    <3>1. Ordered(saved, {})
      BY <1>8 DEF SavedBuilds, Builds
    <3> QED
      BY <1>1, <3>1, OrderedMore
  <2>3. at'[Import] # "read"
    BY <1>1, SessionType
  <2> QED
    BY <1>1, <1>6, <1>7, <1>8, <2>1, <2>2, <2>3 DEF ImportOnItsWay
<1>9. OnItsWay'
  BY <1>1, <1>8, SessionType DEF OnItsWay, Writing, Saving
<1>10. NothingElse'
  <2>1. ASSUME alone, Legible(promised), file' # Torn
        PROVE  Part(file', promised)
    BY <1>1, <2>1, PartOfIt DEF NothingElse, Parts, ConfTypeOK
  <2>2. ASSUME alone, Legible(promised), NEW c \in Making, Pending(c)'
        PROVE  IsMaker(promised, c)
    <3>1. AsRead(promised) = promised
      BY <2>2, AsReadGood DEF ConfTypeOK
    <3> QED
      BY <1>6, <1>7, <2>2, <3>1, NoMaker DEF NothingElse, SavedBuilds
  <2> QED
    BY <1>1, <1>6, <2>1, <2>2 DEF NothingElse, Parts
<1>11. FirstTime'
  <2>1. ASSUME alone, kills' = 1, renewals' = 0
        PROVE  file' = promised
    <3>1. renewals' # renewals + 1
      BY <2>1 DEF ConfTypeOK
    <3> QED
      BY <1>1, <1>3, <2>1, <3>1 DEF FirstTime
  <2> QED
    BY <1>1, <1>3, <2>1 DEF FirstTime
<1> QED
  BY <1>4, <1>5, <1>9, <1>10, <1>11

LEMMA ConfInductive == ConfSpec => []ConfInv
<1>1. ASSUME ConfInv, UNCHANGED <<file, saved, todo, session, dirty, bounds, history>>
      PROVE  ConfInv'
  BY <1>1 DEF session, bounds, history, ConfInv, ConfTypeOK, Checked, Imports, SavedBuilds,
     OnItsWay, ImportOnItsWay, NothingElse, Parts, FirstTime, Working, Underway, Pending
<1>2. ConfInv /\ [ConfNext]_conf_vars => ConfInv'
  <2> SUFFICES ASSUME ConfInv, [ConfNext]_conf_vars
               PROVE  ConfInv'
    OBVIOUS
  <2>1. CASE UNCHANGED conf_vars
    BY <1>1, <2>1 DEF conf_vars
  <2>2. ASSUME NEW p \in Session, advance(p)
        PROVE  ConfInv'
    BY <2>2, OpenConf, WriteConf, ClearConf, SaveReadsConf, SavePartConf, SaveEndsConf
       DEF advance
  <2>3. CASE part_is_read
    BY <1>1, <2>3 DEF part_is_read
  <2> QED
    BY <2>1, <2>2, <2>3, EnterConf, SaveConf, NextConf, StartConf DEF ConfNext
<1> QED
  BY <1>2, InitConf, PTL DEF ConfSpec

\* However the sessions overlap and wherever the container ends, nothing in a whole file
\* or in a copy of it names what is not there, as long as nobody takes a part of a file
\* for the whole.
THEOREM NamesExist == ConfSpec => []TargetsExist
<1>1. ConfInv => TargetsExist
  BY DEF ConfInv, ConfTypeOK, Good, TargetsExist
<1> QED
  BY <1>1, ConfInductive, PTL

\* The import is over when all that was pending is done.
LEMMA MergedWhenImported ==
  ASSUME ConfInv, Imported, quiet, Torn \notin {base, stands}
  PROVE  file = Merged(base, stands)
<1>1. todo = << >> /\ at[Import] = "idle" /\ Len(<< >>) = 0
  BY DEF Imported
<1>2. Working = file /\ \A c : ~Pending(c)
  BY <1>1 DEF Working, Pending, Has
<1>3. /\ Between(file, base, Merged(base, stands)) /\ file # Torn
      /\ \A c \in Making : IsMaker(stands, c) => Done(file, c)
  BY <1>2 DEF ConfInv, OnItsWay, ImportOnItsWay
<1> QED
  BY <1>3, AllDone DEF ConfInv, ConfTypeOK

\* The commands that "save" writes, as the command line reads them, executed in their
\* order on whatever whole configuration there is, make what the configuration that they
\* stand for makes of it: every one finds what it names, whatever was there before. They
\* stand for the saved configuration with each script and argument as the splitter and
\* the menu read them back.
THEOREM ImportCorrect == ConfSpec => []ImportMerges
<1>1. ConfInv => ImportMerges
  BY MergedWhenImported DEF ImportMerges
<1> QED
  BY <1>1, ConfInductive, PTL

\* What was saved and not edited since is there again after the import, if its scripts and
\* arguments have none of the symbols that are read back differently, and the container
\* ended where the configuration was whole or empty.
THEOREM SavedIsRestored == ConfSpec => []SavedSurvives
<1>1. ConfInv => SavedSurvives
  <2> SUFFICES ASSUME ConfInv, Imported, quiet, alone, base # Torn, Legible(promised),
                      stands = promised \/ (stands = Empty /\ kills <= 1 /\ renewals = 0)
               PROVE  file = promised
    BY DEF SavedSurvives
  <2>1. base \in Good /\ promised \in Good /\ Part(base, promised) /\ stands # Torn
    BY DEF ConfInv, ConfTypeOK, NothingElse, Parts
  <2>2. file = Merged(base, stands)
    BY <2>1, MergedWhenImported
  <2>3. CASE stands = promised
    BY <2>1, <2>2, <2>3, MergedWhole
  <2>4. CASE stands = Empty /\ kills <= 1 /\ renewals = 0
    <3>1. base = promised
      <4>1. kills = 0 \/ kills = 1
        BY <2>4 DEF ConfInv, ConfTypeOK
      <4> QED
        BY <2>4, <4>1 DEF ConfInv, FirstTime
    <3> QED
      BY <2>1, <2>2, <2>4, <3>1, MergedNothing
  <2> QED
    BY <2>3, <2>4
<1> QED
  BY <1>1, ConfInductive, PTL
=============================================================================
