---------------------------- MODULE RestartProofs ----------------------------
(***************************************************************************)
(* Proofs about restarts, for any number of sessions, devices and ports    *)
(* and any number of restarts.                                             *)
(***************************************************************************)
EXTENDS Restart, TLAPS

\* A session that may yet take something off the lists, and will then read the
\* configuration.
MayStop(t) == at[t] \in {"lists", "stops", "waits"}

\* The device Devices[j] is yet to be started, or a restart has given up before it.
ToBeStarted(j) ==
  \E t \in Session :
    \/ MayStop(t) \/ at[t] = "failed"
    \/ at[t] = "starts" /\ started[t] < j /\ will_start[t] = Len(Devices) + 1

\* Whatever one restart takes off the lists, itself starts again, if it reads the whole
\* configuration; and if it does not, the next one does that reads it: that is why
\* overlapping restarts do not undo each other in the end.
NothingForgotten ==
  whole =>
    \A j \in DOMAIN Devices : ToBeStarted(j) \/ \E p \in Port : m_map[p] = Devices[j]

Knows(d) ==
  m_device_map[newest][d] # 0 /\ m_map[m_device_map[newest][d]] = d

\* Nobody will take anything off the lists, or start a state machine.
Settled ==
  /\ whole
  /\ \A t \in Session : at[t] = "idle" \/ (at[t] = "starts" /\ will_start[t] <= Len(Devices))

\* Then what the newest state machine has heard is so, and it has heard of every device
\* it has not matched.
NewestIsRight ==
  Settled =>
    /\ newest # 0
    /\ machine[newest] = "matches" =>
         /\ \A q \in Port : heard[newest][q] # None => m_map[q] = heard[newest][q]
         /\ \A d \in Device : Knows(d) \/ \E q \in Port : heard[newest][q] = d
    /\ machine[newest] = "serves" => \A d \in Device : Knows(d)

Active(s) == at[s] \notin {"idle", "failed"}

\* Of what is to be started the first n are listed once, and the others not at all.
Placed(n) ==
  \A i \in 1 .. Len(Devices) + 1 :
    /\ i <= n => \E p \in Port : {q \in Port : m_map[q] = InOrder[i]} = {p}
    /\ i > n => \A p \in Port : m_map[p] # InOrder[i]

\* A restart that meets no other has listed all there is before it stops it, and has
\* stopped all before it starts anything.
AloneIsThorough ==
  alone =>
    /\ \A s, t \in Session : Active(s) /\ Active(t) => s = t
    /\ \A s \in Session, p \in Port :
         /\ MayStop(s) /\ m_map[p] \in Device => p \in dev_list[s]
         /\ at[s] \in {"stops", "waits"} /\ m_map[p] = Machine => p \in sm_list[s]
    /\ \A s \in Session :
         at[s] = "starts" =>
           Placed(started[s]) /\ (whole => will_start[s] = Len(Devices) + 1)
    /\ Rest => Placed(Len(Devices) + 1)

-----------------------------------------------------------------------------
(* What is started *)

LEMMA OrderFacts ==
  /\ Len(Devices) \in Nat
  /\ DOMAIN Devices = 1 .. Len(Devices)
  /\ \A i \in 1 .. Len(Devices) : InOrder[i] = Devices[i] /\ Devices[i] \in Device
  /\ InOrder[Len(Devices) + 1] = Machine /\ Len(InOrder) = Len(Devices) + 1
  /\ \A d \in Device : \E i \in 1 .. Len(Devices) : Devices[i] = d
  /\ None \notin Device /\ Machine \notin Device /\ Machine # None
<1>1. Devices \in Seq(Device) /\ Len(Devices) \in Nat /\ DOMAIN Devices = 1 .. Len(Devices)
  BY RestartAssumption
<1>2. \A i \in 1 .. Len(Devices) : InOrder[i] = Devices[i] /\ Devices[i] \in Device
  BY <1>1 DEF InOrder
<1>3. InOrder[Len(Devices) + 1] = Machine /\ Len(InOrder) = Len(Devices) + 1
  BY <1>1 DEF InOrder
<1>4. \A d \in Device : \E i \in 1 .. Len(Devices) : Devices[i] = d
  BY <1>1 DEF Device, Range
<1> QED BY <1>1, <1>2, <1>3, <1>4, RestartAssumption

LEMMA OrderIsOneToOne ==
  ASSUME NEW i \in 1 .. Len(Devices) + 1, NEW j \in 1 .. Len(Devices) + 1,
         InOrder[i] = InOrder[j]
  PROVE  i = j
<1>1. CASE i = Len(Devices) + 1 \/ j = Len(Devices) + 1
  BY <1>1, OrderFacts
<1>2. CASE i \in 1 .. Len(Devices) /\ j \in 1 .. Len(Devices)
  BY <1>2, OrderFacts, RestartAssumption
<1> QED BY <1>1, <1>2, OrderFacts

-----------------------------------------------------------------------------
(* Types *)

LEMMA InitType == Init => TypeOK
<1> SUFFICES ASSUME Init PROVE TypeOK
  OBVIOUS
<1>1. NoList \in [Port -> Device \cup {Machine, None}] /\ NoList \in [Port -> Device \cup {None}]
  BY DEF NoList
<1>2. Unmatched \in [Device -> Port \cup {0}]
  BY DEF Unmatched
<1>3. 0 \in 0 .. Len(Devices) /\ 0 \in 0 .. MaxRestarts /\ 0 \in 0 .. Len(InOrder)
  BY OrderFacts, RestartAssumption
<1> QED BY <1>1, <1>2, <1>3 DEF Init, TypeOK

LEMMA TakenOffType ==
  ASSUME TypeOK, NEW s \in Session, NEW p \in Port, TakenOff(s, p)
  PROVE  /\ at' \in [Session -> {"idle", "lists", "stops", "waits", "starts", "failed"}]
         /\ \A t \in Session : at'[t] = "starts" => at[t] = "starts"
         /\ waits_for' \in [Session -> Port \cup {0}]
         /\ m_map' \in [Port -> Device \cup {Machine, None}]
         /\ busy' \subseteq Port
         /\ machine' \in [Port -> {"none", "starts", "matches", "serves", "exited"}]
         /\ heard' \in [Port -> [Port -> Device \cup {None}]]
         /\ m_device_map' \in [Port -> [Device -> Port \cup {0}]]
  BY DEF TypeOK, TakenOff, NoList, Unmatched

LEMMA NextType == TypeOK /\ [Next]_vars => TypeOK'
<1> SUFFICES ASSUME TypeOK, [Next]_vars PROVE TypeOK'
  OBVIOUS
<1> USE DEF Goes, daemons, lists, session, sm, history
<1>1. ASSUME NEW s \in Session, get_device_list(s) PROVE TypeOK'
  <2>1. restarts' \in 0 .. MaxRestarts
    BY <1>1, RestartAssumption DEF TypeOK, get_device_list
  <2>2. DevicePorts \in SUBSET Port
    BY DEF DevicePorts
  <2>3. alone' \in BOOLEAN
    BY <1>1 DEF get_device_list
  <2> QED BY <1>1, <2>1, <2>2, <2>3 DEF TypeOK, get_device_list
<1>2. ASSUME NEW s \in Session, get_sm_list(s) PROVE TypeOK'
  BY <1>2 DEF TypeOK, get_sm_list
<1>3. ASSUME NEW s \in Session, NEW p \in Port, stop_device(s, p) PROVE TypeOK'
  BY <1>3, TakenOffType DEF TypeOK, stop_device
<1>4. ASSUME NEW s \in Session, NEW p \in Port, stop_sm(s, p) PROVE TypeOK'
  BY <1>4, TakenOffType DEF TypeOK, stop_sm
<1>5. ASSUME NEW s \in Session, NEW p \in Port, start_daemon(s, p) PROVE TypeOK'
  <2>1. /\ Len(Devices) \in Nat /\ started[s] \in 0 .. Len(Devices)
        /\ started[s] + 1 \in 1 .. Len(Devices) + 1
    BY OrderFacts DEF TypeOK
  <2>2. InOrder[started[s] + 1] \in Device \cup {Machine}
    BY <2>1, OrderFacts
  <2>3. m_map' \in [Port -> Device \cup {Machine, None}]
    BY <1>5, <2>2 DEF TypeOK, start_daemon
  <2>4. CASE started[s] + 1 = will_start[s]
    BY <1>5, <2>3, <2>4 DEF TypeOK, start_daemon
  <2>5. CASE started[s] + 1 # will_start[s]
    <3>1. /\ started[s] + 1 \in 0 .. Len(Devices) /\ started[s] + 1 < will_start[s]
      <4>1. started[s] < will_start[s] /\ will_start[s] \in 0 .. Len(Devices) + 1
        BY <1>5, OrderFacts DEF TypeOK, start_daemon
      <4> QED BY <2>1, <2>5, <4>1
    <3>2. started' = [started EXCEPT ![s] = started[s] + 1] /\ UNCHANGED <<at, will_start>>
      BY <1>5, <2>5 DEF start_daemon
    <3>3. started' \in [Session -> 0 .. Len(Devices)]
      BY <3>1, <3>2 DEF TypeOK
    <3>4. \A t \in Session : at'[t] = "starts" => started'[t] < will_start'[t]
      BY <3>1, <3>2 DEF TypeOK
    <3> QED BY <1>5, <2>3, <3>2, <3>3, <3>4 DEF TypeOK, start_daemon
  <2> QED BY <2>4, <2>5
<1>6. ASSUME NEW s \in Session, stop_returns(s) PROVE TypeOK'
  BY <1>6 DEF TypeOK, stop_returns
<1>7. ASSUME NEW s \in Session, read_config_file(s) PROVE TypeOK'
  <2>1. PICK n \in 0 .. Len(InOrder) :
          /\ at' = [at EXCEPT ![s] = IF n = 0 THEN "idle" ELSE "starts"]
          /\ will_start' = [will_start EXCEPT ![s] = n]
          /\ whole' = (n = Len(InOrder))
    BY <1>7 DEF read_config_file
  <2>2. started' = [started EXCEPT ![s] = 0] /\ 0 \in 0 .. Len(Devices)
    BY <1>7, OrderFacts DEF read_config_file
  <2>3. \A t \in Session : at'[t] = "starts" => started'[t] < will_start'[t]
    BY <2>1, <2>2, OrderFacts DEF TypeOK
  <2> QED BY <1>7, <2>1, <2>2, <2>3 DEF TypeOK, read_config_file
<1>8. ASSUME NEW s \in Session, start_fails(s) PROVE TypeOK'
  BY <1>8 DEF TypeOK, start_fails
<1>9. ASSUME NEW p \in Port, daemon_ends(p) PROVE TypeOK'
  BY <1>9 DEF TypeOK, daemon_ends
<1>10. ASSUME NEW p \in Port, sm_starts(p) PROVE TypeOK'
  <2>1. DeviceList \in [Port -> Device \cup {None}]
    BY DEF DeviceList
  <2>2. heard' \in [Port -> [Port -> Device \cup {None}]]
    BY <1>10, <2>1 DEF TypeOK, sm_starts
  <2>3. machine' \in [Port -> {"none", "starts", "matches", "serves", "exited"}]
    BY <1>10 DEF TypeOK, sm_starts
  <2> QED BY <1>10, <2>2, <2>3 DEF TypeOK, sm_starts
<1>11. ASSUME NEW p \in Port, begin(p) PROVE TypeOK'
  BY <1>11 DEF TypeOK, begin
<1>12. ASSUME NEW p \in Port, sm_fails(p) PROVE TypeOK'
  BY <1>12 DEF TypeOK, sm_fails, NoList, Unmatched
<1>13. ASSUME NEW p \in Port, NEW q \in Port, match_device(p, q) PROVE TypeOK'
  <2>1. heard[p][q] \in Device
    BY <1>13 DEF TypeOK, match_device, Heard
  <2> QED BY <1>13, <2>1 DEF TypeOK, match_device
<1>14. CASE UNCHANGED vars
  BY <1>14 DEF TypeOK, vars
<1> QED
  BY <1>1, <1>2, <1>3, <1>4, <1>5, <1>6, <1>7, <1>8, <1>9, <1>10, <1>11, <1>12, <1>13, <1>14
  DEF Next

\* What a restart that reads the whole configuration goes on with.
LEMMA ReadsWhole ==
  ASSUME TypeOK, NEW s \in Session, read_config_file(s), whole'
  PROVE  at'[s] = "starts" /\ started'[s] = 0 /\ will_start'[s] = Len(Devices) + 1
<1>1. PICK n \in 0 .. Len(InOrder) :
        /\ at' = [at EXCEPT ![s] = IF n = 0 THEN "idle" ELSE "starts"]
        /\ will_start' = [will_start EXCEPT ![s] = n]
        /\ whole' = (n = Len(InOrder))
  BY DEF read_config_file, Goes
<1>2. n = Len(InOrder)
  BY <1>1
<1>3. Len(InOrder) = Len(Devices) + 1 /\ Len(Devices) \in Nat
  BY OrderFacts
<1>4. n = Len(Devices) + 1 /\ n # 0
  BY <1>2, <1>3
<1>5. at'[s] = "starts" /\ will_start'[s] = n
  BY <1>1, <1>4 DEF TypeOK
<1>6. started'[s] = 0
  BY DEF read_config_file, TypeOK
<1> QED BY <1>4, <1>5, <1>6

-----------------------------------------------------------------------------
(* Nothing is forgotten *)

\* A session that may stop daemons, or has given up, excuses whatever is missing.
LEMMA ExcusedWhile ==
  ASSUME NEW s \in Session, (MayStop(s) \/ at[s] = "failed")'
  PROVE  NothingForgotten'
  BY DEF NothingForgotten, ToBeStarted

LEMMA NextNothingForgotten ==
  TypeOK /\ NothingForgotten /\ [Next]_vars => NothingForgotten'
<1> SUFFICES ASSUME TypeOK, NothingForgotten, [Next]_vars PROVE NothingForgotten'
  OBVIOUS
<1> USE DEF Goes, daemons, lists, session, sm, history
<1>1. ASSUME NEW s \in Session, get_device_list(s) PROVE NothingForgotten'
  <2>1. MayStop(s)'
    BY <1>1 DEF get_device_list, TypeOK, MayStop
  <2> QED BY <2>1, ExcusedWhile
<1>2. ASSUME NEW s \in Session, get_sm_list(s) PROVE NothingForgotten'
  <2>1. MayStop(s)'
    BY <1>2 DEF get_sm_list, TypeOK, MayStop
  <2> QED BY <2>1, ExcusedWhile
<1>3. ASSUME NEW s \in Session, NEW p \in Port, stop_device(s, p) PROVE NothingForgotten'
  <2>1. MayStop(s)'
    BY <1>3 DEF stop_device, TakenOff, TypeOK, MayStop
  <2> QED BY <2>1, ExcusedWhile
<1>4. ASSUME NEW s \in Session, NEW p \in Port, stop_sm(s, p) PROVE NothingForgotten'
  <2>1. MayStop(s)'
    BY <1>4 DEF stop_sm, TakenOff, TypeOK, MayStop
  <2> QED BY <2>1, ExcusedWhile
<1>5. ASSUME NEW s \in Session, NEW p \in Port, start_daemon(s, p) PROVE NothingForgotten'
  <2> SUFFICES ASSUME whole, NEW j \in DOMAIN Devices
               PROVE  ToBeStarted(j)' \/ \E q \in Port : m_map'[q] = Devices[j]
    BY <1>5 DEF start_daemon, NothingForgotten
  <2>1. /\ j \in 1 .. Len(Devices) /\ Len(Devices) \in Nat
        /\ InOrder[j] = Devices[j] /\ Devices[j] # None
    BY OrderFacts
  <2>2. started[s] \in 0 .. Len(Devices) /\ will_start[s] \in 0 .. Len(Devices) + 1
    BY OrderFacts DEF TypeOK
  <2>3. CASE \E q \in Port : m_map[q] = Devices[j]
    BY <1>5, <2>1, <2>3 DEF start_daemon, FreePorts, TypeOK
  <2>4. CASE started[s] + 1 = j
    BY <1>5, <2>1, <2>4 DEF start_daemon, TypeOK
  <2>5. ASSUME NEW t \in Session, started[s] + 1 # j,
               \/ MayStop(t) \/ at[t] = "failed"
               \/ at[t] = "starts" /\ started[t] < j /\ will_start[t] = Len(Devices) + 1
        PROVE  ToBeStarted(j)'
    <3>1. CASE t # s
      BY <1>5, <2>5, <3>1 DEF start_daemon, TypeOK, ToBeStarted, MayStop
    <3>2. CASE t = s
      <4>1. at[s] = "starts" /\ started[s] < j /\ will_start[s] = Len(Devices) + 1
        BY <1>5, <2>5, <3>2 DEF start_daemon, MayStop
      <4>5. started[s] + 1 # will_start[s]
        BY <2>1, <2>2, <2>5, <4>1
      <4>2. started'[s] = started[s] + 1 /\ at' = at /\ will_start' = will_start
        BY <1>5, <4>5 DEF start_daemon, TypeOK
      <4>3. started'[s] < j
        BY <2>1, <2>2, <2>5, <4>1, <4>2
      <4> QED BY <4>1, <4>2, <4>3 DEF ToBeStarted
    <3> QED BY <3>1, <3>2
  <2> QED BY <2>3, <2>4, <2>5 DEF NothingForgotten, ToBeStarted
<1>6. ASSUME NEW s \in Session, stop_returns(s) PROVE NothingForgotten'
  <2>1. MayStop(s)'
    BY <1>6 DEF stop_returns, TypeOK, MayStop
  <2> QED BY <2>1, ExcusedWhile
<1>7. ASSUME NEW s \in Session, read_config_file(s) PROVE NothingForgotten'
  <2> SUFFICES ASSUME whole'
               PROVE  NothingForgotten'
    BY DEF NothingForgotten
  <2>1. at'[s] = "starts" /\ started'[s] = 0 /\ will_start'[s] = Len(Devices) + 1
    BY <1>7, ReadsWhole
  <2>2. \A j \in DOMAIN Devices : 0 < j
    BY OrderFacts
  <2> QED BY <2>1, <2>2 DEF NothingForgotten, ToBeStarted
<1>8. ASSUME NEW s \in Session, start_fails(s) PROVE NothingForgotten'
  <2>1. at'[s] = "failed"
    BY <1>8 DEF start_fails, TypeOK
  <2> QED BY <2>1, ExcusedWhile
<1>9. CASE UNCHANGED <<m_map, session, whole>>
  BY <1>9 DEF NothingForgotten, ToBeStarted, MayStop
<1>10. ASSUME NEW p \in Port,
              \/ daemon_ends(p) \/ sm_starts(p) \/ begin(p) \/ sm_fails(p)
              \/ \E q \in Port : match_device(p, q)
       PROVE  UNCHANGED <<m_map, session, whole>>
  BY <1>10 DEF daemon_ends, sm_starts, begin, sm_fails, match_device
<1> QED
  BY <1>1, <1>2, <1>3, <1>4, <1>5, <1>6, <1>7, <1>8, <1>9, <1>10 DEF Next, vars

-----------------------------------------------------------------------------
(* The newest state machine *)

LEMMA UnsettledWhile ==
  ASSUME NEW s \in Session, at'[s] \notin {"idle", "starts"}
  PROVE  ~Settled'
  BY DEF Settled

LEMMA NextNewestIsRight ==
  TypeOK /\ NothingForgotten /\ NewestIsRight /\ [Next]_vars => NewestIsRight'
<1> SUFFICES ASSUME TypeOK, NothingForgotten, NewestIsRight, [Next]_vars, Settled'
             PROVE  NewestIsRight'
  BY DEF NewestIsRight
<1> USE DEF Goes, daemons, lists, session, sm, history
<1>1. ASSUME NEW s \in Session,
             get_device_list(s) \/ get_sm_list(s) \/ stop_returns(s) \/ start_fails(s)
      PROVE  FALSE
  <2>1. at'[s] \notin {"idle", "starts"}
    BY <1>1 DEF get_device_list, get_sm_list, stop_returns, start_fails, TypeOK
  <2> QED BY <2>1, UnsettledWhile
<1>13. ASSUME NEW s \in Session, read_config_file(s) PROVE FALSE
  <2>1. whole'
    BY DEF Settled
  <2>3. at'[s] = "starts" /\ will_start'[s] = Len(Devices) + 1
    BY <1>13, <2>1, ReadsWhole
  <2>4. ~(Len(Devices) + 1 <= Len(Devices))
    BY OrderFacts
  <2> QED BY <2>3, <2>4 DEF Settled
<1>2. ASSUME NEW s \in Session, NEW p \in Port, stop_device(s, p) \/ stop_sm(s, p)
      PROVE  FALSE
  <2>1. at'[s] \notin {"idle", "starts"}
    BY <1>2 DEF stop_device, stop_sm, TakenOff, TypeOK
  <2> QED BY <2>1, UnsettledWhile
<1>3. ASSUME NEW s \in Session, NEW p \in Port, start_daemon(s, p) PROVE NewestIsRight'
  <2> DEFINE what == InOrder[started[s] + 1]
  <2>1. /\ started[s] \in 0 .. Len(Devices) /\ will_start[s] \in 0 .. Len(Devices) + 1
        /\ started[s] < will_start[s] /\ Len(Devices) \in Nat
    BY <1>3, OrderFacts DEF TypeOK, start_daemon
  <2>2. CASE what = Machine
    <3>1. newest' = p /\ machine'[p] = "starts"
      BY <1>3, <2>2 DEF start_daemon, TypeOK
    <3>2. p # 0
      BY RestartAssumption DEF Port
    <3> QED BY <3>1, <3>2 DEF NewestIsRight
  <2>3. CASE what # Machine
    <3>1. started[s] # Len(Devices)
      BY <2>3, OrderFacts
    <3>2. /\ what \in Device /\ m_map[p] = None /\ what # None
          /\ m_map' = [m_map EXCEPT ![p] = what]
          /\ UNCHANGED <<newest, machine, heard, m_device_map, will_start, whole>>
      <4>1. started[s] + 1 \in 1 .. Len(Devices)
        BY <2>1, <3>1
      <4> QED BY <1>3, <2>3, <4>1, OrderFacts DEF start_daemon, FreePorts
    <3>3. will_start[s] <= Len(Devices)
      <4>1. CASE started[s] + 1 = will_start[s]
        BY <2>1, <3>1, <4>1
      <4>2. CASE started[s] + 1 # will_start[s]
        <5>1. at' = at
          BY <1>3, <4>2 DEF start_daemon
        <5>2. at[s] = "starts"
          BY <1>3 DEF start_daemon
        <5> QED BY <3>2, <5>1, <5>2 DEF Settled
      <4> QED BY <4>1, <4>2
    <3>4. Settled
      <4>1. at[s] = "starts" /\ \A t \in Session \ {s} : at'[t] = at[t]
        BY <1>3 DEF start_daemon, TypeOK
      <4> QED BY <3>2, <3>3, <4>1 DEF Settled
    <3>5. newest \in Port
      BY <3>4 DEF NewestIsRight, TypeOK
    <3>6. \A q \in Port : m_map[q] # None => m_map'[q] = m_map[q]
      BY <3>2 DEF TypeOK
    <3>7. \A d \in Device : m_device_map[newest][d] \in Port \cup {0} /\ d # None
      BY <3>5, OrderFacts DEF TypeOK
    <3>8. \A d \in Device : Knows(d) => Knows(d)'
      BY <3>2, <3>6, <3>7 DEF Knows
    <3> QED BY <3>2, <3>4, <3>6, <3>8 DEF NewestIsRight
  <2> QED BY <2>2, <2>3
<1>4. ASSUME UNCHANGED <<m_map, session, restarts, history>> PROVE Settled
  BY <1>4 DEF Settled
<1>5. ASSUME Settled PROVE newest \in Port
  BY <1>5 DEF NewestIsRight, TypeOK
<1>6. ASSUME Settled, NEW d \in Device PROVE \E q \in Port : m_map[q] = d
  <2>1. PICK j \in DOMAIN Devices : Devices[j] = d
    BY OrderFacts
  <2>2. ~ToBeStarted(j)
    BY <1>6, OrderFacts DEF ToBeStarted, MayStop, Settled
  <2> QED BY <1>6, <2>1, <2>2 DEF NothingForgotten, Settled
<1>7. ASSUME NEW p \in Port, daemon_ends(p) PROVE NewestIsRight'
  BY <1>4, <1>7 DEF daemon_ends, NewestIsRight, Knows
<1>8. ASSUME NEW p \in Port, sm_starts(p) PROVE NewestIsRight'
  <2>1. Settled /\ newest \in Port /\ newest # 0
    BY <1>4, <1>5, <1>8 DEF sm_starts, NewestIsRight
  <2>2. CASE p # newest
    BY <1>8, <2>1, <2>2 DEF sm_starts, NewestIsRight, Knows, TypeOK
  <2>3. CASE p = newest /\ p \in busy
    BY <1>8, <2>1, <2>3 DEF sm_starts, NewestIsRight, Knows, TypeOK
  <2>4. CASE p = newest /\ p \notin busy
    <3>1. machine'[newest'] = "matches" /\ heard'[newest'] = DeviceList
      BY <1>8, <2>4 DEF sm_starts, TypeOK
    <3>2. \A q \in Port : DeviceList[q] # None => m_map[q] = DeviceList[q]
      BY DEF DeviceList
    <3>3. \A d \in Device : \E q \in Port : DeviceList[q] = d
      BY <1>6, <2>1 DEF DeviceList
    <3> QED BY <1>8, <2>1, <3>1, <3>2, <3>3 DEF sm_starts, NewestIsRight
  <2> QED BY <2>2, <2>3, <2>4
<1>9. ASSUME NEW p \in Port, NEW q \in Port, match_device(p, q) PROVE NewestIsRight'
  <2>1. Settled /\ newest \in Port /\ newest # 0
    BY <1>4, <1>5, <1>9 DEF match_device, NewestIsRight
  <2>2. CASE p # newest
    BY <1>9, <2>1, <2>2 DEF match_device, NewestIsRight, Knows, TypeOK
  <2>3. CASE p = newest
    <3>1. PICK e \in Device : e = heard[newest][q] /\ m_map[q] = e
      BY <1>9, <2>1, <2>3 DEF match_device, Heard, NewestIsRight, TypeOK
    <3>2. /\ m_device_map' = [m_device_map EXCEPT ![newest][e] = q]
          /\ heard' = [heard EXCEPT ![newest][q] = None]
          /\ UNCHANGED <<m_map, machine, newest>>
          /\ machine[newest] = "matches" /\ q # 0
      BY <1>9, <2>3, <3>1, RestartAssumption DEF match_device, Port
    <3>3. \A d \in Device : m_device_map'[newest][d] = IF d = e THEN q ELSE m_device_map[newest][d]
      BY <2>1, <3>2 DEF TypeOK
    <3>4. \A r \in Port : heard'[newest][r] = IF r = q THEN None ELSE heard[newest][r]
      BY <2>1, <3>2 DEF TypeOK
    <3>5. Knows(e)'
      BY <3>1, <3>2, <3>3 DEF Knows
    <3>6. ASSUME NEW d \in Device, d # e PROVE Knows(d)' \/ \E r \in Port : heard'[newest][r] = d
      <4>1. CASE Knows(d)
        BY <3>2, <3>3, <3>6, <4>1 DEF Knows
      <4>2. CASE \E r \in Port : heard[newest][r] = d
        BY <3>1, <3>4, <3>6, <4>2
      <4> QED BY <2>1, <3>2, <4>1, <4>2 DEF NewestIsRight
    <3>7. \A r \in Port : heard'[newest][r] # None => m_map'[r] = heard'[newest][r]
      BY <2>1, <3>2, <3>4 DEF NewestIsRight
    <3> QED BY <2>1, <3>2, <3>5, <3>6, <3>7 DEF NewestIsRight
  <2> QED BY <2>2, <2>3
<1>10. ASSUME NEW p \in Port, begin(p) PROVE NewestIsRight'
  <2>1. Settled /\ newest \in Port /\ newest # 0
    BY <1>4, <1>5, <1>10 DEF begin, NewestIsRight
  <2>2. CASE p # newest
    BY <1>10, <2>1, <2>2 DEF begin, NewestIsRight, Knows, TypeOK
  <2>3. CASE p = newest
    <3>1. \A q \in Port : heard[newest][q] \notin Device
      BY <1>10, <2>3, OrderFacts DEF begin, Heard
    <3>2. \A d \in Device : Knows(d)
      BY <1>10, <2>1, <2>3, <3>1 DEF begin, NewestIsRight
    <3>3. machine'[newest'] = "serves"
      BY <1>10, <2>3 DEF begin, TypeOK
    <3> QED BY <1>10, <2>1, <3>2, <3>3 DEF begin, NewestIsRight, Knows
  <2> QED BY <2>2, <2>3
<1>11. ASSUME NEW p \in Port, sm_fails(p) PROVE NewestIsRight'
  <2>1. Settled /\ newest \in Port /\ newest # 0
    BY <1>4, <1>5, <1>11 DEF sm_fails, NewestIsRight
  <2>2. CASE p # newest
    BY <1>11, <2>1, <2>2 DEF sm_fails, NewestIsRight, Knows, TypeOK
  <2>3. CASE p = newest
    BY <1>11, <2>1, <2>3 DEF sm_fails, NewestIsRight, TypeOK
  <2> QED BY <2>2, <2>3
<1>12. CASE UNCHANGED vars
  BY <1>4, <1>12 DEF vars, NewestIsRight, Knows
<1> QED
  BY <1>1, <1>2, <1>3, <1>7, <1>8, <1>9, <1>10, <1>11, <1>12, <1>13 DEF Next

-----------------------------------------------------------------------------
(* A restart that meets no other *)

LEMMA NextAlone ==
  TypeOK /\ AloneIsThorough /\ [Next]_vars => AloneIsThorough'
<1> SUFFICES ASSUME TypeOK, AloneIsThorough, [Next]_vars, alone'
             PROVE  AloneIsThorough'
  BY DEF AloneIsThorough
<1> USE DEF Goes, daemons, lists, session, sm, history
<1>1. ASSUME NEW s \in Session, get_device_list(s) PROVE AloneIsThorough'
  <2>1. at' = [at EXCEPT ![s] = "lists"] /\ dev_list' = [dev_list EXCEPT ![s] = DevicePorts]
        /\ UNCHANGED m_map
    BY <1>1 DEF get_device_list
  <2>2. at'[s] = "lists" /\ \A t \in Session \ {s} : at'[t] \in {"idle", "failed"}
    BY <1>1, <2>1 DEF get_device_list, TypeOK
  <2>3. ~Rest'
    BY <2>2 DEF Rest
  <2>4. \A p \in Port : m_map'[p] \in Device => p \in dev_list'[s]
    BY <2>1 DEF TypeOK, DevicePorts
  <2> QED BY <2>2, <2>3, <2>4 DEF AloneIsThorough, Active, MayStop
<1>2. ASSUME NEW s \in Session, Active(s), alone, NEW t \in Session, t # s
      PROVE  at[t] \in {"idle", "failed"}
  BY <1>2 DEF AloneIsThorough, Active
<1>3. ASSUME NEW s \in Session, get_sm_list(s) PROVE AloneIsThorough'
  <2>1. /\ alone /\ at[s] = "lists" /\ at' = [at EXCEPT ![s] = "stops"]
        /\ sm_list' = [sm_list EXCEPT ![s] = {p \in Port : m_map[p] = Machine}]
        /\ UNCHANGED <<m_map, dev_list>>
    BY <1>3 DEF get_sm_list
  <2>2. at'[s] = "stops" /\ \A t \in Session \ {s} : at'[t] \in {"idle", "failed"}
    BY <1>2, <2>1 DEF TypeOK, Active
  <2>3. ~Rest'
    BY <2>2 DEF Rest
  <2>4. \A p \in Port : /\ m_map'[p] \in Device => p \in dev_list'[s]
                        /\ m_map'[p] = Machine => p \in sm_list'[s]
    BY <2>1 DEF AloneIsThorough, MayStop, TypeOK
  <2> QED BY <2>2, <2>3, <2>4 DEF AloneIsThorough, Active, MayStop
<1>4. ASSUME NEW s \in Session, NEW p \in Port, stop_device(s, p) PROVE AloneIsThorough'
  <2>1. alone /\ at[s] = "stops" /\ dev_list' = [dev_list EXCEPT ![s] = @ \ {p}] /\ UNCHANGED sm_list
    BY <1>4 DEF stop_device
  <2>2. at'[s] \in {"stops", "waits"} /\ \A t \in Session \ {s} : at'[t] \in {"idle", "failed"}
    BY <1>2, <1>4, <2>1 DEF stop_device, TakenOff, TypeOK, Active
  <2>3. ~Rest'
    BY <2>2 DEF Rest
  <2>4. \A q \in Port : m_map'[q] # None => m_map'[q] = m_map[q]
    BY <1>4 DEF stop_device, TakenOff, TypeOK
  <2>5. m_map'[p] \notin Device
    BY <1>4, OrderFacts DEF stop_device, TakenOff, TypeOK
  <2>6. \A q \in Port : /\ m_map'[q] \in Device => q \in dev_list'[s]
                        /\ m_map'[q] = Machine => q \in sm_list'[s]
    BY <2>1, <2>4, <2>5, OrderFacts DEF AloneIsThorough, MayStop, TypeOK
  <2> QED BY <2>2, <2>3, <2>6 DEF AloneIsThorough, Active, MayStop
<1>5. ASSUME NEW s \in Session, NEW p \in Port, stop_sm(s, p) PROVE AloneIsThorough'
  <2>1. alone /\ at[s] = "stops" /\ sm_list' = [sm_list EXCEPT ![s] = @ \ {p}] /\ UNCHANGED dev_list
    BY <1>5 DEF stop_sm
  <2>2. at'[s] \in {"stops", "waits"} /\ \A t \in Session \ {s} : at'[t] \in {"idle", "failed"}
    BY <1>2, <1>5, <2>1 DEF stop_sm, TakenOff, TypeOK, Active
  <2>3. ~Rest'
    BY <2>2 DEF Rest
  <2>4. \A q \in Port : m_map'[q] # None => m_map'[q] = m_map[q]
    BY <1>5 DEF stop_sm, TakenOff, TypeOK
  <2>5. m_map'[p] # Machine
    BY <1>5, OrderFacts DEF stop_sm, TakenOff, TypeOK
  <2>6. \A q \in Port : /\ m_map'[q] \in Device => q \in dev_list'[s]
                        /\ m_map'[q] = Machine => q \in sm_list'[s]
    BY <2>1, <2>4, <2>5, OrderFacts DEF AloneIsThorough, MayStop, TypeOK
  <2> QED BY <2>2, <2>3, <2>6 DEF AloneIsThorough, Active, MayStop
<1>6. ASSUME NEW s \in Session, stop_returns(s) PROVE AloneIsThorough'
  <2>1. alone /\ at[s] = "waits" /\ at' = [at EXCEPT ![s] = "stops"] /\ UNCHANGED <<m_map, lists>>
    BY <1>6 DEF stop_returns
  <2>2. at'[s] = "stops" /\ \A t \in Session \ {s} : at'[t] \in {"idle", "failed"}
    BY <1>2, <2>1 DEF TypeOK, Active
  <2>3. ~Rest'
    BY <2>2 DEF Rest
  <2>4. \A q \in Port : /\ m_map'[q] \in Device => q \in dev_list'[s]
                        /\ m_map'[q] = Machine => q \in sm_list'[s]
    BY <2>1 DEF AloneIsThorough, MayStop
  <2> QED BY <2>2, <2>3, <2>4 DEF AloneIsThorough, Active, MayStop
<1>7. ASSUME NEW s \in Session, read_config_file(s) PROVE AloneIsThorough'
  <2>0. PICK n \in 0 .. Len(InOrder) :
          /\ at[s] = "stops" /\ at' = [at EXCEPT ![s] = IF n = 0 THEN "idle" ELSE "starts"]
          /\ will_start' = [will_start EXCEPT ![s] = n]
          /\ whole' = (n = Len(InOrder))
    BY <1>7 DEF read_config_file
  <2>1. /\ alone /\ UNCHANGED m_map
        /\ dev_list[s] = {} /\ sm_list[s] = {} /\ started' = [started EXCEPT ![s] = 0]
    BY <1>7 DEF read_config_file
  <2>2. /\ at'[s] \in {"idle", "starts"} /\ started'[s] = 0 /\ will_start'[s] = n
        /\ \A t \in Session \ {s} : at'[t] \in {"idle", "failed"}
    BY <1>2, <2>0, <2>1 DEF TypeOK, Active
  <2>3. ~Rest'
    <3>1. ASSUME whole' PROVE at'[s] = "starts"
      BY <1>7, <3>1, ReadsWhole
    <3> QED BY <3>1 DEF Rest
  <2>4. \A q \in Port : m_map'[q] \notin Device \cup {Machine}
    BY <2>0, <2>1 DEF AloneIsThorough, MayStop
  <2>5. \A i \in 1 .. Len(Devices) + 1 : InOrder[i] \in Device \cup {Machine}
    BY OrderFacts
  <2>6. Placed(0)'
    BY <2>4, <2>5, OrderFacts DEF Placed
  <2>7. whole' => will_start'[s] = Len(Devices) + 1
    BY <1>7, ReadsWhole
  <2> QED BY <2>2, <2>3, <2>6, <2>7 DEF AloneIsThorough, Active, MayStop
<1>8. ASSUME NEW s \in Session, NEW p \in Port, start_daemon(s, p) PROVE AloneIsThorough'
  <2> DEFINE n == started[s] + 1
  <2>1. /\ alone /\ at[s] = "starts" /\ p \in FreePorts
        /\ m_map' = [m_map EXCEPT ![p] = InOrder[n]]
    BY <1>8 DEF start_daemon
  <2>2. \A t \in Session \ {s} : at'[t] \in {"idle", "failed"}
    BY <1>2, <1>8, <2>1 DEF start_daemon, TypeOK, Active
  <2>3. Len(Devices) \in Nat /\ started[s] \in 0 .. Len(Devices) /\ n \in 1 .. Len(Devices) + 1
    BY OrderFacts DEF TypeOK
  <2>4. Placed(started[s])
    BY <2>1 DEF AloneIsThorough
  <2>5. ASSUME NEW i \in 1 .. Len(Devices) + 1, i > n
        PROVE  \A q \in Port : m_map'[q] # InOrder[i]
    <3>1. i # n /\ i > started[s]
      BY <2>3, <2>5
    <3>2. InOrder[i] # InOrder[n]
      BY <2>3, <3>1, OrderIsOneToOne
    <3>3. \A q \in Port : m_map[q] # InOrder[i]
      BY <2>4, <3>1 DEF Placed
    <3> QED BY <2>1, <3>2, <3>3 DEF TypeOK
  <2>6. {q \in Port : m_map'[q] = InOrder[n]} = {p}
    BY <2>1, <2>3, <2>4 DEF Placed, TypeOK
  <2>7. ASSUME NEW i \in 1 .. Len(Devices) + 1, i < n
        PROVE  \E q \in Port : {r \in Port : m_map'[r] = InOrder[i]} = {q}
    <3>1. PICK q \in Port : {r \in Port : m_map[r] = InOrder[i]} = {q}
      BY <2>3, <2>4, <2>7 DEF Placed
    <3>2. InOrder[i] # InOrder[n] /\ InOrder[i] # None
      BY <2>3, <2>7, OrderIsOneToOne, OrderFacts
    <3>3. q # p
      BY <2>1, <3>1, <3>2 DEF FreePorts
    <3> QED BY <2>1, <3>1, <3>2, <3>3 DEF TypeOK
  <2>8. ASSUME NEW k \in Nat, k = n PROVE Placed(k)'
    <3> SUFFICES ASSUME NEW i \in 1 .. Len(Devices) + 1
                 PROVE  /\ i <= k => \E q \in Port : {r \in Port : m_map'[r] = InOrder[i]} = {q}
                        /\ i > k => \A q \in Port : m_map'[q] # InOrder[i]
      BY DEF Placed
    <3>1. i \in Nat /\ n \in Nat /\ (i < n \/ i = n \/ i > n)
      BY <2>3
    <3>2. p \in Port
      OBVIOUS
    <3>3. CASE i < n
      BY <2>7, <2>8, <3>1, <3>3
    <3>4. CASE i = n
      BY <2>6, <2>8, <3>1, <3>2, <3>4
    <3>5. CASE i > n
      BY <2>5, <2>8, <3>1, <3>5
    <3> QED BY <3>1, <3>3, <3>4, <3>5
  <2>9. CASE n = will_start[s]
    <3>1. at'[s] = "idle"
      BY <1>8, <2>9 DEF start_daemon, TypeOK
    <3>2. \A t \in Session : at'[t] \in {"idle", "failed"}
      BY <2>2, <3>1
    <3>3. whole => n = Len(Devices) + 1
      BY <2>1, <2>9 DEF AloneIsThorough
    <3>4. whole => Placed(Len(Devices) + 1)'
      BY <2>3, <2>8, <3>3
    <3>5. Rest' => whole
      BY <1>8 DEF Rest, start_daemon
    <3>6. \A t \in Session : ~Active(t)' /\ ~MayStop(t)' /\ at'[t] # "starts"
      BY <3>2 DEF Active, MayStop
    <3> QED BY <3>4, <3>5, <3>6 DEF AloneIsThorough, MayStop
  <2>10. CASE n # will_start[s]
    <3>1. at'[s] = "starts" /\ started'[s] = n /\ UNCHANGED <<whole, will_start>>
      BY <1>8, <2>1, <2>10 DEF start_daemon, TypeOK
    <3>2. Placed(started[s])'
      BY <2>3, <2>8, <3>1
    <3>3. ~Rest'
      BY <3>1 DEF Rest
    <3>4. whole => will_start[s] = Len(Devices) + 1
      BY <2>1 DEF AloneIsThorough
    <3> QED BY <2>2, <3>1, <3>2, <3>3, <3>4 DEF AloneIsThorough, Active, MayStop
  <2> QED BY <2>9, <2>10
<1>9. ASSUME NEW s \in Session, start_fails(s) PROVE AloneIsThorough'
  <2>1. alone /\ at[s] = "starts" /\ at' = [at EXCEPT ![s] = "failed"]
    BY <1>9 DEF start_fails
  <2>2. at'[s] = "failed" /\ \A t \in Session : at'[t] \in {"idle", "failed"}
    BY <1>2, <2>1 DEF TypeOK, Active
  <2>3. ~Rest'
    BY <2>2 DEF Rest
  <2> QED BY <2>2, <2>3 DEF AloneIsThorough, Active, MayStop
<1>10. CASE UNCHANGED <<m_map, session, restarts, history>>
  BY <1>10 DEF AloneIsThorough, Active, MayStop, Placed, Rest
<1>11. ASSUME NEW p \in Port,
              \/ daemon_ends(p) \/ sm_starts(p) \/ begin(p) \/ sm_fails(p)
              \/ \E q \in Port : match_device(p, q)
       PROVE  UNCHANGED <<m_map, session, restarts, history>>
  BY <1>11 DEF daemon_ends, sm_starts, begin, sm_fails, match_device
<1> QED
  BY <1>1, <1>3, <1>4, <1>5, <1>6, <1>7, <1>8, <1>9, <1>10, <1>11 DEF Next, vars

-----------------------------------------------------------------------------
(* The theorems *)

IInv == TypeOK /\ NothingForgotten /\ NewestIsRight /\ AloneIsThorough

\* Types, and what makes restarts come out right, are kept by every step.
THEOREM RestartInductive == Spec => []IInv
<1>1. Init => IInv
  BY InitType DEF Init, IInv, NothingForgotten, NewestIsRight, AloneIsThorough, Rest, Settled
<1>2. IInv /\ [Next]_vars => IInv'
  BY NextType, NextNothingForgotten, NextNewestIsRight, NextAlone DEF IInv
<1> QED BY <1>1, <1>2, PTL DEF Spec

\* Every variable of a restart keeps its type.
THEOREM RestartTypeCorrect == Spec => []TypeOK
<1>1. IInv => TypeOK
  BY DEF IInv
<1> QED BY <1>1, RestartInductive, PTL

\* However restarts overlap and whatever parts of the configuration others have read, in
\* the end, if the last one to read it has read all of it, the newest state machine calls
\* every device at a port at which it is listed.
THEOREM DevicesAreFound == Spec => []MachineFindsDevices
<1>1. IInv => MachineFindsDevices
  BY DEF IInv, NewestIsRight, MachineFindsDevices, Knows, Rest, Settled
<1> QED BY <1>1, RestartInductive, PTL

\* A restart that meets no other and reads the whole configuration leaves one daemon of
\* each, whatever was there.
THEOREM RestartIsThorough == Spec => []OneOfEach
<1>1. ASSUME IInv, Rest, alone, NEW what \in Device \cup {Machine}
      PROVE  \E p \in Port : {q \in Port : m_map[q] = what} = {p}
  <2>1. PICK i \in 1 .. Len(Devices) + 1 : InOrder[i] = what
    <3>1. CASE what \in Device
      <4>1. PICK j \in 1 .. Len(Devices) : Devices[j] = what
        BY <3>1, OrderFacts
      <4>2. j \in 1 .. Len(Devices) + 1 /\ InOrder[j] = what
        BY <4>1, OrderFacts
      <4> QED BY <4>2
    <3>2. CASE what = Machine
      BY <3>2, OrderFacts
    <3> QED BY <3>1, <3>2
  <2>2. i <= Len(Devices) + 1
    BY OrderFacts
  <2> QED BY <1>1, <2>1, <2>2 DEF IInv, AloneIsThorough, Placed
<1>2. IInv => OneOfEach
  BY <1>1 DEF OneOfEach
<1> QED BY <1>2, RestartInductive, PTL
=============================================================================
