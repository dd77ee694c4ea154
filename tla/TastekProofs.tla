---------------------------- MODULE TastekProofs ----------------------------
(***************************************************************************)
(* Proofs about the chute: first the relay logic by itself (RelayDriver),  *)
(* for every percentage and every travel time, then the Tastek driver, for *)
(* every set of openings and number of retries: what holds of the relay    *)
(* logic holds in the process that crashes and restarts around it, and a    *)
(* Modbus loop without failures leaves the PLC as the driver wants it.     *)
(* Last, what the page shows of it and of the other devices (StateSync),    *)
(* for any number of pushes that overlap.                                  *)
(***************************************************************************)
EXTENDS Tastek, StateSync, FiniteSetTheorems, TLAPS

-----------------------------------------------------------------------------
(* THE RELAY LOGIC *)

\* The motion in each direction has room left: while opening, the counted position is
\* below its limit even after a command for the position just reached.
RoomLeft ==
  /\ m_relay_state = "HOLD_OPEN" => m_state_stay_position < MaxPosition
  /\ m_relay_state = "HOLD_CLOSE" => m_state_stay_position > 0

IInv ==
  /\ RelayTypeOK
  /\ PositionInRange
  /\ RoomLeft
  /\ HeadsForTarget
  /\ RestsNearTarget
  /\ CoilsFollowState

-----------------------------------------------------------------------------
(* Integer division by the travel speed *)

\* Dividing is monotonic.
LEMMA DivMonotonic ==
  ASSUME NEW d \in Nat \ {0}, NEW a \in Nat, NEW b \in Nat, a <= b
  PROVE  a \div d \in Nat /\ a \div d <= b \div d
<1> DEFINE p == a \div d
           q == b \div d
<1>1. p \in Int /\ q \in Int
  OBVIOUS
<1>2. d * p <= a /\ b < d * (q + 1)
  OBVIOUS
<1>3. a < d * (p + 1)
  OBVIOUS
<1> HIDE DEF p, q
<1>4. d * p < d * (q + 1)
  BY <1>1, <1>2
<1>5. p < q + 1
  BY <1>1, <1>4
<1>6. p + 1 > 0
  BY <1>1, <1>3
<1> QED
  BY <1>1, <1>5, <1>6 DEF p, q

\* A command's position is one that can be counted to.
LEMMA PositionOfType ==
  ASSUME NEW t \in Threshold
  PROVE  PositionOf(t) \in 0 .. MaxPosition
<1>1. t \in Nat /\ t <= 100 /\ position_coe \in Nat \ {0}
  BY ThresholdAssumption, CoeAssumption
<1>2. PositionOf(t) \in Nat /\ PositionOf(t) <= MaxPosition
  BY <1>1, DivMonotonic DEF PositionOf, MaxPosition
<1>3. MaxPosition \in Int
  BY <1>1 DEF MaxPosition
<1> QED
  BY <1>2, <1>3

LEMMA MaxPositionType == MaxPosition \in Nat
<1>1. 100 \in Nat /\ position_coe \in Nat \ {0}
  BY CoeAssumption
<1> QED
  BY <1>1, DivMonotonic DEF MaxPosition

-----------------------------------------------------------------------------
(* relay_do_action *)

\* The two commands of a request leave on the coil of that state, and no other.
LEMMA SwitchedHolds ==
  ASSUME NEW on \in SUBSET Coil, NEW req \in lc_relay_state_t
  PROVE  /\ Switched(on, req) \in SUBSET Coil
         /\ "open" \in Switched(on, req) <=> req = "HOLD_OPEN"
         /\ "close" \in Switched(on, req) <=> req = "HOLD_CLOSE"
<1>1. CASE req = "HOLD_OPEN"
  <2>1. Switched(on, req) = (on \ {"close"}) \cup {"open"}
    BY <1>1 DEF Switched, open_close_lc_cmd
  <2> QED
    BY <1>1, <2>1 DEF Coil
<1>2. CASE req = "HOLD_CLOSE"
  <2>1. Switched(on, req) = (on \ {"open"}) \cup {"close"}
    BY <1>2 DEF Switched, open_close_lc_cmd
  <2> QED
    BY <1>2, <2>1 DEF Coil
<1>3. CASE req = "STOP"
  <2>1. Switched(on, req) = (on \ {"open"}) \ {"close"}
    BY <1>3 DEF Switched, open_close_lc_cmd
  <2> QED
    BY <1>3, <2>1 DEF Coil
<1> QED
  BY <1>1, <1>2, <1>3 DEF lc_relay_state_t

\* Whatever the request, the relays end in the state asked for, and the coils
\* that are wanted on are those of that state.
LEMMA ActionSetsCoils ==
  ASSUME CoilsFollowState, m_relay_state \in lc_relay_state_t,
         coils \in SUBSET Coil,
         NEW req \in lc_relay_state_t, relay_do_action(req)
  PROVE  m_relay_state' = req /\ CoilsFollowState' /\ coils' \in SUBSET Coil
<1>1. CASE m_relay_state = req
  <2>1. m_relay_state' = m_relay_state /\ coils' = coils
    BY <1>1 DEF relay_do_action
  <2> QED
    BY <1>1, <2>1 DEF CoilsFollowState
<1>2. CASE m_relay_state # req
  <2>1. m_relay_state' = req
    BY <1>2 DEF relay_do_action
  <2>2. "STOP" \in lc_relay_state_t
    BY DEF lc_relay_state_t
  <2>3. PICK on \in SUBSET Coil : coils' = Switched(on, req)
    <3>1. CASE coils' = Switched(coils, req)
      BY <3>1
    <3>2. CASE coils' = Switched(Switched(coils, "STOP"), req)
      BY <2>2, <3>2, SwitchedHolds
    <3> QED
      BY <1>2, <3>1, <3>2 DEF relay_do_action
  <2>4. /\ coils' \in SUBSET Coil
        /\ "open" \in coils' <=> req = "HOLD_OPEN"
        /\ "close" \in coils' <=> req = "HOLD_CLOSE"
    BY <2>3, SwitchedHolds
  <2> QED
    BY <2>1, <2>4 DEF CoilsFollowState
<1> QED
  BY <1>1, <1>2

-----------------------------------------------------------------------------
(* The invariant is inductive *)

LEMMA InitIInv == RelayInit => IInv
BY MaxPositionType
DEF RelayInit, IInv, RelayTypeOK, PositionInRange, RoomLeft, HeadsForTarget,
    RestsNearTarget, CoilsFollowState, lc_relay_state_t, Coil

\* A command.
LEMMA SetKeepsIInv ==
  ASSUME IInv, NEW t \in Threshold, set_lc_open(t)
  PROVE  IInv'
<1> DEFINE target == PositionOf(t)
<1>1. target \in 0 .. MaxPosition /\ MaxPosition \in Nat
  BY PositionOfType, MaxPositionType
<1>2. /\ m_state_stay_position \in 0 .. MaxPosition
      /\ m_expect_position' = target
      /\ m_state_stay_position' = m_state_stay_position
      /\ m_lc_open_threshold' = m_lc_open_threshold
      /\ m_lc_open_threshold \in Int
      /\ m_relay_state \in lc_relay_state_t
      /\ CoilsFollowState
      /\ coils \in SUBSET Coil
  BY DEF set_lc_open, IInv, PositionInRange, RelayTypeOK
<1>3. MaxPosition' = MaxPosition
  BY DEF MaxPosition
<1> HIDE DEF target
<1>4. CASE target > m_state_stay_position
  <2>1. relay_do_action("HOLD_OPEN")
    BY <1>1, <1>2, <1>4 DEF set_lc_open, Distance, target
  <2>2. m_relay_state' = "HOLD_OPEN" /\ CoilsFollowState' /\ coils' \in SUBSET Coil
    BY <1>2, <2>1, ActionSetsCoils DEF lc_relay_state_t
  <2> QED
    BY <1>1, <1>2, <1>3, <1>4, <2>2
    DEF IInv, RelayTypeOK, PositionInRange, RoomLeft, HeadsForTarget,
        RestsNearTarget, lc_relay_state_t
<1>5. CASE target < m_state_stay_position
  <2>1. relay_do_action("HOLD_CLOSE")
    BY <1>1, <1>2, <1>5 DEF set_lc_open, Distance, target
  <2>2. m_relay_state' = "HOLD_CLOSE" /\ CoilsFollowState' /\ coils' \in SUBSET Coil
    BY <1>2, <2>1, ActionSetsCoils DEF lc_relay_state_t
  <2> QED
    BY <1>1, <1>2, <1>3, <1>5, <2>2
    DEF IInv, RelayTypeOK, PositionInRange, RoomLeft, HeadsForTarget,
        RestsNearTarget, lc_relay_state_t
<1>6. CASE target = m_state_stay_position
  <2>1. UNCHANGED <<m_relay_state, coils>>
    BY <1>1, <1>2, <1>6 DEF set_lc_open, Distance, target
  <2>2. CoilsFollowState' /\ RoomLeft'
    BY <1>2, <1>3, <2>1 DEF IInv, CoilsFollowState, RoomLeft
  <2> QED
    BY <1>1, <1>2, <1>3, <1>6, <2>1, <2>2
    DEF IInv, RelayTypeOK, PositionInRange, HeadsForTarget, RestsNearTarget
<1> QED
  BY <1>1, <1>2, <1>4, <1>5, <1>6

\* A second.
LEMMA TimerKeepsIInv ==
  ASSUME IInv, relay_timer
  PROVE  IInv'
<1> DEFINE position == m_state_stay_position + Count
<1>1. /\ MaxPosition \in Nat
      /\ MaxPosition' = MaxPosition
  BY MaxPositionType DEF MaxPosition
<1>2. /\ m_state_stay_position \in 0 .. MaxPosition
      /\ m_expect_position \in 0 .. MaxPosition
      /\ m_relay_state \in lc_relay_state_t
      /\ CoilsFollowState /\ RoomLeft /\ HeadsForTarget /\ RestsNearTarget
      /\ coils \in SUBSET Coil
      /\ m_state_stay_position' = position
      /\ m_expect_position' = m_expect_position
      /\ m_lc_open_threshold' = position * position_coe
  BY DEF relay_timer, IInv, PositionInRange, RelayTypeOK
<1>3. position \in 0 .. MaxPosition
  BY <1>1, <1>2 DEF Count, RoomLeft, lc_relay_state_t
<1>4. m_lc_open_threshold' \in Int
  BY <1>1, <1>2, <1>3, CoeAssumption
<1>5. CASE m_relay_state = "STOP"
  <2>1. position = m_state_stay_position /\ UNCHANGED <<m_relay_state, coils>>
    BY <1>1, <1>2, <1>5 DEF relay_timer, Reached, Count
  <2>2. CoilsFollowState'
    BY <1>2, <2>1 DEF CoilsFollowState
  <2> QED
    BY <1>1, <1>2, <1>3, <1>4, <1>5, <2>1, <2>2
    DEF IInv, RelayTypeOK, PositionInRange, RoomLeft, HeadsForTarget,
        RestsNearTarget
<1>6. CASE m_relay_state # "STOP" /\ Reached(position)
  <2>1. relay_do_action("STOP")
    BY <1>6 DEF relay_timer
  <2>2. m_relay_state' = "STOP" /\ CoilsFollowState' /\ coils' \in SUBSET Coil
    BY <1>2, <2>1, ActionSetsCoils DEF lc_relay_state_t
  <2>3. position - m_expect_position \in {-1, 0, 1}
    BY <1>1, <1>2, <1>6 DEF Reached, Count, HeadsForTarget, lc_relay_state_t
  <2> HIDE DEF position
  <2> QED
    BY <1>1, <1>2, <1>3, <1>4, <2>2, <2>3
    DEF IInv, RelayTypeOK, PositionInRange, RoomLeft, HeadsForTarget,
        RestsNearTarget, lc_relay_state_t
<1>7. CASE m_relay_state # "STOP" /\ ~Reached(position)
  <2>1. UNCHANGED <<m_relay_state, coils>>
    BY <1>7 DEF relay_timer
  <2>2. CoilsFollowState'
    BY <1>2, <2>1 DEF CoilsFollowState
  <2>3. /\ m_relay_state = "HOLD_OPEN" => position < m_expect_position
        /\ m_relay_state = "HOLD_CLOSE" => position > m_expect_position
    <3> HIDE DEF position
    <3> QED
      BY <1>1, <1>2, <1>3, <1>7 DEF Reached
  <2> HIDE DEF position
  <2> QED
    BY <1>1, <1>2, <1>3, <1>4, <1>7, <2>1, <2>2, <2>3
    DEF IInv, RelayTypeOK, PositionInRange, RoomLeft, HeadsForTarget,
        RestsNearTarget
<1> QED
  BY <1>5, <1>6, <1>7

LEMMA StutterKeepsIInv ==
  ASSUME IInv, UNCHANGED relay
  PROVE  IInv'
BY DEF IInv, relay, RelayTypeOK, PositionInRange, RoomLeft, HeadsForTarget,
       RestsNearTarget, CoilsFollowState, MaxPosition

LEMMA NextIInv == IInv /\ [RelayNext]_relay => IInv'
<1> SUFFICES ASSUME IInv, [RelayNext]_relay
             PROVE  IInv'
  OBVIOUS
<1>1. CASE relay_timer
  BY <1>1, TimerKeepsIInv
<1>2. ASSUME NEW t \in Threshold, set_lc_open(t)
      PROVE  IInv'
  BY <1>2, SetKeepsIInv
<1>3. CASE UNCHANGED relay
  BY <1>3, StutterKeepsIInv
<1> QED
  BY <1>1, <1>2, <1>3 DEF RelayNext

THEOREM Inductive == RelaySafe => []IInv
BY InitIInv, NextIInv, PTL DEF RelaySafe

-----------------------------------------------------------------------------
(* What follows *)

\* Every member keeps its type; in particular the expected position is one that can be
\* counted to.
THEOREM RelayTypeCorrect == RelaySafe => []RelayTypeOK
<1>1. IInv => RelayTypeOK
  BY DEF IInv
<1> QED
  BY <1>1, Inductive, PTL

\* A counted position is a percentage when it is multiplied by the coefficient.
LEMMA PositionIsPercent ==
  ASSUME NEW position \in 0 .. MaxPosition
  PROVE  position * position_coe \in 0 .. 100
<1>1. position_coe \in Nat \ {0} /\ position \in Nat /\ MaxPosition \in Nat
  BY CoeAssumption, MaxPositionType
<1>2. position_coe * MaxPosition <= 100
  BY <1>1 DEF MaxPosition
<1>3. position_coe * position <= position_coe * MaxPosition
  BY <1>1
<1>4. position * position_coe = position_coe * position /\ position * position_coe \in Nat
  BY <1>1
<1> QED
  BY <1>1, <1>2, <1>3, <1>4

\* start_relay_timer reports the counted position as an opening: never below 0 or above
\* 100 percent, for every coefficient and every sequence of commands.  Nothing follows
\* for the place of the chute.
THEOREM NeverOutOfRange == RelaySafe => [](PositionInRange /\ ReportsPercent)
<1> DEFINE RInv == IInv /\ ReportsPercent
<1>1. RelayInit => RInv
  BY InitIInv DEF RelayInit, ReportsPercent
<1>2. RInv /\ [RelayNext]_relay => RInv'
  <2> SUFFICES ASSUME RInv, [RelayNext]_relay PROVE RInv'
    OBVIOUS
  <2>1. IInv'
    BY NextIInv
  <2>2. CASE relay_timer
    <3>1. m_lc_open_threshold' = m_state_stay_position' * position_coe
      BY <2>2 DEF relay_timer
    <3>2. m_state_stay_position' \in 0 .. MaxPosition
      BY <2>1 DEF IInv, PositionInRange, MaxPosition
    <3> QED
      BY <2>1, <3>1, <3>2, PositionIsPercent DEF ReportsPercent
  <2>3. CASE m_lc_open_threshold' = m_lc_open_threshold
    BY <2>1, <2>3 DEF ReportsPercent
  <2> QED
    BY <2>2, <2>3 DEF RelayNext, set_lc_open, relay
<1>3. RInv => PositionInRange /\ ReportsPercent
  BY DEF IInv
<1> QED
  BY <1>1, <1>2, <1>3, PTL DEF RelaySafe

\* By the driver's own count the coils only move the chute towards the position last asked
\* for, and the count rests at most one second away from it: also after a command in the
\* middle of a motion.
THEOREM MovesToTarget == RelaySafe => [](HeadsForTarget /\ RestsNearTarget)
<1>1. IInv => HeadsForTarget /\ RestsNearTarget
  BY DEF IInv
<1> QED
  BY <1>1, Inductive, PTL

\* The coils wanted on are those of the direction that is counted: never both.
THEOREM CoilsCorrect == RelaySafe => []CoilsFollowState
<1>1. IInv => CoilsFollowState
  BY DEF IInv
<1> QED
  BY <1>1, Inductive, PTL

-----------------------------------------------------------------------------
(* THE DRIVER *)

\* What a loop without failures has achieved at each coil: it has read the PLC,
\* and the coils it has passed are as wanted.
LoopOnItsWay ==
  fresh => /\ loop_at = "open" => m_real_addr_array = plc
           /\ loop_at = "close" => /\ "open" \in plc <=> "open" \in coils
                                   /\ "close" \in m_real_addr_array <=> "close" \in plc
           /\ loop_at = "idle" => plc # Coil

TIInv == TypeOK /\ IInv /\ LoopOnItsWay

\* What a loop that was read and written without failures leaves.
WrittenThrough ==
  loop_at # "idle" /\ loop_at' = "idle" /\ fresh' /\ process' = "running"
    => plc' = coils'

-----------------------------------------------------------------------------
(* The operators *)

\* The bound of the retry counter is a number above it.
LEMMA RetryBoundType ==
  RetryBound \in Nat /\ m_modbus_retry_times < RetryBound
  BY RetryAssumption DEF RetryBound

LEMMA ChallengeType ==
  ASSUME m_cur_retry_times \in 0 .. RetryBound, m_error \in BOOLEAN,
         NEW success \in BOOLEAN, challenge_error(success)
  PROVE  m_cur_retry_times' \in 0 .. RetryBound /\ m_error' \in BOOLEAN
<1>1. m_cur_retry_times' \in 0 .. RetryBound
  BY RetryBoundType DEF challenge_error
<1>2. m_error' \in BOOLEAN
  BY DEF challenge_error
<1> QED
  BY <1>1, <1>2

\* Writing a coil switches it and leaves the other.
LEMMA WriteOne ==
  ASSUME NEW on \in SUBSET Coil, NEW coil \in Coil, NEW is_on \in BOOLEAN
  PROVE  /\ open_close_lc_cmd(on, coil, is_on) \in SUBSET Coil
         /\ coil \in open_close_lc_cmd(on, coil, is_on) <=> is_on
         /\ \A c \in Coil \ {coil} : c \in open_close_lc_cmd(on, coil, is_on) <=> c \in on
  BY DEF open_close_lc_cmd

\* The relay logic is not wanted to hold both coils.
LEMMA NotBothWanted == IInv => coils # Coil
  BY DEF IInv, CoilsFollowState, Coil

-----------------------------------------------------------------------------
(* The initial states *)

LEMMA InitTIInv == Init => TIInv
<1> SUFFICES ASSUME Init PROVE TIInv
  OBVIOUS
<1>1. IInv
  BY InitIInv DEF Init
<1>2. TypeOK
  <2>1. m_cur_retry_times \in 0 .. RetryBound
    BY RetryBoundType DEF Init
  <2>2. m_error \in BOOLEAN /\ fresh \in BOOLEAN /\ link \in BOOLEAN
    BY DEF Init
  <2>3. /\ m_real_addr_array \in SUBSET Coil /\ plc \in SUBSET Coil
        /\ loop_at \in {"idle"} \cup Coil
        /\ process \in {"running", "failed", "stopped"}
    BY DEF Init
  <2> QED
    BY <1>1, <2>1, <2>2, <2>3 DEF TypeOK, IInv
<1>3. LoopOnItsWay
  BY DEF Init, LoopOnItsWay
<1> QED
  BY <1>1, <1>2, <1>3 DEF TIInv

-----------------------------------------------------------------------------
(* The Modbus loop *)

LEMMA ReadTIInv ==
  ASSUME TIInv, lc_get_coil
  PROVE  TIInv' /\ WrittenThrough
<1>1. TypeOK
  BY DEF TIInv
<1>2. IInv'
  BY StutterKeepsIInv DEF TIInv, lc_get_coil
<1>3. m_cur_retry_times' \in 0 .. RetryBound /\ m_error' \in BOOLEAN
  BY <1>1, ChallengeType DEF lc_get_coil, TypeOK
<1>4. m_real_addr_array' = (IF link THEN plc ELSE m_real_addr_array)
  BY DEF lc_get_coil, ReadCoils
<1>5. TypeOK'
  BY <1>1, <1>2, <1>3, <1>4 DEF lc_get_coil, TypeOK, IInv, Coil, RetryBound
<1>6. LoopOnItsWay'
  BY <1>4 DEF LoopOnItsWay, lc_get_coil
<1>7. WrittenThrough
  BY DEF WrittenThrough, lc_get_coil
<1> QED
  BY <1>2, <1>5, <1>6, <1>7 DEF TIInv

\* What a write leaves of the PLC's coils.
LEMMA WriteCoilPlc ==
  ASSUME TIInv, NEW coil \in Coil, write_coil(coil)
  PROVE  /\ plc' \in SUBSET Coil
         /\ fresh' => fresh
         /\ fresh' => /\ Differs(coil) => (coil \in plc' <=> coil \in coils)
                      /\ ~Differs(coil) => plc' = plc
                      /\ \A c \in Coil \ {coil} : c \in plc' <=> c \in plc
<1> DEFINE written == open_close_lc_cmd(plc, coil, coil \in coils)
<1>1. plc \in SUBSET Coil
  BY DEF TIInv, TypeOK
<1>2. /\ written \in SUBSET Coil
      /\ coil \in written <=> coil \in coils
      /\ \A c \in Coil \ {coil} : c \in written <=> c \in plc
  <2>1. (coil \in coils) \in BOOLEAN
    OBVIOUS
  <2> QED
    BY <1>1, <2>1, WriteOne
<1>3. CASE Differs(coil)
  <2>1. /\ plc' \in IF link THEN {written} ELSE {plc, written}
        /\ fresh' = (fresh /\ link)
    BY <1>3 DEF write_coil, set_coil
  <2> HIDE DEF written
  <2>2. plc' \in SUBSET Coil
    BY <1>1, <1>2, <2>1
  <2>3. fresh' => fresh /\ plc' = written
    BY <2>1
  <2> QED
    BY <1>2, <1>3, <2>2, <2>3
<1>4. CASE ~Differs(coil)
  BY <1>1, <1>4 DEF write_coil
<1> QED
  BY <1>3, <1>4

LEMMA WriteTIInv ==
  ASSUME TIInv, NEW coil \in Coil, write_coil(coil)
  PROVE  TIInv' /\ WrittenThrough
<1>1. TypeOK /\ LoopOnItsWay
  BY DEF TIInv
<1>2. /\ plc' \in SUBSET Coil
      /\ fresh' => fresh
      /\ fresh' => /\ Differs(coil) => (coil \in plc' <=> coil \in coils)
                   /\ ~Differs(coil) => plc' = plc
                   /\ \A c \in Coil \ {coil} : c \in plc' <=> c \in plc
  BY WriteCoilPlc
<1>3. IInv'
  BY StutterKeepsIInv DEF TIInv, write_coil
<1>4. coils' = coils /\ m_real_addr_array' = m_real_addr_array
  BY DEF write_coil, relay
<1>5. m_cur_retry_times' \in 0 .. RetryBound /\ m_error' \in BOOLEAN
  <2>1. CASE Differs(coil)
    BY <1>1, <2>1, ChallengeType DEF write_coil, set_coil, TypeOK
  <2>2. CASE ~Differs(coil)
    BY <1>1, <2>2 DEF write_coil, TypeOK
  <2> QED
    BY <2>1, <2>2
<1>6. fresh' \in BOOLEAN
  <2>1. CASE Differs(coil)
    BY <1>1, <2>1 DEF write_coil, set_coil, TypeOK
  <2>2. CASE ~Differs(coil)
    BY <1>1, <2>2 DEF write_coil, TypeOK
  <2> QED
    BY <2>1, <2>2
<1>7. loop_at = coil /\ loop_at' = After(coil) /\ process' = process /\ link' = link
  BY DEF write_coil
<1>8. TypeOK'
  BY <1>1, <1>2, <1>3, <1>4, <1>5, <1>6, <1>7 DEF TypeOK, IInv, After, Coil, RetryBound
<1>9. fresh' => (coil \in plc' <=> coil \in coils)
  <2>1. SUFFICES ASSUME fresh' PROVE coil \in plc' <=> coil \in coils
    OBVIOUS
  <2>2. coil \in m_real_addr_array <=> coil \in plc
    BY <1>1, <1>2, <1>7, <2>1 DEF LoopOnItsWay, Coil
  <2>3. CASE Differs(coil)
    BY <1>2, <2>1, <2>3
  <2>4. CASE ~Differs(coil)
    BY <1>2, <2>1, <2>2, <2>4 DEF Differs
  <2> QED
    BY <2>3, <2>4
<1>10. coil = "close" /\ fresh' => plc' = coils'
  <2>1. SUFFICES ASSUME coil = "close", fresh' PROVE plc' = coils'
    OBVIOUS
  <2>2. "open" \in plc' <=> "open" \in coils
    BY <1>1, <1>2, <1>7, <2>1 DEF LoopOnItsWay, Coil
  <2>3. coils \in SUBSET Coil
    BY <1>1 DEF TypeOK, RelayTypeOK
  <2>4. \A c \in Coil : c \in plc' <=> c \in coils
    BY <1>9, <2>1, <2>2 DEF Coil
  <2>5. plc' = coils
    BY <1>2, <2>3, <2>4
  <2> QED
    BY <1>4, <2>5
<1>11. WrittenThrough
  BY <1>7, <1>10 DEF WrittenThrough, After, Coil
<1>12. LoopOnItsWay'
  <2>1. CASE coil = "open"
    BY <1>1, <1>2, <1>4, <1>7, <1>9, <2>1 DEF LoopOnItsWay, After, Coil
  <2>2. CASE coil = "close"
    BY <1>3, <1>7, <1>10, <2>2, NotBothWanted DEF LoopOnItsWay, After, IInv, CoilsFollowState, Coil
  <2> QED
    BY <2>1, <2>2 DEF Coil
<1> QED
  BY <1>3, <1>8, <1>11, <1>12 DEF TIInv

-----------------------------------------------------------------------------
(* The other steps *)

\* Commands and the relay timer, between two loops.
LEMMA RelayTIInv ==
  ASSUME TIInv, relay_step
  PROVE  TIInv' /\ WrittenThrough
<1>1. IInv'
  BY NextIInv DEF TIInv, relay_step
<1>2. UNCHANGED <<driver, process, plc, link, fresh>> /\ loop_at = "idle"
  BY DEF relay_step
<1>3. TypeOK'
  BY <1>1, <1>2 DEF TIInv, TypeOK, IInv, driver, Coil, RetryBound
<1> QED
  BY <1>1, <1>2, <1>3 DEF TIInv, LoopOnItsWay, WrittenThrough, driver

\* A new process counts from 0 and knows nothing of the PLC.
LEMMA StartTIInv ==
  ASSUME TIInv, start
  PROVE  TIInv' /\ WrittenThrough
<1>1. IInv'
  BY MaxPositionType DEF start, IInv, RelayTypeOK, PositionInRange, RoomLeft, HeadsForTarget,
     RestsNearTarget, CoilsFollowState, lc_relay_state_t, Coil, MaxPosition
<1>2. TypeOK'
  <2>1. m_cur_retry_times' \in 0 .. RetryBound
    BY RetryBoundType DEF start
  <2>2. m_error' \in BOOLEAN /\ fresh' \in BOOLEAN /\ link' \in BOOLEAN
    BY DEF start, TIInv, TypeOK
  <2>3. /\ m_real_addr_array' \in SUBSET Coil /\ plc' \in SUBSET Coil
        /\ loop_at' \in {"idle"} \cup Coil
        /\ process' \in {"running", "failed", "stopped"}
    BY DEF start, TIInv, TypeOK
  <2> QED
    BY <1>1, <2>1, <2>2, <2>3 DEF TypeOK, IInv, Coil, RetryBound
<1> QED
  BY <1>1, <1>2 DEF TIInv, LoopOnItsWay, WrittenThrough, start

\* The process ends, or the link changes.
LEMMA OutsideTIInv ==
  ASSUME TIInv, status_timer \/ stop_device \/ crash \/ link_changes \/ UNCHANGED vars
  PROVE  TIInv' /\ WrittenThrough
<1>1. UNCHANGED <<relay, driver, plc, fresh>>
  BY DEF status_timer, stop_device, crash, link_changes, vars
<1>2. process' \in {"running", "failed", "stopped"} /\ link' \in BOOLEAN
  BY DEF status_timer, stop_device, crash, link_changes, vars, TIInv, TypeOK
<1>3. IInv'
  BY <1>1, StutterKeepsIInv DEF TIInv
<1>4. TypeOK'
  BY <1>1, <1>2, <1>3 DEF TIInv, TypeOK, IInv, driver, Coil, RetryBound
<1> QED
  BY <1>1, <1>3, <1>4 DEF TIInv, LoopOnItsWay, WrittenThrough, driver, relay

LEMMA NextTIInv == TIInv /\ [Next]_vars => TIInv' /\ WrittenThrough
<1> SUFFICES ASSUME TIInv, [Next]_vars PROVE TIInv' /\ WrittenThrough
  OBVIOUS
<1>1. CASE lc_get_coil
  BY <1>1, ReadTIInv
<1>2. CASE \E coil \in Coil : write_coil(coil)
  BY <1>2, WriteTIInv
<1>3. CASE relay_step
  BY <1>3, RelayTIInv
<1>4. CASE restart \/ start_device
  BY <1>4, StartTIInv DEF restart, start_device
<1>5. CASE status_timer \/ stop_device \/ crash \/ link_changes \/ UNCHANGED vars
  BY <1>5, OutsideTIInv
<1> QED
  BY <1>1, <1>2, <1>3, <1>4, <1>5 DEF Next, run_modbus_loop

-----------------------------------------------------------------------------
(* What follows *)

\* The invariant holds for every travel time and number of retries, with
\* commands, failed calls, crashes and restarts at any time.
THEOREM DriverInductive == Safe => []TIInv
<1>1. Init => TIInv
  BY InitTIInv
<1>2. TIInv /\ [Next]_vars => TIInv'
  BY NextTIInv
<1> QED
  BY <1>1, <1>2, PTL DEF Safe

\* Every member of the driver and of its surroundings keeps its type.
THEOREM TypeCorrect == Safe => []TypeOK
<1>1. TIInv => TypeOK
  BY DEF TIInv
<1> QED
  BY <1>1, DriverInductive, PTL

\* The process with its Modbus loop, ends and starts does not disturb the count, which
\* starts at 0 in each process; where the chute is does not follow from it.
THEOREM RestsNear == Safe => []RestsNearTarget
<1>1. TIInv => RestsNearTarget
  BY DEF TIInv, IInv
<1> QED
  BY <1>1, DriverInductive, PTL

\* The PLC is not left pulling both ways by a loop whose calls succeeded.
THEOREM PlcNotTorn == Safe => []NeverBothWays
<1>1. TIInv => NeverBothWays
  BY DEF TIInv, LoopOnItsWay, NeverBothWays
<1> QED
  BY <1>1, DriverInductive, PTL

\* run_modbus_loop, from its read to its last write, leaves the PLC with the coils
\* the driver wants, unless a call fails.
THEOREM WritesThrough == Safe => LoopWritesThrough
<1>1. TIInv /\ [Next]_vars => [WrittenThrough]_vars
  BY NextTIInv
<1>2. Safe => [][Next]_vars
  BY DEF Safe
<1>3. Safe => [][WrittenThrough]_vars
  BY <1>1, <1>2, DriverInductive, PTL
<1> QED
  BY <1>3 DEF LoopWritesThrough, WrittenThrough

\* The PLC holds the coil of the direction the driver counts in, and no coil while it does
\* not count; by the count that direction is the one of the position last asked for.
PullsAsCounted ==
  /\ "open" \in plc <=> m_relay_state = "HOLD_OPEN"
  /\ "close" \in plc <=> m_relay_state = "HOLD_CLOSE"
  /\ HeadsForTarget
  /\ RoomLeft

\* So it is whenever run_modbus_loop ends without a failed call, whatever commands came
\* since the last loop and whatever an earlier process has left on.
THEOREM PlcPullsAsCounted ==
  Safe => [][loop_at # "idle" /\ loop_at' = "idle" /\ fresh' /\ process' = "running"
               => PullsAsCounted']_vars
<1> DEFINE A == loop_at # "idle" /\ loop_at' = "idle" /\ fresh' /\ process' = "running"
                 => PullsAsCounted'
<1>1. TIInv /\ [Next]_vars => [A]_vars
  <2> SUFFICES ASSUME TIInv, [Next]_vars,
                      loop_at # "idle", loop_at' = "idle", fresh', process' = "running"
               PROVE  PullsAsCounted'
    OBVIOUS
  <2>1. TIInv' /\ WrittenThrough
    BY NextTIInv
  <2>2. plc' = coils'
    BY <2>1 DEF WrittenThrough
  <2>3. CoilsFollowState' /\ HeadsForTarget' /\ RoomLeft'
    BY <2>1 DEF TIInv, IInv
  <2> QED
    BY <2>2, <2>3 DEF PullsAsCounted, CoilsFollowState
<1>2. Safe => [][Next]_vars
  BY DEF Safe
<1>3. Safe => [][A]_vars
  BY <1>1, <1>2, DriverInductive, PTL
<1> QED
  BY <1>3

-----------------------------------------------------------------------------
(* THE PUSH OF THE STATE *)

\* For every device an answer no older than a state, or none if it was away.
Since(t, aways, v) ==
  \A d \in Device : t[d] <= v[d] \/ (v[d] = Missing /\ d \in aways)

\* A device that a push has asked has answered with no older a state than it had
\* when the push began, or was away since then.
Gathered ==
  \A p \in Push : at[p] = "gather" =>
    \A d \in Device \ todo[p] :
      began[p][d] <= value[p][d] \/ (value[p][d] = Missing /\ d \in gone[p])

\* Pushes under way began one after the other, and oldest[p] is no newer than what
\* any of them began with.  The devices away are known to all of them, and missed[p]
\* are those that any of them has found away, or may find.
Overlapping ==
  \A p \in UnderWay :
    /\ Older(began[p], state)
    /\ away \subseteq gone[p]
    /\ \A q \in UnderWay : /\ Older(oldest[p], began[q])
                           /\ Older(began[p], began[q]) \/ Older(began[q], began[p])
                           /\ gone[q] \subseteq missed[p]

\* Once a push has written, whoever writes over it writes nothing older than that.
Stored ==
  \A p \in Push :
    /\ at[p] = "post" /\ stored[p] => Since(oldest[p], missed[p], redis)
    /\ at[p] = "answer" /\ stored[p] => Since(oldest[p], missed[p], value[p])

PushInv == SyncTypeOK /\ Gathered /\ Overlapping /\ Stored

-----------------------------------------------------------------------------
(* The order of states *)

LEMMA OlderOrder ==
  /\ \A s \in State : Older(s, s)
  /\ \A s, t, u \in State : Older(s, t) /\ Older(t, u) => Older(s, u)
  BY StateSyncAssumption DEF State, Older

LEMMA ChangedType ==
  ASSUME NEW d \in Device, state \in State, state[d] < MaxChange
  PROVE  Changed(d) \in State /\ Older(state, Changed(d))
  BY StateSyncAssumption DEF State, Older, Changed

\* What is no older than a state is no older than one before it, nor for more devices
\* that may lack.
LEMMA SinceBefore ==
  ASSUME NEW s \in State, NEW t \in State, NEW v \in Gathering,
         NEW A, NEW B, Older(s, t), Since(t, A, v), A \subseteq B
  PROVE  Since(s, B, v)
<1> SUFFICES ASSUME NEW d \in Device, ~(v[d] = Missing /\ d \in B)
             PROVE  s[d] <= v[d]
  BY DEF Since
<1>1. s[d] \in Int /\ t[d] \in Int /\ v[d] \in Int
  BY StateSyncAssumption DEF State, Gathering, Missing
<1>2. s[d] <= t[d] /\ t[d] <= v[d]
  BY DEF Older, Since
<1> QED
  BY <1>1, <1>2

\* Of finitely many states, any two of which can be compared, one is the oldest: a
\* smallest one of the sets of those below each.
LEMMA LeastExists ==
  ASSUME NEW S, IsFiniteSet(S), S \subseteq State, S # {},
         \A s, t \in S : Older(s, t) \/ Older(t, s)
  PROVE  \E s \in S : \A t \in S : Older(s, t)
<1> DEFINE Below(s) == {u \in S : Older(u, s)}
           Belows == {Below(s) : s \in S}
<1>1. PICK B \in Belows : \A C \in Belows : ~(C \subseteq B /\ C # B)
  <2>1. Belows \subseteq SUBSET S /\ Belows # {}
    OBVIOUS
  <2> HIDE DEF Belows
  <2>2. IsWellFoundedOn(StrictSubsetOrdering(S), SUBSET S)
    BY FS_StrictSubsetOrderingWellFounded, FS_FiniteSubsetsOfFinite
  <2>3. \E B \in Belows : \A C \in Belows : ~(<<C, B>> \in StrictSubsetOrdering(S))
    BY <2>1, <2>2, WFMin
  <2>4. \A C, B \in Belows : C \subseteq B /\ C # B => <<C, B>> \in StrictSubsetOrdering(S)
    BY <2>1 DEF StrictSubsetOrdering
  <2> QED
    BY <2>3, <2>4
<1>2. PICK s \in S : B = Below(s)
  OBVIOUS
<1>3. ASSUME NEW t \in S, ~Older(s, t)
      PROVE  FALSE
  <2>1. Older(t, s)
    BY <1>3
  <2>2. Below(t) \subseteq Below(s) /\ s \in Below(s) /\ s \notin Below(t)
    BY <1>3, <2>1, OlderOrder
  <2> QED
    BY <1>1, <1>2, <2>2
<1> QED
  BY <1>3

-----------------------------------------------------------------------------
(* A push begins *)

\* The pushes under way, and the one that begins, all began with a state no older
\* than what oldest says then.
LEMMA BeginOldest ==
  ASSUME PushInv, NEW p \in Push, NEW now \in State, Older(state, now), begin(p, now)
  PROVE  /\ oldest'[p] \in State
         /\ Older(oldest'[p], now)
         /\ \A q \in UnderWay : Older(oldest'[p], began[q])
<1> DEFINE starts == {began[q] : q \in UnderWay} \cup {now}
<1>1. oldest'[p] = CHOOSE s \in starts : \A t \in starts : Older(s, t)
  BY DEF begin, PushInv, SyncTypeOK
<1>2. starts \subseteq State /\ now \in starts
  BY DEF PushInv, SyncTypeOK, UnderWay
<1>3. \A q \in UnderWay : Older(began[q], now)
  BY OlderOrder DEF PushInv, Overlapping, SyncTypeOK, UnderWay
<1>4. \A s, t \in starts : Older(s, t) \/ Older(t, s)
  BY <1>3, OlderOrder DEF PushInv, Overlapping
<1>5. IsFiniteSet(starts)
  <2> DEFINE B == {began[q] : q \in UnderWay}
             f == [q \in UnderWay |-> began[q]]
  <2>1. IsFiniteSet(UnderWay)
    BY StateSyncAssumption, FS_Subset DEF UnderWay
  <2>2. f \in Surjection(UnderWay, B)
    BY DEF Surjection
  <2>3. IsFiniteSet(B)
    BY <2>1, <2>2, FS_Surjection
  <2> HIDE DEF B
  <2>4. IsFiniteSet(B \cup {now})
    BY <2>3, FS_AddElement
  <2> QED
    BY <2>4 DEF B
<1> HIDE DEF starts
<1>6. \E s \in starts : \A t \in starts : Older(s, t)
  BY <1>2, <1>4, <1>5, LeastExists
<1>7. oldest'[p] \in starts /\ \A t \in starts : Older(oldest'[p], t)
  BY <1>1, <1>6
<1> QED
  BY <1>2, <1>7 DEF starts

LEMMA BeginPush ==
  ASSUME PushInv, NEW p \in Push, NEW now \in State, Older(state, now), begin(p, now),
         state' = now, UNCHANGED <<away, value, redis, up, shown, page, outages>>
  PROVE  PushInv'
<1> USE DEF PushInv, SyncTypeOK
<1>1. /\ p \notin UnderWay /\ at' = [at EXCEPT ![p] = "gather"]
      /\ todo' = [todo EXCEPT ![p] = Device] /\ stored' = [stored EXCEPT ![p] = FALSE]
      /\ began' = [began EXCEPT ![p] = now]
      /\ \A q \in Push \ {p} : oldest'[q] = oldest[q]
      /\ gone' = [gone EXCEPT ![p] = away]
      /\ missed' = [missed EXCEPT ![p] = away \cup UNION {gone[q] : q \in UnderWay}]
  BY DEF begin, UnderWay
<1>2. SyncTypeOK'
  <2>1. oldest' \in [Push -> State]
    <3>1. \E s : oldest' = [oldest EXCEPT ![p] = s]
      BY DEF begin
    <3> QED
      BY <3>1, BeginOldest
  <2>2. missed' \in [Push -> SUBSET Device]
    BY <1>1 DEF UnderWay
  <2> QED
    BY <1>1, <2>1, <2>2 DEF Where
<1>3. Gathered'
  BY <1>1 DEF Gathered
<1>4. UnderWay' = UnderWay \cup {p}
  BY <1>1 DEF UnderWay
<1>5. \A q \in UnderWay : Older(began[q], now) /\ Older(oldest[q], now)
  <2> SUFFICES ASSUME NEW q \in UnderWay
               PROVE  Older(began[q], now) /\ Older(oldest[q], now)
    OBVIOUS
  <2>1. began[q] \in State /\ oldest[q] \in State /\ state \in State
    BY DEF UnderWay
  <2>2. Older(began[q], state) /\ Older(oldest[q], began[q])
    BY DEF Overlapping
  <2> QED
    BY <2>1, <2>2, OlderOrder
<1>6. \A q \in UnderWay : began'[q] = began[q] /\ oldest'[q] = oldest[q]
  BY <1>1 DEF UnderWay
<1>7. began'[p] = now
  BY <1>1
<1>10. /\ \A q \in UnderWay : gone'[q] = gone[q] /\ missed'[q] = missed[q]
       /\ gone'[p] = away
       /\ away \subseteq missed'[p] /\ \A q \in UnderWay : gone[q] \subseteq missed'[p]
  BY <1>1 DEF UnderWay
<1>11. \A q \in UnderWay : away \subseteq gone[q] /\ away \subseteq missed[q]
  BY DEF Overlapping
<1>12. \A q \in UnderWay' :
         /\ away' \subseteq gone'[q]
         /\ \A u \in UnderWay' : gone'[u] \subseteq missed'[q]
  BY <1>4, <1>10, <1>11 DEF Overlapping
<1>13. \A q \in UnderWay' :
         /\ Older(began'[q], now)
         /\ \A u \in UnderWay' :
              /\ Older(oldest'[q], began'[u])
              /\ Older(began'[q], began'[u]) \/ Older(began'[u], began'[q])
  BY <1>4, <1>5, <1>6, <1>7, BeginOldest, OlderOrder DEF Overlapping
<1>8. Overlapping'
  BY <1>12, <1>13 DEF Overlapping
<1>9. Stored'
  BY <1>1 DEF Stored
<1> QED
  BY <1>2, <1>3, <1>8, <1>9

-----------------------------------------------------------------------------
(* The other steps *)

LEMMA AskPush ==
  ASSUME PushInv, NEW p \in Push, NEW d \in Device, ask(p, d)
  PROVE  PushInv'
<1> USE DEF PushInv, SyncTypeOK
<1> DEFINE v == IF d \in away THEN Missing ELSE state[d]
<1>1. /\ at[p] = "gather" /\ d \in todo[p]
      /\ todo' = [todo EXCEPT ![p] = @ \ {d}]
      /\ value' = [value EXCEPT ![p] = [@ EXCEPT ![d] = v]]
      /\ UNCHANGED <<state, away, at, stored, redis, up, shown, page, outages, hist>>
  BY DEF ask, Answer
<1>2. v \in 0 .. MaxChange \cup {Missing}
  BY DEF State
<1> HIDE DEF v
<1>3. /\ value'[p] \in Gathering /\ value'[p][d] = v
      /\ \A e \in Device \ {d} : value'[p][e] = value[p][e]
  BY <1>1, <1>2 DEF Gathering
<1>4. SyncTypeOK'
  BY <1>1, <1>3 DEF hist
<1>5. Gathered'
  <2>1. began[p][d] <= v \/ (v = Missing /\ d \in gone[p])
    <3>1. began[p][d] <= state[d] /\ away \subseteq gone[p]
      BY <1>1 DEF Overlapping, UnderWay, Older
    <3>2. CASE d \in away
      <4>1. v = Missing
        BY <3>2 DEF v
      <4> QED
        BY <3>1, <3>2, <4>1
    <3>3. CASE d \notin away
      <4>1. v = state[d]
        BY <3>3 DEF v
      <4> QED
        BY <3>1, <4>1
    <3> QED
      BY <3>2, <3>3
  <2>2. \A e \in Device \ todo'[p] :
          began[p][e] <= value'[p][e] \/ (value'[p][e] = Missing /\ e \in gone[p])
    BY <1>1, <1>3, <2>1 DEF Gathered
  <2>3. \A q \in Push \ {p} : todo'[q] = todo[q] /\ value'[q] = value[q]
    BY <1>1
  <2> QED
    BY <1>1, <2>2, <2>3 DEF Gathered, hist
<1>6. Overlapping'
  BY <1>1 DEF Overlapping, UnderWay, hist
<1>7. Stored'
  BY <1>1 DEF Stored, hist
<1> QED
  BY <1>4, <1>5, <1>6, <1>7

LEMMA SetPush ==
  ASSUME PushInv, NEW p \in Push, set(p)
  PROVE  PushInv'
<1> USE DEF PushInv, SyncTypeOK
<1>1. /\ at[p] = "gather" /\ todo[p] = {}
      /\ at' = [at EXCEPT ![p] = "post"]
      /\ redis' = IF up THEN value[p] ELSE redis
      /\ stored' = [stored EXCEPT ![p] = up]
      /\ UNCHANGED <<state, away, todo, value, up, shown, page, outages, hist>>
  BY DEF set, Written
<1>2. SyncTypeOK'
  BY <1>1 DEF Where, hist
<1>3. UnderWay' = UnderWay /\ p \in UnderWay
  BY <1>1 DEF UnderWay
<1>4. Gathered' /\ Overlapping'
  BY <1>1, <1>3 DEF Gathered, Overlapping, hist
<1>5. Stored'
  <2>1. Since(began[p], gone[p], value[p])
    BY <1>1 DEF Gathered, Since
  <2>2. ASSUME NEW q \in UnderWay
        PROVE  Since(oldest[q], missed[q], value[p])
    <3>1. Older(oldest[q], began[p]) /\ gone[p] \subseteq missed[q]
      BY <1>3 DEF Overlapping
    <3>2. oldest[q] \in State /\ began[p] \in State /\ value[p] \in Gathering
      BY DEF UnderWay
    <3> QED
      BY <2>1, <3>1, <3>2, SinceBefore
  <2>3. ASSUME NEW q \in Push, at'[q] = "post", stored'[q]
        PROVE  Since(oldest'[q], missed'[q], redis')
    BY <1>1, <2>2, <2>3 DEF Stored, UnderWay, hist
  <2> QED
    BY <1>1, <2>3 DEF Stored, hist
<1> QED
  BY <1>2, <1>4, <1>5

\* Pushes that are over take what they had with them.
LEMMA OverPush ==
  ASSUME PushInv, NEW S \in SUBSET Push, over(S), UNCHANGED <<state, away, todo, redis, up>>,
         shown' \in Gathering, page' \in {"open", "lost"}, outages' \in 0 .. MaxOutage
  PROVE  PushInv'
<1> USE DEF PushInv, SyncTypeOK
<1>1. SyncTypeOK'
  <2>1. Untouched \in State /\ Nothing \in Gathering
    BY StateSyncAssumption DEF Untouched, State, Nothing, Gathering
  <2> QED
    BY <2>1 DEF over, Where
<1>2. /\ \A q \in S : at'[q] = "none"
      /\ \A q \in Push \ S :
           /\ at'[q] = at[q] /\ todo'[q] = todo[q] /\ value'[q] = value[q]
           /\ stored'[q] = stored[q] /\ began'[q] = began[q] /\ oldest'[q] = oldest[q]
           /\ gone'[q] = gone[q] /\ missed'[q] = missed[q]
  BY DEF over
<1>3. UnderWay' = UnderWay \ S
  BY <1>2 DEF UnderWay
<1>4. Gathered' /\ Stored'
  BY <1>2 DEF Gathered, Stored, Since
<1>5. Overlapping'
  BY <1>2, <1>3 DEF Overlapping, UnderWay, Older
<1> QED
  BY <1>1, <1>4, <1>5

LEMMA HGetPush ==
  ASSUME PushInv, NEW p \in Push, hget(p) \/ hget_rejects(p) \/ setData(p)
  PROVE  PushInv'
<1> USE DEF PushInv, SyncTypeOK
<1>1. CASE hget(p)
  <2>1. /\ at[p] = "post" /\ at' = [at EXCEPT ![p] = "answer"]
        /\ value' = [value EXCEPT ![p] = redis]
        /\ UNCHANGED <<state, away, todo, stored, redis, up, shown, page, outages, hist>>
    BY <1>1 DEF hget, HGet
  <2>2. SyncTypeOK'
    BY <2>1 DEF Where, hist
  <2>3. UnderWay' = UnderWay
    BY <2>1 DEF UnderWay
  <2> QED
    BY <2>1, <2>2, <2>3 DEF Gathered, Overlapping, Stored, hist
<1>2. CASE hget_rejects(p) \/ setData(p)
  <2>1. /\ over({p}) /\ shown' \in {value[p], shown}
        /\ UNCHANGED <<state, away, todo, redis, up, page, outages>>
    BY <1>2 DEF setData, hget_rejects
  <2>2. shown' \in Gathering
    BY <2>1
  <2> QED
    BY <2>1, <2>2, OverPush
<1> QED
  BY <1>1, <1>2

\* A device that goes away is from then on among those every push may lack.
LEMMA LeavesPush ==
  ASSUME PushInv, NEW d \in Device, device_leaves(d)
  PROVE  PushInv'
<1> USE DEF PushInv, SyncTypeOK
<1>1. /\ away' = away \cup {d}
      /\ UNCHANGED <<state, at, todo, value, stored, redis, up, shown, page, began, oldest>>
      /\ \A p \in Push : gone[p] \subseteq gone'[p] /\ missed[p] \subseteq missed'[p]
      /\ \A p \in UnderWay : /\ gone'[p] = gone[p] \cup {d}
                             /\ missed'[p] = missed[p] \cup {d}
  BY DEF device_leaves, push, UnderWay
<1>2. SyncTypeOK'
  <2>1. outages' \in 0 .. MaxOutage
    BY StateSyncAssumption DEF device_leaves
  <2>2. gone' \in [Push -> SUBSET Device] /\ missed' \in [Push -> SUBSET Device]
    BY DEF device_leaves
  <2> QED
    BY <1>1, <2>1, <2>2
<1>3. Gathered' /\ Stored'
  BY <1>1 DEF Gathered, Stored, Since
<1>4. UnderWay' = UnderWay
  BY <1>1 DEF UnderWay
<1>5. Overlapping'
  BY <1>1, <1>4 DEF Overlapping
<1> QED
  BY <1>2, <1>3, <1>5

\* What leaves the pushes alone, or only ends some.
LEMMA OtherPush ==
  ASSUME PushInv,
         \/ \E d \in Device : change(d) \/ device_returns(d)
         \/ api_ends \/ leave \/ reload \/ redis_leaves \/ redis_returns
         \/ UNCHANGED sync_vars
  PROVE  PushInv'
<1> USE DEF PushInv, SyncTypeOK
<1>1. ASSUME NEW d \in Device, change(d)
      PROVE  PushInv'
  <2>1. /\ state' \in State /\ Older(state, state')
        /\ UNCHANGED <<away, push, redis, up, shown, page, outages, hist>>
    BY <1>1, ChangedType DEF change
  <2>2. \A p \in UnderWay : Older(began[p], state')
    BY <2>1, OlderOrder DEF Overlapping, UnderWay
  <2> QED
    BY <2>1, <2>2 DEF push, hist, Gathered, Overlapping, UnderWay, Stored
<1>2. CASE api_ends
  <2>1. /\ over({p \in Push : at[p] \in {"post", "answer"}}) /\ page' = "lost"
        /\ UNCHANGED <<state, away, todo, redis, up, shown>>
    BY <1>2 DEF api_ends
  <2>2. outages' \in 0 .. MaxOutage
    BY <1>2, StateSyncAssumption DEF api_ends
  <2> QED
    BY <2>1, <2>2, OverPush
<1>3. CASE leave \/ reload \/ redis_leaves \/ redis_returns \/ UNCHANGED sync_vars
  <2>1. UNCHANGED <<state, away, push, redis, hist>>
    BY <1>3 DEF leave, reload, redis_leaves, redis_returns, sync_vars
  <2>2. page' \in {"open", "lost"}
    BY <1>3 DEF leave, reload, redis_leaves, redis_returns, sync_vars
  <2>3. shown' \in Gathering
    BY <1>3 DEF leave, reload, redis_leaves, redis_returns, sync_vars, Nothing, Gathering
  <2>4. up' \in BOOLEAN
    BY <1>3 DEF leave, reload, redis_leaves, redis_returns, sync_vars
  <2>5. outages' \in 0 .. MaxOutage
    BY <1>3, StateSyncAssumption DEF leave, reload, redis_leaves, redis_returns, sync_vars
  <2> QED
    BY <2>1, <2>2, <2>3, <2>4, <2>5
    DEF push, hist, Gathered, Overlapping, UnderWay, Stored
<1>4. ASSUME NEW d \in Device, device_returns(d)
      PROVE  PushInv'
  <2>1. /\ away' = away \ {d}
        /\ UNCHANGED <<state, push, redis, up, shown, page, outages, hist>>
    BY <1>4 DEF device_returns
  <2>2. SyncTypeOK'
    BY <2>1 DEF push, hist
  <2>3. Gathered' /\ Stored'
    BY <2>1 DEF push, hist, Gathered, Stored
  <2>4. Overlapping'
    BY <2>1 DEF push, hist, Overlapping, UnderWay
  <2> QED
    BY <2>2, <2>3, <2>4
<1> QED
  BY <1>1, <1>2, <1>3, <1>4

LEMMA PushInductive == SyncSafe => []PushInv
<1>1. SyncInit => PushInv
  <2> SUFFICES ASSUME SyncInit PROVE PushInv
    OBVIOUS
  <2>1. SyncTypeOK
    BY StateSyncAssumption DEF SyncInit, SyncTypeOK, State, Gathering, Nothing, Untouched, Where
  <2> QED
    BY <2>1 DEF SyncInit, PushInv, Gathered, Overlapping, UnderWay, Stored
<1>2. PushInv /\ [SyncNext]_sync_vars => PushInv'
  <2> SUFFICES ASSUME PushInv, [SyncNext]_sync_vars
               PROVE  PushInv'
    OBVIOUS
  <2>1. ASSUME NEW p \in Push, tick(p)
        PROVE  PushInv'
    BY <2>1, BeginPush, OlderOrder DEF tick, PushInv, SyncTypeOK
  <2>2. ASSUME NEW p \in Push, NEW d \in Device, change_and_push(d, p)
        PROVE  PushInv'
    BY <2>2, BeginPush, ChangedType DEF change_and_push, PushInv, SyncTypeOK
  <2>3. ASSUME NEW p \in Push, step(p)
        PROVE  PushInv'
    BY <2>3, AskPush, SetPush, HGetPush DEF step
  <2> QED
    BY <2>1, <2>2, <2>3, LeavesPush, OtherPush DEF SyncNext
<1> QED
  BY <1>1, <1>2, PTL DEF SyncSafe

\* Type correctness of the pushes.
THEOREM SyncTypeCorrect == SyncSafe => []SyncTypeOK
<1>1. PushInv => SyncTypeOK
  BY DEF PushInv
<1> QED
  BY <1>1, PushInductive, PTL

\* However many pushes overlap, overtake each other and fail, what one makes the page
\* show is no older than when the oldest of those began that it overlapped, and lacks
\* only devices that were away since then.
THEOREM PushShowsRecent == SyncSafe => ShownIsRecent
<1> DEFINE Recent ==
      \A p \in Push : at[p] = "answer" /\ at'[p] = "none" /\ stored[p] /\ page' = "open"
        => \A d \in Device : \/ oldest[p][d] <= shown'[d]
                             \/ shown'[d] = Missing /\ d \in missed[p]
<1>1. PushInv /\ [SyncNext]_sync_vars => [Recent]_sync_vars
  <2> SUFFICES ASSUME PushInv, SyncNext, NEW p \in Push, at[p] = "answer",
                      at'[p] = "none", stored[p], page' = "open"
               PROVE  Since(oldest[p], missed[p], shown')
    BY DEF Since
  <2>1. Since(oldest[p], missed[p], value[p])
    BY DEF PushInv, Stored
  <2>2. setData(p)
    BY DEF SyncNext, tick, change_and_push, begin, change, step, ask, set, hget,
       hget_rejects, setData, api_ends, over, leave, reload, redis_leaves, redis_returns,
       device_leaves, device_returns, push, PushInv, SyncTypeOK
  <2>3. shown' = value[p]
    BY <2>2 DEF setData
  <2> QED
    BY <2>1, <2>3
<1> QED
  BY <1>1, PushInductive, PTL DEF SyncSafe, ShownIsRecent
=============================================================================
