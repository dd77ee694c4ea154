---------------------------- MODULE RelayDriver ----------------------------
(***************************************************************************)
(* common_driver (src/driver/lib): how a driver moves the chute (LC) to an *)
(* opening.  The chute has no sensor: the driver holds one of two relay    *)
(* coils and counts seconds.  set_lc_open turns a percentage into a number *)
(* of seconds, a one-second timer counts the position up or down and lets  *)
(* go when the expected position is reached.                               *)
(*                                                                         *)
(* Both run in coroutines of one loop and change the members below before  *)
(* anything that yields, so each is a step.                                *)
(***************************************************************************)
EXTENDS Integers

CONSTANTS
  Threshold,    \* the percentages the driver is sent
  position_coe  \* what get_position_coe returns: percent per second

\* The command line refuses other percentages; a state machine's script is
\* expected to keep to them as well.
ASSUME ThresholdAssumption == Threshold \in SUBSET (0 .. 100)

\* 20 in common_driver.  tastek's 100 / spend must be in this range too: spend is
\* between 1 and 100.
ASSUME CoeAssumption == position_coe \in 1 .. 100

VARIABLES
  m_relay_state,
  m_state_stay_position,  \* seconds, as the driver counts them from its start
  m_expect_position,
  m_lc_open_threshold,    \* the opening that is reported
  coils                   \* the coils the driver wants on

relay == <<m_relay_state, m_state_stay_position, m_expect_position,
           m_lc_open_threshold, coils>>

lc_relay_state_t == {"STOP", "HOLD_OPEN", "HOLD_CLOSE"}

\* The coils, by the direction they move the chute in.
Coil == {"open", "close"}

MaxPosition == 100 \div position_coe

RelayTypeOK ==
  /\ m_relay_state \in lc_relay_state_t
  /\ m_state_stay_position \in Int
  /\ m_expect_position \in 0 .. MaxPosition
  /\ m_lc_open_threshold \in Int
  /\ coils \in SUBSET Coil

RelayInit ==
  /\ m_relay_state = "STOP"
  /\ m_state_stay_position = 0
  /\ m_expect_position = 0
  /\ m_lc_open_threshold = 0
  /\ coils = {}

-----------------------------------------------------------------------------

\* open_close_lc_cmd: one coil is switched on or off.
open_close_lc_cmd(on, coil, is_on) == IF is_on THEN on \cup {coil} ELSE on \ {coil}

\* The two commands of relay_do_action's switch: the coil or coils the state does
\* not hold go off, then the one it holds goes on.
Switched(on, req) ==
  IF req = "HOLD_OPEN"
    THEN open_close_lc_cmd(open_close_lc_cmd(on, "close", FALSE), "open", TRUE)
    ELSE open_close_lc_cmd(open_close_lc_cmd(on, "open", FALSE), "close",
                           req = "HOLD_CLOSE")

\* Deviation: a new direction is switched on without switching the old one off.
relay_do_action_directly(req) ==
  /\ m_relay_state' = req
  /\ coils' = IF req = "STOP" THEN {}
              ELSE coils \cup {IF req = "HOLD_OPEN" THEN "open" ELSE "close"}

\* Nothing if the state is the one asked for; else a stop, and the request.
relay_do_action(req) ==
  IF m_relay_state = req
    THEN UNCHANGED <<m_relay_state, coils>>
    ELSE /\ m_relay_state' = req
         /\ coils' = IF req = "STOP" \/ m_relay_state = "STOP"
                       THEN Switched(coils, req)
                       ELSE Switched(Switched(coils, "STOP"), req)

\* Deviation: the direction is chosen from the position the last command gave.
DirectionOfOldTarget(target) == m_expect_position - m_state_stay_position

Distance(target) == target - m_state_stay_position

PositionOf(threshold) == threshold \div position_coe

\* execute_to_threshold.  At the expected position already there is nothing to
\* do, whatever the relays are doing.
set_lc_open(threshold) ==
  LET target == PositionOf(threshold) IN
  /\ m_expect_position' = target
  /\ \/ Distance(target) > 0 /\ relay_do_action("HOLD_OPEN")
     \/ Distance(target) < 0 /\ relay_do_action("HOLD_CLOSE")
     \/ Distance(target) = 0 /\ UNCHANGED <<m_relay_state, coils>>
  /\ UNCHANGED <<m_state_stay_position, m_lc_open_threshold>>

Reached(position) ==
  \/ m_relay_state = "HOLD_OPEN" /\ position >= m_expect_position
  \/ m_relay_state = "HOLD_CLOSE" /\ position <= m_expect_position

\* Deviation: only opening is counted.
CountOpening == IF m_relay_state = "HOLD_OPEN" THEN 1 ELSE 0

Count == IF m_relay_state = "HOLD_OPEN" THEN 1
         ELSE IF m_relay_state = "HOLD_CLOSE" THEN -1 ELSE 0

\* The callback of the one-second timer.
relay_timer ==
  LET position == m_state_stay_position + Count IN
  /\ m_state_stay_position' = position
  /\ IF Reached(position) THEN relay_do_action("STOP") ELSE UNCHANGED <<m_relay_state, coils>>
  /\ m_lc_open_threshold' = position * position_coe
  /\ UNCHANGED m_expect_position

RelayNext == relay_timer \/ \E t \in Threshold : set_lc_open(t)

RelaySafe == RelayInit /\ [][RelayNext]_relay

-----------------------------------------------------------------------------
(* Properties *)

\* All of these are about what the driver counts; it is 0 at every start, wherever the
\* chute is.

\* The counted position stays between 0 and the number of whole seconds that 100 percent
\* are, although commands come at any time and a command for the position just reached
\* does not stop the motion.  The coefficient is rounded down: 60 seconds of way make it
\* 1, and the position goes up to 100 seconds.
PositionInRange == m_state_stay_position \in 0 .. MaxPosition

\* So the opening that is reported is always a percentage.
ReportsPercent == m_lc_open_threshold \in 0 .. 100

\* By the driver's count it never moves away from the position last asked for.
HeadsForTarget ==
  /\ m_relay_state = "HOLD_OPEN" => m_state_stay_position <= m_expect_position
  /\ m_relay_state = "HOLD_CLOSE" => m_state_stay_position >= m_expect_position

\* At rest the count is at most one second from the position last asked for.
RestsNearTarget ==
  m_relay_state = "STOP" =>
    m_state_stay_position - m_expect_position \in {-1, 0, 1}

\* The two coils are never wanted on together, and a coil is wanted on exactly
\* while the driver counts in its direction.
CoilsFollowState ==
  /\ "open" \in coils <=> m_relay_state = "HOLD_OPEN"
  /\ "close" \in coils <=> m_relay_state = "HOLD_CLOSE"
=============================================================================
