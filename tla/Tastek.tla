------------------------------- MODULE Tastek -------------------------------
(***************************************************************************)
(* The Tastek chute driver (src/driver/tastek): common_driver's relay      *)
(* logic, and a loop that brings the coils of a PLC to what the driver     *)
(* wants.  Every 300 ms the loop reads the coils over Modbus and writes    *)
(* those that differ, in the order of their addresses: 0 opens the chute,  *)
(* 1 closes it (2 and 3 are never wanted on and are left out).             *)
(*                                                                         *)
(* A Modbus call blocks the process, so no command and no other timer runs *)
(* between the calls of one loop; the PLC is seen between them by the      *)
(* chute it drives.  The PLC keeps its coils when the process ends, and    *)
(* core starts the process again when it ended with an error.              *)
(***************************************************************************)
EXTENDS RelayDriver

CONSTANT m_modbus_retry_times

ASSUME RetryAssumption == m_modbus_retry_times \in Nat

VARIABLES
  m_real_addr_array,  \* the coils the last read that succeeded found on
  m_cur_retry_times,
  m_error,
  loop_at,   \* the coil the loop is at, or "idle"
  process,   \* the process: it runs, has ended with an error, or was stopped
  plc,       \* the coils that are on at the PLC
  link,      \* whether the PLC answers
  fresh      \* history: every Modbus call since the last loop began succeeded

driver == <<m_real_addr_array, m_cur_retry_times, m_error, loop_at>>
vars == <<relay, driver, process, plc, link, fresh>>

\* The counter is of no more use once the error is raised: it is counted up to
\* one over the limit.
RetryBound == m_modbus_retry_times + 1

TypeOK ==
  /\ RelayTypeOK
  /\ m_real_addr_array \in SUBSET Coil
  /\ m_cur_retry_times \in 0 .. RetryBound
  /\ m_error \in BOOLEAN
  /\ loop_at \in {"idle"} \cup Coil
  /\ process \in {"running", "failed", "stopped"}
  /\ plc \in SUBSET Coil
  /\ link \in BOOLEAN
  /\ fresh \in BOOLEAN

\* The PLC may have been left in any state.
Init ==
  /\ RelayInit
  /\ m_real_addr_array = {}
  /\ m_cur_retry_times = 0
  /\ m_error = FALSE
  /\ loop_at = "idle"
  /\ fresh = FALSE
  /\ process = "running"
  /\ plc \in SUBSET Coil
  /\ link \in BOOLEAN

-----------------------------------------------------------------------------
(* The Modbus loop *)

\* Deviation: a failure is counted anew in every loop.
CountInLoop(success) ==
  /\ m_cur_retry_times' = IF success \/ loop_at = "idle" THEN 0
                          ELSE IF m_cur_retry_times < RetryBound
                            THEN m_cur_retry_times + 1 ELSE RetryBound
  /\ m_error' = (m_error \/ m_cur_retry_times' > m_modbus_retry_times)

challenge_error(success) ==
  /\ m_cur_retry_times' = IF success THEN 0
                          ELSE IF m_cur_retry_times < RetryBound
                            THEN m_cur_retry_times + 1 ELSE RetryBound
  /\ m_error' = (m_error \/ m_cur_retry_times' > m_modbus_retry_times)

\* Deviation: what is read is thrown away.
ReadNothing == m_real_addr_array

ReadCoils == IF link THEN plc ELSE m_real_addr_array

\* The loop begins with a read.  If it fails the loop goes on with what the last
\* successful read found.
lc_get_coil ==
  /\ process = "running"
  /\ loop_at = "idle"
  /\ loop_at' = "open"
  /\ m_real_addr_array' = ReadCoils
  /\ challenge_error(link)
  /\ fresh' = link
  /\ UNCHANGED <<relay, process, plc, link>>

\* Deviation: only coils to switch on are written.
ToSwitchOn(coil) == coil \in coils \ m_real_addr_array

Differs(coil) == (coil \in m_real_addr_array) # (coil \in coils)

After(coil) == IF coil = "open" THEN "close" ELSE "idle"

\* A call that is not answered may have reached the PLC or not.
set_coil(coil) ==
  LET written == open_close_lc_cmd(plc, coil, coil \in coils) IN
  /\ plc' \in IF link THEN {written} ELSE {plc, written}
  /\ challenge_error(link)
  /\ fresh' = (fresh /\ link)

write_coil(coil) ==
  /\ process = "running"
  /\ loop_at = coil
  /\ loop_at' = After(coil)
  /\ IF Differs(coil) THEN set_coil(coil)
       ELSE UNCHANGED <<plc, m_cur_retry_times, m_error, fresh>>
  /\ UNCHANGED <<relay, m_real_addr_array, process, link>>

run_modbus_loop == lc_get_coil \/ \E coil \in Coil : write_coil(coil)

-----------------------------------------------------------------------------
(* The process *)

\* The relay timer and the commands run between two loops.
relay_step ==
  /\ process = "running"
  /\ loop_at = "idle"
  /\ RelayNext
  /\ UNCHANGED <<driver, process, plc, link, fresh>>

\* Deviation: the check looks at the counter.
CountIsLow == m_cur_retry_times <= m_modbus_retry_times

running_status_check == ~m_error

\* The ten-second timer ends the loop, and main returns -1.
status_timer ==
  /\ process = "running"
  /\ loop_at = "idle"
  /\ ~running_status_check
  /\ process' = "failed"
  /\ UNCHANGED <<relay, driver, plc, link, fresh>>

\* The command of core; main returns 0, with the coils as they are.
stop_device ==
  /\ process = "running"
  /\ loop_at = "idle"
  /\ process' = "stopped"
  /\ UNCHANGED <<relay, driver, plc, link, fresh>>

\* The process is killed, perhaps in the middle of a loop.
crash ==
  /\ process = "running"
  /\ process' = "failed"
  /\ UNCHANGED <<relay, driver, plc, link, fresh>>

\* Every member is new; of the outside nothing changes.
start ==
  /\ m_relay_state' = "STOP"
  /\ m_state_stay_position' = 0
  /\ m_expect_position' = 0
  /\ m_lc_open_threshold' = 0
  /\ coils' = {}
  /\ m_real_addr_array' = {}
  /\ m_cur_retry_times' = 0
  /\ m_error' = FALSE
  /\ loop_at' = "idle"
  /\ fresh' = FALSE
  /\ process' = "running"
  /\ UNCHANGED <<plc, link>>

\* core starts a process that ended with an error again, after two seconds.
restart == process = "failed" /\ start

\* Somebody starts a stopped device.
start_device == process = "stopped" /\ start

\* The network, or the PLC's power.
link_changes ==
  /\ link' = ~link
  /\ UNCHANGED <<relay, driver, process, plc, fresh>>

Next ==
  \/ run_modbus_loop
  \/ relay_step
  \/ status_timer
  \/ stop_device
  \/ crash
  \/ restart
  \/ start_device
  \/ link_changes

Safe == Init /\ [][Next]_vars

\* The timers are periodic: the loop runs again and again, and the relay timer and
\* the check, due every second and every ten, get their turn between two loops.  core's restart timer
\* fires.  Nothing is assumed of commands, crashes and the network.
Spec ==
  /\ Safe
  /\ WF_vars(run_modbus_loop)
  /\ SF_vars(process = "running" /\ loop_at = "idle" /\ relay_timer
               /\ UNCHANGED <<driver, process, plc, link, fresh>>)
  /\ SF_vars(status_timer)
  /\ WF_vars(restart)

-----------------------------------------------------------------------------
(* Properties *)

\* A loop whose calls all succeed leaves the PLC with the coils the driver wants.
LoopWritesThrough ==
  [][loop_at # "idle" /\ loop_at' = "idle" /\ fresh' /\ process' = "running"
       => plc' = coils']_vars

\* After such a loop the PLC is never left pulling both ways, whatever commands
\* came since: both coils are on only in the middle of a loop, or after a failure.
NeverBothWays == fresh /\ loop_at = "idle" => plc # Coil

\* When the PLC answers and the process lives, the PLC has what the driver wants
\* again and again, whatever failed before: stale reads, unanswered writes, coils
\* a dead process left on.
CoilsAreRestored ==
  <>[](link /\ process = "running") => []<>(plc = coils)

\* A PLC that stops answering is noticed.
DeadLinkIsNoticed ==
  [](([](~link /\ process = "running")) => <>m_error)

\* A motion comes to an end unless it gets a new target or the process ends: a
\* relay is not held for ever.
MotionEnds ==
  \A p \in 0 .. MaxPosition :
    (m_relay_state # "STOP" /\ m_expect_position = p)
      ~> (m_relay_state = "STOP" \/ m_expect_position # p \/ process # "running")

\* A driver in error is replaced by a new process, unless it is stopped.
ErrorIsReplaced ==
  m_error ~> \/ process = "running" /\ ~m_error
             \/ process = "stopped"
=============================================================================
