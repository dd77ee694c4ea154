-------------------------------- MODULE Restart --------------------------------
(***************************************************************************)
(* "restart" of the command line (src/cli/runtime_config.cpp): it stops     *)
(* what the core daemon lists, then starts the configured devices and the   *)
(* state machine, which asks once, at its start, for the ports of the       *)
(* devices (src/core/sm_main.cpp) and calls them there ever after.          *)
(*                                                                         *)
(* Every terminal may restart the plant, and the import at the core's start *)
(* ends in a restart.  Each step is a call of its own to the core: restarts *)
(* overlap, list the same daemon, and a port that one has freed may be      *)
(* another daemon's when the other one stops it.                            *)
(*                                                                         *)
(* The daemons are ConfigManagement's, reduced to the two lists and to      *)
(* whether the port of a stopped one is still in use; a stop whose command  *)
(* is lost never returns.  A device that failed is started again at its      *)
(* port, which changes nothing here.                                       *)
(*                                                                         *)
(* A restart reads the configuration when it has stopped everything.  It     *)
(* may find it empty, in the middle of a write or not made yet, or only as  *)
(* far as an import has come: the first of the devices, or all of them      *)
(* without an initial state, which leaves out the state machine.            *)
(***************************************************************************)
EXTENDS Naturals, FiniteSets, Sequences, SequencesExt

CONSTANTS
  Session,      \* the processes of the command line, the import among them
  Devices,      \* the configured devices, in their order
  MaxPort,      \* the ports are 1 .. MaxPort
  None,
  MaxRestarts   \* bound of the model

Port == 1 .. MaxPort
Device == Range(Devices)
Machine == "sm"

ASSUME RestartAssumption ==
  /\ MaxPort \in Nat /\ MaxRestarts \in Nat
  /\ Devices \in Seq(Device)
  /\ \A i, j \in DOMAIN Devices : Devices[i] = Devices[j] => i = j
  /\ None \notin Device /\ Machine \notin Device \cup {None}

VARIABLES
  m_map,    \* what is listed at a port: a device, the state machine, or None
  busy,     \* ports of daemons that were stopped and have not ended
  at,       \* where a session is
  dev_list, \* the listed devices it has yet to stop, by their ports
  sm_list,  \* and the state machines
  waits_for, \* the port of the daemon it has told to stop
  will_start, \* how many daemons the configuration it has read has
  started,  \* how many of them it has started
  machine,  \* the process of a listed state machine, by its port
  heard,    \* the devices of the list it got that are not yet matched
  m_device_map, \* the ports by which it calls the devices, 0 if it has none
  restarts,
  newest,   \* history: the port of the state machine that was started last
  whole,    \* history: the configuration that was read last was the whole one
  alone     \* history: the restart begun last met no other

daemons == <<m_map, busy>>
lists == <<dev_list, sm_list>>
session == <<at, lists, waits_for, will_start, started>>
sm == <<machine, heard, m_device_map>>
history == <<newest, whole, alone>>
vars == <<daemons, session, sm, restarts, history>>

NoList == [p \in Port |-> None]
Unmatched == [d \in Device |-> 0]

\* Deviation: the state machine is started first.
MachineFirst == <<Machine>> \o Devices

InOrder == Append(Devices, Machine)

TypeOK ==
  /\ m_map \in [Port -> Device \cup {Machine, None}]
  /\ busy \subseteq Port
  /\ at \in [Session -> {"idle", "lists", "stops", "waits", "starts", "failed"}]
  /\ dev_list \in [Session -> SUBSET Port]
  /\ sm_list \in [Session -> SUBSET Port]
  /\ waits_for \in [Session -> Port \cup {0}]
  /\ will_start \in [Session -> 0 .. Len(InOrder)]
  /\ started \in [Session -> 0 .. Len(Devices)]
  /\ \A s \in Session : at[s] = "starts" => started[s] < will_start[s]
  /\ machine \in [Port -> {"none", "starts", "matches", "serves", "exited"}]
  /\ heard \in [Port -> [Port -> Device \cup {None}]]
  /\ m_device_map \in [Port -> [Device -> Port \cup {0}]]
  /\ restarts \in 0 .. MaxRestarts
  /\ newest \in Port \cup {0}
  /\ whole \in BOOLEAN /\ alone \in BOOLEAN

Init ==
  /\ m_map = NoList
  /\ busy = {}
  /\ at = [s \in Session |-> "idle"]
  /\ dev_list = [s \in Session |-> {}]
  /\ sm_list = [s \in Session |-> {}]
  /\ waits_for = [s \in Session |-> 0]
  /\ will_start = [s \in Session |-> 0]
  /\ started = [s \in Session |-> 0]
  /\ machine = [p \in Port |-> "none"]
  /\ heard = [p \in Port |-> NoList]
  /\ m_device_map = [p \in Port |-> Unmatched]
  /\ restarts = 0
  /\ newest = 0
  /\ whole = FALSE /\ alone = FALSE

Goes(s, from, to) ==
  /\ at[s] = from
  /\ at' = [at EXCEPT ![s] = to]

IsFirst(p, ports) == \A q \in ports : p <= q

-----------------------------------------------------------------------------
(* A restart *)

\* Deviation: a device is looked up by its name, and found once.
OneOfEachName ==
  {p \in Port : m_map[p] \in Device /\ \A q \in Port : m_map[q] = m_map[p] => p <= q}

DevicePorts == {p \in Port : m_map[p] \in Device}

get_device_list(s) ==
  /\ restarts < MaxRestarts
  /\ restarts' = restarts + 1
  /\ Goes(s, "idle", "lists") \/ Goes(s, "failed", "lists")
  /\ dev_list' = [dev_list EXCEPT ![s] = DevicePorts]
  /\ alone' = \A t \in Session \ {s} : at[t] \in {"idle", "failed"}
  /\ UNCHANGED <<daemons, sm_list, waits_for, will_start, started, sm, newest, whole>>

get_sm_list(s) ==
  /\ Goes(s, "lists", "stops")
  /\ sm_list' = [sm_list EXCEPT ![s] = {p \in Port : m_map[p] = Machine}]
  /\ UNCHANGED <<daemons, dev_list, waits_for, will_start, started, sm, restarts, history>>

TakenOff(s, p) ==
  /\ at' = [at EXCEPT ![s] = "waits"]
  /\ waits_for' = [waits_for EXCEPT ![s] = p]
  /\ m_map' = [m_map EXCEPT ![p] = None]
  /\ busy' = busy \cup {p}
  /\ machine' = [machine EXCEPT ![p] = "none"]
  /\ heard' = [heard EXCEPT ![p] = NoList]
  /\ m_device_map' = [m_device_map EXCEPT ![p] = Unmatched]

\* stop_device and stop_sm of the core: whatever daemon of that kind is listed at
\* the port now; none, if none is.
stop_device(s, p) ==
  /\ at[s] = "stops"
  /\ p \in dev_list[s] /\ IsFirst(p, dev_list[s])
  /\ dev_list' = [dev_list EXCEPT ![s] = @ \ {p}]
  /\ IF m_map[p] \in Device THEN TakenOff(s, p)
                             ELSE UNCHANGED <<daemons, at, waits_for, sm>>
  /\ UNCHANGED <<sm_list, will_start, started, restarts, history>>

stop_sm(s, p) ==
  /\ at[s] = "stops" /\ dev_list[s] = {}
  /\ p \in sm_list[s] /\ IsFirst(p, sm_list[s])
  /\ sm_list' = [sm_list EXCEPT ![s] = @ \ {p}]
  /\ IF m_map[p] = Machine THEN TakenOff(s, p)
                            ELSE UNCHANGED <<daemons, at, waits_for, sm>>
  /\ UNCHANGED <<dev_list, will_start, started, restarts, history>>

\* A daemon that was stopped ends, unless the command was lost.
daemon_ends(p) ==
  /\ p \in busy
  /\ busy' = busy \ {p}
  /\ UNCHANGED <<m_map, session, sm, restarts, history>>

stop_returns(s) ==
  /\ waits_for[s] \notin busy
  /\ Goes(s, "waits", "stops")
  /\ waits_for' = [waits_for EXCEPT ![s] = 0]
  /\ UNCHANGED <<daemons, lists, will_start, started, sm, restarts, history>>

\* The configuration as it is when this restart has stopped what it listed.  An empty one
\* starts nothing, and the command ends.
read_config_file(s) ==
  /\ dev_list[s] = {} /\ sm_list[s] = {}
  /\ \E n \in 0 .. Len(InOrder) :
       /\ Goes(s, "stops", IF n = 0 THEN "idle" ELSE "starts")
       /\ will_start' = [will_start EXCEPT ![s] = n]
       /\ whole' = (n = Len(InOrder))
  /\ started' = [started EXCEPT ![s] = 0]
  /\ UNCHANGED <<daemons, lists, waits_for, sm, restarts, newest, alone>>

FreePorts == {p \in Port : m_map[p] = None}

\* start_device and, at last, start_sm: the first port that is on no list, in use
\* or not.
start_daemon(s, p) ==
  LET what == InOrder[started[s] + 1] IN
  /\ at[s] = "starts"
  /\ p \in FreePorts /\ IsFirst(p, FreePorts)
  /\ m_map' = [m_map EXCEPT ![p] = what]
  /\ IF started[s] + 1 = will_start[s]
     THEN at' = [at EXCEPT ![s] = "idle"] /\ UNCHANGED started
     ELSE started' = [started EXCEPT ![s] = @ + 1] /\ UNCHANGED at
  /\ IF what = Machine
     THEN newest' = p /\ machine' = [machine EXCEPT ![p] = "starts"]
     ELSE UNCHANGED <<newest, machine>>
  /\ UNCHANGED <<busy, lists, waits_for, will_start, heard, m_device_map, restarts, whole, alone>>

\* Without a free port the restart ends where it is.
start_fails(s) ==
  /\ FreePorts = {}
  /\ Goes(s, "starts", "failed")
  /\ UNCHANGED <<daemons, lists, waits_for, will_start, started, sm, restarts, history>>

-----------------------------------------------------------------------------
(* The state machine's process *)

DeviceList == [q \in Port |-> IF m_map[q] \in Device THEN m_map[q] ELSE None]

\* It gets the list of devices, or ends with 0 when its port is in use.
sm_starts(p) ==
  /\ machine[p] = "starts"
  /\ IF p \in busy
     THEN machine' = [machine EXCEPT ![p] = "exited"] /\ UNCHANGED heard
     ELSE /\ machine' = [machine EXCEPT ![p] = "matches"]
          /\ heard' = [heard EXCEPT ![p] = DeviceList]
  /\ UNCHANGED <<daemons, session, m_device_map, restarts, history>>

Heard(p) == {q \in Port : heard[p][q] # None}

match_device(p, q) ==
  /\ machine[p] = "matches"
  /\ q \in Heard(p) /\ IsFirst(q, Heard(p))
  /\ m_device_map' = [m_device_map EXCEPT ![p][heard[p][q]] = q]
  /\ heard' = [heard EXCEPT ![p][q] = None]
  /\ UNCHANGED <<daemons, session, machine, restarts, history>>

begin(p) ==
  /\ machine[p] = "matches"
  /\ Heard(p) = {}
  /\ machine' = [machine EXCEPT ![p] = "serves"]
  /\ UNCHANGED <<daemons, session, heard, m_device_map, restarts, history>>

\* It fails, and is started again at its port.
sm_fails(p) ==
  /\ machine[p] \in {"matches", "serves"}
  /\ machine' = [machine EXCEPT ![p] = "starts"]
  /\ heard' = [heard EXCEPT ![p] = NoList]
  /\ m_device_map' = [m_device_map EXCEPT ![p] = Unmatched]
  /\ UNCHANGED <<daemons, session, restarts, history>>

-----------------------------------------------------------------------------

Next ==
  \/ \E s \in Session :
       \/ get_device_list(s) \/ get_sm_list(s)
       \/ \E p \in Port :
            stop_device(s, p) \/ stop_sm(s, p) \/ start_daemon(s, p)
       \/ stop_returns(s) \/ read_config_file(s) \/ start_fails(s)
  \/ \E p \in Port :
       \/ daemon_ends(p) \/ sm_starts(p) \/ begin(p) \/ sm_fails(p)
       \/ \E q \in Port : match_device(p, q)

Spec == Init /\ [][Next]_vars

-----------------------------------------------------------------------------
(* Properties *)

\* Every restart that was begun has come to its end, and the last of them that read the
\* configuration read all of it.
Rest == restarts > 0 /\ whole /\ \A s \in Session : at[s] = "idle"

\* Overlapping restarts may start daemons twice.  One that meets no other leaves
\* exactly one of each, whatever earlier ones, with whatever configuration, have left
\* behind.
OneOfEach ==
  Rest /\ alone =>
    \A what \in Device \cup {Machine} : \E p \in Port : {q \in Port : m_map[q] = what} = {p}

\* However restarts overlap, list each other's daemons and take over each other's
\* ports, and whatever the others have read: when all are done the newest state machine,
\* also after a failure and a start of its own, calls every device at a port at which this
\* device is listed.
MachineFindsDevices ==
  Rest /\ machine[newest] = "serves" =>
    \A d \in Device :
      LET p == m_device_map[newest][d] IN p # 0 /\ m_map[p] = d
=============================================================================
