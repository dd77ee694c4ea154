---------------------------- MODULE StateChart -----------------------------
(***************************************************************************)
(* What the configuration of a state machine promises its author           *)
(* (src/core/conf/sample.yaml: enter, do, next, events, exit): the machine *)
(* is in one state at a time; in it the enter script runs to its end, then *)
(* the do script; then, at once when the state has a do.next and otherwise *)
(* on an event, the exit script, and the next state is one the             *)
(* configuration names.  No two scripts overlap.                           *)
(***************************************************************************)
CONSTANTS
  State,       \* the names of the states
  InitState,   \* init_state
  Event,       \* the events
  do_next,     \* do.next of every state, which may name no state
  event_state  \* the next state of every state and event, likewise

VARIABLES
  state,   \* the state the machine is in
  script,  \* the script of that state that runs, or "none"
  ran      \* the scripts of that state that have ended since it was entered

vars == <<state, script, ran>>

Script == {"enter", "do", "exit"}

Successors(s) ==
  IF do_next[s] \in State
    THEN {do_next[s]}
    ELSE {event_state[s][e] : e \in Event} \cap State

Init ==
  /\ state = InitState
  /\ script = "none"
  /\ ran = {}

\* The scripts of a state start in one order.
Start(k) ==
  /\ script = "none"
  /\ \/ k = "enter" /\ ran = {}
     \/ k = "do" /\ ran = {"enter"}
     \/ k = "exit" /\ ran = {"enter", "do"}
  /\ script' = k
  /\ UNCHANGED <<state, ran>>

End(k) ==
  /\ script = k
  /\ k # "exit"
  /\ script' = "none"
  /\ ran' = ran \cup {k}
  /\ UNCHANGED state

Leave ==
  /\ script = "exit"
  /\ script' = "none"
  /\ ran' = {}
  /\ state' \in Successors(state)

Next == Leave \/ \E k \in Script : Start(k) \/ End(k)

Spec == Init /\ [][Next]_vars
=============================================================================
