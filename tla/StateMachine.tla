--------------------------- MODULE StateMachine ----------------------------
(***************************************************************************)
(* A state machine daemon: DYNAMIC_SM and SM_STATE (src/sm/lib) as RUNNER  *)
(* (src/core/rpc_imp_lib) runs them, over the coroutine mutex.             *)
(*                                                                         *)
(* Every event is handled in a coroutine of its own, which looks up the    *)
(* next state, runs the exit script of the current state, replaces it,     *)
(* runs the enter script of the new one and then its do script, and goes   *)
(* on as long as there is a do.next.  The mutex is held around each script *)
(* and not around the transition, and scripts sleep in it, so that the     *)
(* transitions of two events can be interleaved at every lock().           *)
(*                                                                         *)
(* m_current_state owns its SM_STATE: replacing it destroys the object,    *)
(* also when another coroutine is in one of its member functions, waiting  *)
(* for the mutex.  What such a coroutine reads from the object afterwards  *)
(* is undefined: here it is any name or none.  It may as well end the      *)
(* process, which adds no behaviour but only cuts one short.               *)
(***************************************************************************)
EXTENDS CoMutex

CONSTANTS
  State,         \* the names of the configuration's states
  InitState,     \* init_state
  NoState,       \* no state: a null SM_STATE_PTR, no event
  Event,         \* the events that are sent
  do_next,       \* do.next of every state: a name, perhaps empty or unknown
  event_state    \* the name its "events" give for every state and event, likewise

ASSUME ConfigAssumption ==
  /\ InitState \in State
  /\ NoState \notin State

\* begin() nests lock_sm.
ASSUME NestingAssumption == MaxDepth >= 2

VARIABLES
  m_current_state,  \* the name of the state object that m_current_state owns
  step,             \* what a coroutine is doing for the machine
  event,            \* the event it was added for
  this,             \* the name of the state object it is in a function of ...
  dangling,         \* ... and the coroutines for which that was destroyed
  next_state,       \* the next state of a coroutine's transition
  ran,              \* history: the scripts of the current object that ended
  overlapped        \* history: an event did not wait until the machine rested

machine ==
  <<m_current_state, step, event, this, dangling, next_state, ran, overlapped>>

sm_vars == <<sched, mutex, machine>>

\* match, begin_enter, begin_unlock: the three parts of the first coroutine
\* before trigger(); event: proc_event is about to be called.
Step ==
  {"none", "match", "begin_enter", "begin_unlock", "event", "exit", "enter", "do"}

SmTypeOK ==
  /\ TypeOK
  /\ m_current_state \in State
  /\ step \in [Co -> Step]
  /\ event \in [Co -> Event \cup {NoState}]
  /\ this \in [Co -> State]
  /\ dangling \in SUBSET Co
  /\ next_state \in [Co -> State \cup {NoState}]
  /\ ran \in SUBSET {"enter", "do"}
  /\ overlapped \in BOOLEAN

\* main() has added the coroutine that calls match_device and begin().
SmInit ==
  /\ co_state = [c \in Co |-> IF c = 1 THEN "READY" ELSE "DEAD"]
  /\ m_co_routines = {1}
  /\ ready_co = {}
  /\ m_current_co = nullptr
  /\ m_holder = nullptr
  /\ m_self_count = 0
  /\ m_wait_co = << >>
  /\ in_lock = {}
  /\ depth = [c \in Co |-> 0]
  /\ m_current_state = InitState
  /\ step = [c \in Co |-> IF c = 1 THEN "match" ELSE "none"]
  /\ event = [c \in Co |-> NoState]
  /\ this = [c \in Co |-> InitState]
  /\ dangling = {}
  /\ next_state = [c \in Co |-> NoState]
  /\ ran = {}
  /\ overlapped = FALSE

-----------------------------------------------------------------------------
(* Events *)

\* The state of that name is looked for in the configuration.
create_sm_state(name) == IF name \in State THEN name ELSE NoState

\* c runs a script: it has the mutex for it.
InScript(c) ==
  \/ step[c] \in {"exit", "enter", "do"} /\ depth[c] = 1
  \/ step[c] = "begin_enter" /\ depth[c] = 2

\* Nobody is in a transition, nor will be without an event.
Resting ==
  \A c \in Co :
    step[c] = "none" \/ (step[c] = "do" /\ do_next[m_current_state] \notin State)

\* A coroutine for event e: a request (push_sm_event, send_sm_event), a timer's
\* callback, or the script that runs (trigger_event).
trigger_sm_by_event(k, e) ==
  /\ m_current_co # nullptr => InScript(m_current_co)
  /\ spawn(k)
  /\ step' = [step EXCEPT ![k] = "event"]
  /\ event' = [event EXCEPT ![k] = e]
  /\ overlapped' = (overlapped \/ ~Resting)
  /\ UNCHANGED <<m_current_state, this, dangling, next_state, ran>>

-----------------------------------------------------------------------------
(* The functions of the current state object *)

\* Coroutine c calls function k of the object that m_current_state owns.
Calls(c, k) ==
  /\ step' = [step EXCEPT ![c] = k]
  /\ this' = [this EXCEPT ![c] = m_current_state]
  /\ dangling' = dangling \ {c}

\* Deviation: the state is replaced before its exit script.
ChangesFirst(c, next) ==
  /\ next_state' = [next_state EXCEPT ![c] = next]
  /\ m_current_state' = IF next = NoState THEN m_current_state ELSE next
  /\ IF next = NoState
       THEN step' = [step EXCEPT ![c] = "none"] /\ UNCHANGED <<this, dangling>>
       ELSE Calls(c, "exit")

\* if (next) change_state(next), up to the call of after_exit.
ChangesTo(c, next) ==
  /\ next_state' = [next_state EXCEPT ![c] = next]
  /\ UNCHANGED m_current_state
  /\ IF next = NoState
       THEN step' = [step EXCEPT ![c] = "none"] /\ UNCHANGED <<this, dangling>>
       ELSE Calls(c, "exit")

get_event_state(e) == create_sm_state(event_state[m_current_state][e])

\* The next state is looked up, without the mutex, in the current state.
proc_event(c) ==
  /\ Running(c)
  /\ step[c] = "event"
  /\ ChangesTo(c, get_event_state(event[c]))
  /\ UNCHANGED <<sched, mutex, event, ran, overlapped>>

\* lock_sm before a script, and in begin() after match_device.
lock_sm(c) ==
  /\ \/ step[c] \in {"match", "exit", "enter", "do"} /\ depth[c] = 0
     \/ step[c] = "begin_enter" /\ depth[c] = 1
  /\ lock(c) \/ lock_resumed(c)
  /\ UNCHANGED <<m_current_state, event, next_state, ran, overlapped>>
  /\ IF step[c] = "match" /\ depth'[c] = 1
       THEN Calls(c, "begin_enter")
       ELSE UNCHANGED <<step, this, dangling>>

\* The script sleeps, or match_device waits for an answer.
sleep_wait(c) ==
  /\ InScript(c) \/ (step[c] = "match" /\ depth[c] = 0)
  /\ sleep(c)
  /\ UNCHANGED machine

\* Script k of the object c is in has ended.
Ended(c, k) == ran' = IF c \in dangling THEN ran ELSE ran \cup {k}

\* The exit script ends: the state is replaced and before_enter called.
after_exit(c) ==
  /\ step[c] = "exit" /\ InScript(c)
  /\ unlock(c)
  /\ m_current_state' = next_state[c]
  /\ step' = [step EXCEPT ![c] = "enter"]
  /\ this' = [this EXCEPT ![c] = next_state[c]]
  /\ dangling' =
       {d \in Co \ {c} : step[d] \in {"exit", "enter", "do", "begin_enter"}}
  /\ ran' = {}
  /\ UNCHANGED <<event, next_state, overlapped>>

\* Deviation: change_state is not followed by trigger().
before_enter_only(c) ==
  /\ step[c] = "enter" /\ InScript(c)
  /\ unlock(c)
  /\ step' = [step EXCEPT ![c] = "none"]
  /\ Ended(c, "enter")
  /\ UNCHANGED <<m_current_state, event, this, dangling, next_state, overlapped>>

\* The enter script ends: trigger() calls do_action of the current state.
before_enter(c) ==
  /\ step[c] = "enter" /\ InScript(c)
  /\ unlock(c)
  /\ Calls(c, "do")
  /\ Ended(c, "enter")
  /\ UNCHANGED <<m_current_state, event, next_state, overlapped>>

\* Deviation: change_state is followed by proc_event of the same event again.
do_event_again(c) ==
  /\ step[c] = "do" /\ InScript(c)
  /\ unlock(c)
  /\ LET next == create_sm_state(do_next[m_current_state])
     IN ChangesTo(c, IF next # NoState \/ event[c] = NoState
                       THEN next
                       ELSE get_event_state(event[c]))
  /\ Ended(c, "do")
  /\ UNCHANGED <<event, overlapped>>

\* The do script ends: trigger() goes on to do.next.
do_action(c) ==
  /\ step[c] = "do" /\ InScript(c)
  /\ unlock(c)
  /\ \/ c \notin dangling /\ ChangesTo(c, create_sm_state(do_next[this[c]]))
     \/ c \in dangling /\ \E s \in State \cup {NoState} : ChangesTo(c, s)
  /\ Ended(c, "do")
  /\ UNCHANGED <<event, overlapped>>

\* The enter script of begin() ends, which still holds the mutex.
begin_enter(c) ==
  /\ step[c] = "begin_enter" /\ InScript(c)
  /\ unlock(c)
  /\ step' = [step EXCEPT ![c] = "begin_unlock"]
  /\ Ended(c, "enter")
  /\ UNCHANGED <<m_current_state, event, this, dangling, next_state, overlapped>>

\* Deviation: begin() does not trigger.
begin_only(c) ==
  /\ step[c] = "begin_unlock"
  /\ unlock(c)
  /\ step' = [step EXCEPT ![c] = "none"]
  /\ UNCHANGED <<m_current_state, event, this, dangling, next_state, ran, overlapped>>

\* begin() unlocks and triggers.
begin(c) ==
  /\ step[c] = "begin_unlock"
  /\ unlock(c)
  /\ Calls(c, "do")
  /\ UNCHANGED <<m_current_state, event, next_state, ran, overlapped>>

script_ends(c) ==
  after_exit(c) \/ before_enter(c) \/ do_action(c) \/ begin_enter(c) \/ begin(c)

-----------------------------------------------------------------------------
(* The loop *)

returns(c) == step[c] = "none" /\ finish(c) /\ UNCHANGED machine

woken(c) == event_wakes(c) /\ UNCHANGED machine

resumed(c) == resume(c) /\ UNCHANGED machine

next_loop == round /\ UNCHANGED machine

SmNext ==
  \/ next_loop
  \/ \E c \in Co :
       \/ resumed(c)
       \/ woken(c)
       \/ proc_event(c)
       \/ lock_sm(c)
       \/ sleep_wait(c)
       \/ script_ends(c)
       \/ returns(c)
       \/ \E e \in Event : trigger_sm_by_event(c, e)

SmSafe == SmInit /\ [][SmNext]_sm_vars

\* The loop goes on, what a coroutine waits for comes, scripts end.
SmSpec ==
  /\ SmSafe
  /\ WF_sm_vars(next_loop)
  /\ \A c \in Co :
       /\ WF_sm_vars(resumed(c) \/ proc_event(c) \/ lock_sm(c) \/ returns(c))
       /\ SF_sm_vars(woken(c))
       /\ SF_sm_vars(script_ends(c))

-----------------------------------------------------------------------------
(* Properties *)

\* However the transitions of several events (and begin()) are interleaved, when
\* all of them are over the machine has settled: the enter and do scripts of the
\* current state object have run to their ends, and it has no do.next left to
\* follow.  trigger() after change_state, in every coroutine, sees to it.
RestIsSettled ==
  (\A c \in Co : step[c] = "none")
    => ran = {"enter", "do"} /\ do_next[m_current_state] \notin State

\* The state is never replaced under a script that runs or sleeps: the machine
\* moves between unlock_sm and the next lock_sm of one coroutine, which does not
\* yield there, so that do_action's m_next_state after its script is the one of
\* the object the script was taken from.
ScriptKeepsItsState ==
  [][m_current_state' # m_current_state
       => \A c \in Co : InScript(c) => step[c] = "exit" /\ step'[c] = "enter"]_sm_vars

\* The script that runs, as an author of a configuration calls it.
script ==
  LET c == CHOOSE d \in Co : InScript(d)
  IN IF ~\E d \in Co : InScript(d) THEN "none"
     ELSE IF step[c] = "begin_enter" THEN "enter" ELSE step[c]

\* As long as every event has waited for the machine to rest, it is the state chart
\* its configuration describes.
Chart == INSTANCE StateChart WITH state <- m_current_state

IsAStateChart ==
  Chart!Init /\ [][~overlapped' => [Chart!Next]_(Chart!vars)]_sm_vars

\* Likewise, an event that is taken up is handled to its end, through every do.next.
EventIsHandled == \A c \in Co : step[c] = "event" ~> (step[c] = "none" \/ overlapped)

\* The switch that change_state logs, from the state that was current then, is
\* the switch it makes after that state's exit script.
SwitchesFromTheLoggedState ==
  [][\A c \in Co : step[c] = "exit" /\ step'[c] = "enter" => c \notin dangling]_sm_vars
=============================================================================
