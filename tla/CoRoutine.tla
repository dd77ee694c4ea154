----------------------------- MODULE CoRoutine -----------------------------
(***************************************************************************)
(* The coroutine half of AD_EVENT_SC (src/public/event_sc).  Every daemon  *)
(* of the system is one thread that runs runEventLoop: as long as some     *)
(* coroutine is READY the loop takes a snapshot of the READY ones, resumes *)
(* each of them once, drops the DEAD ones, and starts over; only when none *)
(* is READY does it wait in epoll_wait.                                    *)
(*                                                                         *)
(* A coroutine is a number.  add_co pushes to the back of m_co_routines    *)
(* and erasing keeps the order, so a new coroutine gets the number after   *)
(* the largest one present and the order of the vector is the order of the *)
(* numbers: m_co_routines and the snapshot are sets.                       *)
(***************************************************************************)
EXTENDS Naturals

CONSTANT
  \* Bound of the model: how many coroutines exist at once.  The code has none.
  MaxCo

ASSUME MaxCoAssumption == MaxCo \in Nat \ {0}

VARIABLES
  co_state,       \* m_state of every coroutine
  m_co_routines,  \* the coroutines the loop knows
  ready_co,       \* those of the loop's snapshot that are still to be resumed
  m_current_co    \* the coroutine that runs, or nullptr in the loop itself

sched == <<co_state, m_co_routines, ready_co, m_current_co>>

Co == 1 .. MaxCo

nullptr == 0

ACR_STATE == {"READY", "RUNNING", "SUSPEND", "DEAD"}

CoTypeOK ==
  /\ co_state \in [Co -> ACR_STATE]
  /\ m_co_routines \in SUBSET Co
  /\ ready_co \in SUBSET Co
  /\ m_current_co \in Co \cup {nullptr}

InitCo ==
  /\ co_state = [c \in Co |-> "DEAD"]
  /\ m_co_routines = {}
  /\ ready_co = {}
  /\ m_current_co = nullptr

Running(c) == m_current_co = c

\* k is the number the next coroutine gets.
IsNext(k) ==
  /\ \A d \in m_co_routines : d < k
  /\ k = 1 \/ k - 1 \in m_co_routines

add_co(k) ==
  /\ IsNext(k)
  /\ m_co_routines' = m_co_routines \cup {k}
  /\ co_state' = [co_state EXCEPT ![k] = "READY"]

\* The loop resumes the snapshot in the order of the vector.
resume_co(c) ==
  /\ m_current_co = nullptr
  /\ c \in ready_co
  /\ \A d \in ready_co : c <= d
  /\ m_current_co' = c
  /\ ready_co' = ready_co \ {c}
  /\ co_state' = [co_state EXCEPT ![c] = "RUNNING"]
  /\ UNCHANGED m_co_routines

yield_co(c) ==
  /\ Running(c)
  /\ m_current_co' = nullptr
  /\ co_state' = [co_state EXCEPT ![c] = "SUSPEND"]
  /\ UNCHANGED <<m_co_routines, ready_co>>

\* The coroutine's function returns.
co_routine_func(c) ==
  /\ Running(c)
  /\ m_current_co' = nullptr
  /\ co_state' = [co_state EXCEPT ![c] = "DEAD"]
  /\ UNCHANGED <<m_co_routines, ready_co>>

\* The snapshot has been resumed: the DEAD coroutines are erased and the next
\* snapshot is taken.
next_round ==
  /\ m_current_co = nullptr
  /\ ready_co = {}
  /\ \E c \in m_co_routines : co_state[c] \in {"READY", "DEAD"}
  /\ m_co_routines' = {c \in m_co_routines : co_state[c] # "DEAD"}
  /\ ready_co' = {c \in m_co_routines : co_state[c] = "READY"}
  /\ UNCHANGED <<co_state, m_current_co>>

\* Nothing is READY: the loop is in epoll_wait.
in_epoll_wait ==
  /\ m_current_co = nullptr
  /\ ready_co = {}
  /\ \A c \in m_co_routines : co_state[c] = "SUSPEND"

(***************************************************************************)
(* The loop and resume_co keep the states of the coroutines in step with   *)
(* m_current_co and the snapshot: no two coroutines run at once, the one   *)
(* that runs is the current one, and what is about to be resumed is READY, *)
(* so that no suspended or dead context is ever switched to.               *)
(***************************************************************************)
SchedulerOK ==
  /\ \A c \in Co : co_state[c] = "RUNNING" <=> m_current_co = c
  /\ ready_co \subseteq {c \in m_co_routines : co_state[c] = "READY"}
  /\ \A c \in Co \ m_co_routines : co_state[c] = "DEAD"
=============================================================================
