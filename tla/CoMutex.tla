------------------------------ MODULE CoMutex ------------------------------
(***************************************************************************)
(* AD_CO_MUTEX (src/public/event_sc): the recursive mutex of coroutines.   *)
(* A RUNNER (one state machine) has one, around every Lua script it runs.  *)
(* Since coroutines only switch at yield points, each step below is what a *)
(* coroutine does between two points where another one can be resumed.     *)
(*                                                                         *)
(* Its users are the call sites of RUNNER::lock_sm: each locks, runs a     *)
(* script and unlocks; the script may sleep (yield_by_timer, a device RPC) *)
(* while the mutex is held, may lock again (begin), and may add coroutines *)
(* (trigger_event).  A coroutine that returns has unlocked.                *)
(***************************************************************************)
EXTENDS CoRoutine, Sequences

CONSTANT
  \* Bound of the model: how deep lock() calls nest.  begin() nests twice.
  MaxDepth

ASSUME MaxDepthAssumption == MaxDepth \in Nat \ {0}

VARIABLES
  m_holder,      \* the coroutine that holds the mutex, or nullptr
  m_self_count,  \* how often the holder has locked it again
  m_wait_co,     \* the coroutines to wake, in order
  in_lock,       \* the coroutines in the while loop of lock()
  depth          \* how many of its lock() calls a coroutine has not undone

mutex == <<m_holder, m_self_count, m_wait_co, in_lock, depth>>

vars == <<sched, mutex>>

TypeOK ==
  /\ CoTypeOK
  /\ m_holder \in Co \cup {nullptr}
  /\ m_self_count \in Nat
  /\ m_wait_co \in Seq(Co)
  /\ in_lock \in SUBSET Co
  /\ depth \in [Co -> Nat]

Init ==
  /\ InitCo
  /\ m_holder = nullptr
  /\ m_self_count = 0
  /\ m_wait_co = << >>
  /\ in_lock = {}
  /\ depth = [c \in Co |-> 0]

-----------------------------------------------------------------------------
(* AD_CO_MUTEX::lock *)

\* Deviation: an if in place of the while loop.
MustWaitOnce(c) ==
  /\ m_holder # nullptr
  /\ m_holder # c /\ c \notin in_lock

\* Whether c goes (on) through the while loop: a holder does not enter it, and
\* who has entered it stays in it as long as there is a holder.
MustWait(c) ==
  /\ m_holder # nullptr
  /\ m_holder # c \/ c \in in_lock

QueueUp(c) == m_wait_co' = Append(m_wait_co, c)

WaitForUnlock(c) ==
  /\ MustWait(c)
  /\ QueueUp(c)
  /\ in_lock' = in_lock \cup {c}
  /\ yield_co(c)
  /\ UNCHANGED <<m_holder, m_self_count, depth>>

TakeLock(c) ==
  /\ ~MustWait(c)
  /\ IF m_holder # nullptr
       THEN m_self_count' = m_self_count + 1 /\ UNCHANGED m_holder
       ELSE m_holder' = c /\ UNCHANGED m_self_count
  /\ in_lock' = in_lock \ {c}
  /\ depth' = [depth EXCEPT ![c] = @ + 1]
  /\ UNCHANGED <<sched, m_wait_co>>

lock(c) ==
  /\ Running(c)
  /\ c \notin in_lock
  /\ depth[c] < MaxDepth
  /\ WaitForUnlock(c) \/ TakeLock(c)

\* c has been resumed in the loop of lock() and looks at m_holder again.
lock_resumed(c) ==
  /\ Running(c)
  /\ c \in in_lock
  /\ WaitForUnlock(c) \/ TakeLock(c)

-----------------------------------------------------------------------------
(* AD_CO_MUTEX::unlock *)

GiveUp ==
  IF m_self_count = 0
    THEN m_holder' = nullptr /\ UNCHANGED m_self_count
    ELSE m_self_count' = m_self_count - 1 /\ UNCHANGED m_holder

\* Deviation: nobody is woken.
WakeNobody == UNCHANGED <<m_wait_co, co_state>>

WakeFirst ==
  IF m_holder' = nullptr /\ m_wait_co # << >>
    THEN /\ m_wait_co' = Tail(m_wait_co)
         /\ co_state' = [co_state EXCEPT ![Head(m_wait_co)] = "READY"]
    ELSE UNCHANGED <<m_wait_co, co_state>>

unlock(c) ==
  /\ Running(c)
  /\ c \notin in_lock
  /\ depth[c] > 0
  /\ GiveUp
  /\ WakeFirst
  /\ depth' = [depth EXCEPT ![c] = @ - 1]
  /\ UNCHANGED <<m_co_routines, ready_co, m_current_co, in_lock>>

-----------------------------------------------------------------------------
(* What else the users of the mutex and the loop do *)

\* c waits for an event: yield_by_timer, or yield_by_fd inside an RPC.
sleep(c) ==
  /\ c \notin in_lock
  /\ yield_co(c)
  /\ UNCHANGED mutex

\* The event c sleeps for has been handled.  The loop fetches an event only when
\* no coroutine is READY, so the coroutine that handles it runs alone: EventSc
\* has that part step by step.
event_wakes(c) ==
  /\ in_epoll_wait
  /\ c \in m_co_routines \ in_lock
  /\ co_state' = [co_state EXCEPT ![c] = "READY"]
  /\ UNCHANGED <<m_co_routines, ready_co, m_current_co, mutex>>

\* A coroutine is added by the loop (a request arrived, a timer fired) or by
\* the coroutine that runs (trigger_sm_by_event).
spawn(k) ==
  /\ in_epoll_wait \/ (m_current_co # nullptr /\ m_current_co \notin in_lock)
  /\ add_co(k)
  /\ UNCHANGED <<ready_co, m_current_co, mutex>>

finish(c) ==
  /\ c \notin in_lock
  /\ depth[c] = 0
  /\ co_routine_func(c)
  /\ UNCHANGED mutex

resume(c) == resume_co(c) /\ UNCHANGED mutex

round == next_round /\ UNCHANGED mutex

Next ==
  \/ round
  \/ \E c \in Co :
       \/ resume(c)
       \/ lock(c)
       \/ lock_resumed(c)
       \/ unlock(c)
       \/ sleep(c)
       \/ event_wakes(c)
       \/ spawn(c)
       \/ finish(c)

Safe == Init /\ [][Next]_vars

-----------------------------------------------------------------------------
(* Properties *)

\* While a coroutine is between its lock() and the matching unlock(), sleeping
\* or not, no other one is: two Lua scripts never share a lua_State half way.
MutualExclusion ==
  \A c, d \in Co : depth[c] > 0 /\ depth[d] > 0 => c = d

\* m_holder and m_self_count tell exactly who is inside and how deep, so that
\* the unlock() that frees the mutex is the outermost one.
HolderIsInside ==
  \A c \in Co : depth[c] = IF m_holder = c THEN m_self_count + 1 ELSE 0

\* Who is queued is suspended in lock(), once: unlock() never wakes a coroutine
\* that sleeps for an event, is running, or has died since.
WaitersSuspended ==
  /\ \A i \in DOMAIN m_wait_co :
       m_wait_co[i] \in in_lock /\ co_state[m_wait_co[i]] = "SUSPEND"
  /\ \A i, j \in DOMAIN m_wait_co : m_wait_co[i] = m_wait_co[j] => i = j

\* Who is suspended in lock() is queued: no waiter is forgotten.
SuspendedAreQueued ==
  \A c \in in_lock :
    co_state[c] = "SUSPEND" => \E i \in DOMAIN m_wait_co : m_wait_co[i] = c

\* No lost wakeup: when the mutex is free and coroutines are queued, one that
\* was woken in lock() is about to try again.
NoLostWakeup ==
  m_holder = nullptr /\ m_wait_co # << >>
    => \E c \in in_lock : co_state[c] \in {"READY", "RUNNING"}

\* When the loop waits in epoll_wait and somebody waits for the mutex, it is
\* held by a coroutine that sleeps for an event: not everybody waits for
\* everybody.
NoDeadlock ==
  in_epoll_wait /\ in_lock # {}
    => m_holder \in m_co_routines \ in_lock

\* The mutex is the recursive lock its callers rely on.
L == INSTANCE Lock WITH Client <- Co, wants <- in_lock, depth <- depth

IsALock == L!Spec
=============================================================================
