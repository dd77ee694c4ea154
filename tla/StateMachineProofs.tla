------------------------ MODULE StateMachineProofs -------------------------
(***************************************************************************)
(* Proofs about CoMutex and StateMachine, for every number of coroutines,  *)
(* every nesting depth, every configuration and events that overlap or     *)
(* not.  First the mutex alone: one inductive invariant gives the safety   *)
(* properties the runs check and that it implements the safety part of     *)
(* Lock.  Each step of a machine is a step of its mutex or leaves it       *)
(* alone, so that the invariant carries over; on top of it, somebody is    *)
(* responsible for whatever the current state still has to do.  Last, the  *)
(* machine implements StateChart as long as events wait for it to rest.    *)
(***************************************************************************)
EXTENDS StateMachine, SequenceTheorems, TLAPS

(* The mutex: its inductive invariant *)

USE MaxCoAssumption, MaxDepthAssumption DEF Co, nullptr

\* The holder is alive and not itself waiting; a free mutex has no count.
HolderIsAlive ==
  /\ m_holder # nullptr =>
       m_holder \in m_co_routines \ in_lock /\ co_state[m_holder] # "DEAD"
  /\ m_holder = nullptr => m_self_count = 0

\* Who is inside lock() is alive.
WaitersAreAlive ==
  in_lock \subseteq {c \in m_co_routines : co_state[c] # "DEAD"}

IInv ==
  /\ TypeOK
  /\ SchedulerOK
  /\ HolderIsInside
  /\ HolderIsAlive
  /\ WaitersAreAlive
  /\ WaitersSuspended
  /\ SuspendedAreQueued
  /\ NoLostWakeup

-----------------------------------------------------------------------------
(* Sequences *)

\* A non-empty queue without its head keeps the other entries, one place
\* further to the front.
LEMMA TailEntries ==
  ASSUME NEW S, NEW s \in Seq(S), s # << >>
  PROVE  /\ Tail(s) \in Seq(S)
         /\ Head(s) = s[1] /\ 1 \in DOMAIN s
         /\ \A i \in DOMAIN Tail(s) : i + 1 \in DOMAIN s /\ Tail(s)[i] = s[i + 1]
         /\ \A i \in DOMAIN s : i # 1 => i - 1 \in DOMAIN Tail(s) /\ Tail(s)[i - 1] = s[i]
         /\ DOMAIN s \subseteq Nat /\ DOMAIN Tail(s) \subseteq Nat
  BY HeadTailProperties, LenProperties, EmptySeq

\* Appending keeps the entries and adds one.
LEMMA AppendEntries ==
  ASSUME NEW S, NEW s \in Seq(S), NEW e \in S
  PROVE  /\ Append(s, e) \in Seq(S)
         /\ Append(s, e) # << >>
         /\ Append(s, e)[Len(s) + 1] = e
         /\ DOMAIN Append(s, e) = DOMAIN s \cup {Len(s) + 1}
         /\ \A i \in DOMAIN s : Append(s, e)[i] = s[i]
         /\ Len(s) + 1 \notin DOMAIN s
  BY LenProperties, AppendProperties

-----------------------------------------------------------------------------
(* The inductive invariant *)

LEMMA InitIInv == Init => IInv
  BY DEF Init, InitCo, IInv, TypeOK, CoTypeOK, ACR_STATE, SchedulerOK,
         HolderIsInside, HolderIsAlive, WaitersAreAlive, WaitersSuspended,
         SuspendedAreQueued, NoLostWakeup

\* Steps of the loop and steps that leave the mutex alone.
LEMMA LoopStepIInv ==
  ASSUME IInv, round \/ \E c \in Co : resume(c)
  PROVE  IInv'
<1> USE DEF IInv, TypeOK, CoTypeOK, ACR_STATE, mutex
<1>1. CASE round
  <2> USE <1>1 DEF round, next_round
  <2>1. TypeOK'
    OBVIOUS
  <2>2. SchedulerOK'
    BY DEF SchedulerOK
  <2>3. HolderIsInside'
    BY DEF HolderIsInside
  <2>4. HolderIsAlive'
    BY DEF HolderIsAlive
  <2>5. WaitersAreAlive'
    BY DEF WaitersAreAlive
  <2>6. WaitersSuspended' /\ SuspendedAreQueued' /\ NoLostWakeup'
    BY DEF WaitersSuspended, SuspendedAreQueued, NoLostWakeup
  <2> QED
    BY <2>1, <2>2, <2>3, <2>4, <2>5, <2>6
<1>2. ASSUME NEW c \in Co, resume(c)
      PROVE  IInv'
  <2> USE <1>2 DEF resume, resume_co
  <2>0. co_state[c] = "READY" /\ c \in m_co_routines
    BY DEF SchedulerOK
  <2>1. TypeOK'
    OBVIOUS
  <2>2. SchedulerOK'
    BY DEF SchedulerOK
  <2>3. HolderIsInside'
    BY DEF HolderIsInside
  <2>4. HolderIsAlive'
    BY DEF HolderIsAlive
  <2>5. WaitersAreAlive'
    BY DEF WaitersAreAlive
  <2>6. WaitersSuspended'
    BY <2>0 DEF WaitersSuspended
  <2>7. SuspendedAreQueued'
    BY DEF SuspendedAreQueued
  <2>8. NoLostWakeup'
    BY DEF NoLostWakeup
  <2> QED
    BY <2>1, <2>2, <2>3, <2>4, <2>5, <2>6, <2>7, <2>8
<1> QED
  BY <1>1, <1>2

LEMMA ClientStepIInv ==
  ASSUME IInv, NEW c \in Co, sleep(c) \/ event_wakes(c) \/ spawn(c) \/ finish(c)
  PROVE  IInv'
<1> USE DEF IInv, TypeOK, CoTypeOK, ACR_STATE, mutex
<1>1. CASE sleep(c)
  <2> USE <1>1 DEF sleep, yield_co, Running
  <2>1. TypeOK' /\ SchedulerOK' /\ HolderIsInside'
    BY DEF SchedulerOK, HolderIsInside
  <2>2. HolderIsAlive' /\ WaitersAreAlive'
    BY DEF HolderIsAlive, WaitersAreAlive
  <2>3. WaitersSuspended' /\ SuspendedAreQueued' /\ NoLostWakeup'
    BY DEF WaitersSuspended, SuspendedAreQueued, NoLostWakeup
  <2> QED
    BY <2>1, <2>2, <2>3
<1>2. CASE event_wakes(c)
  <2> USE <1>2 DEF event_wakes, in_epoll_wait
  <2>1. TypeOK' /\ SchedulerOK' /\ HolderIsInside'
    BY DEF SchedulerOK, HolderIsInside
  <2>2. HolderIsAlive' /\ WaitersAreAlive'
    BY DEF HolderIsAlive, WaitersAreAlive
  <2>3. WaitersSuspended' /\ SuspendedAreQueued' /\ NoLostWakeup'
    BY DEF WaitersSuspended, SuspendedAreQueued, NoLostWakeup
  <2> QED
    BY <2>1, <2>2, <2>3
<1>3. CASE spawn(c)
  <2> USE <1>3 DEF spawn, add_co, IsNext, in_epoll_wait
  <2>0. c \notin m_co_routines /\ c \notin in_lock
    BY DEF WaitersAreAlive
  <2>1. TypeOK' /\ SchedulerOK' /\ HolderIsInside'
    BY <2>0 DEF SchedulerOK, HolderIsInside
  <2>2. HolderIsAlive' /\ WaitersAreAlive'
    BY <2>0 DEF HolderIsAlive, WaitersAreAlive
  <2>3. WaitersSuspended' /\ SuspendedAreQueued' /\ NoLostWakeup'
    BY <2>0 DEF WaitersSuspended, SuspendedAreQueued, NoLostWakeup
  <2> QED
    BY <2>1, <2>2, <2>3
<1>4. CASE finish(c)
  <2> USE <1>4 DEF finish, co_routine_func, Running
  <2>0. m_holder # c
    BY DEF HolderIsInside
  <2>1. TypeOK' /\ SchedulerOK' /\ HolderIsInside'
    BY DEF SchedulerOK, HolderIsInside
  <2>2. HolderIsAlive' /\ WaitersAreAlive'
    BY <2>0 DEF HolderIsAlive, WaitersAreAlive
  <2>3. WaitersSuspended'
    BY DEF WaitersSuspended
  <2>4. SuspendedAreQueued'
    BY DEF SuspendedAreQueued
  <2>5. NoLostWakeup'
    BY DEF NoLostWakeup
  <2> QED
    BY <2>1, <2>2, <2>3, <2>4, <2>5
<1> QED
  BY <1>1, <1>2, <1>3, <1>4

\* A coroutine that goes (back) to sleep in lock() is queued behind the others,
\* and since there is a holder no wakeup is due.
LEMMA WaitIInv ==
  ASSUME IInv, NEW c \in Co, WaitForUnlock(c),
         c \in in_lock \/ c \in m_co_routines
  PROVE  IInv'
<1> USE DEF IInv, TypeOK, CoTypeOK, ACR_STATE, WaitForUnlock, MustWait, QueueUp,
            yield_co, Running
<1>1. co_state[c] = "RUNNING" /\ m_holder # c
  BY DEF SchedulerOK, HolderIsAlive
<1>2. c \in m_co_routines
  BY DEF WaitersAreAlive
<1>3. \A i \in DOMAIN m_wait_co : m_wait_co[i] # c
  BY <1>1 DEF WaitersSuspended
<1>4. /\ m_wait_co' \in Seq(Co)
      /\ m_wait_co'[Len(m_wait_co) + 1] = c
      /\ DOMAIN m_wait_co' = DOMAIN m_wait_co \cup {Len(m_wait_co) + 1}
      /\ \A i \in DOMAIN m_wait_co : m_wait_co'[i] = m_wait_co[i]
      /\ Len(m_wait_co) + 1 \notin DOMAIN m_wait_co
  <2>1. m_wait_co \in Seq(Co) /\ m_wait_co' = Append(m_wait_co, c)
    OBVIOUS
  <2> HIDE DEF IInv, TypeOK, WaitForUnlock, Co
  <2> QED
    BY <2>1, AppendEntries
<1>5. TypeOK'
  BY <1>4
<1>6. SchedulerOK' /\ HolderIsInside'
  BY <1>2 DEF SchedulerOK, HolderIsInside
<1>7. HolderIsAlive' /\ WaitersAreAlive'
  BY <1>1, <1>2 DEF HolderIsAlive, WaitersAreAlive
<1>8. WaitersSuspended'
  <2>1. ASSUME NEW i \in DOMAIN m_wait_co'
        PROVE  m_wait_co'[i] \in in_lock' /\ co_state'[m_wait_co'[i]] = "SUSPEND"
    <3>1. CASE i = Len(m_wait_co) + 1
      BY <1>4, <3>1
    <3>2. CASE i \in DOMAIN m_wait_co
      <4>1. m_wait_co'[i] = m_wait_co[i] /\ m_wait_co[i] # c
        BY <1>3, <1>4, <3>2
      <4>2. m_wait_co[i] \in in_lock /\ co_state[m_wait_co[i]] = "SUSPEND"
        BY <3>2 DEF WaitersSuspended
      <4> QED
        BY <4>1, <4>2
    <3> QED
      BY <1>4, <3>1, <3>2
  <2>2. ASSUME NEW i \in DOMAIN m_wait_co', NEW j \in DOMAIN m_wait_co',
               m_wait_co'[i] = m_wait_co'[j]
        PROVE  i = j
    BY <1>3, <1>4, <2>2 DEF WaitersSuspended
  <2> QED
    BY <2>1, <2>2 DEF WaitersSuspended
<1>9. SuspendedAreQueued'
  <2> SUFFICES ASSUME NEW d \in in_lock', co_state'[d] = "SUSPEND"
               PROVE  \E i \in DOMAIN m_wait_co' : m_wait_co'[i] = d
    BY DEF SuspendedAreQueued
  <2>1. CASE d = c
    BY <1>4, <2>1
  <2>2. CASE d # c
    <3>1. d \in in_lock /\ co_state[d] = "SUSPEND"
      BY <2>2
    <3>2. PICK i \in DOMAIN m_wait_co : m_wait_co[i] = d
      BY <3>1 DEF SuspendedAreQueued
    <3> QED
      BY <1>4, <3>2
  <2> QED
    BY <2>1, <2>2
<1>10. NoLostWakeup'
  BY DEF NoLostWakeup
<1> QED
  BY <1>5, <1>6, <1>7, <1>8, <1>9, <1>10

LEMMA TakeIInv ==
  ASSUME IInv, NEW c \in Co, TakeLock(c), Running(c), c \in m_co_routines
  PROVE  IInv'
<1> USE DEF IInv, TypeOK, CoTypeOK, ACR_STATE, TakeLock, MustWait, Running, sched
<1>1. co_state[c] = "RUNNING"
  BY DEF SchedulerOK
<1>2. m_holder \in {nullptr, c} /\ m_holder' = c
  OBVIOUS
<1>3. TypeOK'
  OBVIOUS
<1>9. SchedulerOK'
  BY DEF SchedulerOK
<1>4. HolderIsInside'
  <2>1. depth[c] = IF m_holder = c THEN m_self_count + 1 ELSE 0
    BY DEF HolderIsInside
  <2>2. depth'[c] = m_self_count' + 1
    BY <1>2, <2>1 DEF HolderIsAlive
  <2>3. \A d \in Co \ {c} : depth'[d] = 0
    BY <1>2 DEF HolderIsInside
  <2> QED
    BY <1>2, <2>2, <2>3 DEF HolderIsInside
<1>5. HolderIsAlive' /\ WaitersAreAlive'
  BY <1>1, <1>2 DEF HolderIsAlive, WaitersAreAlive
<1>6. WaitersSuspended'
  BY <1>1 DEF WaitersSuspended
<1>7. SuspendedAreQueued'
  BY DEF SuspendedAreQueued
<1>8. NoLostWakeup'
  BY <1>2 DEF NoLostWakeup
<1> QED
  BY <1>3, <1>4, <1>5, <1>6, <1>7, <1>8, <1>9

LEMMA LockIInv ==
  ASSUME IInv, NEW c \in Co, lock(c) \/ lock_resumed(c)
  PROVE  IInv'
<1>1. Running(c) /\ (WaitForUnlock(c) \/ TakeLock(c))
  BY DEF lock, lock_resumed
<1>2. c \in m_co_routines
  BY <1>1 DEF IInv, TypeOK, CoTypeOK, SchedulerOK, Running
<1> QED
  BY <1>1, <1>2, WaitIInv, TakeIInv

\* unlock() that leaves the mutex held only counts down; one that frees it wakes
\* the head of the queue, which is then the coroutine NoLostWakeup asks for.
LEMMA UnlockIInv ==
  ASSUME IInv, NEW c \in Co, unlock(c)
  PROVE  IInv'
<1>0. /\ TypeOK /\ SchedulerOK /\ HolderIsInside /\ HolderIsAlive /\ WaitersAreAlive
      /\ WaitersSuspended /\ SuspendedAreQueued /\ NoLostWakeup
  BY DEF IInv
<1>a. /\ m_current_co = c /\ c \notin in_lock /\ depth[c] > 0
      /\ depth' = [depth EXCEPT ![c] = @ - 1]
      /\ UNCHANGED <<m_co_routines, ready_co, m_current_co, in_lock>>
  BY DEF unlock, Running
<1>b. \/ m_self_count = 0 /\ m_holder' = nullptr /\ UNCHANGED m_self_count
      \/ m_self_count # 0 /\ m_self_count' = m_self_count - 1 /\ UNCHANGED m_holder
  BY DEF unlock, GiveUp
<1>c. /\ m_holder' # nullptr \/ m_wait_co = << >> => UNCHANGED <<m_wait_co, co_state>>
      /\ m_holder' = nullptr /\ m_wait_co # << >> =>
           /\ m_wait_co' = Tail(m_wait_co)
           /\ co_state' = [co_state EXCEPT ![Head(m_wait_co)] = "READY"]
  BY DEF unlock, WakeFirst
<1>t. /\ co_state \in [Co -> ACR_STATE] /\ m_co_routines \subseteq Co
      /\ ready_co \subseteq Co /\ m_current_co \in Co \cup {nullptr}
      /\ m_holder \in Co \cup {nullptr} /\ m_self_count \in Nat
      /\ m_wait_co \in Seq(Co) /\ in_lock \subseteq Co /\ depth \in [Co -> Nat]
  BY <1>0 DEF TypeOK, CoTypeOK
<1>1. m_holder = c /\ depth[c] = m_self_count + 1
  BY <1>0, <1>a DEF HolderIsInside
<1>2. co_state[c] = "RUNNING"
  BY <1>0, <1>a DEF SchedulerOK
<1>d. /\ m_holder' \in Co \cup {nullptr} /\ m_self_count' \in Nat
      /\ depth' \in [Co -> Nat]
  BY <1>a, <1>b, <1>t
<1>3. HolderIsInside'
  <2>1. depth'[c] = m_self_count
    BY <1>a, <1>t, <1>1
  <2>2. \A d \in Co \ {c} : depth'[d] = 0
    BY <1>0, <1>a, <1>t, <1>1 DEF HolderIsInside
  <2>3. CASE m_self_count = 0
    BY <1>b, <1>t, <2>1, <2>2, <2>3 DEF HolderIsInside
  <2>4. CASE m_self_count # 0
    BY <1>1, <1>b, <1>t, <2>1, <2>2, <2>4 DEF HolderIsInside
  <2> QED
    BY <2>3, <2>4
<1>4. CASE m_holder' # nullptr \/ m_wait_co = << >>
  <2>1. UNCHANGED <<m_wait_co, co_state>>
    BY <1>4, <1>c
  <2>2. TypeOK' /\ SchedulerOK'
    BY <1>0, <1>a, <1>t, <1>d, <2>1 DEF TypeOK, CoTypeOK, SchedulerOK
  <2>3. HolderIsAlive' /\ WaitersAreAlive'
    BY <1>0, <1>a, <1>b, <2>1 DEF HolderIsAlive, WaitersAreAlive
  <2>4. WaitersSuspended' /\ SuspendedAreQueued'
    BY <1>0, <1>a, <2>1 DEF WaitersSuspended, SuspendedAreQueued
  <2>5. NoLostWakeup'
    BY <1>4, <2>1 DEF NoLostWakeup
  <2> QED
    BY <1>3, <2>2, <2>3, <2>4, <2>5 DEF IInv
<1>5. CASE m_holder' = nullptr /\ m_wait_co # << >>
  <2> DEFINE w == Head(m_wait_co)
  <2>1. /\ m_wait_co' = Tail(m_wait_co)
        /\ co_state' = [co_state EXCEPT ![w] = "READY"]
    BY <1>5, <1>c
  <2>2. /\ Tail(m_wait_co) \in Seq(Co)
        /\ w = m_wait_co[1] /\ 1 \in DOMAIN m_wait_co
        /\ \A i \in DOMAIN Tail(m_wait_co) :
              i + 1 \in DOMAIN m_wait_co /\ Tail(m_wait_co)[i] = m_wait_co[i + 1]
        /\ \A i \in DOMAIN m_wait_co : i # 1 =>
              i - 1 \in DOMAIN Tail(m_wait_co) /\ Tail(m_wait_co)[i - 1] = m_wait_co[i]
        /\ DOMAIN m_wait_co \subseteq Nat /\ DOMAIN Tail(m_wait_co) \subseteq Nat
    BY <1>5, <1>t, TailEntries
  <2>3. w \in in_lock /\ w \in Co /\ co_state[w] = "SUSPEND"
    BY <1>0, <1>t, <2>2 DEF WaitersSuspended
  <2>4. w # c /\ w \in m_co_routines
    BY <1>0, <1>2, <2>3 DEF WaitersAreAlive
  <2>5. TypeOK'
    BY <1>a, <1>t, <1>d, <2>1, <2>2, <2>3 DEF TypeOK, CoTypeOK, ACR_STATE
  <2>12. SchedulerOK'
    BY <1>0, <1>a, <1>t, <1>2, <2>1, <2>3, <2>4 DEF SchedulerOK
  <2>6. HolderIsAlive'
    BY <1>b, <1>1, <1>5, <1>t DEF HolderIsAlive
  <2>7. WaitersAreAlive'
    BY <1>0, <1>a, <1>t, <2>1, <2>3 DEF WaitersAreAlive
  <2>8. \A i \in DOMAIN m_wait_co : m_wait_co[i] = w => i = 1
    BY <1>0, <2>2 DEF WaitersSuspended
  <2>9. WaitersSuspended'
    <3>1. ASSUME NEW i \in DOMAIN m_wait_co'
          PROVE  m_wait_co'[i] \in in_lock' /\ co_state'[m_wait_co'[i]] = "SUSPEND"
      <4>1. i + 1 \in DOMAIN m_wait_co /\ m_wait_co'[i] = m_wait_co[i + 1] /\ i \in Nat
        BY <2>1, <2>2
      <4>2. i + 1 # 1
        <5>1. i \in DOMAIN Tail(m_wait_co)
          BY <2>1
        <5> QED
          BY <5>1, <2>2, LenProperties
      <4>3. m_wait_co[i + 1] # w
        BY <2>8, <4>1, <4>2
      <4>4. m_wait_co[i + 1] \in in_lock /\ co_state[m_wait_co[i + 1]] = "SUSPEND"
        BY <1>0, <4>1 DEF WaitersSuspended
      <4> QED
        BY <1>a, <1>t, <2>1, <2>3, <4>1, <4>3, <4>4
    <3>2. ASSUME NEW i \in DOMAIN m_wait_co', NEW j \in DOMAIN m_wait_co',
                 m_wait_co'[i] = m_wait_co'[j]
          PROVE  i = j
      <4>1. /\ i + 1 \in DOMAIN m_wait_co /\ j + 1 \in DOMAIN m_wait_co
            /\ m_wait_co[i + 1] = m_wait_co[j + 1] /\ i \in Nat /\ j \in Nat
        BY <2>1, <2>2, <3>2
      <4>2. i + 1 = j + 1
        BY <1>0, <4>1 DEF WaitersSuspended
      <4> QED
        BY <4>1, <4>2
    <3> QED
      BY <3>1, <3>2 DEF WaitersSuspended
  <2>10. SuspendedAreQueued'
    <3> SUFFICES ASSUME NEW d \in in_lock', co_state'[d] = "SUSPEND"
                 PROVE  \E i \in DOMAIN m_wait_co' : m_wait_co'[i] = d
      BY DEF SuspendedAreQueued
    <3>1. d \in in_lock /\ d # w /\ co_state[d] = "SUSPEND"
      BY <1>a, <1>t, <2>1, <2>3
    <3>2. PICK i \in DOMAIN m_wait_co : m_wait_co[i] = d
      BY <1>0, <3>1 DEF SuspendedAreQueued
    <3>3. i # 1
      BY <2>2, <3>1, <3>2
    <3> QED
      BY <2>1, <2>2, <3>2, <3>3
  <2>11. NoLostWakeup'
    BY <1>a, <1>t, <2>1, <2>3 DEF NoLostWakeup
  <2> QED
    BY <1>3, <2>5, <2>6, <2>7, <2>9, <2>10, <2>11, <2>12 DEF IInv
<1> QED
  BY <1>4, <1>5

LEMMA NextIInv == IInv /\ [Next]_vars => IInv'
<1> SUFFICES ASSUME IInv, [Next]_vars
             PROVE  IInv'
  OBVIOUS
<1>1. CASE Next
  BY <1>1, LoopStepIInv, ClientStepIInv, LockIInv, UnlockIInv DEF Next
<1>2. CASE UNCHANGED vars
  BY <1>2 DEF vars, sched, mutex, IInv, TypeOK, CoTypeOK, SchedulerOK,
              HolderIsInside, HolderIsAlive, WaitersAreAlive, WaitersSuspended,
              SuspendedAreQueued, NoLostWakeup
<1> QED
  BY <1>1, <1>2

LEMMA Inductive == Safe => []IInv
  BY InitIInv, NextIInv, PTL DEF Safe

-----------------------------------------------------------------------------
(* What the mutex guarantees *)

\* Every variable keeps the type of the C++ member it stands for.
THEOREM TypeCorrect == Safe => []TypeOK
<1>1. IInv => TypeOK
  BY DEF IInv
<1> QED
  BY <1>1, Inductive, PTL

\* At most one coroutine runs, and the loop only resumes READY ones.
THEOREM SchedulerCorrect == Safe => []SchedulerOK
<1>1. IInv => SchedulerOK
  BY DEF IInv
<1> QED
  BY <1>1, Inductive, PTL

\* m_holder and m_self_count describe who is inside; so unlock() frees the
\* mutex exactly with the outermost call.
THEOREM HolderCorrect == Safe => []HolderIsInside
<1>1. IInv => HolderIsInside
  BY DEF IInv
<1> QED
  BY <1>1, Inductive, PTL

\* Only the holder is inside.
LEMMA IInvExclusion == IInv => MutualExclusion
  BY DEF IInv, TypeOK, HolderIsInside, MutualExclusion

\* Two coroutines are never between lock() and unlock() at once.
THEOREM Exclusion == Safe => []MutualExclusion
  BY IInvExclusion, Inductive, PTL

\* unlock() wakes only coroutines that are suspended in lock(), and each of
\* those is queued.
THEOREM QueueCorrect == Safe => [](WaitersSuspended /\ SuspendedAreQueued)
<1>1. IInv => WaitersSuspended /\ SuspendedAreQueued
  BY DEF IInv
<1> QED
  BY <1>1, Inductive, PTL

\* A free mutex with a queue has a woken waiter on its way.
THEOREM WakeupCorrect == Safe => []NoLostWakeup
<1>1. IInv => NoLostWakeup
  BY DEF IInv
<1> QED
  BY <1>1, Inductive, PTL

\* With the invariant, waiters in epoll_wait mean a holder that sleeps: the
\* first in the queue would be on its way if the mutex were free.
LEMMA IInvNoDeadlock == IInv => NoDeadlock
<1> SUFFICES ASSUME IInv, in_epoll_wait, NEW c \in in_lock
             PROVE  m_holder \in m_co_routines \ in_lock
  BY DEF NoDeadlock
<1>1. /\ SuspendedAreQueued /\ NoLostWakeup /\ WaitersAreAlive /\ HolderIsAlive
      /\ m_wait_co \in Seq(Co)
  BY DEF IInv, TypeOK
<1>2. \A d \in in_lock : d \in m_co_routines /\ co_state[d] = "SUSPEND"
  BY <1>1 DEF WaitersAreAlive, in_epoll_wait
<1>3. m_wait_co # << >>
  <2>1. PICK i \in DOMAIN m_wait_co : m_wait_co[i] = c
    BY <1>1, <1>2 DEF SuspendedAreQueued
  <2> QED
    BY <2>1
<1>4. m_holder # nullptr
  BY <1>1, <1>2, <1>3 DEF NoLostWakeup
<1> QED
  BY <1>1, <1>4 DEF HolderIsAlive

\* If the loop waits for events while a coroutine waits for the mutex, the
\* holder is one of the coroutines that wait for events.
THEOREM DeadlockFree == Safe => []NoDeadlock
  BY IInvNoDeadlock, Inductive, PTL

-----------------------------------------------------------------------------
(* The mutex implements the lock its callers rely on *)

LEMMA InitRefines == Init => L!Init
  BY DEF Init, L!Init

LEMMA NextRefines == IInv /\ [Next]_vars => [L!Next]_(L!vars)
<1> SUFFICES ASSUME IInv, [Next]_vars
             PROVE  [L!Next]_(L!vars)
  OBVIOUS
<1>1. /\ HolderIsInside /\ HolderIsAlive
      /\ m_holder \in Co \cup {nullptr} /\ m_self_count \in Nat
      /\ depth \in [Co -> Nat] /\ in_lock \subseteq Co
  BY DEF IInv, TypeOK
<1>2. ASSUME NEW c \in Co, lock(c) \/ lock_resumed(c)
      PROVE  [L!Next]_(L!vars)
  <2>1. CASE WaitForUnlock(c)
    <3>1. CASE c \in in_lock
      BY <2>1, <3>1 DEF WaitForUnlock, L!vars
    <3>2. CASE c \notin in_lock
      <4>1. m_holder \in Co \ {c} /\ depth[m_holder] # 0
        BY <1>1, <2>1, <3>2 DEF WaitForUnlock, MustWait, HolderIsInside
      <4>2. L!Request(c)
        BY <2>1, <3>2, <4>1 DEF WaitForUnlock, L!Request, L!FreeFor
      <4> QED
        BY <4>2 DEF L!Next
    <3> QED
      BY <3>1, <3>2
  <2>2. CASE TakeLock(c)
    <3>1. m_holder \in {nullptr, c}
      BY <2>2 DEF TakeLock, MustWait
    <3>2. \A d \in Co \ {c} : depth[d] = 0
      BY <1>1, <3>1 DEF HolderIsInside
    <3>3. L!Acquire(c)
      BY <2>2, <3>2 DEF TakeLock, L!Acquire, L!FreeFor
    <3> QED
      BY <3>3 DEF L!Next
  <2> QED
    BY <1>2, <2>1, <2>2 DEF lock, lock_resumed
<1>3. ASSUME NEW c \in Co, unlock(c)
      PROVE  [L!Next]_(L!vars)
  BY <1>3 DEF unlock, L!Next, L!Release
<1>4. ASSUME \/ round
             \/ \E c \in Co : \/ resume(c) \/ sleep(c) \/ event_wakes(c)
                             \/ spawn(c) \/ finish(c)
      PROVE  [L!Next]_(L!vars)
  BY <1>4 DEF round, resume, sleep, event_wakes, spawn, finish, mutex, L!vars
<1>5. CASE UNCHANGED vars
  BY <1>5 DEF vars, mutex, L!vars
<1> QED
  BY <1>2, <1>3, <1>4, <1>5 DEF Next

\* Every behaviour of the mutex is one of the abstract recursive lock, with the
\* coroutines inside lock() as those that want it.
THEOREM RefinesLock == Safe => L!Safe
  BY InitRefines, NextRefines, Inductive, PTL DEF Safe, L!Safe

-----------------------------------------------------------------------------
(* The state machine: what is still to be done *)

HIDE DEF Co, nullptr

InFunction(c) == step[c] \in {"exit", "enter", "do", "begin_enter"}

\* The variables of the machine alone have their types, and who has been added
\* for an event or is about to leave a state knows which.
MachineTypeOK ==
  /\ m_current_state \in State
  /\ step \in [Co -> Step]
  /\ event \in [Co -> Event \cup {NoState}]
  /\ this \in [Co -> State]
  /\ dangling \in SUBSET Co
  /\ next_state \in [Co -> State \cup {NoState}]
  /\ ran \in SUBSET {"enter", "do"}
  /\ overlapped \in BOOLEAN
  /\ \A c \in Co : step[c] = "event" => event[c] \in Event
  /\ \A c \in Co : step[c] = "exit" => next_state[c] \in State

\* A coroutine that is over, or not there, does nothing.
DeadIsDone == \A c \in Co : co_state[c] = "DEAD" => step[c] = "none"

\* Whose object was not destroyed is in the current one.
ThisIsCurrent ==
  \A c \in Co : InFunction(c) /\ c \notin dangling => this[c] = m_current_state

\* Somebody will run the enter script of the current object,
EnterIsComing ==
  "enter" \notin ran =>
    \E c \in Co : \/ step[c] = "match"
                  \/ step[c] \in {"begin_enter", "enter"} /\ c \notin dangling

\* its do script,
DoIsComing ==
  "do" \notin ran =>
    \E c \in Co : \/ step[c] \in {"match", "begin_enter", "begin_unlock", "enter"}
                  \/ step[c] = "do" /\ c \notin dangling

\* and then leave it, if it has a do.next.
NextIsComing ==
  "do" \in ran /\ do_next[m_current_state] \in State =>
    \E c \in Co : step[c] = "exit"

MachineInv ==
  /\ MachineTypeOK
  /\ DeadIsDone
  /\ ThisIsCurrent
  /\ EnterIsComing
  /\ DoIsComing
  /\ NextIsComing

-----------------------------------------------------------------------------
(* The machine uses the mutex *)

LEMMA SmInitIInv == SmInit => IInv
<1> SUFFICES ASSUME SmInit
             PROVE  IInv
  OBVIOUS
<1>1. 1 \in Co /\ nullptr \notin Co
  BY MaxCoAssumption DEF Co, nullptr
<1>2. TypeOK /\ SchedulerOK /\ HolderIsInside
  BY <1>1 DEF SmInit, TypeOK, CoTypeOK, ACR_STATE, SchedulerOK, HolderIsInside
<1>3. HolderIsAlive /\ WaitersAreAlive
  BY DEF SmInit, HolderIsAlive, WaitersAreAlive
<1>4. WaitersSuspended /\ SuspendedAreQueued /\ NoLostWakeup
  BY DEF SmInit, WaitersSuspended, SuspendedAreQueued, NoLostWakeup
<1> QED
  BY <1>2, <1>3, <1>4 DEF IInv

LEMMA StepUsesMutex == [SmNext]_sm_vars => [Next]_vars
<1> SUFFICES ASSUME [SmNext]_sm_vars
             PROVE  [Next]_vars
  OBVIOUS
<1>1. CASE next_loop
  BY <1>1 DEF next_loop, Next
<1>2. CASE UNCHANGED sm_vars
  BY <1>2 DEF sm_vars, vars
<1>3. ASSUME NEW c \in Co,
             \/ resumed(c) \/ woken(c) \/ lock_sm(c) \/ sleep_wait(c)
             \/ script_ends(c) \/ returns(c)
      PROVE  Next
  BY <1>3 DEF Next, resumed, woken, lock_sm, sleep_wait, script_ends, returns,
              after_exit, before_enter, do_action, begin_enter, begin
<1>4. ASSUME NEW c \in Co, proc_event(c)
      PROVE  UNCHANGED vars
  BY <1>4 DEF proc_event, vars
<1>5. ASSUME NEW c \in Co, NEW e \in Event, trigger_sm_by_event(c, e)
      PROVE  Next
  BY <1>5 DEF trigger_sm_by_event, Next
<1> QED
  BY <1>1, <1>2, <1>3, <1>4, <1>5 DEF SmNext

LEMMA SmMutexInductive == SmSafe => []IInv
<1>1. IInv /\ [SmNext]_sm_vars => IInv'
  BY StepUsesMutex, NextIInv
<1> QED
  BY <1>1, SmInitIInv, PTL DEF SmSafe

\* Two scripts of a machine never overlap, sleeping or not; no coroutine that
\* waits to run one is forgotten, and they do not all wait for each other.
THEOREM SmScriptsExclude == SmSafe => [](MutualExclusion /\ NoLostWakeup /\ NoDeadlock)
<1>1. IInv => NoLostWakeup
  BY DEF IInv
<1> QED
  BY <1>1, IInvExclusion, IInvNoDeadlock, SmMutexInductive, PTL

\* The mutex of a machine is the abstract recursive lock, too, with all that the machine
\* does while it holds it: nothing but its own lock() and unlock() touches it.
THEOREM SmRefinesLock == SmSafe => L!Safe
<1>1. SmInit => L!Init
  BY DEF SmInit, L!Init
<1>2. IInv /\ [SmNext]_sm_vars => [L!Next]_(L!vars)
  BY StepUsesMutex, NextRefines
<1> QED
  BY <1>1, <1>2, SmMutexInductive, PTL DEF SmSafe, L!Safe

-----------------------------------------------------------------------------
(* The machine's part of the inductive invariant *)

LEMMA SmInitMachine == SmInit => MachineInv
<1> SUFFICES ASSUME SmInit
             PROVE  MachineInv
  OBVIOUS
<1>1. 1 \in Co
  BY MaxCoAssumption DEF Co
<1> QED
  BY <1>1, ConfigAssumption DEF SmInit, MachineInv, MachineTypeOK, DeadIsDone,
     ThisIsCurrent, EnterIsComing, DoIsComing, NextIsComing, Step, InFunction

\* Steps that leave the machine alone: the loop, sleeping and waking, returning.
LEMMA LoopStepMachine ==
  ASSUME IInv, MachineInv, UNCHANGED machine,
         \/ next_loop
         \/ \E c \in Co : resumed(c) \/ woken(c) \/ sleep_wait(c) \/ returns(c)
  PROVE  MachineInv'
<1>1. DeadIsDone'
  <2>1. CASE next_loop
    BY <2>1 DEF next_loop, round, next_round, MachineInv, DeadIsDone, machine
  <2>2. ASSUME NEW c \in Co, resumed(c) \/ woken(c) \/ sleep_wait(c) \/ returns(c)
        PROVE  DeadIsDone'
    <3>1. co_state \in [Co -> ACR_STATE]
      BY DEF IInv, TypeOK, CoTypeOK
    <3>2. /\ co_state'[c] = "DEAD" => step[c] = "none"
          /\ \A d \in Co \ {c} : co_state'[d] = co_state[d]
      BY <2>2, <3>1 DEF resumed, resume, resume_co, woken, event_wakes, sleep_wait,
         sleep, yield_co, returns, finish, co_routine_func
    <3> QED
      BY <3>2 DEF MachineInv, DeadIsDone, machine
  <2> QED
    BY <2>1, <2>2
<1> QED
  BY <1>1 DEF MachineInv, MachineTypeOK, ThisIsCurrent, EnterIsComing, DoIsComing,
     NextIsComing, InFunction, machine

\* A coroutine that is added has no part in the machine yet.
LEMMA EventStepMachine ==
  ASSUME IInv, MachineInv, NEW k \in Co, NEW e \in Event, trigger_sm_by_event(k, e)
  PROVE  MachineInv'
<1>1. step[k] = "none"
  <2>1. k \notin m_co_routines
    BY DEF trigger_sm_by_event, spawn, add_co, IsNext, Co
  <2> QED
    BY <2>1 DEF IInv, SchedulerOK, MachineInv, DeadIsDone
<1>2. /\ step' = [step EXCEPT ![k] = "event"]
      /\ event' = [event EXCEPT ![k] = e]
      /\ UNCHANGED <<m_current_state, this, dangling, next_state, ran>>
      /\ co_state' = [co_state EXCEPT ![k] = "READY"]
  BY DEF trigger_sm_by_event, spawn, add_co
<1>3. MachineTypeOK'
  <2>1. overlapped' \in BOOLEAN
    BY DEF trigger_sm_by_event
  <2> QED
    BY <1>2, <2>1 DEF MachineInv, MachineTypeOK, Step
<1>4. DeadIsDone'
  BY <1>2 DEF IInv, TypeOK, CoTypeOK, MachineInv, DeadIsDone, MachineTypeOK
<1>5. \A c \in Co : step'[c] = step[c] \/ (step[c] = "none" /\ step'[c] = "event")
  BY <1>1, <1>2 DEF MachineInv, MachineTypeOK
<1> QED
  BY <1>2, <1>3, <1>4, <1>5 DEF MachineInv, ThisIsCurrent, EnterIsComing,
     DoIsComing, NextIsComing, InFunction

\* The mutex kills nobody, and who uses it is not dead.
LEMMA NobodyDies ==
  ASSUME IInv, NEW c \in Co, Running(c),
         lock(c) \/ lock_resumed(c) \/ unlock(c) \/ UNCHANGED sched
  PROVE  \A d \in Co : co_state'[d] = "DEAD" => co_state[d] = "DEAD" /\ d # c
<1>1. co_state[c] = "RUNNING" /\ co_state \in [Co -> ACR_STATE]
  BY DEF IInv, SchedulerOK, TypeOK, CoTypeOK, Running, Co, nullptr
<1>2. CASE UNCHANGED sched
  BY <1>1, <1>2 DEF sched
<1>3. CASE lock(c) \/ lock_resumed(c)
  BY <1>1, <1>3 DEF lock, lock_resumed, WaitForUnlock, TakeLock, yield_co, sched
<1>4. CASE unlock(c)
  BY <1>1, <1>4 DEF unlock, WakeFirst
<1> QED
  BY <1>2, <1>3, <1>4

\* Nobody becomes DEAD in a step that only changes c's part, so this is left.
LEMMA DeadStayDone ==
  ASSUME IInv, MachineInv, NEW c \in Co, Running(c),
         lock(c) \/ lock_resumed(c) \/ unlock(c) \/ UNCHANGED sched,
         NEW k, step' = [step EXCEPT ![c] = k] \/ UNCHANGED step
  PROVE  DeadIsDone'
  BY NobodyDies DEF MachineInv, MachineTypeOK, DeadIsDone

\* The next state is looked up and followed, or there is none: c was neither
\* about to enter a state nor to do its script, or has just done it.
LEMMA ChangesToMachine ==
  ASSUME MachineInv, NEW c \in Co, NEW next \in State \cup {NoState},
         ChangesTo(c, next), UNCHANGED <<event, overlapped>>, DeadIsDone',
         \/ step[c] = "event" /\ ran' = ran
         \/ step[c] = "do" /\ c \in dangling /\ ran' = ran
         \/ /\ step[c] = "do" /\ next = create_sm_state(do_next[m_current_state])
            /\ ran' = ran \cup {"do"}
  PROVE  MachineInv'
<1> USE DEF MachineInv, MachineTypeOK, ChangesTo
<1>1. NoState \notin State
  BY ConfigAssumption
<1>2. CASE next = NoState
  <2>1. /\ step' = [step EXCEPT ![c] = "none"]
        /\ UNCHANGED <<m_current_state, this, dangling>>
        /\ next_state' = [next_state EXCEPT ![c] = next]
    BY <1>2
  <2>2. MachineTypeOK'
    BY <2>1 DEF Step
  <2>3. ThisIsCurrent'
    BY <2>1 DEF ThisIsCurrent, InFunction
  <2>4. EnterIsComing'
    BY <2>1 DEF EnterIsComing
  <2>5. DoIsComing'
    BY <2>1 DEF DoIsComing
  <2>6. NextIsComing'
    BY <1>1, <1>2, <2>1 DEF NextIsComing, create_sm_state
  <2> QED
    BY <2>2, <2>3, <2>4, <2>5, <2>6
<1>3. CASE next # NoState
  <2>1. /\ step' = [step EXCEPT ![c] = "exit"]
        /\ this' = [this EXCEPT ![c] = m_current_state]
        /\ dangling' = dangling \ {c}
        /\ UNCHANGED m_current_state
        /\ next_state' = [next_state EXCEPT ![c] = next]
    BY <1>3 DEF Calls
  <2>2. MachineTypeOK'
    BY <1>1, <1>3, <2>1 DEF Step
  <2>3. ThisIsCurrent'
    BY <2>1 DEF ThisIsCurrent, InFunction
  <2>4. EnterIsComing'
    BY <2>1 DEF EnterIsComing
  <2>5. DoIsComing'
    BY <2>1 DEF DoIsComing
  <2>6. NextIsComing'
    BY <2>1 DEF NextIsComing
  <2> QED
    BY <2>2, <2>3, <2>4, <2>5, <2>6
<1> QED
  BY <1>2, <1>3

LEMMA ProcEventMachine ==
  ASSUME IInv, MachineInv, NEW c \in Co, proc_event(c)
  PROVE  MachineInv'
<1>1. get_event_state(event[c]) \in State \cup {NoState}
  BY DEF get_event_state, create_sm_state
<1>2. \E k : step' = [step EXCEPT ![c] = k]
  BY DEF proc_event, ChangesTo, Calls
<1>3. DeadIsDone'
  BY <1>2, DeadStayDone DEF proc_event
<1> QED
  BY <1>1, <1>3, ChangesToMachine DEF proc_event

LEMMA DoActionMachine ==
  ASSUME IInv, MachineInv, NEW c \in Co, do_action(c)
  PROVE  MachineInv'
<1>1. \E k : step' = [step EXCEPT ![c] = k]
  BY DEF do_action, ChangesTo, Calls
<1>2. DeadIsDone'
  BY <1>1, DeadStayDone DEF do_action, unlock
<1>3. CASE c \notin dangling
  <2>1. this[c] = m_current_state
    BY <1>3 DEF MachineInv, ThisIsCurrent, InFunction, do_action
  <2>2. create_sm_state(do_next[this[c]]) \in State \cup {NoState}
    BY DEF create_sm_state
  <2> QED
    BY <1>2, <1>3, <2>1, <2>2, ChangesToMachine DEF do_action, Ended
<1>4. CASE c \in dangling
  BY <1>2, <1>4, ChangesToMachine DEF do_action, Ended
<1> QED
  BY <1>3, <1>4

\* lock_sm, and the first enter script, which ends in begin().
LEMMA LockSmMachine ==
  ASSUME IInv, MachineInv, NEW c \in Co, lock_sm(c)
  PROVE  MachineInv'
<1>1. \E k : step' = [step EXCEPT ![c] = k] \/ UNCHANGED step
  BY DEF lock_sm, Calls
<1>2. DeadIsDone'
  BY <1>1, DeadStayDone DEF lock_sm, lock, lock_resumed
<1>3. CASE UNCHANGED <<step, this, dangling>>
  BY <1>2, <1>3 DEF lock_sm, MachineInv, MachineTypeOK, ThisIsCurrent, EnterIsComing,
     DoIsComing, NextIsComing, InFunction
<1>4. CASE step[c] = "match" /\ Calls(c, "begin_enter")
  BY <1>2, <1>4 DEF lock_sm, Calls, MachineInv, MachineTypeOK, ThisIsCurrent,
     EnterIsComing, DoIsComing, NextIsComing, InFunction, Step
<1> QED
  BY <1>3, <1>4 DEF lock_sm

LEMMA ScriptEndMachine ==
  ASSUME IInv, MachineInv, NEW c \in Co,
         after_exit(c) \/ before_enter(c) \/ begin_enter(c) \/ begin(c)
  PROVE  MachineInv'
<1> USE DEF MachineInv, MachineTypeOK
<1>1. \E k : step' = [step EXCEPT ![c] = k]
  BY DEF after_exit, before_enter, begin_enter, begin, Calls
<1>2. DeadIsDone'
  BY <1>1, DeadStayDone DEF after_exit, before_enter, begin_enter, begin, unlock
<1>3. CASE after_exit(c)
  <2> USE <1>3 DEF after_exit
  <2>1. MachineTypeOK'
    BY DEF Step
  <2>2. ThisIsCurrent'
    BY DEF ThisIsCurrent, InFunction
  <2>3. EnterIsComing' /\ DoIsComing' /\ NextIsComing'
    BY DEF EnterIsComing, DoIsComing, NextIsComing
  <2> QED
    BY <1>2, <2>1, <2>2, <2>3
<1>4. CASE before_enter(c)
  <2> USE <1>4 DEF before_enter, Calls, Ended
  <2>1. MachineTypeOK'
    BY DEF Step
  <2>2. ThisIsCurrent'
    BY DEF ThisIsCurrent, InFunction
  <2>3. EnterIsComing'
    BY DEF EnterIsComing
  <2>4. DoIsComing'
    BY DEF DoIsComing
  <2>5. NextIsComing'
    BY DEF NextIsComing
  <2> QED
    BY <1>2, <2>1, <2>2, <2>3, <2>4, <2>5
<1>5. CASE begin_enter(c)
  <2> USE <1>5 DEF begin_enter, Ended
  <2>1. MachineTypeOK'
    BY DEF Step
  <2>2. ThisIsCurrent'
    BY DEF ThisIsCurrent, InFunction
  <2>3. EnterIsComing'
    BY DEF EnterIsComing
  <2>4. DoIsComing'
    BY DEF DoIsComing
  <2>5. NextIsComing'
    BY DEF NextIsComing
  <2> QED
    BY <1>2, <2>1, <2>2, <2>3, <2>4, <2>5
<1>6. CASE begin(c)
  <2> USE <1>6 DEF begin, Calls
  <2>1. MachineTypeOK'
    BY DEF Step
  <2>2. ThisIsCurrent'
    BY DEF ThisIsCurrent, InFunction
  <2>3. EnterIsComing' /\ DoIsComing' /\ NextIsComing'
    BY DEF EnterIsComing, DoIsComing, NextIsComing
  <2> QED
    BY <1>2, <2>1, <2>2, <2>3
<1> QED
  BY <1>3, <1>4, <1>5, <1>6

LEMMA StepMachine == IInv /\ MachineInv /\ [SmNext]_sm_vars => MachineInv'
<1> SUFFICES ASSUME IInv, MachineInv, [SmNext]_sm_vars
             PROVE  MachineInv'
  OBVIOUS
<1>1. CASE UNCHANGED sm_vars
  BY <1>1 DEF sm_vars, sched, machine, MachineInv, MachineTypeOK, DeadIsDone,
     ThisIsCurrent, EnterIsComing, DoIsComing, NextIsComing, InFunction
<1>2. CASE next_loop
  BY <1>2, LoopStepMachine DEF next_loop
<1>3. ASSUME NEW c \in Co, resumed(c) \/ woken(c) \/ sleep_wait(c) \/ returns(c)
      PROVE  MachineInv'
  BY <1>3, LoopStepMachine DEF resumed, woken, sleep_wait, returns
<1>4. ASSUME NEW c \in Co, proc_event(c) \/ lock_sm(c) \/ script_ends(c)
      PROVE  MachineInv'
  BY <1>4, ProcEventMachine, LockSmMachine, ScriptEndMachine, DoActionMachine
     DEF script_ends
<1>5. ASSUME NEW c \in Co, NEW e \in Event, trigger_sm_by_event(c, e)
      PROVE  MachineInv'
  BY <1>5, EventStepMachine
<1> QED
  BY <1>1, <1>2, <1>3, <1>4, <1>5 DEF SmNext

LEMMA SmInductive == SmSafe => [](IInv /\ MachineInv)
<1>1. IInv /\ MachineInv /\ [SmNext]_sm_vars => (IInv /\ MachineInv)'
  BY StepUsesMutex, NextIInv, StepMachine
<1> QED
  BY <1>1, SmInitIInv, SmInitMachine, PTL DEF SmSafe

-----------------------------------------------------------------------------
(* What a machine guarantees *)

\* The current state is always one of the configuration, never null.
THEOREM SmTypeCorrect == SmSafe => []SmTypeOK
<1>1. IInv /\ MachineInv => SmTypeOK
  BY DEF IInv, MachineInv, MachineTypeOK, SmTypeOK
<1> QED
  BY <1>1, SmInductive, PTL

\* Whatever events overlap, when their transitions are over the current state
\* has been entered, its do script has run, and there is no do.next.
THEOREM SmSettles == SmSafe => []RestIsSettled
<1>1. IInv /\ MachineInv => RestIsSettled
  <2> SUFFICES ASSUME MachineInv, \A c \in Co : step[c] = "none"
               PROVE  ran = {"enter", "do"} /\ do_next[m_current_state] \notin State
    BY DEF RestIsSettled
  <2>1. "enter" \in ran /\ "do" \in ran
    BY DEF MachineInv, EnterIsComing, DoIsComing
  <2>2. do_next[m_current_state] \notin State
    BY <2>1 DEF MachineInv, NextIsComing
  <2> QED
    BY <2>1, <2>2 DEF MachineInv, MachineTypeOK
<1> QED
  BY <1>1, SmInductive, PTL

\* The state is never replaced while a script, of any coroutine, is in progress.
THEOREM SmScriptKeepsState == SmSafe => ScriptKeepsItsState
<1> DEFINE Kept ==
      m_current_state' # m_current_state
        => \A c \in Co : InScript(c) => step[c] = "exit" /\ step'[c] = "enter"
<1>1. ASSUME IInv, MachineInv, SmNext, m_current_state' # m_current_state
      PROVE  \E c \in Co : after_exit(c)
  BY <1>1 DEF SmNext, next_loop, resumed, woken, proc_event, ChangesTo, lock_sm,
     sleep_wait, script_ends, before_enter, do_action, begin_enter, begin, returns,
     trigger_sm_by_event, machine
<1>2. ASSUME IInv, MachineInv, [SmNext]_sm_vars
      PROVE  [Kept]_sm_vars
  <2> SUFFICES ASSUME SmNext, m_current_state' # m_current_state,
                      NEW d \in Co, InScript(d)
               PROVE  step[d] = "exit" /\ step'[d] = "enter"
    BY <1>2
  <2>1. PICK c \in Co : after_exit(c)
    BY <1>1, <1>2
  <2>2. depth[c] > 0 /\ depth[d] > 0
    BY <2>1 DEF after_exit, InScript
  <2>3. c = d
    BY <1>2, <2>2, IInvExclusion DEF MutualExclusion
  <2> QED
    BY <1>2, <2>1, <2>3 DEF after_exit, MachineInv, MachineTypeOK
<1> QED
  BY <1>2, SmInductive, PTL DEF SmSafe, ScriptKeepsItsState

-----------------------------------------------------------------------------
(* The state machine as a state chart *)

\* Nobody else does anything for the machine.
Alone(c) == \A d \in Co \ {c} : step[d] = "none"

\* How often a coroutine has locked tells which part of a transition it is in;
\* whether events overlap or not.
DepthFits ==
  \A c \in Co :
    /\ step[c] \in {"none", "match", "event"} => depth[c] = 0
    /\ step[c] \in {"exit", "enter", "do"} => depth[c] \in {0, 1}
    /\ step[c] = "begin_enter" => depth[c] \in {1, 2}
    /\ step[c] = "begin_unlock" => depth[c] = 1

\* A transition is made alone, but for the do script that ends it: an event that
\* comes while that runs is taken up, and its exit script waits for the mutex.
OneTransition ==
  \A c \in Co :
    /\ step[c] \in {"match", "begin_enter", "begin_unlock", "enter"} => Alone(c)
    /\ step[c] = "do" =>
         Alone(c)
         \/ /\ do_next[m_current_state] \notin State /\ depth[c] = 1
            /\ \A d \in Co \ {c} : step[d] \in {"none", "event", "exit"}
    /\ step[c] \in {"event", "exit"} => \A d \in Co \ {c} : step[d] \in {"none", "do"}

\* Therefore every other script gets the mutex without waiting; between an enter
\* script and the do script the coroutine does not yield.
LocksAtOnce ==
  /\ \A c \in Co : step[c] = "do" /\ depth[c] = 0 => Running(c)
  /\ \A c \in in_lock : step[c] = "exit"

\* The scripts that have ended are those before the one that is to run.
RanFits ==
  ran = IF \E c \in Co : step[c] \in {"match", "begin_enter", "enter"} THEN {}
        ELSE IF \E c \in Co : step[c] \in {"begin_unlock", "do"} THEN {"enter"}
        ELSE {"enter", "do"}

\* Who is about to leave the state leaves it for one that its configuration names.
NextFits ==
  \A c \in Co :
    /\ step[c] = "event" => do_next[m_current_state] \notin State
    /\ step[c] = "exit" => next_state[c] \in Chart!Successors(m_current_state)

\* All this as long as every event has waited for the machine to rest.
WaitsForRest ==
  ~overlapped =>
    /\ dangling = {}
    /\ OneTransition
    /\ LocksAtOnce
    /\ RanFits
    /\ NextFits

ChartInv == DepthFits /\ WaitsForRest

LEMMA SmInitChart == SmInit => ChartInv
<1> SUFFICES ASSUME SmInit
             PROVE  ChartInv
  OBVIOUS
<1>1. 1 \in Co
  BY MaxCoAssumption DEF Co
<1> QED
  BY <1>1 DEF SmInit, ChartInv, WaitsForRest, DepthFits, OneTransition, Alone,
     LocksAtOnce, RanFits, NextFits

\* Every lock() and unlock() moves its coroutine on.
LEMMA DepthStep ==
  ASSUME IInv, MachineInv, DepthFits, [SmNext]_sm_vars
  PROVE  DepthFits'
<1> USE DEF DepthFits, MachineInv, MachineTypeOK
<1>0. depth \in [Co -> Nat]
  BY DEF IInv, TypeOK
<1>1. CASE UNCHANGED sm_vars \/ next_loop
  BY <1>1 DEF sm_vars, machine, mutex, next_loop, round
<1>2. ASSUME NEW c \in Co, resumed(c) \/ woken(c) \/ sleep_wait(c) \/ returns(c)
      PROVE  DepthFits'
  BY <1>2 DEF resumed, woken, sleep_wait, returns, resume, event_wakes, sleep, finish,
     machine, mutex
<1>3. ASSUME NEW c \in Co, proc_event(c)
      PROVE  DepthFits'
  BY <1>3 DEF proc_event, ChangesTo, Calls, mutex
<1>4. ASSUME NEW c \in Co, lock_sm(c)
      PROVE  DepthFits'
  BY <1>0, <1>4 DEF lock_sm, Calls, lock, lock_resumed, WaitForUnlock, TakeLock
<1>5. ASSUME NEW c \in Co, script_ends(c)
      PROVE  DepthFits'
  <2>1. depth' = [depth EXCEPT ![c] = @ - 1] /\ (step[c] # "begin_unlock" => InScript(c))
    BY <1>5 DEF script_ends, after_exit, before_enter, do_action, begin_enter, begin, unlock
  <2>2. CASE do_action(c)
    BY <1>0, <2>1, <2>2 DEF do_action, ChangesTo, Calls, InScript
  <2>3. CASE ~do_action(c)
    BY <1>0, <1>5, <2>1, <2>3 DEF script_ends, after_exit, before_enter, begin_enter,
       begin, Calls, InScript
  <2> QED
    BY <2>2, <2>3
<1>6. ASSUME NEW c \in Co, NEW e \in Event, trigger_sm_by_event(c, e)
      PROVE  DepthFits'
  <2>1. c \notin m_co_routines
    BY <1>6 DEF trigger_sm_by_event, spawn, add_co, IsNext, Co
  <2>2. step[c] = "none"
    BY <2>1 DEF IInv, SchedulerOK, DeadIsDone
  <2> QED
    BY <1>6, <2>2 DEF trigger_sm_by_event, spawn, mutex
<1> QED
  BY <1>1, <1>2, <1>3, <1>4, <1>5, <1>6 DEF SmNext

\* While events wait for the machine to rest, only an exit script waits for the mutex.
LEMMA OnlyExitWaits ==
  ASSUME IInv, MachineInv, ChartInv, ~overlapped,
         NEW c \in Co, lock_sm(c), step[c] # "exit"
  PROVE  TakeLock(c)
<1> USE DEF ChartInv, WaitsForRest
<1>1. c \notin in_lock
  BY DEF LocksAtOnce
<1>2. CASE step[c] = "begin_enter"
  <2>1. m_holder = c
    BY <1>2 DEF lock_sm, IInv, HolderIsInside
  <2> QED
    BY <1>1, <2>1 DEF lock_sm, lock, lock_resumed, WaitForUnlock, MustWait
<1>3. CASE step[c] \in {"match", "enter", "do"}
  <2>1. Alone(c) /\ depth[c] = 0
    BY <1>3 DEF OneTransition, lock_sm
  <2>2. ASSUME m_holder # nullptr
        PROVE  FALSE
    <3>1. m_holder \in Co /\ depth[m_holder] = m_self_count + 1 /\ m_self_count \in Nat
      BY <2>2 DEF IInv, TypeOK, HolderIsInside
    <3>2. depth[m_holder] > 0 /\ m_holder # c
      BY <2>1, <3>1
    <3>3. step[m_holder] = "none"
      BY <2>1, <3>1, <3>2 DEF Alone
    <3> QED
      BY <3>1, <3>2, <3>3 DEF DepthFits
  <2> QED
    BY <1>1, <2>2 DEF lock_sm, lock, lock_resumed, WaitForUnlock, MustWait
<1> QED
  BY <1>2, <1>3 DEF lock_sm

\* Steps that leave the machine alone.
LEMMA LoopStepChart ==
  ASSUME IInv, MachineInv, ChartInv, ~overlapped, UNCHANGED <<machine, mutex>>,
         \/ next_loop
         \/ \E c \in Co : resumed(c) \/ woken(c) \/ sleep_wait(c) \/ returns(c)
  PROVE  WaitsForRest'
<1> USE DEF ChartInv, WaitsForRest
<1>1. LocksAtOnce'
  <2> SUFFICES ASSUME NEW d \in Co, step[d] = "do", depth[d] = 0
               PROVE  m_current_co' = d
    BY DEF LocksAtOnce, machine, mutex, Running
  <2>1. m_current_co = d /\ d # nullptr
    BY DEF LocksAtOnce, Running, Co, nullptr
  <2> QED
    BY <2>1 DEF next_loop, round, next_round, resumed, resume, resume_co, woken,
       event_wakes, sleep_wait, sleep, yield_co, InScript, returns, finish,
       co_routine_func, Running
<1> QED
  BY <1>1 DEF machine, mutex, OneTransition, Alone, RanFits, NextFits

\* An event is only accepted beside a do script that has begun and is the last.
LEMMA EventStepChart ==
  ASSUME IInv, MachineInv, ChartInv, ~overlapped',
         NEW k \in Co, NEW e \in Event, trigger_sm_by_event(k, e)
  PROVE  WaitsForRest'
<1> USE DEF ChartInv, WaitsForRest, MachineInv, MachineTypeOK
<1>1. step[k] = "none"
  <2>1. k \notin m_co_routines
    BY DEF trigger_sm_by_event, spawn, add_co, IsNext, Co
  <2> QED
    BY <2>1 DEF IInv, SchedulerOK, DeadIsDone
<1>2. /\ step' = [step EXCEPT ![k] = "event"]
      /\ UNCHANGED <<m_current_state, dangling, next_state, ran, mutex, m_current_co>>
      /\ ~overlapped /\ Resting
  BY DEF trigger_sm_by_event, spawn
<1>3. \A d \in Co : step[d] = "do" => depth[d] = 1
  <2> SUFFICES ASSUME NEW d \in Co, step[d] = "do", depth[d] # 1
               PROVE  FALSE
    OBVIOUS
  <2>1. m_current_co = d /\ d # nullptr
    BY <1>2 DEF DepthFits, LocksAtOnce, Running, Co, nullptr
  <2>2. InScript(d)
    BY <2>1 DEF trigger_sm_by_event
  <2> QED
    BY <2>2 DEF InScript
<1>4. do_next[m_current_state] \notin State
  <2>1. CASE \E d \in Co : step[d] = "do"
    BY <1>2, <2>1 DEF Resting
  <2>2. CASE \A d \in Co : step[d] = "none"
    BY <2>2 DEF DoIsComing, NextIsComing
  <2> QED
    BY <1>2, <2>1, <2>2 DEF Resting
<1>5. \A c, d \in Co : step[c] = "do" /\ step[d] = "do" => c = d
  BY <1>2 DEF OneTransition, Alone
<1>6. OneTransition'
  BY <1>1, <1>2, <1>3, <1>4, <1>5 DEF OneTransition, Alone, mutex, Resting
<1>7. LocksAtOnce'
  BY <1>1, <1>2 DEF LocksAtOnce, mutex, Running
<1>8. RanFits'
  BY <1>1, <1>2 DEF RanFits
<1>9. NextFits'
  BY <1>1, <1>2, <1>4 DEF NextFits
<1> QED
  BY <1>2, <1>6, <1>7, <1>8, <1>9

\* The event names the next state, in a state that has no do.next.
LEMMA ProcEventChart ==
  ASSUME IInv, MachineInv, ChartInv, ~overlapped, NEW c \in Co, proc_event(c)
  PROVE  WaitsForRest'
<1> USE DEF ChartInv, WaitsForRest, MachineInv, MachineTypeOK
<1> DEFINE next == get_event_state(event[c])
<1>1. /\ step[c] = "event" /\ step'[c] \in {"none", "exit"}
      /\ \A d \in Co \ {c} : step'[d] = step[d] /\ next_state'[d] = next_state[d]
      /\ UNCHANGED <<m_current_state, m_current_co, mutex, ran, overlapped>>
      /\ next_state'[c] = next /\ (step'[c] = "exit" => next # NoState)
  BY DEF proc_event, ChangesTo, Calls, sched
<1>2. dangling' = {}
  BY DEF proc_event, ChangesTo, Calls
<1>3. OneTransition'
  BY <1>1 DEF OneTransition, Alone, mutex
<1>4. LocksAtOnce'
  BY <1>1 DEF LocksAtOnce, mutex, Running, IInv, TypeOK
<1>5. RanFits'
  BY <1>1 DEF RanFits
<1>6. NextFits'
  <2>1. next # NoState => next \in Chart!Successors(m_current_state)
    BY <1>1 DEF get_event_state, create_sm_state, Chart!Successors, NextFits
  <2> QED
    BY <1>1, <2>1 DEF NextFits
<1> QED
  BY <1>2, <1>3, <1>4, <1>5, <1>6

\* Taking the mutex changes no part of the transition.
LEMMA LockSmChart ==
  ASSUME IInv, MachineInv, ChartInv, ~overlapped, NEW c \in Co, lock_sm(c)
  PROVE  WaitsForRest'
<1> USE DEF ChartInv, WaitsForRest, MachineInv, MachineTypeOK
<1>0. depth \in [Co -> Nat] /\ c \in Co /\ Running(c) /\ c # nullptr
  BY DEF IInv, TypeOK, lock_sm, lock, lock_resumed, Co, nullptr
<1>1. CASE step[c] = "match"
  <2>1. TakeLock(c)
    BY <1>1, OnlyExitWaits
  <2>2. /\ step' = [step EXCEPT ![c] = "begin_enter"]
        /\ UNCHANGED <<m_current_state, next_state, ran, overlapped>>
        /\ dangling' = {} /\ in_lock' = in_lock \ {c}
    BY <1>0, <1>1, <2>1 DEF lock_sm, TakeLock, Calls
  <2>3. Alone(c)
    BY <1>1 DEF OneTransition
  <2>4. OneTransition'
    BY <1>1, <2>2, <2>3 DEF OneTransition, Alone
  <2>5. LocksAtOnce'
    BY <1>1, <2>2, <2>3 DEF LocksAtOnce, Alone
  <2>6. RanFits' /\ NextFits'
    BY <1>1, <2>2, <2>3 DEF RanFits, NextFits, Alone
  <2> QED
    BY <2>2, <2>4, <2>5, <2>6
<1>2. CASE step[c] # "match"
  <2>1. UNCHANGED <<m_current_state, step, dangling, next_state, ran, overlapped>>
    BY <1>2 DEF lock_sm
  <2>2. \A d \in Co \ {c} : depth'[d] = depth[d]
    BY <1>0 DEF lock_sm, lock, lock_resumed, WaitForUnlock, TakeLock
  <2>3. step[c] # "exit" => TakeLock(c)
    BY OnlyExitWaits
  <2>4. step[c] = "do" => depth'[c] = 1
    BY <1>0, <2>3 DEF TakeLock, lock_sm
  <2>5. OneTransition'
    BY <2>1, <2>2, <2>4 DEF OneTransition, Alone
  <2>6. \A d \in Co \ {c} : step[d] = "do" => depth[d] # 0
    BY <1>0 DEF LocksAtOnce, Running
  <2>7. in_lock' \subseteq in_lock \cup (IF step[c] = "exit" THEN {c} ELSE {})
    BY <2>3 DEF TakeLock, lock_sm, lock, lock_resumed, WaitForUnlock
  <2>8. LocksAtOnce'
    BY <2>1, <2>2, <2>4, <2>6, <2>7 DEF LocksAtOnce
  <2> QED
    BY <2>1, <2>5, <2>8 DEF RanFits, NextFits
<1> QED
  BY <1>1, <1>2

\* Whoever ends an exit or enter script is alone, and goes on at once.
LEMMA ScriptEndChart ==
  ASSUME IInv, MachineInv, ChartInv, ~overlapped, NEW c \in Co,
         after_exit(c) \/ before_enter(c) \/ begin_enter(c) \/ begin(c)
  PROVE  WaitsForRest'
<1> USE DEF ChartInv, WaitsForRest, MachineInv, MachineTypeOK
<1>1. /\ c \notin in_lock /\ in_lock' = in_lock /\ Running(c)
      /\ m_current_co' = m_current_co /\ overlapped' = overlapped
      /\ depth[c] > 0 /\ depth \in [Co -> Nat]
  BY DEF after_exit, before_enter, begin_enter, begin, unlock, IInv, TypeOK
<1>2. Alone(c)
  <2>1. CASE after_exit(c)
    <3> SUFFICES ASSUME NEW d \in Co \ {c}, step[d] = "do"
                 PROVE  FALSE
      BY <2>1 DEF OneTransition, Alone, after_exit
    <3>1. step[c] = "exit" /\ depth[d] = 1
      BY <2>1 DEF OneTransition, Alone, after_exit
    <3> QED
      BY <1>1, <3>1, IInvExclusion DEF MutualExclusion
  <2> QED
    BY <2>1 DEF OneTransition, before_enter, begin_enter, begin
<1>3. in_lock = {}
  BY <1>1, <1>2 DEF LocksAtOnce, Alone, IInv, TypeOK
<1>4. /\ step'[c] \in {"enter", "do", "begin_unlock"}
      /\ \A d \in Co \ {c} : step'[d] = "none"
  BY <1>2 DEF Alone, after_exit, before_enter, begin_enter, begin, Calls
<1>5. dangling' = {}
  BY <1>2 DEF Alone, after_exit, before_enter, begin_enter, begin, Calls
<1>6. OneTransition' /\ NextFits'
  BY <1>4 DEF OneTransition, Alone, NextFits
<1>7. LocksAtOnce'
  BY <1>1, <1>3, <1>4 DEF LocksAtOnce, Running
<1>8. RanFits'
  <2>1. CASE after_exit(c)
    BY <1>4, <2>1 DEF RanFits, after_exit
  <2>2. CASE before_enter(c) \/ begin_enter(c)
    <3>1. ran = {} /\ ran' = {"enter"} /\ step'[c] \in {"do", "begin_unlock"}
      BY <2>2 DEF RanFits, before_enter, begin_enter, Ended, Calls
    <3> QED
      BY <1>4, <3>1 DEF RanFits
  <2>3. CASE begin(c)
    <3>1. ran = {"enter"} /\ ran' = {"enter"} /\ step'[c] = "do"
      BY <1>2, <2>3 DEF RanFits, Alone, begin, Calls
    <3> QED
      BY <1>4, <3>1 DEF RanFits
  <2> QED
    BY <2>1, <2>2, <2>3
<1> QED
  BY <1>5, <1>6, <1>7, <1>8

\* do.next is followed alone; without it the coroutine is done, event or not.
LEMMA DoActionChart ==
  ASSUME IInv, MachineInv, ChartInv, ~overlapped, NEW c \in Co, do_action(c)
  PROVE  WaitsForRest'
<1> USE DEF ChartInv, WaitsForRest, MachineInv, MachineTypeOK
<1> DEFINE next == create_sm_state(do_next[m_current_state])
<1>1. this[c] = m_current_state /\ c \notin dangling /\ step[c] = "do"
  BY DEF ThisIsCurrent, InFunction, do_action
<1>2. /\ step'[c] = IF next = NoState THEN "none" ELSE "exit"
      /\ next_state'[c] = next
      /\ \A d \in Co \ {c} : step'[d] = step[d] /\ next_state'[d] = next_state[d]
      /\ UNCHANGED <<m_current_state, m_current_co, in_lock, overlapped>>
      /\ c \notin in_lock /\ in_lock \subseteq Co
      /\ \A d \in Co \ {c} : depth'[d] = depth[d]
      /\ dangling' = {} /\ ran' = ran \cup {"do"}
  BY <1>1 DEF do_action, ChangesTo, Calls, unlock, Ended, IInv, TypeOK
<1>3. \A d \in Co \ {c} : step[d] \in {"none", "event", "exit"}
  BY <1>1 DEF OneTransition, Alone
<1>4. do_next[m_current_state] \in State => Alone(c)
  BY <1>1 DEF OneTransition
<1>5. OneTransition'
  BY <1>1, <1>2, <1>3, <1>4 DEF OneTransition, Alone, create_sm_state
<1>6. LocksAtOnce'
  BY <1>1, <1>2, <1>3 DEF LocksAtOnce
<1>7. RanFits'
  <2>1. ran = {"enter"}
    BY <1>1, <1>3 DEF RanFits
  <2> QED
    BY <1>2, <1>3, <2>1 DEF RanFits
<1>8. NextFits'
  BY <1>2, ConfigAssumption DEF NextFits, create_sm_state, Chart!Successors
<1> QED
  BY <1>2, <1>5, <1>6, <1>7, <1>8

LEMMA StepChart ==
  IInv /\ MachineInv /\ ChartInv /\ [SmNext]_sm_vars => ChartInv'
<1> SUFFICES ASSUME IInv, MachineInv, ChartInv, [SmNext]_sm_vars, ~overlapped'
             PROVE  WaitsForRest'
  BY DepthStep DEF ChartInv, WaitsForRest
<1>1. CASE UNCHANGED sm_vars
  BY <1>1 DEF sm_vars, sched, mutex, machine, ChartInv, WaitsForRest, OneTransition,
     Alone, LocksAtOnce, Running, RanFits, NextFits
<1>2. ~overlapped
  BY DEF SmNext, next_loop, resumed, woken, proc_event, lock_sm, sleep_wait,
     script_ends, after_exit, before_enter, do_action, begin_enter, begin, returns,
     trigger_sm_by_event, machine, sm_vars
<1>3. CASE next_loop
  BY <1>2, <1>3, LoopStepChart DEF next_loop, round
<1>4. ASSUME NEW c \in Co, resumed(c) \/ woken(c) \/ sleep_wait(c) \/ returns(c)
      PROVE  WaitsForRest'
  BY <1>2, <1>4, LoopStepChart DEF resumed, resume, woken, event_wakes, sleep_wait,
     sleep, returns, finish
<1>5. ASSUME NEW c \in Co, proc_event(c) \/ lock_sm(c) \/ script_ends(c)
      PROVE  WaitsForRest'
  BY <1>2, <1>5, ProcEventChart, LockSmChart, ScriptEndChart, DoActionChart
     DEF script_ends
<1>6. ASSUME NEW c \in Co, NEW e \in Event, trigger_sm_by_event(c, e)
      PROVE  WaitsForRest'
  BY <1>6, EventStepChart
<1> QED
  BY <1>1, <1>3, <1>4, <1>5, <1>6 DEF SmNext

LEMMA ChartInductive == SmSafe => [](IInv /\ MachineInv /\ ChartInv)
<1>1. IInv /\ MachineInv /\ ChartInv /\ [SmNext]_sm_vars
        => (IInv /\ MachineInv /\ ChartInv)'
  BY StepUsesMutex, NextIInv, StepMachine, StepChart
<1> QED
  BY <1>1, SmInitIInv, SmInitMachine, SmInitChart, PTL DEF SmSafe

-----------------------------------------------------------------------------
(* The machine implements the state chart *)

\* What a coroutine that has the mutex runs.
ScriptOf(c) == IF step[c] = "begin_enter" THEN "enter" ELSE step[c]

\* The script the chart sees is the one of whoever has the mutex.
OneScript == \A c \in Co : InScript(c) => script = ScriptOf(c)

LEMMA IInvOneScript == IInv => OneScript
<1> SUFFICES ASSUME IInv, NEW c \in Co, InScript(c)
             PROVE  script = ScriptOf(c)
  BY DEF OneScript
<1> DEFINE d == CHOOSE e \in Co : InScript(e)
<1>1. d \in Co /\ InScript(d)
  OBVIOUS
<1>2. depth[c] > 0 /\ depth[d] > 0
  BY <1>1 DEF InScript
<1>3. c = d
  BY <1>1, <1>2, IInvExclusion DEF MutualExclusion
<1> QED
  BY <1>3 DEF script, ScriptOf

\* Nobody else runs a script while c has the mutex.
LEMMA NoOtherScript ==
  ASSUME IInv, NEW c \in Co, depth[c] > 0, ~InScript(c)
  PROVE  script = "none"
<1>1. ASSUME NEW d \in Co, InScript(d)
      PROVE  FALSE
  <2>1. depth[d] > 0
    BY <1>1 DEF InScript
  <2> QED
    BY <1>1, <2>1, IInvExclusion DEF MutualExclusion
<1> QED
  BY <1>1 DEF script

\* The chart stays as it is when nobody starts or ends a script.
LEMMA SameScript ==
  ASSUME \A c \in Co : InScript(c)' = InScript(c),
         \A c \in Co : InScript(c) => step'[c] = step[c],
         UNCHANGED <<m_current_state, ran>>
  PROVE  UNCHANGED Chart!vars
<1> DEFINE d == CHOOSE e \in Co : InScript(e)
<1>1. d' = d
  OBVIOUS
<1>2. script' = script
  BY <1>1 DEF script
<1> QED
  BY <1>2 DEF Chart!vars

\* Taking the mutex starts a script of the chart.
LEMMA LockStepChart ==
  ASSUME IInv, IInv', MachineInv, ChartInv, ~overlapped, NEW c \in Co, lock_sm(c)
  PROVE  [Chart!Next]_(Chart!vars)
<1> USE DEF ChartInv, WaitsForRest, MachineInv, MachineTypeOK
<1>1. /\ \A d \in Co \ {c} : depth'[d] = depth[d] /\ step'[d] = step[d]
      /\ step[c] # "match" => step'[c] = step[c]
      /\ UNCHANGED <<m_current_state, ran>>
      /\ depth \in [Co -> Nat] /\ ~InScript(c)
  BY DEF lock_sm, Calls, lock, lock_resumed, WaitForUnlock, TakeLock, IInv, TypeOK,
     InScript
<1>2. CASE ~TakeLock(c) \/ step[c] = "match"
  <2>1. ~InScript(c)'
    BY <1>1, <1>2 DEF lock_sm, lock, lock_resumed, WaitForUnlock, TakeLock, InScript, Calls
  <2> QED
    BY <1>1, <2>1, SameScript DEF InScript
<1>3. CASE TakeLock(c) /\ step[c] # "match"
  <2>1. InScript(c)' /\ depth'[c] = depth[c] + 1 /\ step'[c] = step[c]
    BY <1>1, <1>3 DEF TakeLock, InScript, lock_sm
  <2>2. script' = ScriptOf(c)' /\ ScriptOf(c)' = ScriptOf(c)
    <3>1. OneScript'
      BY IInvOneScript, PTL
    <3> QED
      BY <2>1, <3>1 DEF OneScript, ScriptOf
  <2>3. \A d \in Co \ {c} : depth[d] = 0
    <3>1. MutualExclusion'
      BY IInvExclusion, PTL
    <3> QED
      BY <1>1, <2>1, <3>1 DEF MutualExclusion
  <2>4. script = "none"
    BY <1>1, <2>3 DEF script, InScript
  <2>5. ran = CASE ScriptOf(c) = "enter" -> {}
                [] ScriptOf(c) = "do" -> {"enter"}
                [] ScriptOf(c) = "exit" -> {"enter", "do"}
    <3>1. \A d \in Co \ {c} : step[d] # "do"
      BY <1>1, <2>3 DEF LocksAtOnce, lock_sm, lock, lock_resumed, Running
    <3>2. \A d \in Co \ {c} : step[c] = "do" => step[d] \in {"none", "event", "exit"}
      BY DEF OneTransition, Alone
    <3> QED
      BY <1>3, <3>1, <3>2 DEF RanFits, ScriptOf, OneTransition, Alone, lock_sm
  <2>6. ScriptOf(c) \in Chart!Script
    BY <1>3 DEF ScriptOf, lock_sm, Chart!Script
  <2>7. Chart!Start(ScriptOf(c))
    BY <1>1, <2>2, <2>4, <2>5, <2>6 DEF Chart!Start, Chart!Script
  <2> QED
    BY <2>6, <2>7 DEF Chart!Next
<1> QED
  BY <1>2, <1>3

\* Giving it up ends one, or leaves the state.
LEMMA EndStepChart ==
  ASSUME IInv, MachineInv, ChartInv, ~overlapped, NEW c \in Co, script_ends(c)
  PROVE  [Chart!Next]_(Chart!vars)
<1> USE DEF ChartInv, WaitsForRest, MachineInv, MachineTypeOK
<1>1. /\ depth' = [depth EXCEPT ![c] = @ - 1] /\ depth[c] > 0 /\ depth \in [Co -> Nat]
      /\ \A d \in Co \ {c} : step'[d] = step[d]
  BY DEF script_ends, after_exit, before_enter, do_action, begin_enter, begin, unlock,
     ChangesTo, Calls, IInv, TypeOK
<1>2. \A d \in Co \ {c} : depth[d] = 0
  BY <1>1, IInvExclusion DEF MutualExclusion, IInv, TypeOK
<1>3. ~InScript(c)'
  BY <1>1 DEF script_ends, after_exit, before_enter, do_action, begin_enter, begin,
     ChangesTo, Calls, InScript, DepthFits
<1>4. script' = "none"
  BY <1>1, <1>2, <1>3 DEF script, InScript
<1>5. CASE begin(c)
  <2>1. script = "none" /\ UNCHANGED <<m_current_state, ran>>
    BY <1>1, <1>5, NoOtherScript DEF begin, InScript
  <2> QED
    BY <1>4, <2>1 DEF Chart!vars
<1>6. CASE after_exit(c)
  <2>1. script = "exit"
    BY <1>6, IInvOneScript DEF OneScript, after_exit, ScriptOf
  <2>2. m_current_state' \in Chart!Successors(m_current_state) /\ ran' = {}
    BY <1>6 DEF after_exit, NextFits
  <2> QED
    BY <1>4, <2>1, <2>2 DEF Chart!Leave, Chart!Next
<1>7. ASSUME NEW k \in {"enter", "do"}, script = k, ran' = ran \cup {k},
             m_current_state' = m_current_state
      PROVE  Chart!Next
  BY <1>4, <1>7 DEF Chart!Next, Chart!End, Chart!Script
<1>8. CASE before_enter(c) \/ begin_enter(c)
  <2>1. script = "enter"
    BY <1>8, IInvOneScript DEF OneScript, before_enter, begin_enter, ScriptOf
  <2>2. ran' = ran \cup {"enter"} /\ m_current_state' = m_current_state
    BY <1>8 DEF before_enter, begin_enter, Ended
  <2> QED
    BY <1>7, <2>1, <2>2
<1>9. CASE do_action(c)
  <2>1. script = "do"
    BY <1>9, IInvOneScript DEF OneScript, do_action, ScriptOf
  <2>2. ran' = ran \cup {"do"} /\ m_current_state' = m_current_state
    BY <1>9 DEF do_action, Ended, ChangesTo
  <2> QED
    BY <1>7, <2>1, <2>2
<1> QED
  BY <1>5, <1>6, <1>8, <1>9 DEF script_ends

LEMMA ChartStep ==
  IInv /\ IInv' /\ MachineInv /\ ChartInv /\ [SmNext]_sm_vars
    => (~overlapped' => [Chart!Next]_(Chart!vars))
<1> SUFFICES ASSUME IInv, IInv', MachineInv, ChartInv, [SmNext]_sm_vars, ~overlapped'
             PROVE  [Chart!Next]_(Chart!vars)
  OBVIOUS
<1>1. ~overlapped
  BY DEF SmNext, next_loop, resumed, woken, proc_event, lock_sm, sleep_wait,
     script_ends, after_exit, before_enter, do_action, begin_enter, begin, returns,
     trigger_sm_by_event, machine, sm_vars
<1>2. CASE UNCHANGED <<machine, mutex>>
  BY <1>2, SameScript DEF machine, mutex, InScript
<1>3. CASE UNCHANGED sm_vars \/ next_loop
  BY <1>2, <1>3 DEF sm_vars, next_loop, round
<1>4. ASSUME NEW c \in Co, resumed(c) \/ woken(c) \/ sleep_wait(c) \/ returns(c)
      PROVE  [Chart!Next]_(Chart!vars)
  BY <1>2, <1>4 DEF resumed, resume, woken, event_wakes, sleep_wait, sleep, returns, finish
<1>5. ASSUME NEW c \in Co, proc_event(c)
      PROVE  [Chart!Next]_(Chart!vars)
  <2>1. /\ depth' = depth /\ UNCHANGED <<m_current_state, ran>> /\ step[c] = "event"
        /\ step'[c] \in {"none", "exit"} /\ \A d \in Co \ {c} : step'[d] = step[d]
        /\ depth[c] = 0
    BY <1>5 DEF proc_event, ChangesTo, Calls, mutex, MachineInv, MachineTypeOK,
       ChartInv, DepthFits
  <2> QED
    BY <2>1, SameScript DEF InScript
<1>6. ASSUME NEW c \in Co, lock_sm(c) \/ script_ends(c)
      PROVE  [Chart!Next]_(Chart!vars)
  BY <1>1, <1>6, LockStepChart, EndStepChart
<1>7. ASSUME NEW k \in Co, NEW e \in Event, trigger_sm_by_event(k, e)
      PROVE  [Chart!Next]_(Chart!vars)
  <2>1. k \notin m_co_routines
    BY <1>7 DEF trigger_sm_by_event, spawn, add_co, IsNext, Co
  <2>2. step[k] = "none"
    BY <2>1 DEF IInv, SchedulerOK, MachineInv, DeadIsDone
  <2>3. /\ depth' = depth /\ UNCHANGED <<m_current_state, ran>>
        /\ step' = [step EXCEPT ![k] = "event"]
    BY <1>7 DEF trigger_sm_by_event, spawn, mutex
  <2> QED
    BY <2>2, <2>3, SameScript DEF InScript, MachineInv, MachineTypeOK
<1> QED
  BY <1>3, <1>4, <1>5, <1>6, <1>7 DEF SmNext

\* As long as every event waits for the machine to rest, the machine does what the
\* author of its configuration reads in it: DYNAMIC_SM's nested calls, the scripts
\* that sleep and the coroutines beside them included.
THEOREM SmImplementsChart == SmSafe => IsAStateChart
<1>1. SmInit => Chart!Init
  BY MaxCoAssumption DEF SmInit, Chart!Init, script, InScript
<1>2. IInv /\ IInv' /\ MachineInv /\ ChartInv /\ [SmNext]_sm_vars
        => [~overlapped' => [Chart!Next]_(Chart!vars)]_sm_vars
  BY ChartStep
<1> QED
  BY <1>1, <1>2, ChartInductive, PTL DEF SmSafe, IsAStateChart
=============================================================================
