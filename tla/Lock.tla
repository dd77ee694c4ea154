------------------------------- MODULE Lock --------------------------------
(***************************************************************************)
(* What AD_CO_MUTEX promises its callers: a recursive lock.  A coroutine   *)
(* that finds it taken by another one waits; when it is free one of those  *)
(* that wait gets it unless a newcomer does.                               *)
(***************************************************************************)
EXTENDS Naturals

CONSTANT Client

VARIABLES
  wants,   \* the clients inside lock() that wait
  depth    \* how many of its lock() calls a client has not undone

vars == <<wants, depth>>

FreeFor(c) == \A d \in Client \ {c} : depth[d] = 0

TypeOK ==
  /\ wants \in SUBSET Client
  /\ depth \in [Client -> Nat]

Init ==
  /\ wants = {}
  /\ depth = [c \in Client |-> 0]

Request(c) ==
  /\ c \notin wants
  /\ ~FreeFor(c)
  /\ wants' = wants \cup {c}
  /\ UNCHANGED depth

Acquire(c) ==
  /\ FreeFor(c)
  /\ depth' = [depth EXCEPT ![c] = @ + 1]
  /\ wants' = wants \ {c}

Release(c) ==
  /\ c \notin wants
  /\ depth[c] > 0
  /\ depth' = [depth EXCEPT ![c] = @ - 1]
  /\ UNCHANGED wants

Next == \E c \in Client : Request(c) \/ Acquire(c) \/ Release(c)

Safe == Init /\ [][Next]_vars

\* A free lock does not stay free while somebody waits for it.
Spec == Safe /\ WF_vars(\E c \in wants : Acquire(c))
=============================================================================
