------------------------------ MODULE StateSync ------------------------------
(***************************************************************************)
(* How the state of the devices reaches a web page.  A push                *)
(* (ad_rpc_update_current_state, src/rpc/ad_rpc.cpp) is made by a timer of *)
(* a driver, or once after a change: a coroutine asks every device in      *)
(* turn, writes the answers to one field in Redis, and posts a request to  *)
(* the web API, which reads the field back, keeps it and sends it to the   *)
(* pages (src/api, src/public/pub_node_lib).                               *)
(*                                                                         *)
(* Every call of a push yields, and several daemons push: pushes overlap,  *)
(* overtake each other and meet again in Redis and in the API.  A value    *)
(* stands for what a device answers after so many changes.  A device that  *)
(* does not answer has no field in what is written, and the page then      *)
(* shows none for it.  A WebSocket keeps the order of its messages; its    *)
(* delay is left out.                                                      *)
(***************************************************************************)
EXTENDS Integers, FiniteSets

CONSTANTS
  Device,    \* the devices, numbered in the order of g_all_state_get_map
  Push,      \* the pushes that can be under way together
  MaxChange, \* changes of a device (bound of the model)
  MaxOutage  \* failures of Redis, the API and devices, together (bound of the model)

ASSUME StateSyncAssumption ==
  /\ Device \subseteq Nat /\ IsFiniteSet(Device) /\ IsFiniteSet(Push)
  /\ MaxChange \in Nat /\ MaxOutage \in Nat

VARIABLES
  state,   \* what each device would answer
  away,    \* devices that do not answer: not on the list, not started, ended
  at,      \* where a push is
  todo,    \* the devices it has yet to ask
  value,   \* what it has gathered; later, what the API has read for it
  stored,  \* whether its write to Redis was carried out
  redis,   \* the field in Redis
  up,      \* whether Redis answers
  shown,   \* what the page shows
  page,    \* the page's WebSocket: "open" or "lost"
  outages,
  began,   \* history: the state when a push began
  oldest,  \* history: the state when the oldest push began that it overlapped then
  gone,    \* history: devices that were away since the push began
  missed   \* history: devices that were away since that oldest push began

push == <<at, todo, value, stored>>
hist == <<began, oldest, gone, missed>>
sync_vars == <<state, away, push, redis, up, shown, page, outages, hist>>

State == [Device -> 0 .. MaxChange]

\* No field for a device.
Missing == -1

Gathering == [Device -> 0 .. MaxChange \cup {Missing}]

\* What a page shows before the first update, whatever "init" brought: nothing.
Nothing == [d \in Device |-> Missing]

Where == {"none", "gather", "post", "answer"}

\* The devices before any change.
Untouched == [d \in Device |-> 0]

SyncTypeOK ==
  /\ state \in State
  /\ away \in SUBSET Device
  /\ at \in [Push -> Where]
  /\ todo \in [Push -> SUBSET Device]
  /\ value \in [Push -> Gathering]
  /\ stored \in [Push -> BOOLEAN]
  /\ redis \in Gathering
  /\ up \in BOOLEAN
  /\ shown \in Gathering
  /\ page \in {"open", "lost"}
  /\ outages \in 0 .. MaxOutage
  /\ began \in [Push -> State]
  /\ oldest \in [Push -> State]
  /\ gone \in [Push -> SUBSET Device]
  /\ missed \in [Push -> SUBSET Device]

SyncInit ==
  /\ state = Untouched
  /\ away = {}
  /\ at = [p \in Push |-> "none"]
  /\ todo = [p \in Push |-> {}]
  /\ value = [p \in Push |-> Nothing]
  /\ stored = [p \in Push |-> FALSE]
  /\ redis = state
  /\ up = TRUE
  /\ shown = Nothing
  /\ page = "open"
  /\ outages = 0
  /\ began = [p \in Push |-> Untouched]
  /\ oldest = began
  /\ gone = [p \in Push |-> {}]
  /\ missed = [p \in Push |-> {}]

UnderWay == {p \in Push : at[p] # "none"}

Older(s, t) == \A d \in Device : s[d] <= t[d]

-----------------------------------------------------------------------------
(* A push *)

\* The state now is the newest there has been, so of the pushes under way the one
\* that began first began with the oldest.
begin(p, now) ==
  LET starts == {began[q] : q \in UnderWay} \cup {now} IN
  /\ at[p] = "none"
  /\ at' = [at EXCEPT ![p] = "gather"]
  /\ todo' = [todo EXCEPT ![p] = Device]
  /\ stored' = [stored EXCEPT ![p] = FALSE]
  /\ began' = [began EXCEPT ![p] = now]
  /\ oldest' = [oldest EXCEPT ![p] = CHOOSE s \in starts : \A t \in starts : Older(s, t)]
  /\ gone' = [gone EXCEPT ![p] = away]
  /\ missed' = [missed EXCEPT ![p] = away \cup UNION {gone[q] : q \in UnderWay}]

\* The timer of a driver: the relay timer, the lidar's, a script's.
tick(p) ==
  /\ begin(p, state)
  /\ UNCHANGED <<state, away, value, redis, up, shown, page, outages>>

Changed(d) == [state EXCEPT ![d] = @ + 1]

\* A change that pushes at once: sim_gate_status, sim_scale_weight,
\* sim_vehicle_came, the relay timer's count.
change_and_push(d, p) ==
  /\ state[d] < MaxChange
  /\ state' = Changed(d)
  /\ begin(p, state')
  /\ UNCHANGED <<away, value, redis, up, shown, page, outages>>

\* A change that waits for the next push: the lidar's position and offset.
change(d) ==
  /\ state[d] < MaxChange
  /\ state' = Changed(d)
  /\ UNCHANGED <<away, push, redis, up, shown, page, outages, hist>>

Answer(d) == state[d]

\* The next device is asked by a remote call.  Without a port for it, or with a call
\* that fails, its field is left out and the push goes on.
ask(p, d) ==
  /\ at[p] = "gather"
  /\ d \in todo[p] /\ \A e \in todo[p] : d <= e
  /\ todo' = [todo EXCEPT ![p] = @ \ {d}]
  /\ value' = [value EXCEPT ![p][d] = IF d \in away THEN Missing ELSE Answer(d)]
  /\ UNCHANGED <<state, away, at, stored, redis, up, shown, page, outages, hist>>

\* Deviation: the field is written when it has no value (HSETNX).
FirstWritten(p) == IF redis = Untouched THEN value[p] ELSE redis

Written(p) == value[p]

\* AD_REDIS_HELPER::set.  Without Redis nothing is written, and the push goes on.
set(p) ==
  /\ at[p] = "gather"
  /\ todo[p] = {}
  /\ at' = [at EXCEPT ![p] = "post"]
  /\ redis' = IF up THEN Written(p) ELSE redis
  /\ stored' = [stored EXCEPT ![p] = up]
  /\ UNCHANGED <<state, away, todo, value, up, shown, page, outages, hist>>

-----------------------------------------------------------------------------
(* /api/update_state *)

\* The requests of these pushes are answered, one way or another, and with them the
\* pushes are over.
over(pushes) ==
  /\ at' = [p \in Push |-> IF p \in pushes THEN "none" ELSE at[p]]
  /\ value' = [p \in Push |-> IF p \in pushes THEN Nothing ELSE value[p]]
  /\ stored' = [p \in Push |-> p \notin pushes /\ stored[p]]
  /\ began' = [p \in Push |-> IF p \in pushes THEN Untouched ELSE began[p]]
  /\ oldest' = [p \in Push |-> IF p \in pushes THEN Untouched ELSE oldest[p]]
  /\ gone' = [p \in Push |-> IF p \in pushes THEN {} ELSE gone[p]]
  /\ missed' = [p \in Push |-> IF p \in pushes THEN {} ELSE missed[p]]

\* Deviation: the API answers from what it has sent last.
LastSent == IF shown = Nothing THEN redis ELSE shown

HGet == redis

\* The API reads the field over a connection of the request's own.
hget(p) ==
  /\ at[p] = "post"
  /\ up
  /\ at' = [at EXCEPT ![p] = "answer"]
  /\ value' = [value EXCEPT ![p] = HGet]
  /\ UNCHANGED <<state, away, todo, stored, redis, up, shown, page, outages, hist>>

\* Without Redis hget rejects after its retries.  The process goes on
\* (uncaughtException), but no page hears of this push: its request is answered by
\* nginx, after a minute, with an error.
hget_rejects(p) ==
  /\ at[p] = "post"
  /\ ~up
  /\ over({p})
  /\ UNCHANGED <<state, away, todo, redis, up, shown, page, outages>>

\* The answer from Redis reaches the request's handler: the pages get it, and the
\* request is answered.
setData(p) ==
  /\ at[p] = "answer"
  /\ over({p})
  /\ shown' = IF page = "open" THEN value[p] ELSE shown
  /\ UNCHANGED <<state, away, todo, redis, up, page, outages>>

\* The API's process ends and is started again: nginx answers the requests it had
\* with an error, the pages are cut off and do not connect again.
api_ends ==
  /\ outages < MaxOutage
  /\ outages' = outages + 1
  /\ over({p \in Push : at[p] \in {"post", "answer"}})
  /\ page' = "lost"
  /\ UNCHANGED <<state, away, todo, redis, up, shown>>

\* Somebody leaves the page.
leave ==
  /\ page = "open"
  /\ page' = "lost"
  /\ UNCHANGED <<state, away, push, redis, up, shown, outages, hist>>

\* Somebody loads the page: "init" fills the client's store, the page shows nothing
\* until the next update.
reload ==
  /\ page = "lost"
  /\ shown' = Nothing
  /\ page' = "open"
  /\ UNCHANGED <<state, away, push, redis, up, outages, hist>>

redis_leaves ==
  /\ up /\ outages < MaxOutage
  /\ up' = FALSE
  /\ outages' = outages + 1
  /\ UNCHANGED <<state, away, push, redis, shown, page, hist>>

\* Redis keeps its data.
redis_returns ==
  /\ ~up
  /\ up' = TRUE
  /\ UNCHANGED <<state, away, push, redis, shown, page, outages, hist>>

\* A driver ends or is stopped, or the core daemon, which has the list of ports,
\* ends for all of them, one after the other.
device_leaves(d) ==
  /\ d \notin away /\ outages < MaxOutage
  /\ away' = away \cup {d}
  /\ outages' = outages + 1
  /\ gone' = [p \in Push |-> IF p \in UnderWay THEN gone[p] \cup {d} ELSE gone[p]]
  /\ missed' = [p \in Push |-> IF p \in UnderWay THEN missed[p] \cup {d} ELSE missed[p]]
  /\ UNCHANGED <<state, push, redis, up, shown, page, began, oldest>>

device_returns(d) ==
  /\ d \in away
  /\ away' = away \ {d}
  /\ UNCHANGED <<state, push, redis, up, shown, page, outages, hist>>

-----------------------------------------------------------------------------

step(p) ==
  (\E d \in Device : ask(p, d)) \/ set(p) \/ hget(p) \/ hget_rejects(p) \/ setData(p)

SyncNext ==
  \/ \E p \in Push : tick(p) \/ step(p)
  \/ \E d \in Device :
       \/ change(d) \/ device_leaves(d) \/ device_returns(d)
       \/ \E p \in Push : change_and_push(d, p)
  \/ api_ends
  \/ leave
  \/ reload
  \/ redis_leaves
  \/ redis_returns

SyncSafe == SyncInit /\ [][SyncNext]_sync_vars

\* A periodic timer goes on pushing, and the calls of a push are answered or fail.
SyncSpec ==
  /\ SyncSafe
  /\ WF_sync_vars(\E p \in Push : tick(p))
  /\ \A p \in Push : WF_sync_vars(step(p))

-----------------------------------------------------------------------------
(* Properties *)

\* What a push makes the API show is no older than the state was when the oldest
\* push began that was under way when it began itself: pushes overlap, overtake each
\* other, and the page can go back, but never behind all the pushes that overlap.
\* It lacks a device only if that one did not answer for some time since then.
ShownIsRecent ==
  [][\A p \in Push : at[p] = "answer" /\ at'[p] = "none" /\ stored[p] /\ page' = "open"
       => \A d \in Device : \/ oldest[p][d] <= shown'[d]
                            \/ shown'[d] = Missing /\ d \in missed[p]]_sync_vars

\* Once Redis, the page and the devices stay, and since the devices come to rest,
\* the page shows the state of every one in the end and for good, whatever older
\* pushes did.
PageCatchesUp == <>[](up /\ page = "open" /\ away = {}) => <>[](shown = state)
=============================================================================
