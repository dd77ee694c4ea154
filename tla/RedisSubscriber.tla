-------------------------- MODULE RedisSubscriber --------------------------
(***************************************************************************)
(* AD_REDIS_EVENT_NODE (src/public/event_sc/ad_redis) and its uses in the  *)
(* core daemon: the connection on which Redis publishes what the outside   *)
(* world asks for, how it is set up, how it replaces itself when Redis     *)
(* goes away, and how restart_redis_subscriber replaces it.                *)
(*                                                                         *)
(* A new node connects and authenticates, which yields; then it sends its  *)
(* SUBSCRIBEs one after the other and takes the next reply for each, which *)
(* blocks the whole daemon.  What Redis has sent on a connection is in the *)
(* socket first, and in hiredis' reader from the first read on.  What the  *)
(* callback of a message does is left out: it does not touch the node.     *)
(***************************************************************************)
EXTENDS Integers, Sequences, FiniteSets

CONSTANTS
  MaxNode,      \* AD_REDIS_EVENT_NODEs at a time (bound of the model)
  Channel,      \* how many channels g_sb_map lists
  MaxUnread,    \* replies in the socket of a node (bound of the model)
  MaxOutage,    \* times Redis goes away (bound of the model)
  MaxRestart    \* calls of restart_redis_subscriber in a run of the core (bound)

ASSUME NumbersAssumption == MaxNode \in Nat /\ Channel \in Nat \ {0}

VARIABLES
  node,          \* the AD_REDIS_EVENT_NODEs
  m_redis_node,  \* the one config_management holds, or nullptr
  core,          \* whether the core daemon runs
  redis,         \* whether Redis runs
  outages,       \* how often it went away
  restarts,      \* restarts of the subscriber since the core was started
  reconnects,    \* whether a node has replaced itself since then
  overlapped     \* whether two nodes were being set up at the same time

env == <<redis, outages>>

history == <<restarts, reconnects, overlapped>>

vars == <<node, m_redis_node, core, env, history>>

Node == 1..MaxNode

nullptr == 0

Reply == {"message", "confirmation"}

\* phase: how far the node has come ("kept": not registered, but in m_redis_node);
\* by: who made it; conn: its connection; subscribed: the SUBSCRIBEs it has sent;
\* waits: for the reply of the last; socket, reader: what Redis has sent, before and
\* after hiredis has read it; swallowed: messages taken for the reply of a SUBSCRIBE.
AD_REDIS_EVENT_NODE ==
  [phase : {"none", "auth", "subscribe", "registered", "kept"},
   by : {"restart", "reconnect"}, conn : {"up", "eof", "error"},
   subscribed : 0..Channel, waits : BOOLEAN,
   socket : Seq(Reply), reader : Seq(Reply), swallowed : Nat]

NoNode ==
  [phase |-> "none", by |-> "restart", conn |-> "up", subscribed |-> 0, waits |-> FALSE,
   socket |-> <<>>, reader |-> <<>>, swallowed |-> 0]

TypeOK ==
  /\ node \in [Node -> AD_REDIS_EVENT_NODE]
  /\ m_redis_node \in Node \cup {nullptr}
  /\ core \in {"up", "down"} /\ redis \in {"up", "down"}
  /\ outages \in Nat /\ restarts \in Nat
  /\ reconnects \in BOOLEAN /\ overlapped \in BOOLEAN

Init ==
  /\ node = [n \in Node |-> NoNode]
  /\ m_redis_node = nullptr
  /\ core = "up" /\ redis = "up" /\ outages = 0
  /\ restarts = 0 /\ reconnects = FALSE /\ overlapped = FALSE

Registered == {n \in Node : node[n].phase = "registered"}

InSetup == {n \in Node : node[n].phase \in {"auth", "subscribe"}}

\* The loop runs no other coroutine while a node takes its subscriptions.
Free == core = "up" /\ \A n \in Node : node[n].phase # "subscribe"

\* The daemon ends, by an exception nobody catches or by a null pointer.
core_ends ==
  /\ core' = "down"
  /\ node' = [n \in Node |-> NoNode]
  /\ m_redis_node' = nullptr

-----------------------------------------------------------------------------
(* Setting up a node *)

\* AD_REDIS_EVENT_NODE's constructor up to the reply of AUTH, beside the nodes that
\* are left.  Without Redis prepare_redis returns no context, and the SUBSCRIBE that
\* follows uses it.
create(n, who, left) ==
  /\ node[n] = NoNode /\ \A k \in 1..(n - 1) : node[k] # NoNode
  /\ \/ /\ redis = "up"
        /\ node' = [left EXCEPT ![n] = [NoNode EXCEPT !.phase = "auth", !.by = who]]
        /\ overlapped' = (overlapped \/ InSetup # {})
        /\ UNCHANGED <<m_redis_node, core>>
     \/ /\ redis = "down"
        /\ core_ends
        /\ UNCHANGED overlapped

\* The reply of AUTH.  From here to registerNode the daemon does nothing else.
authenticated(n) ==
  /\ Free
  /\ node[n].phase = "auth"
  /\ \/ /\ node[n].conn = "up"
        /\ node' = [node EXCEPT ![n].phase = "subscribe"]
        /\ UNCHANGED <<core, m_redis_node>>
     \/ /\ node[n].conn # "up"
        /\ core_ends
  /\ UNCHANGED <<env, history>>

\* register_subscribed_callback sends SUBSCRIBE, which Redis confirms.
subscribe(n) ==
  /\ node[n].phase = "subscribe" /\ ~node[n].waits /\ node[n].subscribed < Channel
  /\ node' = [node EXCEPT ![n].subscribed = @ + 1, ![n].waits = TRUE,
                          ![n].socket = IF node[n].conn = "up"
                                          THEN Append(@, "confirmation") ELSE @]
  /\ UNCHANGED <<m_redis_node, core, env, history>>

\* redisGetReply returns the reader's next reply, after reading all there is when
\* it has none.
Replies(n) == IF node[n].reader # <<>> THEN node[n].reader ELSE node[n].socket

Readable(n) == Replies(n) # <<>>

TakeReply(n) ==
  [node[n] EXCEPT !.reader = Tail(Replies(n)),
                  !.socket = IF node[n].reader # <<>> THEN @ ELSE <<>>]

\* Deviation: the reply is left to handleEvent.
reply_unread(n) ==
  /\ node[n].phase = "subscribe" /\ node[n].waits
  /\ node' = [node EXCEPT ![n].waits = FALSE]
  /\ UNCHANGED <<m_redis_node, core, env, history>>

\* redisCommand returns the next reply, whatever it is, or fails.
subscribe_reply(n) ==
  /\ node[n].phase = "subscribe" /\ node[n].waits
  /\ \/ /\ Readable(n)
        /\ node' = [node EXCEPT ![n] =
                      [TakeReply(n) EXCEPT
                         !.waits = FALSE,
                         !.swallowed = IF Head(Replies(n)) = "message" THEN @ + 1 ELSE @]]
     \/ /\ ~Readable(n) /\ node[n].conn # "up"
        /\ node' = [node EXCEPT ![n].waits = FALSE]
  /\ UNCHANGED <<m_redis_node, core, env, history>>

\* registerNode.  A restart has put the node into m_redis_node, and the node that
\* was kept there is gone; a reconnection leaves it there.
register(n) ==
  LET registered == [node EXCEPT ![n].phase = "registered"] IN
  /\ node[n].phase = "subscribe" /\ ~node[n].waits /\ node[n].subscribed = Channel
  /\ \/ /\ node[n].by = "restart"
        /\ m_redis_node' = n
        /\ node' = [k \in Node |-> IF node[k].phase = "kept" THEN NoNode ELSE registered[k]]
     \/ /\ node[n].by = "reconnect"
        /\ node' = registered
        /\ UNCHANGED m_redis_node
  /\ UNCHANGED <<core, env, history>>

-----------------------------------------------------------------------------
(* restart_redis_subscriber and handleEvent *)

\* Deviation: the node stays registered.
StillThere(n) == node

\* unregisterNode: a node that is not the one in m_redis_node is gone with it.
Unregistered(n) ==
  IF n \in Registered
    THEN [node EXCEPT ![n] = IF n = m_redis_node THEN [@ EXCEPT !.phase = "kept"] ELSE NoNode]
    ELSE node

\* Called by the command params, and by its replay when the core has started.
restart_redis_subscriber(n) ==
  /\ Free
  /\ restarts < MaxRestart
  /\ restarts' = restarts + 1
  /\ create(n, "restart", Unregistered(m_redis_node))
  /\ UNCHANGED <<env, reconnects>>

\* One reply is taken for an event.  A confirmation has the shape of a message
\* without a text, and a string is made of it all the same.
handle_reply(n) ==
  /\ Readable(n)
  /\ \/ /\ Head(Replies(n)) = "message"
        /\ node' = [node EXCEPT ![n] = TakeReply(n)]
        /\ UNCHANGED <<m_redis_node, core>>
     \/ /\ Head(Replies(n)) = "confirmation"
        /\ core_ends
  /\ UNCHANGED <<env, history>>

\* Deviation: the end of the connection is an error like the others.
is_ignored(n, k) == ~Readable(n) /\ node[n].conn = "eof" /\ UNCHANGED vars

\* The end of the connection: the node replaces itself by k.
reconnect(n, k) ==
  /\ ~Readable(n) /\ node[n].conn = "eof"
  /\ reconnects' = TRUE
  /\ create(k, "reconnect", Unregistered(n))
  /\ UNCHANGED <<env, restarts>>

\* Another error than the end of the connection: the node stays as it is, and its
\* descriptor ready.
ignore_error(n) == ~Readable(n) /\ node[n].conn = "error" /\ UNCHANGED vars

\* AD_REDIS_EVENT_NODE::handleEvent
handleEvent(n) ==
  /\ Free
  /\ n \in Registered
  /\ node[n].socket # <<>> \/ node[n].conn # "up"
  /\ handle_reply(n) \/ ignore_error(n) \/ \E k \in Node : reconnect(n, k)

-----------------------------------------------------------------------------
(* Redis, and the machine the core runs on *)

\* A message is published on channel i.
publish(i) ==
  LET subscribers == {n \in Registered \cup InSetup :
                        node[n].conn = "up" /\ node[n].subscribed >= i}
  IN /\ redis = "up"
     /\ subscribers # {}
     /\ \A n \in subscribers : Len(node[n].socket) < MaxUnread
     /\ node' = [n \in Node |-> IF n \in subscribers
                                  THEN [node[n] EXCEPT !.socket = Append(@, "message")]
                                  ELSE node[n]]
     /\ UNCHANGED <<m_redis_node, core, env, history>>

\* Redis goes away: its connections end in good order, or with an error.
redis_leaves ==
  /\ redis = "up" /\ outages < MaxOutage
  /\ redis' = "down"
  /\ outages' = outages + 1
  /\ \E how \in {"eof", "error"} :
       node' = [n \in Node |-> IF node[n].phase # "none" /\ node[n].conn = "up"
                                 THEN [node[n] EXCEPT !.conn = how] ELSE node[n]]
  /\ UNCHANGED <<m_redis_node, core, history>>

redis_returns ==
  /\ redis = "down"
  /\ redis' = "up"
  /\ UNCHANGED <<node, m_redis_node, core, outages, history>>

\* The core is started again and replays the commands of its configuration.
core_starts ==
  /\ core = "down"
  /\ core' = "up"
  /\ restarts' = 0 /\ reconnects' = FALSE /\ overlapped' = FALSE
  /\ UNCHANGED <<node, m_redis_node, env>>

-----------------------------------------------------------------------------

setup(n) == authenticated(n) \/ subscribe(n) \/ subscribe_reply(n) \/ register(n)

Next ==
  \/ \E n \in Node : setup(n) \/ restart_redis_subscriber(n) \/ handleEvent(n)
  \/ \E i \in 1..Channel : publish(i)
  \/ redis_leaves \/ redis_returns \/ core_starts

Safe == Init /\ [][Next]_vars

\* The loop serves its events, the configuration that is replayed has the command
\* params, and whoever runs Redis and the core starts them again.
Fairness ==
  /\ \A n \in Node : WF_vars(setup(n)) /\ SF_vars(handleEvent(n))
  /\ WF_vars(restarts = 0 /\ \E n \in Node : restart_redis_subscriber(n))
  /\ WF_vars(redis_returns) /\ WF_vars(core_starts)

Spec == Safe /\ Fairness

-----------------------------------------------------------------------------
(* Properties *)

\* A message is handled once: there are two subscribers only after a subscriber that
\* had replaced itself was restarted, or two were being set up at the same time.
OneSubscriber ==
  (restarts <= 1 \/ ~reconnects) /\ ~overlapped => Cardinality(Registered) <= 1

Confirmations(n) ==
  Cardinality({i \in DOMAIN node[n].reader : node[n].reader[i] = "confirmation"})
    + Cardinality({i \in DOMAIN node[n].socket : node[n].socket[i] = "confirmation"})

\* Of the messages that come in while a node subscribes, each that is taken for a
\* reply is lost and leaves a confirmation behind, for handleEvent to stumble over;
\* a node that has lost none leaves none.
LostForAConfirmation ==
  \A n \in Registered \cup InSetup :
    /\ Confirmations(n) <= node[n].swallowed + IF node[n].waits THEN 1 ELSE 0
    /\ node[n].conn = "up" => Confirmations(n) = node[n].swallowed + IF node[n].waits THEN 1 ELSE 0

\* However often Redis and the core go away, there is a subscriber again, unless a
\* connection ended with an error, which nobody looks at.
SubscriptionReturns ==
  core = "up" ~> \E n \in Registered : node[n].conn \in {"up", "error"}
=============================================================================
