# auto_drop: TLA+ models, model checking and proofs

auto_drop controls the loading of trucks: a lidar finds the vehicle, cameras read
plates, a scale weighs, a gate and a chute (LC) are moved, and a state machine whose
states run Lua scripts decides what happens when.  This directory holds TLA+ modules
of the parts whose correctness depends on the order of events, TLC configurations
that check them on small instances, and TLAPS proofs for every instance.

## 1. Inventory

Paths are relative to the repository's `src/`.

| part | state | operations | talks to | what is hard | what makes it correct | module |
|---|---|---|---|---|---|---|
| event loop and coroutines (`public/event_sc`) | coroutines with a state, the current one, descriptor -> node | add, resume, yield on a descriptor, a timer or both, register, unregister, stop | everything: each daemon is one thread with one loop | events that race with time limits, states that change while a snapshot is resumed, stops | one coroutine runs; who waits has a node; no node outlives its yield | CoRoutine, EventSc |
| coroutine mutex (`AD_CO_MUTEX`) | holder, count, queue | lock, unlock | one per state machine, around Lua | recursion, barging, wakeups | exclusion, no lost wakeup, no deadlock | CoMutex, Lock |
| state machine (`sm/lib`, `core/rpc_imp_lib/runner.h`) | current state, Lua state, timers | event, transition, entry and exit scripts, timers | drivers and CLI over RPC | transitions that overlap at yields, timer functions without the mutex | a state chart when events do not overlap; settled when they do | StateMachine, StateChart |
| chute relay logic (`driver/lib`) | relay state, counted position, target, coils | set opening, one-second timer | Tastek driver | commands in the middle of a motion | counted position in range, direction, coils never both | RelayDriver |
| Tastek driver (`driver/tastek`) | wanted and real coils, retry counter, error | Modbus loop, status check, restart | PLC over TCP, core daemon | failed and unanswered calls, crash with a coil on | PLC follows the driver, dead link noticed | Tastek |
| daemon supervision (`core/rpc_imp_lib/config_rpc.cpp`) | device, state machine and process maps | start, stop, list; handler of a child's end | CLI, children, kernel | stop and start between a yield and its end, port reuse, restart delay, descriptor numbers the loop refuses | ports distinct, failed daemons come back, lists right | ConfigManagement |
| restart of the plant (`cli/runtime_config.cpp`, `core/sm_main.cpp`) | the lists a session works through; the machine's device map | list, stop, start, match devices | core, state machine | restarts that overlap call by call, with part of a configuration | the newest machine finds the devices; one of each | Restart |
| configuration (`cli`) | YAML file, saved commands | edit, clear, save, import | core's start | sessions that overwrite each other, ends of the container in a write, scripts that are printed and split | what is named exists; saved commands rebuild what is legible | Configuration |
| RPC (`rpc`) | receive buffers, connections | framed messages, calls, server | all daemons | messages cut inside a frame, a peer that dies | every whole message once | RpcTransport |
| Redis (`public/event_sc/ad_redis`) | connection, subscription node | subscribe, reconnect, restart | web API | messages during the setup, reconnect and restart | one subscriber | RedisSubscriber |
| state push (`rpc/ad_rpc.cpp`, `api`, `public/pub_node_lib`) | a field in Redis, what the page shows | gather, set, post, read, send | drivers, Redis, API, pages | pushes that overlap, devices that are away | the page catches up | StateSync |
| lidar driver (`driver/rd_driver`) with its meter (`driver/lib/modbus_driver`) | queues, latched state, filters | receive, process, poll, report | state machine | four threads, queue limit, an average nobody resets | no frame in two hands, no stale vehicle | Lidar |
| point cloud file (`driver/rd_driver`, `api`) | `/tmp/cloud.bin` and two locks | write, read | pages | locks that do not exclude each other | clouds not mixed, go on being read | |

Vendored: `rs_driver`, hiredis, cJSON, CJsonObject, SimpleIni, sion, `cli/detail`.

## 2. Modules

    CoRoutine            scheduler: states of coroutines, rounds of the loop
      CoMutex            + AD_CO_MUTEX and its users   --implements-->  Lock
        StateMachine       + states, transitions, scripts  --implements-->  StateChart
          StateMachineProofs   both, the mutex first       (until events overlap)
          MCStateMachine   a small configuration for TLC
      EventSc            + nodes, epoll, timers, stop
        EventScProofs
    RelayDriver          chute relay logic
      Tastek             + Modbus loop, PLC, process
        TastekProofs     both, the relay logic first
    ConfigManagement     daemon supervision
      ConfigManagementProofs
    Restart              restart over the lists of the core
      MCRestart, RestartProofs
    RpcTransport         framing, buffers, calls and connections
      MCRpcTransport, RpcTransportProofs
    RedisSubscriber      subscription, reconnection, restart
      RedisSubscriberProofs
    Lidar                the threads of the lidar driver
      LidarProofs
    StateSync            from the devices to a page (proofs in TastekProofs)
    Configuration        editing, saving and importing (proofs in
      MCConfiguration      ConfigManagementProofs)

A definition named "Deviation" in a comment is a mistake somebody could make in that
place.  No specification uses it; replacing the definition below it by it breaks a
property, which shows that the property depends on that code.

**CoRoutine.** A coroutine is a number; the vector `m_co_routines` keeps the order of
the numbers, so it and the loop's snapshot are sets.  `resume_co`, `yield_co` and the end
of a coroutine are the context switches; `next_round` is the sweep of the dead and the
next snapshot.  `in_epoll_wait` is the state in which the loop fetches an event.

**CoMutex.** One mutex, coroutines that lock it to any depth up to the bound, sleep with
it, spawn others and end. The `while` of `lock()` is `MustWait`: `in_lock` is the
program counter inside it. **Lock** is what callers rely on; `IsALock` and the theorem
`RefinesLock` say it is implemented, with `in_lock` as the clients that want it: the
first is checked in the use a machine makes of the mutex, the second proved for every
use.

**EventSc.** What `CoMutex` takes as a single step, the end of a sleep: registering the
nodes of a yield, the kernel making a descriptor readable or a timer expire, the loop
adding a coroutine for the one event it fetches, and the handler that removes the nodes,
sets the result and wakes the yielder.  Descriptors given to `yield_by_fd` are private to
the coroutine, as at every call site (RPC sockets, Redis commands, pidfds).  A time limit
of `yield_by_fd` is put into nanoseconds whole: one of a second or more is refused by the
kernel, and a sleep of 0 disarms the timer.  Both are modelled by what they do.

**StateMachine.** Every coroutine that has to do with the machine is at a `step`: its
event is about to be handled, or it is in `after_exit`, `before_enter` or `do_action` of a
state object, waiting for the mutex or running the script.  What follows a script up to
the next `lock_sm` is one step with the `unlock_sm`, as nothing yields there.  State objects
have no identity of their own: there is one, the current one, and `dangling` are the
coroutines in a function of one that has been destroyed.  What such a coroutine reads next
is undefined in C++; in the model it is any name or none.  The first coroutine is that of
`main`: it waits in `match_device`, nests the mutex in `begin()` and triggers.  `ran` is a
history variable, and so is `overlapped`: an event did not wait until the machine rested.
A name that no state has resolves to null (`create_sm_state`).  Every state has its enter,
exit and do keys, as the command line writes them.  **StateChart** is what the
configuration promises; until events overlap it is implemented.

**RelayDriver.** The position is the driver's count of seconds, which is 0 at every start
wherever the chute is: all properties are about the count.  The coefficient is rounded
down, so that a way of 60 seconds makes it 1 and the count goes up to 100.  A command and a
timer tick are one step each, since neither yields before its last assignment.  `coils` is
what the driver wants on.

**Tastek.** The Modbus loop step by step, since the PLC and the chute see it step by
step; commands and the relay timer run between two loops, because a Modbus call blocks
the process.  A failing call has reached the PLC or not.  The process may be killed
anywhere, is ended by its status check, stopped, and started again; `plc` survives.
`fresh` is a history variable.

**ConfigManagement.** Both maps, the map of processes, every daemon's process and the
system's view of ports.  A call is split at its yields: `stop` up to the wait,
`stop_returns` after it; the node's `handleEvent` up to its two-second timer, `restart`
after it.  In `restart` the pidfd is closed.  If a stop waits for it, the loop keeps an entry
under its number for ever, and `registerNode` refuses the next descriptor that gets the
number: the new pidfd at once, or, while it is one of the `stale` numbers, that of any
later start, restart, handler's timer or waiter.  `sup` says what became of a node then:
`refused` but kept by a map or a caller, `dropped` for good, or `asleep` in a delay that
never ends.  `MaxClosed` bounds how often a restart closes a descriptor under a waiter.

**Restart.** One action per remote call of the command's `restart`: the lists, a stop and
its return, the configuration file, a start.  Of the daemons it keeps what these calls
see: the lists, and the ports still in use by daemons that were stopped.  The state
machine asks for the list once, matches its devices one by one (`match_device`), begins,
and may fail and start anew.  A stop whose command is lost never returns.  When a restart
has stopped what it listed it reads the configuration, which is empty, whole, or as far as an
import or a write has come: `will_start` is how many of the devices, and at last the
machine, are in it.  `whole` is a history variable.

**Configuration.** A command reads the file and checks (one step), opens it, which empties
it, writes a part of it or all of it; `clear` is three such edits, each with a reading of
its own, and the Redis `params` are a part like the others.  A file written in part is
`Torn`: YAML throws on it, which ends the command but not its session
(`CliSession::Feed`, `cli.h:791`).  Some parts of a file YAML takes for the whole; then
`cut` is set and the model ends, as nothing holds of what follows.  Writers that overlap
write over each other's text (`dirty`).  A save empties the file of commands, reads the
configuration once each for the device, the states and Redis, and writes the commands that
`bdr` prints, in part first; a command that is cut has no end of line and is not executed.
The import executes them one after the other on whatever there is.  The container may end
between any two steps, with or without its file system.  The editing commands are operators
from a configuration to a configuration, and `Accepted` holds their refusals.
A script or a device's argument is a sequence of symbols, as far as printing and reading
tell characters apart.  `Printed` is what `replaceNewlinesAndQuotes` makes of one, `Split`
what the splitter of command lines (`cli/detail/split.h`) reads of it, `ReadCode` what an
import stores: `<>` is a newline, and what Lua does not compile is refused.  So a saved
script need not come back; `Legible` says which do.  Names, hosts and passwords are single
words, and what YAML makes of a text is left out.

**RpcTransport.** A message is the sequence of the positions where its frames end; bytes
are only counted.  The caller writes frame by frame through thrift's buffer of 512, which
`flush` and overflows empty into the socket; the server takes up to 4096 bytes at an
event, asks whether a frame is whole, and processes.  `read_more` reads whole frames of
what is buffered and loops for ever on a part of one, which is `stuck`; an exception that
leaves the handler is `aborted`.  The handler of a call may yield.

**RedisSubscriber.** A node's life: authentication, which yields; a SUBSCRIBE for every
channel and the next reply for each, which blocks the loop; registration; an event, which
takes all replies that have come; its replacement of itself after an EOF; its replacement
by `restart_redis_subscriber`.  hiredis is modelled from its uses: a reply is in the
socket or in the reader.

**Lidar.** The receive thread, `processCloud`, the meter's polling thread and the timer of
the loop, step by step where they share data.  Geometry is left out: a frame shows one of
the states or none, and whatever `pc_get_state` computes beyond is a choice; a filter keeps
the age of what it remembers.  `filter_length` chooses the filter: at most 1 a low-pass
filter, which is reset in two places, above 1 the average over `g_full_offset_array`, which
nothing resets.  The timer's callback reads and reports, then yields at the push of the
state, while the next may come; `serial_pc`, behind the push, is a step of its own that any
callback may be at.  The lidar library's callbacks are modelled from their uses.

**StateSync.** A push is at one of its yields: asking a device, writing to Redis, waiting
for the API.  Redis and the API may be away; then the write or the request fails and the
push goes on, as in the code.  A device may be away as well - not listed, or its call fails
-, and then its field is missing in what is written and shown.  Without Redis the API's
`hget` rejects; `uncaughtException` keeps the process alive, and the pages hear nothing of
that push.  `began`, `oldest`, `gone` and `missed` are history variables.

## 3. Runs

| run | instance | states | what it shows |
|---|---|---|---|
| events | 3 coroutines, 1 socket, 1 service, limits 0, 700 and 2200 ms, sleeps of 0 and 1 | 13 thousand | waiters have nodes, no stale node, honest results, a yield that can end does |
| machine | 3 coroutines, depth 2, 3 states, 2 events at any time | 26 thousand | the last state is settled, no replacement under a script, no lost wakeup; the mutex implements Lock; until events overlap the state chart is implemented and every event is handled |
| machine_switches | 3 coroutines, 3 states, events at any time | | *violated*: a transition leaves a state that was already left |
| chute | openings 0, 30, 50, 99, 100, 5 seconds of way, 1 retry | 46 thousand | by the count, rests near the target; the PLC after a clean loop, never both coils; a motion ends, coils restored, dead link noticed, error replaced |
| daemons | 2 daemons, 2 ports, 2 descriptors closed under waiters | 403 thousand | ports, watching, restarts; failed devices come back, delivered stops return, unless a stale number is in the way |
| daemons_unlisted | 2 daemons, 3 ports, 1 descriptor closed under a waiter | | *violated*: a daemon runs unlisted |
| restarts | 2 sessions, 2 devices, 5 ports, 3 restarts | 297 thousand | the newest machine finds its devices; a lone restart leaves one of each |
| configuration | 1 terminal and the import, 2 plants of 2 states, 4 scripts, 3 commands, saves or ends, 1 new container | 2.8 million | what is named exists, the import merges what is read of the saved commands, what was saved and is legible is there again |
| rpc | 2 callers, 5 messages | 99 thousand | a call once, only long messages stop a daemon, calls end |
| redis | 4 nodes, 2 channels, 2 unread replies, 2 outages, 2 restarts | 162 thousand | one subscriber, what an early message costs, the subscription returns |
| lidar | 5 frames, 1 position, filter lengths 1 and 2, cloud written at every call | 468 thousand | frames in one hand, four frames enough, filters forget, vehicles reported and reported gone |
| sync | 2 devices, 2 pushes, 1 change, 1 outage | 1.0 million | the page is no older than the oldest overlapping push, lacks only what was away, and catches up |

**Bounds.** Three coroutines of a machine are `begin()` and two events that overlap with
it and with each other, or an event and one that its script triggers: a holder of the
mutex and two waiters, so that the queue has an order, and a newcomer next. Depth 2 is
what `begin()` does. One state has a do.next, one event an unknown target. The lock,
`RestIsSettled` and `ScriptKeepsItsState` are proved for any number. In `EventSc` the
last number is kept for handlers of yields; a coroutine that yields, another one and a
handler give every race of a descriptor with its limit and with a stop, and the proofs
do the rest. The limits are one of each sort: none, one that runs, one that is refused.
The chute's openings are both ends, and on and beside whole seconds. One retry makes the
error need two failures in a row; the counter is counted one over its limit, beyond
which it has no effect. Two daemons on two ports reuse a port while the old process
lives and run out of ports; two descriptors closed under waiters give a number that is
refused at once and one that is refused later. Two overlapping restarts and a third alone show what overlap
leaves behind and that it is cleared; five ports are the two devices and the machine,
and two more for what overlap starts twice. The two plants of `configuration` have a script
with a newline and quotes that comes back, and scripts with a backslash before a quote and
with `<>` that do not; three commands, saves or ends are a save that is cut, an end and an
import, or a save, an edit and an end. Two terminals whose saves overlap (`Lands`) are more
than this run has, and are covered by the proof. A filter length of each sort is enough, 1
and 2. The messages of `rpc` are real ones with
their sizes: a oneway call, a long request and a long reply, each cut inside a frame's
length and behind it. Two nodes of Redis can be set up at once while two more are
registered. Five frames are one more than the four that are ever in use. Two devices
tell a push with mixed answers from an older one; one outage is Redis, the API or one of the
devices. A coroutine number, and a node nobody refers to, are used
again.

**Fairness.** The loop goes on (WF of rounds and resumes) and serves every ready
descriptor in the end (SF of `epoll_wait`, as epoll's list is served in turn). Scripts
end (SF of `script_ends`), which is a demand on scripts, stated as such; the devices
asked by `match_device` answer. Timers expire and periodic timers get their turn: WF of
the relay timer and Modbus loop, SF of the status check, which is only enabled between
two loops. A daemon told to stop ends; core's restart timer fires. Threads run (WF in
`Lidar`), the lidar sends and the meter answers: without the meter `GoneIsReported`
fails, see section 5. A periodic timer goes on pushing (WF of some `tick`, not of every
push) and a call is answered, or fails when whoever answers is away.  A lidar driver that
ended need not be started again, nor a push of its timer end. Whoever runs Redis and
the daemons starts them again, and the configuration that is replayed has the Redis
parameters. Nothing is assumed of commands, failures, networks and callers. `Spec`
(`SmSpec`, `SyncSpec`) has this fairness, `Safe` (`SmSafe`, `SyncSafe`) is the same
without it; `Restart` and
`Configuration` have safety properties only, and `CoMutex`, which is run as a part of
the machine, only a safety specification.

**Deadlock** is checked except where the system may really stop: `EventSc` ends with
`stopEventLoop`; in `RpcTransport` both daemons may loop for ever; a restart whose stop was
lost hangs; and a `Configuration` whose bounds on edits and ends are used up has nothing
left to do.

## 4. Proofs

TLAPS checks these for all values of the constants, from the named assumptions in the
modules.

*StateMachineProofs, the mutex.* `IInv` adds two facts to the checked invariants: the
holder, and whoever is in `lock()`, is a coroutine the loop still knows and is not dead.
Without them a sweep could take away the holder, and exclusion would not be inductive.
One lemma per action; the queue's facts come from lemmas about `Append` and `Tail`.
Results: types, scheduler, exclusion, holder and count, queue, wakeups, absence of
deadlock, and `Safe => L!Safe`.

*StateMachineProofs, the machine.* A step of the machine is a step of its mutex or leaves
the mutex alone (`StepUsesMutex`), so `IInv` carries over to the composition: scripts
exclude each other, and `SmSafe => L!Safe`.  `MachineInv` adds who is responsible: as long
as the enter or do script of the current object has not ended, some coroutine is on its
way to run it on this object and no other, and as long as a do.next is to be followed, some
coroutine is in the exit script.  Each of these may be overtaken by another event only by
replacing the object, which makes the overtaker responsible.  So the machine settles,
whatever overlaps and whatever is read from a destroyed object.

*StateMachineProofs, the chart.* `SmImplementsChart`: as long as events wait for the
machine to rest, every step is a step of the state chart or a stutter.  `ChartInv` says
where a transition is.  How often a coroutine has locked tells which part of it is under
way; a transition is made alone, but for the do script that ends it, beside which an event
may already wait for the mutex to run the exit script (`OneTransition`); so the other
scripts get the mutex at once, the scripts that have ended are those before the next one
(`RanFits`), and the exit script leads to a state the configuration names (`NextFits`).
Each action has a lemma that it keeps this and one that it maps to the chart.

*EventScProofs.* The checked invariants become inductive with two things.  A node in the
loop's map belongs to a coroutine that is suspended in the very yield that made it
(`NodeOK`), and while the handler of a yield's node runs everything else stands still
(`HandlersAlone`): the loop fetches an event only when no coroutine is ready.  This is why
a descriptor and its time limit cannot both wake a coroutine.  Results: types, that
waiters are reachable, that no node is stale, that results are honest, that handlers run
alone.

*TastekProofs.* For the relay logic, `IInv` adds `RoomLeft`: a motion never starts or goes
on at the end of its way.  It is what keeps the counted position in range when a command arrives
for the position being passed, the case in which the motion is not stopped, and with it the
opening that is reported a percentage (`ReportsPercent`).  The
arithmetic is in lemmas about `\div`; one lemma each for a command, a second and
relay_do_action.  The driver's steps are steps of the relay logic or leave it alone, and
`TIInv` adds where the Modbus loop is on its way; between loops the PLC is never left
with both coils, and a loop in which nothing failed leaves what the driver wants.
`PlcPullsAsCounted` joins the two: after such a loop the PLC pulls in the direction the
driver counts in, or not at all.  Where the chute is follows from none of this.

*TastekProofs, the push of the state.* The states of the devices are ordered, each device's
by its changes, and those that pushes began with are comparable two by two.  `PushInv`:
what a push has gathered is no older than its beginning, or missing for a device that was
away since, `oldest` bounds every push under
way, and once a push has written, nothing older than its `oldest` is written over it, as
whoever still writes overlaps it.  That a finite set of comparable states has an oldest
follows from the library's theorem about finite subsets.

*ConfigManagementProofs.* `IInv` adds that the maps know their nodes, that what is listed
is not stopped, and that a node's handler goes its steps in turn; then no interleaving of
stop, start and the two-second delay puts two daemons on one port, leaves a listed device
unwatched, keeps a wait for a process that is gone, or starts again what did not fail.  A
device whose node or delay met a stale number is the exception the theorem names, and it
takes a descriptor that was closed under a waiter (`closed > 0`).

*ConfigManagementProofs, the configuration.* First what `make_bdr` prints, whatever order
its maps have: its commands make every part of the configuration and nothing else, and
each finds what it names when they are executed in turn (`MakeBdrBuilds`).  The commands
are joined from a sequence for each state, so this rests on lemmas about `FlattenSeq` and
`SetToSeq`, whose recursive definitions are shown to be functions by induction on the
least length at which they would not be.  What is printed is first read back (`AsRead`), symbol by symbol; `PlainCode` and
`PlainArgs` show that legible texts come back as they were.  Then `ConfInv`:
what is in a file or a copy is consistent or `Torn`; the import is on its way from
what it found to what it shall make of it (`OnItsWay`) - every part is as old or as new,
what is not made is yet to be executed, and a state comes before what names it; until
somebody edits, there is nothing but parts of what was promised (`NothingElse`); and the
first import after an end begins with all of that (`FirstTime`).  A command the import
executes on whole files is done and stays done, as no later one unmakes it; so when none is left, the
configuration is merged.  Results: `NamesExist`, `ImportCorrect`, `SavedIsRestored`, for
every configuration, session and number of ends.

*RestartProofs.* `NothingForgotten`: whatever a restart takes off the lists, itself
starts again afterwards, as all its stops come before its starts; so a device is always
listed or yet to be started by somebody, however restarts overlap.  `NewestIsRight` adds
that what the newest machine has heard stays true once all restarts have ended, as only
restarts change the lists; `AloneIsThorough` that a restart that meets no other has what
is listed in its own lists.  A restart that reads only a part of the configuration leaves
less; both facts therefore speak of a rest after one that read the whole of it last.

*RpcTransportProofs.* `IInv` is one invariant per call: how the bytes sent, taken, read
and replied follow each other, with lemmas about the ends of frames.  A call is executed
once, and only messages longer than a buffer make `read_more` meet a part of a frame.

*RedisSubscriberProofs.* `SubscriberInv`: before the first restart nobody subscribes; up to
the first node that replaced itself, what is registered is in `m_redis_node`, so that a
restart finds it, and whoever is being set up was made by a restart.  `Balanced`
is an account of the replies: what a node has not read has one confirmation for each
message it took for one, and one more while it waits for a reply; a connection that ended
may lack some.  It counts confirmations in sequences, with lemmas for each way hiredis
moves them.  Only a node that has taken a message for a reply can then have a confirmation
left when an event comes.

*LidarProofs.* `IInv` adds that a frame handed on is nobody else's and when the low-pass filters'
memory was last emptied (`Remembers`): the vehicle's disappearance clears them before the
next is detected.  Of the average it says that its last `stay` offsets are of this stay.

`MutualExclusion`, `SuspendedAreQueued`, `StopWaitsForItsOwn`, `WaitedForIsLetGo`,
`HolderIsInside`, `WaitersSuspended`, `SchedulerOK`, `NoDeadlock`, `HandlerRunsAlone`,
`PositionInRange`, `ReportsPercent`, `PullsAsCounted`, `HeadsForTarget`, `CoilsFollowState` and most type invariants are
proved and are in no run.  The assumptions are finite sets and bounds in the naturals: a
configuration has finitely many states, ports are finitely many, and so are the pushes
that overlap.

Every safety invariant and every action property of a passing run is proved.  Only
model-checked is liveness, as fairness and ENABLED are out of the prover's reach:
`YieldEnds`, `EventIsHandled`, `MotionEnds`, `CoilsAreRestored`, `DeadLinkIsNoticed`,
`ErrorIsReplaced`, `FailedDeviceComesBack`, `DeliveredStopReturns`, `CallsEnd`,
`SubscriptionReturns`, `VehicleIsReported`, `GoneIsReported`, `PageCatchesUp`; and of
`IsALock` the part that has the lock's fairness, whose safety is `SmRefinesLock`.  No
module declares a RECURSIVE operator.

## 5. What the models showed

*Event loop.* Limits of a second or more never run out, as they are passed as nanoseconds
beyond a second, which `timerfd_settime` refuses: 2200 ms in `ad_rpc.cpp` and 10 s in
`sion.h` are no limits.  A sleep of 0 never ends.

*State machine.* Transitions of overlapping events go wrong (`machine_switches`): the next
state is looked up and `after_exit` entered before the mutex is granted.  Drivers send
events at any time and `begin()` itself comes after the first requests, so this is not
excluded by the callers.  What remains true is `RestIsSettled` and `ScriptKeepsItsState`.
`emit_event` of the drivers has no caller.

*Chute.* A command for the position just being passed overshoots by a second:
`execute_to_threshold` does nothing when the position equals the target, also while a coil
is on.  The proof shows it is never more than one.  The Tastek loop writes the opening
coil first, so both coils are on for the time of one call when the direction turns from
closing to opening; `NeverBothWays` speaks of the time between loops.  Reads that work
while all writes fail never raise the error, as each read resets the counter;
`DeadLinkIsNoticed` speaks of a link on which nothing works.  `stop_device` leaves the
PLC's coils as they are.  The opening that is reported is the driver's count: after a start
it is 0 wherever the chute stands, and with a dead link it goes on.

*Daemons.* A stop during the restart delay leaves an unlisted daemon (`daemons_unlisted`).
A port is given away while its process still has it; the next daemon cannot listen.  A
driver then runs on deaf, a state machine ends with status 0 and stays listed.  A stop sent
before the daemon listens is lost, and the call waits for ever; so `DeliveredStopReturns`
speaks only of commands that arrived.  After such a reuse the older stop erases the newer
daemon's process entry, which is why `StopWaitsForItsOwn` allows it to be missing.
Overlapping restarts can start daemons twice, until the next restart that meets no other.
A restart that closes a pidfd under a waiting stop leaves its number in the loop's map;
whatever gets the number is refused, with a line in the log and nothing else.  A listed
device can thus stay unwatched, or down for ever with its handler asleep, and a stop whose
command arrived never return.

*Configuration.* A script with a backslash before a quote, and an argument with an
apostrophe, are not printed as the splitter reads them: they come back different, or are
refused by the import, which says nothing; `<>` in a script becomes a newline.  A torn file
makes every later command throw, `clear` among them, until a new container has none; a
save on it empties the saved commands and writes none.  A save while the import is under way stores part of a configuration, and
two ends of the container, one in a save and one in a write, lose it; `SavedSurvives`
excludes both by name.

*RPC.* A request or reply of more than 512 bytes that is cut inside a frame makes
`read_more` loop for ever, in the server's loop or the caller's; cut between two frames it
aborts the server.  Calls have no time limit, so a caller waits as long as the other
daemon does.

*Redis.* A message that arrives while the channels are subscribed is swallowed as a reply,
and the confirmation it displaced ends the core daemon.  A reconnection followed by a
restart leaves two subscribers.  A reconnection while Redis is away dereferences null.  An
error that is no EOF loses the subscription while the descriptor stays ready.

*Lidar.* With `filter_length` above 1 the first `filter_length - 1` offsets of a vehicle are
averaged with those of the empty place and of the vehicle before.  `serial_pc` before the second frame dereferences null.  When the meter's link is
lost a vehicle is never reported gone, as its last reading stays.

*Pages.* A page shows nothing until the next update, and does not reconnect.  A device that
is away when a push is made has no field in it: the page shows a default or nothing, and
without `scale_weight` its rendering throws (`State.vue:27`).  Pushes that
are made once after a change can leave an older state in Redis; the periodic ones repair
it.

## 6. Not modelled

* The geometry of point clouds, what Lua computes, page layout, packaging: data without
  control.  The mock driver only sleeps and logs.
* Timers of scripts (`RUNNER::start_timer_ms`).  Their functions run in coroutines without
  the mutex, on the `lua_State` of a script that may be asleep; what follows when their
  calls do not end in the reverse of their order is undefined in Lua, and the sample scripts
  that use them are an example of a configuration.
* `/tmp/cloud.bin`: the driver's `flock` and the API's lock directory do not exclude each
  other, so that a page may get half a cloud, and there is nothing to state beyond.
* `check_lua_code`, on a runner that is gone when it returns: what a timer then meets is
  undefined from the first step on.
* `co_list`, the log commands, `test_lua`, the mock commands: they
  read, or pass on, and keep no state.  The other requests of the web API pass a command on.
* What YAML makes of a text, and a part of a configuration that it takes for the whole.  A
  push of the state reads the configuration file as well (`ad_rpc.cpp:184`) and ends a driver
  that finds it torn; the supervision starts it again.
* Two requests on one RPC connection: no client of the repository sends them.  Drivers'
  coil entries of `modbus_driver`, which nobody uses.
* The delay of a WebSocket, and `epoll` with more than one event, which the loop never asks
  for.
* Vendored libraries (hiredis, cJSON, CJsonObject, SimpleIni, sion, rs_driver, the command
  line's library): where their behaviour matters it is modelled from its uses.  They are
  most of the lines of the source tree, so the models stand for a small share of all of it.
