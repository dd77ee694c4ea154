------------------------------- MODULE Lidar -------------------------------
(***************************************************************************)
(* The lidar driver (src/driver/rd_driver/pc_opt.cpp) with the distance    *)
(* meter it reads over Modbus (src/driver/lib/modbus_driver): which        *)
(* vehicle stands at the loading place, and when it is gone.               *)
(*                                                                         *)
(* Four threads: the lidar's receive thread fills frames and returns them  *)
(* through two queues, processCloud takes the state from a frame, a thread *)
(* of modbus_driver polls the meter, and the timer of the event loop reads *)
(* the meter's value and reports the state.                                *)
(*                                                                         *)
(* Of a cloud only the state it shows matters, of the distance only        *)
(* whether it is that of the empty place, and of a filter which offsets it *)
(* still remembers: those of the stay at the moment, of the one before or  *)
(* of an older one.  The configuration chooses one of two low-pass filters *)
(* with a reset, or the average of the last filter_length offsets, which   *)
(* nothing resets.                                                         *)
(***************************************************************************)
EXTENDS Integers, Sequences, FiniteSets

CONSTANTS
  MaxFrame,      \* point cloud buffers (bound of the model)
  Position,      \* the states of a vehicle: begin, middle, end
  SerialEvery,   \* serial_pc writes the cloud out at every fifth call
  FilterLength   \* values of filter_length in the configuration of the driver

ASSUME NumbersAssumption == MaxFrame \in Nat \ {0} /\ SerialEvery \in Nat \ {0}

ASSUME FilterLengthAssumption == FilterLength \subseteq Nat

ASSUME OutAssumption == "out" \notin Position

VARIABLES
  present,         \* whether a vehicle is under the meter
  shows,           \* the state the lidar sees
  free_cloud_queue,     \* frames to fill, in whatever order
  stuffed_cloud_queue,  \* frames to process
  filling,         \* the frame of the receive thread
  content,         \* what a frame shows
  processing,      \* the frame of processCloud, or nullptr
  pc,              \* where process_msg is
  position_ret,    \* the state it has found, while it is at work
  clouds,          \* whether g_cur_cloud and then g_output_cloud have been set
  filter_length,   \* as the driver has loaded it
  remembered,      \* the stays whose offsets the filters remember, by their age
  g_full_offset_array,  \* the stays of the offsets that are averaged
  stay,            \* history: the frames of this stay that are averaged
  g_rd_result,     \* the state process_msg has saved
  value,           \* the reading modbus_driver has: whether it is the empty place's
  g_distance,      \* the reading of the last timer call
  m_state,         \* the state that is reported
  called,          \* whether the timer has called back since the start
  g_update_counter,
  driver           \* whether the daemon runs

world == <<present, shows>>

queues == <<free_cloud_queue, stuffed_cloud_queue, filling, content>>

average == <<filter_length, g_full_offset_array, stay>>

filters == <<remembered, average>>

processor == <<processing, pc, position_ret, clouds, filters, g_rd_result>>

timer == <<g_distance, m_state, called, g_update_counter>>

vars == <<world, queues, processor, value, timer, driver>>

Frame == 1..MaxFrame

nullptr == 0

State == Position \cup {"out"}

Age == 0..2

TypeOK ==
  /\ present \in BOOLEAN /\ shows \in State
  /\ free_cloud_queue \in SUBSET Frame /\ stuffed_cloud_queue \in Seq(Frame)
  /\ filling \in Frame
  /\ content \in [Frame -> State]
  /\ processing \in Frame \cup {nullptr}
  /\ pc \in {"wait", "state", "gone", "full"}
  /\ position_ret \in State
  /\ clouds \in 0..2
  /\ filter_length \in FilterLength
  /\ remembered \in SUBSET Age
  /\ g_full_offset_array \in Seq(Age)
  /\ stay \in 0..filter_length
  /\ g_rd_result \in State
  /\ value \in {"near", "far"} /\ g_distance \in {"near", "far"}
  /\ m_state \in State
  /\ called \in BOOLEAN
  /\ g_update_counter \in 0..(SerialEvery - 1)
  /\ driver \in {"up", "down"}

\* A reading of 0 is that of a meter with something close to it.
Init ==
  /\ present \in BOOLEAN /\ shows \in State
  /\ free_cloud_queue = {} /\ stuffed_cloud_queue = <<>>
  /\ filling = 1
  /\ content = [f \in Frame |-> "out"]
  /\ processing = nullptr /\ pc = "wait" /\ position_ret = "out"
  /\ clouds = 0 /\ g_rd_result = "out"
  /\ filter_length \in FilterLength
  /\ remembered = {} /\ g_full_offset_array = <<>> /\ stay = 0
  /\ value = "near"
  /\ g_distance = "near" /\ m_state = "out"
  /\ called = FALSE /\ g_update_counter = 0
  /\ driver = "up"

-----------------------------------------------------------------------------
(* The receive thread *)

Stuffed == {stuffed_cloud_queue[i] : i \in DOMAIN stuffed_cloud_queue}

InUse == free_cloud_queue \cup Stuffed \cup ({filling, processing} \ {nullptr})

\* Deviation: no frame is dropped.
NeverFull == FALSE

TooMany == Len(stuffed_cloud_queue) > 1

Dropped == IF TooMany THEN {filling} ELSE {}

\* A free frame, or a new one when there is none; which one does not matter.
Available ==
  IF free_cloud_queue # {} THEN free_cloud_queue ELSE Frame \ (InUse \ Dropped)

\* driverReturnPointCloudToCallerCallback with the frame that is complete, then
\* driverGetPointCloudFromCallerCallback for the next.
frame_received(f) ==
  /\ driver = "up"
  /\ filling' = f
  /\ f \in Available /\ \A k \in Available : f <= k
  /\ free_cloud_queue' = free_cloud_queue \ {f}
  /\ \/ /\ TooMany
        /\ UNCHANGED <<stuffed_cloud_queue, content>>
     \/ /\ ~TooMany
        /\ stuffed_cloud_queue' = Append(stuffed_cloud_queue, filling)
        /\ content' = [content EXCEPT ![filling] = shows]
  /\ UNCHANGED <<world, processor, value, timer, driver>>

-----------------------------------------------------------------------------
(* processCloud *)

\* Deviation: the frame is given back before it is processed.
popped_and_freed(f) == free_cloud_queue \cup {f}

WhilePopped(f) == free_cloud_queue

popWait ==
  LET f == Head(stuffed_cloud_queue) IN
  /\ driver = "up"
  /\ pc = "wait" /\ stuffed_cloud_queue # <<>>
  /\ stuffed_cloud_queue' = Tail(stuffed_cloud_queue)
  /\ free_cloud_queue' = WhilePopped(f)
  /\ processing' = f
  /\ pc' = "state"
  /\ UNCHANGED <<world, filling, content, position_ret, clouds, filters, g_rd_result, value,
                 timer, driver>>

\* Deviation: the result before is kept whatever it is.
AlwaysKept(state) == TRUE

Kept(state) == state # "out"

\* pc_get_state resets the filters when the frame shows no vehicle; a vehicle that
\* has been detected keeps the state of its detection.
pc_get_state ==
  LET state == content[processing] IN
  /\ driver = "up"
  /\ pc = "state"
  /\ remembered' = IF state = "out" THEN {} ELSE remembered
  /\ position_ret' = IF Kept(g_rd_result) THEN g_rd_result ELSE state
  /\ clouds' = IF clouds = 2 THEN 2 ELSE clouds + 1
  /\ pc' = "gone"
  /\ UNCHANGED <<world, queues, processing, average, g_rd_result, value, timer, driver>>

\* Deviation: the filters are reset by what the lidar sees only.
NotForgotten == remembered

Forgotten == {}

\* The meter reads the distance of the empty place.
vehilce_disappeared ==
  /\ driver = "up"
  /\ pc = "gone"
  /\ \/ /\ g_distance = "far"
        /\ position_ret' = "out"
        /\ remembered' = Forgotten
     \/ /\ g_distance = "near"
        /\ UNCHANGED <<position_ret, remembered>>
  /\ pc' = "full"
  /\ UNCHANGED <<world, queues, processing, clouds, average, g_rd_result, value, timer,
                 driver>>

\* A stay begins or ends: what the filters remember is one stay older.
Aged(age) == IF age = 2 THEN 2 ELSE age + 1

Changes == (position_ret = "out") # (g_rd_result = "out")

\* The low-pass filters: what they have taken in since they were reset.
Filtered == (IF Changes THEN {Aged(a) : a \in remembered} ELSE remembered) \cup {0}

\* The offsets before this one, as old as they are now.
Offsets ==
  IF Changes
  THEN [i \in DOMAIN g_full_offset_array |-> Aged(g_full_offset_array[i])]
  ELSE g_full_offset_array

\* The average: the oldest offset goes when there are more than filter_length.
Averaged ==
  LET offsets == Append(Offsets, 0) IN
    IF Len(offsets) > filter_length THEN Tail(offsets) ELSE offsets

\* vehicle_is_full puts the offset of this frame through the filter; the result is
\* saved and the frame is free, with what it shows of no use to anybody.
vehicle_is_full ==
  /\ driver = "up"
  /\ pc = "full"
  /\ \/ /\ filter_length <= 1
        /\ remembered' = Filtered
        /\ UNCHANGED <<g_full_offset_array, stay>>
     \/ /\ filter_length > 1
        /\ g_full_offset_array' = Averaged
        /\ stay' = IF Changes THEN 1 ELSE IF stay = filter_length THEN stay ELSE stay + 1
        /\ UNCHANGED remembered
  /\ g_rd_result' = position_ret
  /\ position_ret' = "out"
  /\ content' = [content EXCEPT ![processing] = "out"]
  /\ free_cloud_queue' = free_cloud_queue \cup {processing}
  /\ processing' = nullptr
  /\ pc' = "wait"
  /\ UNCHANGED <<world, stuffed_cloud_queue, filling, clouds, filter_length, value, timer,
                 driver>>

-----------------------------------------------------------------------------
(* modbus_driver and the timer *)

\* A read that fails leaves the value as it is, and nobody asks for the exception; a
\* connection that is lost or never was is not tried again: no poll any more.
poll ==
  /\ driver = "up"
  /\ value' = IF present THEN "near" ELSE "far"
  /\ UNCHANGED <<world, queues, processor, timer, driver>>

\* Deviation: the distance is not read again.
FirstReading == g_distance

Reading == value

\* The callback reads the meter and reports the state.  Then it is at the push of the
\* state, which yields: the next callback does not wait for it.
timer_callback ==
  /\ driver = "up"
  /\ g_distance' = Reading
  /\ m_state' = g_rd_result
  /\ called' = TRUE
  /\ UNCHANGED <<world, queues, processor, value, g_update_counter, driver>>

\* get_cur_cloud copies g_output_cloud, which the second frame has set.
Serializes == g_update_counter + 1 = SerialEvery

\* The push of a callback is over.  How many are at theirs is not counted: any number
\* can be, and each is over at some time or never.
serial_pc ==
  /\ driver = "up"
  /\ called
  /\ g_update_counter' = (g_update_counter + 1) % SerialEvery
  /\ driver' = IF Serializes /\ clouds < 2 THEN "down" ELSE "up"
  /\ UNCHANGED <<world, queues, processor, value, g_distance, m_state, called>>

-----------------------------------------------------------------------------
(* The world *)

vehicle_moves ==
  /\ \/ present' = ~present /\ shows' = shows
     \/ shows' \in State \ {shows} /\ present' = present
  /\ UNCHANGED <<queues, processor, value, timer, driver>>

\* The core daemon starts the driver again, which loads its configuration.
restart ==
  /\ driver = "down"
  /\ free_cloud_queue' = {} /\ stuffed_cloud_queue' = <<>>
  /\ filling' = 1
  /\ content' = [f \in Frame |-> "out"]
  /\ processing' = nullptr /\ pc' = "wait" /\ position_ret' = "out"
  /\ clouds' = 0 /\ g_rd_result' = "out"
  /\ filter_length' \in FilterLength
  /\ remembered' = {} /\ g_full_offset_array' = <<>> /\ stay' = 0
  /\ value' = "near"
  /\ g_distance' = "near" /\ m_state' = "out"
  /\ called' = FALSE /\ g_update_counter' = 0
  /\ driver' = "up"
  /\ UNCHANGED world

-----------------------------------------------------------------------------

process_msg == popWait \/ pc_get_state \/ vehilce_disappeared \/ vehicle_is_full

Next ==
  \/ \E f \in Frame : frame_received(f)
  \/ process_msg
  \/ poll \/ timer_callback \/ serial_pc
  \/ vehicle_moves
  \/ restart

Safe == Init /\ [][Next]_vars

\* The threads run, the lidar goes on sending and the meter answering; a push of the
\* state need not end.
Fairness ==
  /\ WF_vars(\E f \in Frame : frame_received(f)) /\ WF_vars(process_msg)
  /\ WF_vars(poll) /\ WF_vars(timer_callback)

Spec == Safe /\ Fairness

-----------------------------------------------------------------------------
(* Properties *)

\* A frame is in the receive thread's hand, in one place of one queue, or with
\* processCloud: none is filled while it is processed, none is processed twice.
FrameInOneHand ==
  /\ filling \notin free_cloud_queue \cup Stuffed
  /\ processing \notin free_cloud_queue \cup Stuffed \cup {filling}
  /\ free_cloud_queue \cap Stuffed = {}
  /\ \A i, j \in DOMAIN stuffed_cloud_queue :
       stuffed_cloud_queue[i] = stuffed_cloud_queue[j] => i = j

\* However slow processCloud is, four frames are all there ever are.
FewFrames == Cardinality(InUse) <= 4

\* A low-pass filter has the offsets of the vehicle and those of the empty place before
\* it, nothing of the vehicle before.  The average forgets by its length alone: from
\* the filter_length-th frame of a stay on it has the offsets of this stay and no other.
FilterForgets ==
  /\ 2 \notin remembered
  /\ filter_length > 1 /\ stay = filter_length =>
       \A i \in DOMAIN g_full_offset_array : g_full_offset_array[i] = 0

\* A vehicle that is gone is reported gone, unless another comes or the driver fails.
GoneIsReported ==
  (~present /\ driver = "up") ~> (m_state = "out" \/ present \/ driver = "down")

\* A vehicle that stands where the lidar sees it is reported.
VehicleIsReported ==
  (present /\ shows # "out" /\ driver = "up")
    ~> (m_state # "out" \/ ~present \/ shows = "out" \/ driver = "down")
=============================================================================
