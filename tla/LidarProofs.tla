----------------------------- MODULE LidarProofs -----------------------------
(***************************************************************************)
(* Proofs about the lidar driver, for any number of point cloud buffers:   *)
(* its frames are handed on one at a time, four of them are enough, and    *)
(* what its filters forget, for any filter_length.                         *)
(***************************************************************************)
EXTENDS Lidar, FiniteSetTheorems, TLAPS

\* processCloud has a frame while it is at work, and the queue is short: the
\* receive thread adds to it when it has one frame at most.
Handed ==
  /\ pc = "wait" <=> processing = nullptr
  /\ Len(stuffed_cloud_queue) <= 2

\* While no vehicle has been detected a filter remembers the offsets of this time
\* without one; while there is one, also those of the time before.  What is left of
\* a vehicle that is to be reported gone is forgotten before its state is saved.
Remembers ==
  /\ 2 \notin remembered
  /\ g_rd_result = "out" => remembered \subseteq {0}
  /\ pc = "full" /\ position_ret = "out" /\ g_rd_result # "out" => remembered = {}
  /\ pc = "gone" /\ position_ret = "out" => g_rd_result = "out"
  /\ filter_length > 1 => remembered = {}

\* The average is of filter_length offsets at most, and its last ones are those of the
\* frames of this stay.
Averages ==
  filter_length > 1 =>
    /\ Len(g_full_offset_array) <= filter_length
    /\ \A i \in DOMAIN g_full_offset_array :
         i > Len(g_full_offset_array) - stay => g_full_offset_array[i] = 0

IInv == TypeOK /\ FrameInOneHand /\ FewFrames /\ Handed /\ Remembers /\ Averages

-----------------------------------------------------------------------------
(* The type invariant *)

LEMMA FrameIsPositive == Frame \subseteq Nat \ {0} /\ nullptr \notin Frame /\ 1 \in Frame
  BY NumbersAssumption DEF Frame, nullptr

LEMMA TypeInit == Init => TypeOK
<1> SUFFICES ASSUME Init PROVE TypeOK
  OBVIOUS
<1>1. /\ filter_length \in FilterLength /\ stay \in 0 .. filter_length
      /\ g_full_offset_array \in Seq(Age)
  BY FilterLengthAssumption DEF Init
<1>2. g_update_counter \in 0 .. (SerialEvery - 1) /\ clouds \in 0 .. 2
  BY NumbersAssumption DEF Init
<1>3. /\ stuffed_cloud_queue \in Seq(Frame) /\ content \in [Frame -> State]
      /\ remembered \in SUBSET Age
  BY DEF Init, State
<1> QED
  BY <1>1, <1>2, <1>3, FrameIsPositive DEF Init, TypeOK, State

\* One more offset, the newest, and the oldest gone when there are too many: what
\* follows the first offset moves down by one.
LEMMA AveragedIs ==
  ASSUME TypeOK
  PROVE  /\ Averaged \in Seq(Age)
         /\ Len(Averaged) = IF Len(g_full_offset_array) + 1 > filter_length
                            THEN Len(g_full_offset_array)
                            ELSE Len(g_full_offset_array) + 1
         /\ Averaged # <<>> => Averaged[Len(Averaged)] = 0
         /\ \A i \in DOMAIN Averaged :
              i < Len(Averaged) /\ ~Changes =>
                Averaged[i] = g_full_offset_array[i + Len(g_full_offset_array) + 1 - Len(Averaged)]
<1> DEFINE n == Len(g_full_offset_array)
<1>1. g_full_offset_array \in Seq(Age) /\ n \in Nat /\ filter_length \in Nat
  BY FilterLengthAssumption DEF TypeOK
<1>2. Offsets \in Seq(Age) /\ Len(Offsets) = n
  BY <1>1 DEF Offsets, Aged, Age
<1>3. Append(Offsets, 0) \in Seq(Age) /\ Len(Append(Offsets, 0)) = n + 1
  BY <1>2 DEF Age
<1>4. Append(Offsets, 0)[n + 1] = 0
  BY <1>2
<1>5. \A i \in 1 .. n : Append(Offsets, 0)[i] = Offsets[i]
  BY <1>2
<1>6. ~Changes => \A i \in 1 .. n : Offsets[i] = g_full_offset_array[i]
  BY DEF Offsets
<1> DEFINE a == Append(Offsets, 0)
<1> HIDE DEF n, a
<1>7. CASE n + 1 > filter_length
  <2>1. Averaged = Tail(a)
    BY <1>3, <1>7 DEF Averaged, a
  <2>2. Tail(a) \in Seq(Age) /\ Len(Tail(a)) = n /\ DOMAIN Tail(a) = 1 .. n
    BY <1>1, <1>3 DEF a
  <2>3. \A i \in 1 .. n : Tail(a)[i] = a[i + 1]
    BY <1>1, <1>3 DEF a
  <2>4. Averaged # <<>> => Averaged[n] = 0
    BY <1>1, <1>4, <2>1, <2>2, <2>3 DEF a
  <2>5. \A i \in DOMAIN Averaged :
          i < n /\ ~Changes => Averaged[i] = g_full_offset_array[i + 1]
    BY <1>1, <1>5, <1>6, <2>1, <2>2, <2>3 DEF a
  <2> QED
    BY <1>1, <1>7, <2>1, <2>2, <2>4, <2>5 DEF n
<1>8. CASE ~(n + 1 > filter_length)
  <2>1. Averaged = a
    BY <1>3, <1>8 DEF Averaged, a
  <2>2. \A i \in DOMAIN Averaged :
          i < n + 1 /\ ~Changes => Averaged[i] = g_full_offset_array[i]
    BY <1>1, <1>3, <1>5, <1>6, <2>1 DEF a
  <2> QED
    BY <1>1, <1>3, <1>4, <1>8, <2>1, <2>2 DEF n, a
<1> QED
  BY <1>7, <1>8

LEMMA TypeNext == TypeOK /\ Handed /\ [Next]_vars => TypeOK'
<1> SUFFICES ASSUME TypeOK, Handed, [Next]_vars PROVE TypeOK'
  OBVIOUS
<1> USE FrameIsPositive
<1>1. ASSUME NEW f \in Frame, frame_received(f) PROVE TypeOK'
  <2>1. stuffed_cloud_queue' \in Seq(Frame) /\ content' \in [Frame -> State]
    <3>1. CASE TooMany
      BY <1>1, <3>1 DEF frame_received, TypeOK
    <3>2. CASE ~TooMany
      <4>1. Append(stuffed_cloud_queue, filling) \in Seq(Frame)
        BY DEF TypeOK
      <4>2. [content EXCEPT ![filling] = shows] \in [Frame -> State]
        BY DEF TypeOK
      <4> QED
        BY <1>1, <3>2, <4>1, <4>2 DEF frame_received
    <3> QED
      BY <3>1, <3>2
  <2> QED
    BY <1>1, <2>1 DEF frame_received, TypeOK, world, processor, filters, average, timer
<1>2. CASE popWait
  <2>1. Head(stuffed_cloud_queue) \in Frame /\ stuffed_cloud_queue' \in Seq(Frame)
    BY <1>2 DEF popWait, TypeOK
  <2> QED
    BY <1>2, <2>1 DEF popWait, WhilePopped, TypeOK, world, filters, average, timer
<1>3. CASE pc_get_state
  <2>1. position_ret' \in State
    <3>1. "out" \in State
      BY DEF State
    <3>2. content[processing] \in State
      BY <1>3 DEF pc_get_state, TypeOK, Handed
    <3>3. CASE Kept(g_rd_result)
      BY <1>3, <3>3 DEF pc_get_state, TypeOK
    <3>4. CASE ~Kept(g_rd_result)
      BY <1>3, <3>4, <3>2 DEF pc_get_state, TypeOK
    <3> QED
      BY <3>3, <3>4
  <2> QED
    BY <1>3, <2>1 DEF pc_get_state, TypeOK, world, queues, average, timer
<1>4. CASE vehilce_disappeared
  BY <1>4 DEF vehilce_disappeared, Forgotten, TypeOK, State, world, queues, average, timer
<1>5. CASE vehicle_is_full
  <2>1. remembered' \in SUBSET Age
    <3>1. Filtered \subseteq Age
      <4>1. \A a \in Age : Aged(a) \in Age
        BY DEF Aged, Age
      <4>2. 0 \in Age /\ remembered \subseteq Age
        BY DEF TypeOK, Age
      <4> QED
        BY <4>1, <4>2 DEF Filtered
    <3> QED
      BY <1>5, <3>1 DEF vehicle_is_full, TypeOK
  <2>3. g_full_offset_array' \in Seq(Age)
    BY <1>5, AveragedIs DEF vehicle_is_full, TypeOK
  <2>4. stay' \in 0 .. filter_length
    BY <1>5, FilterLengthAssumption DEF vehicle_is_full, TypeOK
  <2>2. free_cloud_queue' \in SUBSET Frame
    BY <1>5 DEF vehicle_is_full, TypeOK, Handed
  <2> QED
    BY <1>5, <2>1, <2>2, <2>3, <2>4 DEF vehicle_is_full, TypeOK, State, world, timer
<1>6. CASE poll
  BY <1>6 DEF poll, TypeOK, world, queues, processor, filters, average, timer
<1>7. CASE timer_callback
  BY <1>7 DEF timer_callback, Reading, TypeOK, world, queues, processor, filters, average
<1>11. CASE serial_pc
  <2>1. g_update_counter' \in 0 .. (SerialEvery - 1)
    BY <1>11, NumbersAssumption DEF serial_pc, TypeOK
  <2> QED
    BY <1>11, <2>1 DEF serial_pc, TypeOK, world, queues, processor, filters, average
<1>8. CASE vehicle_moves
  BY <1>8 DEF vehicle_moves, TypeOK, queues, processor, filters, average, timer
<1>9. CASE restart
  <2>1. /\ filter_length' \in FilterLength /\ stay' \in 0 .. filter_length'
        /\ g_full_offset_array' \in Seq(Age)
    BY <1>9, FilterLengthAssumption DEF restart
  <2>2. g_update_counter' \in 0 .. (SerialEvery - 1) /\ clouds' \in 0 .. 2
    BY <1>9, NumbersAssumption DEF restart
  <2>3. /\ stuffed_cloud_queue' \in Seq(Frame) /\ content' \in [Frame -> State]
        /\ remembered' \in SUBSET Age
    BY <1>9 DEF restart, State
  <2> QED
    BY <1>9, <2>1, <2>2, <2>3 DEF restart, TypeOK, State, world
<1>10. CASE UNCHANGED vars
  BY <1>10 DEF vars, TypeOK, world, queues, processor, filters, average, timer
<1> QED
  BY <1>1, <1>2, <1>3, <1>4, <1>5, <1>6, <1>7, <1>8, <1>9, <1>10, <1>11 DEF Next, process_msg

-----------------------------------------------------------------------------
(* What the filters remember *)

LEMMA RemembersNext == TypeOK /\ Remembers /\ [Next]_vars => Remembers'
<1> SUFFICES ASSUME TypeOK, Remembers, [Next]_vars PROVE Remembers'
  OBVIOUS
<1> USE DEF Remembers
<1>1. ASSUME NEW f \in Frame, frame_received(f) PROVE Remembers'
  BY <1>1 DEF frame_received, processor, filters, average
<1>2. CASE popWait
  BY <1>2 DEF popWait, filters, average
<1>3. CASE pc_get_state
  BY <1>3 DEF pc_get_state, Kept, average
<1>4. CASE vehilce_disappeared
  BY <1>4 DEF vehilce_disappeared, Forgotten, average
<1>5. CASE vehicle_is_full
  <2>1. CASE filter_length > 1
    <3>1. remembered' = {} /\ pc' = "wait"
      BY <1>5, <2>1, FilterLengthAssumption DEF vehicle_is_full, TypeOK
    <3> QED
      BY <3>1
  <2>2. CASE filter_length <= 1
    <3>0. /\ remembered' = Filtered /\ g_rd_result' = position_ret
          /\ pc' = "wait" /\ ~(filter_length' > 1)
      BY <1>5, <2>2, FilterLengthAssumption DEF vehicle_is_full, TypeOK
    <3>1. CASE position_ret = "out" /\ g_rd_result # "out"
      <4>1. remembered = {}
        BY <1>5, <3>1 DEF vehicle_is_full
      <4>2. Filtered = {0}
        BY <3>1, <4>1 DEF Filtered, Changes
      <4> QED
        BY <3>0, <4>2
    <3>2. CASE position_ret # "out" /\ g_rd_result = "out"
      <4>1. Filtered \subseteq {0, 1}
        BY <3>2 DEF Filtered, Changes, Aged
      <4> QED
        BY <3>0, <3>2, <4>1
    <3>3. CASE (position_ret = "out") <=> (g_rd_result = "out")
      <4>1. Filtered = remembered \cup {0}
        BY <3>3 DEF Filtered, Changes
      <4> QED
        BY <3>0, <3>3, <4>1
    <3> QED
      BY <3>1, <3>2, <3>3
  <2> QED
    BY <2>1, <2>2, FilterLengthAssumption DEF TypeOK
<1>6. CASE poll
  BY <1>6 DEF poll, processor, filters, average
<1>7. CASE timer_callback
  BY <1>7 DEF timer_callback, processor, filters, average
<1>11. CASE serial_pc
  BY <1>11 DEF serial_pc, processor, filters, average
<1>8. CASE vehicle_moves
  BY <1>8 DEF vehicle_moves, processor, filters, average
<1>9. CASE restart
  BY <1>9 DEF restart
<1>10. CASE UNCHANGED vars
  BY <1>10 DEF vars, processor, filters, average
<1> QED
  BY <1>1, <1>2, <1>3, <1>4, <1>5, <1>6, <1>7, <1>8, <1>9, <1>10, <1>11 DEF Next, process_msg

-----------------------------------------------------------------------------
LEMMA AveragesNext == TypeOK /\ Averages /\ [Next]_vars => Averages'
<1> SUFFICES ASSUME TypeOK, Averages, [Next]_vars PROVE Averages'
  OBVIOUS
<1> USE DEF Averages
<1>1. ASSUME UNCHANGED average PROVE Averages'
  BY <1>1 DEF average
<1>2. CASE vehicle_is_full
  <2>1. SUFFICES ASSUME filter_length > 1
                 PROVE  /\ Len(g_full_offset_array') <= filter_length
                        /\ \A i \in DOMAIN g_full_offset_array' :
                             i > Len(g_full_offset_array') - stay' => g_full_offset_array'[i] = 0
    BY <1>2 DEF vehicle_is_full
  <2>2. /\ filter_length \in Nat /\ g_full_offset_array \in Seq(Age)
        /\ Len(g_full_offset_array) \in Nat /\ stay \in 0 .. filter_length
    BY FilterLengthAssumption DEF TypeOK
  <2>3. /\ g_full_offset_array' = Averaged
        /\ stay' = IF Changes THEN 1 ELSE IF stay = filter_length THEN stay ELSE stay + 1
    BY <1>2, <2>1, <2>2 DEF vehicle_is_full
  <2>4. /\ Averaged \in Seq(Age)
        /\ Len(Averaged) = IF Len(g_full_offset_array) + 1 > filter_length
                           THEN Len(g_full_offset_array)
                           ELSE Len(g_full_offset_array) + 1
        /\ Averaged # <<>> => Averaged[Len(Averaged)] = 0
    BY AveragedIs
  <2>5. Len(Averaged) <= filter_length
    BY <2>1, <2>2, <2>4
  <2>6. ASSUME NEW i \in DOMAIN Averaged, i > Len(Averaged) - stay'
        PROVE  Averaged[i] = 0
    <3>0. i \in 1 .. Len(Averaged) /\ Len(Averaged) \in Nat /\ Averaged # <<>>
      BY <2>4, <2>6
    <3>1. CASE i = Len(Averaged)
      BY <2>4, <3>0, <3>1
    <3>2. CASE i # Len(Averaged)
      <4>1. ~Changes /\ i < Len(Averaged)
        BY <2>3, <2>6, <3>0, <3>2
      <4> DEFINE k == i + Len(g_full_offset_array) + 1 - Len(Averaged)
      <4>2. Averaged[i] = g_full_offset_array[k]
        BY <4>1, AveragedIs
      <4>3. k \in 1 .. Len(g_full_offset_array)
        BY <2>2, <2>4, <3>0, <4>1
      <4>4. k > Len(g_full_offset_array) - stay
        <5>1. stay' = IF stay = filter_length THEN stay ELSE stay + 1
          BY <2>3, <4>1
        <5>2. CASE Len(g_full_offset_array) + 1 > filter_length
          BY <2>1, <2>2, <2>4, <2>6, <3>0, <5>1, <5>2
        <5>3. CASE ~(Len(g_full_offset_array) + 1 > filter_length)
          BY <2>1, <2>2, <2>4, <2>6, <3>0, <5>1, <5>3
        <5> QED
          BY <5>2, <5>3
      <4>5. k \in DOMAIN g_full_offset_array
        BY <2>2, <4>3
      <4> QED
        BY <2>1, <4>2, <4>4, <4>5
    <3> QED
      BY <3>1, <3>2
  <2> QED
    BY <2>3, <2>5, <2>6
<1>3. CASE restart
  <2>1. g_full_offset_array' = <<>> /\ filter_length' \in Nat
    BY <1>3, FilterLengthAssumption DEF restart
  <2> QED
    BY <2>1
<1> QED
  BY <1>1, <1>2, <1>3
  DEF Next, process_msg, frame_received, popWait, pc_get_state, vehilce_disappeared, poll,
      timer_callback, serial_pc, vehicle_moves, vars, processor, filters, average

-----------------------------------------------------------------------------
(* The hands a frame is in *)

\* Taking the head of a queue without repetitions leaves the others.
LEMMA StuffedOfTail ==
  ASSUME TypeOK, FrameInOneHand, stuffed_cloud_queue # <<>>,
         stuffed_cloud_queue' = Tail(stuffed_cloud_queue)
  PROVE  /\ Stuffed' = Stuffed \ {Head(stuffed_cloud_queue)}
         /\ Head(stuffed_cloud_queue) \in Stuffed
         /\ \A i, j \in DOMAIN stuffed_cloud_queue' :
              stuffed_cloud_queue'[i] = stuffed_cloud_queue'[j] => i = j
<1> DEFINE q == stuffed_cloud_queue
           t == Tail(q)
<1>1. q \in Seq(Frame) /\ Len(q) \in Nat \ {0} /\ DOMAIN q = 1 .. Len(q)
  BY DEF TypeOK
<1>2. DOMAIN t = 1 .. (Len(q) - 1) /\ \A i \in 1 .. (Len(q) - 1) : t[i] = q[i + 1]
  BY <1>1
<1>3. Head(q) = q[1]
  BY <1>1
<1>4. \A i, j \in DOMAIN q : q[i] = q[j] => i = j
  BY DEF FrameInOneHand
<1> HIDE DEF q, t
<1>5. ASSUME NEW i \in DOMAIN t, NEW j \in DOMAIN t, t[i] = t[j] PROVE i = j
  <2>1. i + 1 \in DOMAIN q /\ t[i] = q[i + 1] /\ i \in Int
    BY <1>1, <1>2
  <2>2. j + 1 \in DOMAIN q /\ t[j] = q[j + 1] /\ j \in Int
    BY <1>1, <1>2
  <2>3. i + 1 = j + 1
    BY <1>4, <1>5, <2>1, <2>2
  <2> QED
    BY <2>1, <2>2, <2>3
<1>6. {t[i] : i \in DOMAIN t} = {q[i] : i \in DOMAIN q} \ {q[1]}
  <2>1. ASSUME NEW i \in DOMAIN t PROVE t[i] \in {q[k] : k \in DOMAIN q} \ {q[1]}
    <3>1. i + 1 \in DOMAIN q /\ 1 \in DOMAIN q /\ i + 1 # 1 /\ t[i] = q[i + 1]
      BY <1>1, <1>2
    <3> QED
      BY <3>1, <1>4
  <2>2. ASSUME NEW i \in DOMAIN q, q[i] # q[1] PROVE q[i] \in {t[k] : k \in DOMAIN t}
    <3>1. i # 1
      BY <2>2
    <3>2. i - 1 \in DOMAIN t /\ t[i - 1] = q[i]
      BY <1>1, <1>2, <3>1
    <3> QED
      BY <3>2
  <2> QED
    BY <2>1, <2>2
<1>7. q[1] \in {q[i] : i \in DOMAIN q}
  BY <1>1
<1> QED
  BY <1>3, <1>5, <1>6, <1>7 DEF q, t, Stuffed

\* Adding a frame that is not in it.
LEMMA StuffedOfAppend ==
  ASSUME TypeOK, FrameInOneHand,
         stuffed_cloud_queue' = Append(stuffed_cloud_queue, filling)
  PROVE  /\ Stuffed' = Stuffed \cup {filling}
         /\ \A i, j \in DOMAIN stuffed_cloud_queue' :
              stuffed_cloud_queue'[i] = stuffed_cloud_queue'[j] => i = j
<1> DEFINE q == stuffed_cloud_queue
           t == Append(q, filling)
<1>1. q \in Seq(Frame) /\ filling \in Frame /\ Len(q) \in Nat /\ DOMAIN q = 1 .. Len(q)
  BY DEF TypeOK
<1>2. DOMAIN t = 1 .. (Len(q) + 1) /\ t[Len(q) + 1] = filling
  BY <1>1
<1>3. \A i \in 1 .. Len(q) : t[i] = q[i]
  BY <1>1
<1>4. \A i, j \in DOMAIN q : q[i] = q[j] => i = j
  BY DEF FrameInOneHand
<1>5. \A i \in DOMAIN q : q[i] # filling
  BY DEF FrameInOneHand, Stuffed
<1> HIDE DEF q, t
<1>6. \A i, j \in DOMAIN t : t[i] = t[j] => i = j
  BY <1>1, <1>2, <1>3, <1>4, <1>5
<1>7. {t[i] : i \in DOMAIN t} = {q[i] : i \in DOMAIN q} \cup {filling}
  <2>1. ASSUME NEW i \in DOMAIN t PROVE t[i] \in {q[k] : k \in DOMAIN q} \cup {filling}
    <3>1. i \in 1 .. Len(q) \/ i = Len(q) + 1
      BY <1>1, <1>2
    <3> QED
      BY <3>1, <1>1, <1>2, <1>3
  <2>2. ASSUME NEW i \in DOMAIN q PROVE q[i] \in {t[k] : k \in DOMAIN t}
    <3>1. i \in DOMAIN t /\ t[i] = q[i]
      BY <1>1, <1>2, <1>3
    <3> QED
      BY <3>1
  <2>3. filling \in {t[k] : k \in DOMAIN t}
    BY <1>1, <1>2
  <2> QED
    BY <2>1, <2>2, <2>3
<1> QED
  BY <1>6, <1>7 DEF q, t, Stuffed

\* The next frame to fill is a free one, the one just dropped, or a new one.
LEMMA AvailableIs ==
  ASSUME NEW f \in Available
  PROVE  \/ f \in free_cloud_queue
         \/ free_cloud_queue = {} /\ TooMany /\ f = filling
         \/ free_cloud_queue = {} /\ f \notin InUse
  BY DEF Available, Dropped

LEMMA HandedNext ==
  TypeOK /\ FrameInOneHand /\ Handed /\ [Next]_vars => FrameInOneHand' /\ Handed'
<1> SUFFICES ASSUME TypeOK, FrameInOneHand, Handed, [Next]_vars
             PROVE  FrameInOneHand' /\ Handed'
  OBVIOUS
<1> USE FrameIsPositive
<1>0. Len(stuffed_cloud_queue) \in Nat
  BY DEF TypeOK
<1>1. ASSUME NEW f \in Frame, frame_received(f) PROVE FrameInOneHand' /\ Handed'
  <2>0. /\ filling' = f /\ processing' = processing /\ pc' = pc
        /\ free_cloud_queue' = free_cloud_queue \ {f} /\ f \in Available
    BY <1>1 DEF frame_received, processor
  <2>1. CASE TooMany
    <3>1. stuffed_cloud_queue' = stuffed_cloud_queue /\ Stuffed' = Stuffed
      BY <1>1, <2>1 DEF frame_received, Stuffed
    <3>2. f \notin Stuffed /\ f # processing
      BY <2>0, AvailableIs DEF FrameInOneHand, InUse, TypeOK
    <3>3. processing \notin (free_cloud_queue \ {f}) \cup Stuffed \cup {f}
      BY <3>2 DEF FrameInOneHand
    <3> QED
      BY <2>0, <3>1, <3>2, <3>3 DEF FrameInOneHand, Handed
  <2>2. CASE ~TooMany
    <3>1. stuffed_cloud_queue' = Append(stuffed_cloud_queue, filling)
      BY <1>1, <2>2 DEF frame_received
    <3>2. f \notin Stuffed /\ f # processing /\ f # filling
      BY <2>0, <2>2, AvailableIs DEF FrameInOneHand, InUse, TypeOK
    <3>3. processing \notin (free_cloud_queue \ {f}) \cup (Stuffed \cup {filling}) \cup {f}
      BY <3>2 DEF FrameInOneHand
    <3>4. FrameInOneHand'
      BY <2>0, <3>1, <3>2, <3>3, StuffedOfAppend DEF FrameInOneHand
    <3>5. Len(stuffed_cloud_queue') <= 2
      BY <1>0, <2>2, <3>1 DEF TooMany, TypeOK
    <3> QED
      BY <2>0, <3>4, <3>5 DEF Handed
  <2> QED
    BY <2>1, <2>2
<1>2. CASE popWait
  <2>1. /\ stuffed_cloud_queue # <<>> /\ stuffed_cloud_queue' = Tail(stuffed_cloud_queue)
        /\ free_cloud_queue' = free_cloud_queue /\ filling' = filling
        /\ processing' = Head(stuffed_cloud_queue) /\ pc' = "state"
    BY <1>2 DEF popWait, WhilePopped
  <2>2. Head(stuffed_cloud_queue) \in Frame
    BY <2>1 DEF TypeOK
  <2>3. FrameInOneHand'
    BY <2>1, StuffedOfTail DEF FrameInOneHand
  <2>4. Len(stuffed_cloud_queue') <= 2
    BY <1>0, <2>1 DEF Handed, TypeOK
  <2> QED
    BY <2>1, <2>2, <2>3, <2>4 DEF Handed
<1>3. CASE pc_get_state
  BY <1>3 DEF pc_get_state, queues, FrameInOneHand, Handed, Stuffed
<1>4. CASE vehilce_disappeared
  BY <1>4 DEF vehilce_disappeared, queues, FrameInOneHand, Handed, Stuffed
<1>5. CASE vehicle_is_full
  <2>1. /\ stuffed_cloud_queue' = stuffed_cloud_queue /\ Stuffed' = Stuffed
        /\ filling' = filling /\ pc' = "wait" /\ processing' = nullptr
        /\ free_cloud_queue' = free_cloud_queue \cup {processing}
    BY <1>5 DEF vehicle_is_full, Stuffed
  <2>2. nullptr \notin free_cloud_queue \cup Stuffed \cup {filling, processing}
    <3>1. processing # nullptr
      BY <1>5 DEF vehicle_is_full, Handed
    <3>2. nullptr \notin Stuffed
      BY DEF TypeOK, Stuffed
    <3> QED
      BY <3>1, <3>2 DEF TypeOK
  <2> QED
    BY <2>1, <2>2 DEF FrameInOneHand, Handed
<1>6. CASE poll
  BY <1>6 DEF poll, queues, processor, FrameInOneHand, Handed, Stuffed
<1>7. CASE timer_callback
  BY <1>7 DEF timer_callback, queues, processor, FrameInOneHand, Handed, Stuffed
<1>11. CASE serial_pc
  BY <1>11 DEF serial_pc, queues, processor, FrameInOneHand, Handed, Stuffed
<1>8. CASE vehicle_moves
  BY <1>8 DEF vehicle_moves, queues, processor, FrameInOneHand, Handed, Stuffed
<1>9. CASE restart
  BY <1>9 DEF restart, FrameInOneHand, Handed, Stuffed
<1>10. CASE UNCHANGED vars
  BY <1>10 DEF vars, queues, processor, FrameInOneHand, Handed, Stuffed
<1> QED
  BY <1>1, <1>2, <1>3, <1>4, <1>5, <1>6, <1>7, <1>8, <1>9, <1>10, <1>11 DEF Next, process_msg

-----------------------------------------------------------------------------
(* How many frames there are *)

LEMMA FourAtMost ==
  ASSUME NEW a, NEW b, NEW c, NEW d, NEW S \in SUBSET {a, b, c, d}
  PROVE  Cardinality(S) <= 4
<1>1. IsFiniteSet({a, b}) /\ Cardinality({a, b}) \in Nat /\ Cardinality({a, b}) <= 2
  <2>1. IsFiniteSet({a}) /\ Cardinality({a}) = 1
    BY FS_Singleton
  <2>2. {a, b} = {a} \cup {b}
    OBVIOUS
  <2> QED
    BY <2>1, <2>2, FS_AddElement
<1>2. /\ IsFiniteSet({a, b, c}) /\ Cardinality({a, b, c}) \in Nat
      /\ Cardinality({a, b, c}) <= 3
  <2>1. {a, b, c} = {a, b} \cup {c}
    OBVIOUS
  <2> QED
    BY <1>1, <2>1, FS_AddElement
<1>3. /\ IsFiniteSet({a, b, c, d}) /\ Cardinality({a, b, c, d}) \in Nat
      /\ Cardinality({a, b, c, d}) <= 4
  <2>1. {a, b, c, d} = {a, b, c} \cup {d}
    OBVIOUS
  <2> QED
    BY <1>2, <2>1, FS_AddElement
<1>4. IsFiniteSet(S) /\ Cardinality(S) <= Cardinality({a, b, c, d})
  BY <1>3, FS_Subset
<1>5. Cardinality(S) \in Nat
  BY <1>4, FS_CardinalityType
<1> QED
  BY <1>3, <1>4, <1>5

\* A queue of two holds two.
LEMMA PairAtMost ==
  ASSUME NEW q \in Seq(Frame), Len(q) <= 2
  PROVE  {q[i] : i \in DOMAIN q} \subseteq {q[1], q[2]}
<1>1. Len(q) \in Nat /\ DOMAIN q = 1 .. Len(q)
  OBVIOUS
<1>2. \A i \in DOMAIN q : i = 1 \/ i = 2
  BY <1>1
<1> QED
  BY <1>2

\* A new frame is made only when no frame is free: there are the two in the queue,
\* one that is processed and one that is filled.
LEMMA FewFramesNext ==
  TypeOK /\ FrameInOneHand /\ Handed /\ FewFrames /\ [Next]_vars /\ TypeOK' /\ Handed' => FewFrames'
<1> SUFFICES ASSUME TypeOK, FrameInOneHand, Handed, FewFrames, [Next]_vars, TypeOK', Handed'
             PROVE  FewFrames'
  OBVIOUS
<1> USE FrameIsPositive
<1>0. ASSUME InUse' \subseteq InUse PROVE FewFrames'
  <2>1. IsFiniteSet(InUse)
    <3>1. IsFiniteSet(Frame)
      BY NumbersAssumption, FS_Interval DEF Frame
    <3>2. Stuffed \subseteq Frame
      BY DEF Stuffed, TypeOK
    <3>3. InUse \subseteq Frame
      BY <3>2 DEF InUse, TypeOK
    <3> QED
      BY <3>1, <3>3, FS_Subset
  <2>2. Cardinality(InUse) \in Nat /\ Cardinality(InUse') <= Cardinality(InUse)
    BY <1>0, <2>1, FS_Subset, FS_CardinalityType
  <2>3. Cardinality(InUse') \in Nat
    BY <1>0, <2>1, FS_Subset, FS_CardinalityType
  <2> QED
    BY <2>2, <2>3 DEF FewFrames
<1>1. ASSUME NEW f \in Frame, frame_received(f) PROVE FewFrames'
  <2>0. /\ filling' = f /\ processing' = processing
        /\ free_cloud_queue' = free_cloud_queue \ {f} /\ f \in Available
    BY <1>1 DEF frame_received, processor
  <2>1. Stuffed' \subseteq Stuffed \cup {filling}
    <3>1. CASE TooMany
      BY <1>1, <3>1 DEF frame_received, Stuffed
    <3>2. CASE ~TooMany
      BY <1>1, <3>2, StuffedOfAppend DEF frame_received
    <3> QED
      BY <3>1, <3>2
  <2>2. CASE f \in free_cloud_queue
    <3>1. filling # nullptr /\ f # nullptr
      BY DEF TypeOK
    <3> QED
      BY <2>0, <2>1, <2>2, <3>1, <1>0 DEF InUse
  <2>3. CASE free_cloud_queue = {}
    <3>1. PICK a, b : Stuffed' \subseteq {a, b}
      <4>1. stuffed_cloud_queue' \in Seq(Frame) /\ Len(stuffed_cloud_queue') <= 2
        BY DEF TypeOK, Handed
      <4> QED
        BY <4>1, PairAtMost DEF Stuffed
    <3>2. InUse' \subseteq {a, b, f, processing}
      BY <2>0, <2>3, <3>1 DEF InUse
    <3> QED
      BY <3>2, FourAtMost DEF FewFrames
  <2> QED
    BY <2>0, <2>2, <2>3, AvailableIs
<1>2. CASE popWait
  <2>1. /\ stuffed_cloud_queue # <<>> /\ stuffed_cloud_queue' = Tail(stuffed_cloud_queue)
        /\ free_cloud_queue' = free_cloud_queue /\ filling' = filling
        /\ processing' = Head(stuffed_cloud_queue)
    BY <1>2 DEF popWait, WhilePopped
  <2>2. InUse' \subseteq InUse
    BY <2>1, StuffedOfTail DEF InUse
  <2> QED
    BY <1>0, <2>2
<1>3. CASE pc_get_state
  BY <1>3 DEF pc_get_state, queues, FewFrames, InUse, Stuffed
<1>4. CASE vehilce_disappeared
  BY <1>4 DEF vehilce_disappeared, queues, FewFrames, InUse, Stuffed
<1>5. CASE vehicle_is_full
  <2>1. /\ Stuffed' = Stuffed /\ filling' = filling /\ processing' = nullptr
        /\ free_cloud_queue' = free_cloud_queue \cup {processing} /\ processing # nullptr
    BY <1>5 DEF vehicle_is_full, Stuffed, Handed
  <2>2. InUse' \subseteq InUse
    BY <2>1 DEF InUse
  <2> QED
    BY <1>0, <2>2
<1>6. CASE poll
  BY <1>6 DEF poll, queues, processor, FewFrames, InUse, Stuffed
<1>7. CASE timer_callback
  BY <1>7 DEF timer_callback, queues, processor, FewFrames, InUse, Stuffed
<1>11. CASE serial_pc
  BY <1>11 DEF serial_pc, queues, processor, FewFrames, InUse, Stuffed
<1>8. CASE vehicle_moves
  BY <1>8 DEF vehicle_moves, queues, processor, FewFrames, InUse, Stuffed
<1>9. CASE restart
  <2>1. InUse' \subseteq {1, 1, 1, 1}
    BY <1>9 DEF restart, InUse, Stuffed
  <2> QED
    BY <2>1, FourAtMost DEF FewFrames
<1>10. CASE UNCHANGED vars
  BY <1>10 DEF vars, queues, processor, FewFrames, InUse, Stuffed
<1> QED
  BY <1>1, <1>2, <1>3, <1>4, <1>5, <1>6, <1>7, <1>8, <1>9, <1>10, <1>11 DEF Next, process_msg

-----------------------------------------------------------------------------

LEMMA InitIInv == Init => IInv
<1> SUFFICES ASSUME Init PROVE IInv
  OBVIOUS
<1>1. TypeOK
  BY TypeInit
<1>2. Stuffed = {}
  BY DEF Init, Stuffed
<1>3. FrameInOneHand /\ Handed /\ Remembers /\ Averages
  BY <1>2, FilterLengthAssumption
  DEF Init, FrameInOneHand, Handed, Remembers, Averages, nullptr
<1>4. FewFrames
  <2>1. InUse \subseteq {1, 1, 1, 1}
    BY <1>2 DEF Init, InUse, nullptr
  <2> QED
    BY <2>1, FourAtMost DEF FewFrames
<1> QED
  BY <1>1, <1>3, <1>4 DEF IInv

LEMMA NextIInv == IInv /\ [Next]_vars => IInv'
  BY TypeNext, HandedNext, RemembersNext, AveragesNext, FewFramesNext DEF IInv

THEOREM Inductive == Safe => []IInv
  BY InitIInv, NextIInv, PTL DEF Safe

\* Type correctness of the lidar driver.
THEOREM TypeCorrect == Safe => []TypeOK
<1>1. IInv => TypeOK
  BY DEF IInv
<1> QED
  BY <1>1, Inductive, PTL

\* driverGetPointCloudFromCallerCallback never gives the lidar a frame that is
\* queued or that processCloud is at work on, and no frame is queued twice.
THEOREM HandsCorrect == Safe => []FrameInOneHand
<1>1. IInv => FrameInOneHand
  BY DEF IInv
<1> QED
  BY <1>1, Inductive, PTL

\* However many frames the machine has room for, the driver makes four at most.
THEOREM FourFrames == Safe => []FewFrames
<1>1. IInv => FewFrames
  BY DEF IInv
<1> QED
  BY <1>1, Inductive, PTL

\* For every filter_length: a low-pass filter has no offset of the vehicle before, and
\* the average has none from the filter_length-th frame of a stay on.
THEOREM FiltersForget == Safe => []FilterForgets
<1>1. IInv => FilterForgets
  <2> SUFFICES ASSUME IInv, filter_length > 1, stay = filter_length,
                      NEW i \in DOMAIN g_full_offset_array
               PROVE  g_full_offset_array[i] = 0
    BY DEF IInv, Remembers, FilterForgets
  <2>1. /\ Len(g_full_offset_array) \in Nat /\ filter_length \in Nat
        /\ i \in 1 .. Len(g_full_offset_array)
    BY FilterLengthAssumption DEF IInv, TypeOK
  <2> QED
    BY <2>1 DEF IInv, Averages
<1> QED
  BY <1>1, Inductive, PTL
=============================================================================
