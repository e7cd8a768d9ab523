---------------------------- MODULE ParallaxProofs ----------------------------
(***************************************************************************)
(* Proofs about Parallax: the order of the messages for any number of      *)
(* frames, and decoding for messages of any content.                       *)
(***************************************************************************)
EXTENDS Parallax, SequenceTheorems, IntegerLemmas

-----------------------------------------------------------------------------
(* What is on the wire, handled and kept.                                  *)
Contents(rvm) == Payloads[rvm] \cup {Malformed}
FrameOf(rvm) ==
  [number : Nat, rvm : {rvm}, sound : BOOLEAN, timestamp : Stamps, payload : Contents(rvm)]
MessageOf(rvm) ==
  [number : Nat, rvm : {rvm}, timestamp_ms : Nat \cup {None}, payload : Contents(rvm)]

AnyFrame == UNION {FrameOf(rvm) : rvm \in Topics}

(* Nothing is on its way before the subscription.                          *)
WireInv ==
  /\ wire \in Seq(AnyFrame)
  /\ \A i \in DOMAIN wire : wire[i].number \in 1 .. frames /\ wire[i].rvm \in topics
  /\ state \in {"new", "rejected", "failed"} => wire = <<>> /\ running = {}
RunningInv == \A m \in running : m \in MessageOf(m.rvm)
KeptInv ==
  /\ DOMAIN kept = Topics
  /\ \A rvm \in Topics : kept[rvm] \in MessageOf(rvm) \cup {NoMessage}
StreamInv == StreamTypes /\ WireInv /\ RunningInv /\ KeptInv

(* Numbers grow along the way of a frame: those kept are below that of the *)
(* message whose callback runs, of which there is one, those below the     *)
(* ones on the wire, and these below the next.                             *)
OrderInv ==
  /\ \A i, j \in DOMAIN wire : i < j => wire[i].number < wire[j].number
  /\ \A m, n \in running : m = n
  /\ \A m \in running, i \in DOMAIN wire : m.number < wire[i].number
  /\ \A rvm \in Topics : kept[rvm].number =< frames
  /\ \A rvm \in Topics, i \in DOMAIN wire : kept[rvm].number < wire[i].number
  /\ \A rvm \in Topics, m \in running : kept[rvm].number < m.number

IInv == StreamInv /\ OrderInv

-----------------------------------------------------------------------------
(* The frames a step takes off the wire or puts on it.                     *)
LEMMA TailOf ==
  ASSUME NEW S, NEW s \in Seq(S), s # <<>>
  PROVE  /\ Tail(s) \in Seq(S) /\ Head(s) = s[1] /\ 1 \in DOMAIN s /\ Head(s) \in S
         /\ Len(Tail(s)) = Len(s) - 1
         /\ \A i \in DOMAIN Tail(s) :
              i \in Nat /\ i + 1 \in DOMAIN s /\ 1 < i + 1 /\ Tail(s)[i] = s[i + 1]
  BY HeadTailProperties

LEMMA AppendOf ==
  ASSUME NEW S, NEW s \in Seq(S), NEW e \in S
  PROVE  /\ Append(s, e) \in Seq(S) /\ Len(Append(s, e)) = Len(s) + 1
         /\ \A i \in DOMAIN Append(s, e) :
              \/ i \in DOMAIN s /\ Append(s, e)[i] = s[i]
              \/ i = Len(s) + 1 /\ Append(s, e)[i] = e
         /\ \A i \in DOMAIN s : i < Len(s) + 1
  BY AppendProperties

(* What the server sends is a frame of its topic.                          *)
LEMMA FramesOfTopic ==
  ASSUME frames \in Nat, NEW rvm, NEW frame \in FramesOf(rvm)
  PROVE  frame \in FrameOf(rvm) /\ frame.number = frames + 1 /\ frame.rvm = rvm
<1>n. frames + 1 \in Nat
  OBVIOUS
<1>1. CASE frame \in [number : {frames + 1}, rvm : {rvm}, sound : {TRUE},
                      timestamp : {"number"}, payload : Payloads[rvm]]
  BY <1>n, <1>1, Zenon DEF FrameOf, Contents, Stamps
<1>2. CASE frame \in [number : {frames + 1}, rvm : {rvm}, sound : BOOLEAN,
                      timestamp : Stamps, payload : {Malformed}]
  BY <1>n, <1>2, Zenon DEF FrameOf, Contents
<1> QED
  BY <1>1, <1>2 DEF FramesOf

(* What a callback is given is the message of the frame.                   *)
LEMMA MessageOfFrame ==
  ASSUME NEW rvm, NEW frame \in FrameOf(rvm)
  PROVE  /\ Message(frame) \in MessageOf(rvm)
         /\ Message(frame).number = frame.number /\ Message(frame).rvm = rvm
  BY DEF Message, FrameOf, MessageOf

-----------------------------------------------------------------------------
LEMMA InitInv == Init => IInv
<1> SUFFICES ASSUME Init PROVE IInv
  OBVIOUS
<1>1. StreamTypes
  <2>1. Len(<<>>) = 0
    BY EmptySeq
  <2>2. MaxFrames \in Nat
    BY ParallaxAssumption
  <2>3. 0 \in 0 .. MaxFrames
    BY <2>2
  <2> QED
    BY <2>1, <2>3 DEF Init, StreamTypes
<1>2. WireInv /\ RunningInv
  BY DEF Init, WireInv, RunningInv
<1>3. KeptInv
  BY DEF Init, KeptInv
<1>4. OrderInv
  BY DEF Init, OrderInv, NoMessage
<1> QED
  BY <1>1, <1>2, <1>3, <1>4 DEF IInv, StreamInv

LEMMA Numbers ==
  ASSUME IInv
  PROVE  /\ frames \in Nat /\ frames =< MaxFrames /\ MaxFrames \in Nat
         /\ \A rvm \in Topics : kept[rvm].number \in Nat
         /\ \A m \in running : m.number \in Nat
         /\ \A i \in DOMAIN wire : wire[i].number \in Nat
         /\ Len(wire) \in Nat /\ DOMAIN wire = 1 .. Len(wire)
<1>1. MaxFrames \in Nat
  BY ParallaxAssumption
<1>2. frames \in Nat /\ frames =< MaxFrames
  BY <1>1 DEF IInv, StreamInv, StreamTypes
<1>3. \A rvm \in Topics : kept[rvm].number \in Nat
  <2>1. NoMessage.number = 0
    BY DEF NoMessage
  <2> QED
    BY <2>1 DEF IInv, StreamInv, KeptInv, MessageOf
<1>4. \A m \in running : m.number \in Nat
  BY <1>2 DEF IInv, StreamInv, StreamTypes
<1>5. \A i \in DOMAIN wire : wire[i].number \in Nat
  BY <1>2 DEF IInv, StreamInv, WireInv
<1>6. Len(wire) \in Nat /\ DOMAIN wire = 1 .. Len(wire)
  BY LenProperties DEF IInv, StreamInv, WireInv
<1> QED
  BY <1>1, <1>2, <1>3, <1>4, <1>5, <1>6

(* No message that is kept is replaced by an older one.                    *)
NewerKept == \A rvm \in Topics : kept'[rvm].number >= kept[rvm].number

LEMMA SubscribeStep == IInv /\ Subscribe => IInv' /\ NewerKept
<1> SUFFICES ASSUME IInv, Subscribe PROVE IInv' /\ NewerKept
  OBVIOUS
<1>1. wire = <<>> /\ running = {} /\ UNCHANGED <<wire, running, kept, frames>>
  BY DEF Subscribe, IInv, StreamInv, WireInv
<1>2. /\ state' \in {"rejected", "failed", "subscribed"}
      /\ topics' \subseteq Topics /\ (state' = "subscribed" => topics' # {})
  <2>1. PICK rvms \in Requests :
          \/ state' \in {"rejected", "failed"} /\ UNCHANGED topics
          \/ /\ ValidTopics(rvms) /\ state' = "subscribed"
             /\ topics' = {rvms[i] : i \in DOMAIN rvms}
    BY DEF Subscribe
  <2>2. CASE state' \in {"rejected", "failed"} /\ UNCHANGED topics
    BY <2>2 DEF IInv, StreamInv, StreamTypes
  <2>3. CASE /\ ValidTopics(rvms) /\ state' = "subscribed"
             /\ topics' = {rvms[i] : i \in DOMAIN rvms}
    <3>1. rvms \in Seq(Topics \cup {""})
      BY ParallaxAssumption
    <3>2. rvms # <<>> /\ \A i \in DOMAIN rvms : rvms[i] # ""
      BY <2>3 DEF ValidTopics
    <3>3. DOMAIN rvms = 1 .. Len(rvms) /\ Len(rvms) \in Nat \ {0}
      BY <3>1, <3>2, LenProperties, EmptySeq
    <3>4. \A i \in DOMAIN rvms : rvms[i] \in Topics
      <4>1. \A i \in DOMAIN rvms : rvms[i] \in Topics \cup {""}
        BY <3>1, <3>3, ElementOfSeq
      <4> QED
        BY <3>2, <4>1, Zenon
    <3>5. 1 \in DOMAIN rvms
      BY <3>3
    <3> QED
      BY <2>3, <3>4, <3>5
  <2> QED
    BY <2>1, <2>2, <2>3
<1>3. StreamInv'
  BY <1>1, <1>2 DEF IInv, StreamInv, StreamTypes, WireInv, RunningInv, KeptInv
<1>4. OrderInv' /\ NewerKept
  BY <1>1, Numbers DEF IInv, OrderInv, NewerKept
<1> QED
  BY <1>3, <1>4 DEF IInv

LEMMA SendStep == IInv /\ ServerSends => IInv' /\ NewerKept
<1> SUFFICES ASSUME IInv, ServerSends PROVE IInv' /\ NewerKept
  OBVIOUS
<1>1. PICK rvm \in topics : \E frame \in FramesOf(rvm) : wire' = Append(wire, frame)
  BY DEF ServerSends
<1>2. PICK frame \in FramesOf(rvm) : wire' = Append(wire, frame)
  BY <1>1
<1>3. /\ frame \in AnyFrame /\ frame.number = frames + 1 /\ frame.rvm \in topics
  BY Numbers, FramesOfTopic DEF IInv, StreamInv, StreamTypes, AnyFrame
<1>4. /\ wire' \in Seq(AnyFrame) /\ Len(wire') = Len(wire) + 1
      /\ \A i \in DOMAIN wire' : \/ i \in DOMAIN wire /\ wire'[i] = wire[i]
                                 \/ i = Len(wire) + 1 /\ wire'[i] = frame
      /\ \A i \in DOMAIN wire : i < Len(wire) + 1
  BY <1>2, <1>3, AppendOf DEF IInv, StreamInv, WireInv
<1>5. frames' = frames + 1 /\ frames < MaxFrames /\ state = "subscribed"
      /\ UNCHANGED <<state, topics, running, kept>>
  BY DEF ServerSends
<1>6. StreamTypes'
  BY <1>4, <1>5, Numbers DEF IInv, StreamInv, StreamTypes
<1>7. WireInv'
  <2>1. \A i \in DOMAIN wire' : wire'[i].number \in 1 .. frames' /\ wire'[i].rvm \in topics'
    BY <1>3, <1>4, <1>5, Numbers DEF IInv, StreamInv, WireInv
  <2> QED
    BY <1>4, <1>5, <2>1 DEF WireInv
<1>8. RunningInv' /\ KeptInv' /\ NewerKept
  BY <1>5, Numbers DEF IInv, StreamInv, RunningInv, KeptInv, NewerKept
<1>9. OrderInv'
  <2>1. \A i \in DOMAIN wire : wire[i].number < frame.number
    BY <1>3, Numbers DEF IInv, StreamInv, WireInv
  <2>2. \A i, j \in DOMAIN wire' : i < j => wire'[i].number < wire'[j].number
    <3> SUFFICES ASSUME NEW i \in DOMAIN wire', NEW j \in DOMAIN wire', i < j
                 PROVE  wire'[i].number < wire'[j].number
      OBVIOUS
    <3>1. j = Len(wire) + 1 \/ j \in DOMAIN wire
      BY <1>4
    <3>2. i \in DOMAIN wire /\ wire'[i] = wire[i]
      BY <1>4, <3>1, Numbers
    <3> QED
      BY <1>4, <2>1, <3>1, <3>2 DEF IInv, OrderInv
  <2>3. \A m \in running : m.number < frame.number
    BY <1>3, Numbers DEF IInv, StreamInv, StreamTypes
  <2>4. \A t \in Topics : kept[t].number < frame.number
    BY <1>3, Numbers DEF IInv, OrderInv
  <2> QED
    BY <1>4, <1>5, <2>2, <2>3, <2>4, Numbers DEF IInv, OrderInv
<1> QED
  BY <1>6, <1>7, <1>8, <1>9 DEF IInv, StreamInv

LEMMA HandleStep == IInv /\ HandleFrame => IInv' /\ NewerKept
<1> SUFFICES ASSUME IInv, HandleFrame PROVE IInv' /\ NewerKept
  OBVIOUS
<1>1. /\ wire' = Tail(wire) /\ wire # <<>> /\ running = {}
      /\ UNCHANGED <<state, topics, kept, frames>>
      /\ running' = {} \/ (state = "subscribed" /\ running' = {Message(Head(wire))})
  BY DEF HandleFrame, TakeFrame
<1>2. /\ Head(wire) = wire[1] /\ 1 \in DOMAIN wire /\ wire[1] \in AnyFrame
      /\ wire' \in Seq(AnyFrame) /\ Len(wire') = Len(wire) - 1
      /\ \A i \in DOMAIN wire' :
           i \in Nat /\ i + 1 \in DOMAIN wire /\ 1 < i + 1 /\ wire'[i] = wire[i + 1]
  BY <1>1, TailOf DEF IInv, StreamInv, WireInv
<1>3. \A m \in running' : /\ m \in MessageOf(m.rvm) /\ m.number = wire[1].number
                          /\ m.rvm = wire[1].rvm /\ state = "subscribed"
  <2>1. PICK rvm \in Topics : wire[1] \in FrameOf(rvm)
    BY <1>2 DEF AnyFrame
  <2>2. wire[1].rvm = rvm
    BY <2>1 DEF FrameOf
  <2> QED
    BY <1>1, <1>2, <2>1, <2>2, MessageOfFrame
<1>4. wire[1].number \in 1 .. frames /\ wire[1].rvm \in topics
  BY <1>2 DEF IInv, StreamInv, WireInv
<1>5. StreamTypes'
  BY <1>1, <1>2, <1>3, <1>4, Numbers DEF IInv, StreamInv, StreamTypes
<1>6. WireInv'
  BY <1>1, <1>2 DEF IInv, StreamInv, WireInv
<1>7. RunningInv' /\ KeptInv' /\ NewerKept
  BY <1>1, <1>3, Numbers DEF IInv, StreamInv, RunningInv, KeptInv, NewerKept
<1>8. OrderInv'
  <2>1. \A m \in running', i \in DOMAIN wire' : m.number < wire'[i].number
    BY <1>2, <1>3 DEF IInv, OrderInv
  <2>2. \A i, j \in DOMAIN wire' : i < j => wire'[i].number < wire'[j].number
    <3> SUFFICES ASSUME NEW i \in DOMAIN wire', NEW j \in DOMAIN wire', i < j
                 PROVE  wire[i + 1].number < wire[j + 1].number
      BY <1>2
    <3>1. i + 1 < j + 1 /\ i + 1 \in DOMAIN wire /\ j + 1 \in DOMAIN wire
      BY <1>2
    <3> QED
      BY <3>1 DEF IInv, OrderInv
  <2>3. \A m, n \in running' : m = n
    BY <1>1
  <2>4. \A rvm \in Topics, i \in DOMAIN wire' : kept[rvm].number < wire'[i].number
    BY <1>2 DEF IInv, OrderInv
  <2>5. \A rvm \in Topics, m \in running' : kept[rvm].number < m.number
    BY <1>2, <1>3 DEF IInv, OrderInv
  <2> QED
    BY <1>1, <2>1, <2>2, <2>3, <2>4, <2>5 DEF IInv, OrderInv
<1> QED
  BY <1>5, <1>6, <1>7, <1>8 DEF IInv, StreamInv

LEMMA KeepStep == IInv /\ CallbackKeeps => IInv' /\ NewerKept
<1> SUFFICES ASSUME IInv, CallbackKeeps PROVE IInv' /\ NewerKept
  OBVIOUS
<1>1. PICK m \in running : kept' = [kept EXCEPT ![m.rvm] = m] /\ running' = running \ {m}
  BY DEF CallbackKeeps
<1>2. UNCHANGED <<state, topics, wire, frames>>
  BY DEF CallbackKeeps
<1>3. m.rvm \in Topics /\ m \in MessageOf(m.rvm) /\ m.number =< frames
  BY Numbers DEF IInv, StreamInv, StreamTypes, RunningInv
<1>4. /\ DOMAIN kept' = Topics
      /\ \A rvm \in Topics : kept'[rvm] = IF rvm = m.rvm THEN m ELSE kept[rvm]
  BY <1>1, <1>3 DEF IInv, StreamInv, KeptInv
<1>5. KeptInv'
  BY <1>3, <1>4 DEF IInv, StreamInv, KeptInv
<1>6. StreamTypes' /\ WireInv' /\ RunningInv'
  BY <1>1, <1>2 DEF IInv, StreamInv, StreamTypes, WireInv, RunningInv
<1>7. NewerKept
  BY <1>3, <1>4, Numbers DEF IInv, OrderInv, NewerKept
<1>8. running' = {}
  BY <1>1 DEF IInv, OrderInv
<1>9. OrderInv'
  BY <1>2, <1>3, <1>4, <1>8 DEF IInv, OrderInv
<1> QED
  BY <1>5, <1>6, <1>7, <1>9 DEF IInv, StreamInv

LEMMA NextInv == IInv /\ [Next]_vars => IInv' /\ NewerKept
<1> SUFFICES ASSUME IInv, [Next]_vars PROVE IInv' /\ NewerKept
  OBVIOUS
<1>1. ASSUME UNCHANGED <<topics, wire, kept, frames>>, running' \subseteq running,
             \/ UNCHANGED state
             \/ state = "subscribed" /\ state' = "unsubscribed"
      PROVE  IInv' /\ NewerKept
  <2>1. NewerKept /\ OrderInv'
    BY <1>1, Numbers DEF NewerKept, IInv, OrderInv
  <2>2. StreamTypes' /\ WireInv' /\ RunningInv' /\ KeptInv'
    BY <1>1 DEF IInv, StreamInv, StreamTypes, WireInv, RunningInv, KeptInv
  <2> QED
    BY <2>1, <2>2 DEF IInv, StreamInv
<1>2. CASE Unsubscribe
  BY <1>1, <1>2 DEF Unsubscribe
<1>3. CASE CallbackRaises
  BY <1>1, <1>3 DEF CallbackRaises
<1>4. CASE Reconnect
  <2>1. wire' = <<>> /\ running' = {} /\ UNCHANGED <<state, topics, kept, frames>>
    BY <1>4 DEF Reconnect
  <2>2. Len(<<>>) = 0
    BY EmptySeq
  <2>3. NewerKept /\ OrderInv'
    BY <2>1, Numbers DEF NewerKept, IInv, OrderInv
  <2>4. StreamTypes' /\ WireInv' /\ RunningInv' /\ KeptInv'
    BY <2>1, <2>2, Numbers DEF IInv, StreamInv, StreamTypes, WireInv, RunningInv, KeptInv
  <2> QED
    BY <2>3, <2>4 DEF IInv, StreamInv
<1>5. CASE UNCHANGED vars
  BY <1>1, <1>5 DEF vars
<1> QED
  BY <1>2, <1>3, <1>4, <1>5, SubscribeStep, SendStep, HandleStep, KeepStep DEF Next

LEMMA Invariance == Spec => []IInv
  BY InitInv, NextInv, PTL DEF Spec

(* However long callbacks take and however often the connection is         *)
(* replaced, the message kept for a topic is never replaced by an older.   *)
THEOREM NewestIsKept == Spec => NewestKept
<1>1. IInv /\ [Next]_vars => \A rvm \in Topics : kept'[rvm].number >= kept[rvm].number
  BY NextInv DEF NewerKept
<1> QED
  BY Invariance, <1>1, PTL DEF Spec, NewestKept
-----------------------------------------------------------------------------
(* Fields of decoded data                                                  *)

LEMMA FieldsOf ==
  ASSUME NEW m, NEW N
  PROVE  DOMAIN Fields(m, N) = N /\ \A f \in N : Fields(m, N)[f] = Optional(m, f)
  BY DEF Fields

LEMMA JoinedOf ==
  ASSUME NEW d, NEW e
  PROVE  /\ DOMAIN Joined(d, e) = DOMAIN d \cup DOMAIN e
         /\ \A f \in DOMAIN d : Joined(d, e)[f] = d[f]
         /\ \A f \in DOMAIN e \ DOMAIN d : Joined(d, e)[f] = e[f]
  BY DEF Joined

(* A scalar that is present is not None.                                   *)
LEMMA OptionalPresent ==
  ASSUME NEW m, Scalars(m), NEW f, f \notin Parts \cup Lists
  PROVE  /\ Optional(m, f) # None <=> f \in DOMAIN m
         /\ Optional(m, f) \in Int \cup {None}
         /\ f \in DOMAIN m => Optional(m, f) = m[f] /\ m[f] \in Int
  BY DecoderAssumption DEF Scalars, Optional

(* So is a scalar of a submessage, be the submessage present or not.       *)
LEMMA WithinScalars ==
  ASSUME NEW rvm, NEW m, Conforms(rvm, m), NEW p \in Parts
  PROVE  Scalars(Within(m, p))
  BY DEF Conforms, Within, Nothing, Scalars

(* An ordinary field is read from the field of its name.                   *)
Named == {"charge_state", "temperature_state", "soc_percent", "capacity_kwh", "range_km",
          "cell_average_c", "cell_max_c", "cell_min_c", "timestamp_ms", "eta_timestamp_ms",
          "hold_end_timestamp_ms"}
LEMMA HasField ==
  ASSUME NEW m, NEW f, f \notin Named
  PROVE  Has(m, Path(f)) <=> f \in DOMAIN m
  BY DEF Has, Path, Named

LEMMA HasNested ==
  ASSUME NEW m, NEW p, NEW f
  PROVE  Has(m, <<p, f>>) <=> f \in DOMAIN Within(m, p)
  BY DEF Has
-----------------------------------------------------------------------------
(* What TypeOK and PresenceKept ask of the data d that is made of a        *)
(* message m.                                                              *)
ShapeOf(d) ==
  /\ DOMAIN d \in Dataclasses
  /\ \A f \in Lists \cap DOMAIN d : \A i \in DOMAIN d[f] : DOMAIN d[f][i] \in Dataclasses
PresenceOf(m, d) ==
  /\ \A f \in DOMAIN d \ (Lists \cup Destination) : d[f] # None <=> Has(m, Path(f))
  /\ "motion" \in DOMAIN d /\ d["motion"] # None =>
       \A f \in DOMAIN d["motion"] :
         d["motion"][f] # None <=>
           f \in DOMAIN m["motion"] \cup DOMAIN Within(m["motion"], "coordinates")
  /\ \A f \in Lists \cap DOMAIN d :
       /\ Len(d[f]) = Len(Repeated(m, f))
       /\ \A k \in DOMAIN Repeated(m, f) : \A g \in DOMAIN d[f][k] :
            d[f][k][g] # None <=> (IF g = "soc" THEN "soc_percent" ELSE g) \in DOMAIN m[f][k]
Faithful(m, d) == ShapeOf(d) /\ PresenceOf(m, d)

(* Data whose fields are those of the message.                             *)
FlatData ==
  {{"distance_km"}, {"state_code"}, {"mode_code"}, {"status_code", "type_code"},
   {"interior_c"}, {"target_temperature_c"}, {"state_code", "temperature_status_code"},
   {"setting_code"}, {"duration_seconds"}, {"status_code"},
   {"plug_connection_status_code", "display_status_code", "evse_type_code"},
   {"estimated_minutes_remaining"},
   {"total_kwh", "pack_kwh", "thermal_kwh", "outlets_kwh", "system_kwh",
    "session_duration_minutes", "time_remaining_minutes", "range_added_km",
    "current_power_kw", "current_range_km_per_hour", "is_free_session",
    "charging_state_code"}}

Structured ==
  {"energy.high_voltage.battery_state", "dynamics.vehicle.gnss",
   "navigation.navigation_service.trip_progress", "navigation.navigation_service.trip_info",
   "dynamics.tires.state", "body.closures.states", "body.locks.states",
   "comfort.cabin.climate_hold_status", "comfort.cabin.seat_conditioning_status",
   "energy_edge_compute.graphs.charging_graph_global"}

LEMMA FlatDecoders ==
  ASSUME NEW rvm \in Supported \ Structured, NEW m
  PROVE  \E N \in FlatData : Decode(rvm, m) = Fields(m, N)
  BY DEF Supported, Structured, FlatData, Decode, decode_vehicle_range, decode_vehicle_odometer,
    decode_vehicle_power_state, decode_vehicle_gear, decode_vehicle_drive_mode,
    decode_cabin_preconditioning_status, decode_cabin_temperatures,
    decode_hvac_settings_status, decode_pet_mode_status, decode_cabin_ventilation_setting,
    decode_climate_hold_setting, decode_defrost_defog_status,
    decode_charging_session_status, decode_charging_time_estimation,
    decode_charging_session_live_data

LEMMA StructuredDecoders ==
  ASSUME NEW m
  PROVE  /\ Decode("energy.high_voltage.battery_state", m) = decode_high_voltage_battery_state(m)
         /\ Decode("dynamics.vehicle.gnss", m) = decode_vehicle_gnss(m)
         /\ Decode("navigation.navigation_service.trip_progress", m) =
              decode_navigation_trip_progress(m)
         /\ Decode("navigation.navigation_service.trip_info", m) = decode_navigation_trip_info(m)
         /\ Decode("dynamics.tires.state", m) = decode_tire_states(m)
         /\ Decode("body.closures.states", m) = decode_body_states(m)
         /\ Decode("body.locks.states", m) = decode_body_states(m)
         /\ Decode("comfort.cabin.climate_hold_status", m) = decode_climate_hold_status(m)
         /\ Decode("comfort.cabin.seat_conditioning_status", m) =
              decode_seat_conditioning_states(m)
         /\ Decode("energy_edge_compute.graphs.charging_graph_global", m) =
              decode_charging_graph_global(m)
  BY DEF Decode

LEMMA FlatFaithful ==
  ASSUME NEW rvm \in Supported \ Structured, NEW m, Conforms(rvm, m)
  PROVE  Faithful(m, Decode(rvm, m))
<1>1. PICK N \in FlatData : Decode(rvm, m) = Fields(m, N)
  BY FlatDecoders
<1>2. N \in Dataclasses
  BY DEF FlatData, Dataclasses, VehicleData, ComfortAndChargingData
<1>3. N \cap (Lists \cup Parts \cup Destination \cup Named) = {} /\ "motion" \notin N
  BY DEF FlatData, Lists, Parts, Destination, Named
<1>4. DOMAIN Fields(m, N) = N /\ \A f \in N : Fields(m, N)[f] = Optional(m, f)
  BY FieldsOf
<1>5. \A f \in N : Optional(m, f) # None <=> Has(m, Path(f))
  BY <1>3, OptionalPresent, HasField DEF Conforms
<1>6. ShapeOf(Fields(m, N)) /\ PresenceOf(m, Fields(m, N))
  BY <1>2, <1>3, <1>4, <1>5 DEF ShapeOf, PresenceOf
<1> QED
  BY <1>1, <1>6 DEF Faithful
(* Data that has neither lists nor a motion.                               *)
LEMMA PlainData ==
  ASSUME NEW m, NEW d, DOMAIN d \in Dataclasses, DOMAIN d \cap (Lists \cup {"motion"}) = {},
         \A f \in DOMAIN d \ Destination : d[f] # None <=> Has(m, Path(f))
  PROVE  ShapeOf(d) /\ PresenceOf(m, d)
  BY DEF ShapeOf, PresenceOf

LEMMA BatteryFaithful ==
  ASSUME NEW m, Conforms("energy.high_voltage.battery_state", m)
  PROVE  Faithful(m, decode_high_voltage_battery_state(m))
<1> DEFINE Charge == {"soc_percent", "capacity_kwh", "range_km"}
           Temperature == {"cell_average_c", "cell_max_c", "cell_min_c"}
           Codes == {"power_output_code", "requires_calibration", "cold_weather_state_code"}
           d == decode_high_voltage_battery_state(m)
<1>1. /\ DOMAIN d = Charge \cup (Temperature \cup Codes)
      /\ \A f \in Charge : d[f] = Optional(Within(m, "charge_state"), f)
      /\ \A f \in Temperature : d[f] = Optional(Within(m, "temperature_state"), f)
      /\ \A f \in Codes : d[f] = Optional(m, f)
  BY DEF decode_high_voltage_battery_state, Joined, Fields
<1> HIDE DEF d
<1>2. DOMAIN d \in Dataclasses
  <2>1. DOMAIN d = {"soc_percent", "capacity_kwh", "range_km", "cell_average_c", "cell_max_c",
                    "cell_min_c", "power_output_code", "requires_calibration",
                    "cold_weather_state_code"}
    BY <1>1
  <2> QED
    BY <2>1 DEF Dataclasses, VehicleData
<1>3. DOMAIN d \cap (Lists \cup {"motion"}) = {}
  BY <1>1 DEF Lists
<1>4. Scalars(Within(m, "charge_state")) /\ Scalars(Within(m, "temperature_state")) /\ Scalars(m)
  BY WithinScalars DEF Conforms, Parts
<1>5. ASSUME NEW f \in Charge PROVE d[f] # None <=> Has(m, Path(f))
  <2>1. Path(f) = <<"charge_state", f>> /\ f \notin Parts \cup Lists
    BY DEF Path, Parts, Lists
  <2> QED
    BY <1>1, <1>4, <2>1, OptionalPresent, HasNested
<1>6. ASSUME NEW f \in Temperature PROVE d[f] # None <=> Has(m, Path(f))
  <2>1. Path(f) = <<"temperature_state", f>> /\ f \notin Parts \cup Lists
    BY DEF Path, Parts, Lists
  <2> QED
    BY <1>1, <1>4, <2>1, OptionalPresent, HasNested
<1>7. ASSUME NEW f \in Codes PROVE d[f] # None <=> Has(m, Path(f))
  <2>1. f \notin Named \cup Parts \cup Lists
    BY DEF Named, Parts, Lists
  <2> QED
    BY <1>1, <1>4, <2>1, OptionalPresent, HasField
<1> QED
  BY <1>1, <1>2, <1>3, <1>5, <1>6, <1>7, PlainData DEF Faithful, d

LEMMA GnssFaithful ==
  ASSUME NEW m, Conforms("dynamics.vehicle.gnss", m)
  PROVE  Faithful(m, decode_vehicle_gnss(m))
<1> DEFINE Position == {"latitude", "longitude", "altitude_m", "speed_m_s", "heading_deg",
                        "gps_timestamp_ms"}
           t == Optional(m, "gps_timestamp_ms")
           d == decode_vehicle_gnss(m)
<1>1. /\ DOMAIN d = Position \cup {"timestamp_ms"}
      /\ \A f \in Position : d[f] = Optional(m, f)
      /\ d["timestamp_ms"] = gps_to_unix_timestamp_ms(t)
  BY DEF decode_vehicle_gnss, Joined, Fields
<1> HIDE DEF d
<1>2. DOMAIN d \in Dataclasses
  <2>1. DOMAIN d = {"latitude", "longitude", "altitude_m", "speed_m_s", "heading_deg",
                    "timestamp_ms", "gps_timestamp_ms"}
    BY <1>1
  <2> QED
    BY <2>1 DEF Dataclasses, VehicleData
<1>3. DOMAIN d \cap (Lists \cup {"motion"}) = {}
  BY <1>1 DEF Lists
<1>4. /\ t # None <=> "gps_timestamp_ms" \in DOMAIN m
      /\ "gps_timestamp_ms" \in DOMAIN m => t = m["gps_timestamp_ms"] /\ t \in Int
  BY OptionalPresent DEF Conforms, Parts, Lists
<1>5. d["timestamp_ms"] # None <=> "gps_timestamp_ms" \in DOMAIN m
  BY <1>1, <1>4, DecoderAssumption DEF gps_to_unix_timestamp_ms
<1>6. ASSUME NEW f \in Position PROVE d[f] # None <=> Has(m, Path(f))
  <2>1. f \notin Named \cup Parts \cup Lists
    BY DEF Named, Parts, Lists
  <2> QED
    BY <1>1, <2>1, OptionalPresent, HasField DEF Conforms
<1>7. d["timestamp_ms"] # None <=> Has(m, Path("timestamp_ms"))
  BY <1>5 DEF Path, Has
<1> QED
  BY <1>1, <1>2, <1>3, <1>6, <1>7, PlainData DEF Faithful, d

(* Seconds that are present are shown, and no others.                      *)
LEMMA SecondsShown ==
  ASSUME NEW rvm, NEW m, Conforms(rvm, m), NEW p \in Parts
  PROVE  Milliseconds(Optional(Within(m, p), "seconds")) # None <=> Has(m, <<p, "seconds">>)
<1> DEFINE s == Optional(Within(m, p), "seconds")
<1>1. /\ s # None <=> "seconds" \in DOMAIN Within(m, p)
      /\ "seconds" \in DOMAIN Within(m, p) => s = Within(m, p)["seconds"] /\ s \in Int
  BY WithinScalars, OptionalPresent DEF Parts, Lists
<1>2. Has(m, <<p, "seconds">>) <=> "seconds" \in DOMAIN Within(m, p)
  BY HasNested
<1> HIDE DEF s
<1>3. Milliseconds(s) # None <=> s # None
  <2>1. CASE s = None
    BY <2>1 DEF Milliseconds
  <2>2. CASE s # None
    <3>1. s \in Int
      BY <1>1, <2>2
    <3>2. s * 1000 \in Int
      BY <3>1
    <3> QED
      BY <2>2, <3>2, DecoderAssumption DEF Milliseconds
  <2> QED
    BY <2>1, <2>2
<1> QED
  BY <1>1, <1>2, <1>3 DEF s

LEMMA HoldFaithful ==
  ASSUME NEW m, Conforms("comfort.cabin.climate_hold_status", m)
  PROVE  Faithful(m, decode_climate_hold_status(m))
<1> DEFINE Codes == {"status_code", "availability_code", "unavailability_reason_code"}
           d == decode_climate_hold_status(m)
<1>1. /\ DOMAIN d = Codes \cup {"hold_end_timestamp_ms"}
      /\ \A f \in Codes : d[f] = Optional(m, f)
      /\ d["hold_end_timestamp_ms"] =
           Milliseconds(Optional(Within(m, "hold_end_time"), "seconds"))
  BY DEF decode_climate_hold_status, Joined, Fields
<1> HIDE DEF d
<1>2. DOMAIN d \in Dataclasses
  <2>1. DOMAIN d = {"status_code", "availability_code", "unavailability_reason_code",
                    "hold_end_timestamp_ms"}
    BY <1>1
  <2> QED
    BY <2>1 DEF Dataclasses, ComfortAndChargingData
<1>3. DOMAIN d \cap (Lists \cup {"motion"}) = {}
  BY <1>1 DEF Lists
<1>4. d["hold_end_timestamp_ms"] # None <=> Has(m, <<"hold_end_time", "seconds">>)
  BY <1>1, SecondsShown DEF Parts
<1>5. ASSUME NEW f \in Codes PROVE d[f] # None <=> Has(m, Path(f))
  <2>1. f \notin Named \cup Parts \cup Lists
    BY DEF Named, Parts, Lists
  <2> QED
    BY <1>1, <2>1, OptionalPresent, HasField DEF Conforms
<1>6. Path("hold_end_timestamp_ms") = <<"hold_end_time", "seconds">>
  BY DEF Path
<1> QED
  BY <1>1, <1>2, <1>3, <1>4, <1>5, <1>6, PlainData DEF Faithful, d

LEMMA TripInfoFaithful ==
  ASSUME NEW m, Conforms("navigation.navigation_service.trip_info", m)
  PROVE  Faithful(m, decode_navigation_trip_info(m))
<1> DEFINE d == decode_navigation_trip_info(m)
           Own == {"trip_id", "eta_timestamp_ms"}
<1>1. /\ DOMAIN d = Own \cup Destination
      /\ d["trip_id"] = Optional(m, "trip_id")
      /\ d["eta_timestamp_ms"] = Milliseconds(Optional(Within(m, "eta"), "seconds"))
  <2>1. ASSUME NEW name, NEW coordinates
        PROVE  /\ DOMAIN TripInfo(m, name, coordinates) = Own \cup Destination
               /\ TripInfo(m, name, coordinates)["trip_id"] = Optional(m, "trip_id")
               /\ TripInfo(m, name, coordinates)["eta_timestamp_ms"] =
                    Milliseconds(Optional(Within(m, "eta"), "seconds"))
    BY DEF TripInfo, Destination
  <2>2. \E name, coordinates : d = TripInfo(m, name, coordinates)
    BY Zenon DEF decode_navigation_trip_info
  <2> QED
    BY <2>1, <2>2
<1> HIDE DEF d
<1>2. DOMAIN d \in Dataclasses
  <2>1. DOMAIN d = {"trip_id", "destination_name", "destination_latitude",
                    "destination_longitude", "eta_timestamp_ms"}
    BY <1>1 DEF Destination
  <2> QED
    BY <2>1 DEF Dataclasses, VehicleData
<1>3. DOMAIN d \cap (Lists \cup {"motion"}) = {}
  BY <1>1 DEF Lists, Destination
<1>4. d["eta_timestamp_ms"] # None <=> Has(m, <<"eta", "seconds">>)
  BY <1>1, SecondsShown DEF Parts
<1>5. d["trip_id"] # None <=> Has(m, Path("trip_id"))
  <2>1. "trip_id" \notin Named \cup Parts \cup Lists
    BY DEF Named, Parts, Lists
  <2> QED
    BY <1>1, <2>1, OptionalPresent, HasField DEF Conforms
<1>6. Path("eta_timestamp_ms") = <<"eta", "seconds">>
  BY DEF Path
<1>7. \A f \in DOMAIN d \ Destination : d[f] # None <=> Has(m, Path(f))
  BY <1>1, <1>4, <1>5, <1>6
<1> QED
  BY <1>2, <1>3, <1>7, PlainData DEF Faithful, d


(* Motion and coordinates have no field in common, so that either is read  *)
(* from its own message.                                                   *)
LEMMA TripProgressFaithful ==
  ASSUME NEW m, Conforms("navigation.navigation_service.trip_progress", m)
  PROVE  Faithful(m, decode_navigation_trip_progress(m))
<1> DEFINE d == decode_navigation_trip_progress(m)
           motion == Within(m, "motion")
           Place == {"latitude", "longitude"}
           Movement == {"speed_m_s", "heading_deg", "timestamp_ms"}
           Remaining == {"remaining_distance_m", "remaining_drive_time_s"}
           shown == Joined(Fields(Within(motion, "coordinates"), Place),
                           Fields(motion, Movement))
<1>1. /\ DOMAIN d = Remaining \cup {"motion"}
      /\ \A f \in Remaining : d[f] = Optional(m, f)
      /\ d["motion"] = IF "motion" \notin DOMAIN m THEN None ELSE shown
  BY DEF decode_navigation_trip_progress, Joined, Fields
<1>2. /\ DOMAIN shown = MotionFields
      /\ \A f \in Place : shown[f] = Optional(Within(motion, "coordinates"), f)
      /\ \A f \in Movement : shown[f] = Optional(motion, f)
      /\ shown = [f \in MotionFields |-> shown[f]]
  <2>1. DOMAIN shown = Place \cup Movement
    BY DEF Joined, Fields
  <2>2. shown = [f \in Place \cup Movement |-> shown[f]]
    BY DEF Joined, Fields
  <2>3. Place \cup Movement = MotionFields
    BY DEF MotionFields
  <2>4. /\ \A f \in Place : shown[f] = Optional(Within(motion, "coordinates"), f)
        /\ \A f \in Movement : shown[f] = Optional(motion, f)
    BY DEF Joined, Fields
  <2> QED
    BY <2>1, <2>2, <2>3, <2>4
<1> HIDE DEF d, shown
<1>3. Scalars(m) /\ Scalars(motion)
  BY WithinScalars DEF Conforms, Parts
<1>4. ASSUME "motion" \in DOMAIN m
      PROVE  /\ motion = m["motion"]
             /\ Scalars(Within(motion, "coordinates"))
             /\ DOMAIN motion \subseteq {"coordinates"} \cup Movement
             /\ DOMAIN Within(motion, "coordinates") \subseteq Place
  BY <1>4 DEF Conforms, Within
<1>5. ASSUME "motion" \in DOMAIN m, NEW f \in MotionFields
      PROVE  /\ shown[f] \in Int \cup {None}
             /\ shown[f] # None <=>
                  f \in DOMAIN m["motion"] \cup DOMAIN Within(m["motion"], "coordinates")
  <2>1. f \notin Parts \cup Lists
    BY DEF MotionFields, Parts, Lists
  <2>2. CASE f \in Place
    <3>1. f \notin DOMAIN motion
      BY <1>4, <1>5, <2>2
    <3> QED
      BY <1>2, <1>4, <1>5, <2>1, <2>2, <3>1, OptionalPresent
  <2>3. CASE f \in Movement
    <3>1. f \notin DOMAIN Within(motion, "coordinates")
      BY <1>4, <1>5, <2>3
    <3> QED
      BY <1>2, <1>3, <1>4, <1>5, <2>1, <2>3, <3>1, OptionalPresent
  <2> QED
    BY <2>2, <2>3 DEF MotionFields
<1>6. "motion" \in DOMAIN m => shown # None
  <2>1. "motion" \in DOMAIN m => shown \in [MotionFields -> Int \cup {None}]
    BY <1>2, <1>5
  <2> QED
    BY <2>1, DecoderAssumption
<1>7. DOMAIN d \in Dataclasses
  <2>1. DOMAIN d = {"remaining_distance_m", "remaining_drive_time_s", "motion"}
    BY <1>1
  <2> QED
    BY <2>1 DEF Dataclasses, VehicleData
<1>8. DOMAIN d \cap Lists = {}
  BY <1>1 DEF Lists
<1>9. ASSUME NEW f \in DOMAIN d PROVE d[f] # None <=> Has(m, Path(f))
  <2>1. f \notin Named
    BY <1>1 DEF Named
  <2>2. CASE f = "motion"
    BY <1>1, <1>6, <2>1, <2>2, HasField
  <2>3. CASE f \in Remaining
    <3>1. f \notin Parts \cup Lists
      BY <2>3 DEF Parts, Lists
    <3> QED
      BY <1>1, <1>3, <2>1, <2>3, <3>1, OptionalPresent, HasField
  <2> QED
    BY <1>1, <2>2, <2>3
<1>10. d["motion"] # None =>
         \A f \in DOMAIN d["motion"] :
           d["motion"][f] # None <=>
             f \in DOMAIN m["motion"] \cup DOMAIN Within(m["motion"], "coordinates")
  BY <1>1, <1>2, <1>5
<1>11. ShapeOf(d) /\ PresenceOf(m, d)
  BY <1>7, <1>8, <1>9, <1>10 DEF ShapeOf, PresenceOf
<1> QED
  BY <1>11 DEF Faithful, d


(* The records of a list: a sequence of messages of scalars, also if the   *)
(* list is absent.                                                         *)
LEMMA RepeatedOf ==
  ASSUME NEW rvm, NEW m, Conforms(rvm, m), NEW f \in Lists
  PROVE  /\ Len(Repeated(m, f)) \in Nat
         /\ DOMAIN Repeated(m, f) = 1 .. Len(Repeated(m, f))
         /\ \A i \in DOMAIN Repeated(m, f) :
              f \in DOMAIN m /\ Repeated(m, f)[i] = m[f][i] /\ Scalars(m[f][i])
<1>1. CASE f \in DOMAIN m
  <2>1. /\ m[f] \in Seq({m[f][i] : i \in DOMAIN m[f]})
        /\ \A i \in DOMAIN m[f] : Scalars(m[f][i])
    BY <1>1 DEF Conforms
  <2> QED
    BY <1>1, <2>1, LenProperties DEF Repeated
<1>2. CASE f \notin DOMAIN m
  <2>1. Repeated(m, f) = <<>>
    BY <1>2 DEF Repeated
  <2> QED
    BY <2>1, EmptySeq
<1> QED
  BY <1>1, <1>2

(* What has an element for each of n has length n.                         *)
LEMMA LengthOf ==
  ASSUME NEW n \in Nat, NEW r, r = [i \in 1 .. n |-> r[i]]
  PROVE  Len(r) = n
<1>1. r \in Seq({r[i] : i \in 1 .. n})
  OBVIOUS
<1>2. DOMAIN r = 1 .. n
  OBVIOUS
<1> QED
  BY <1>1, <1>2, LenProperties


(* What ShapeOf and PresenceOf ask of the records r of the list f.         *)
ListFaithful(m, f, r) ==
  /\ \A i \in DOMAIN r : DOMAIN r[i] \in Dataclasses
  /\ Len(r) = Len(Repeated(m, f))
  /\ \A k \in DOMAIN Repeated(m, f) : \A g \in DOMAIN r[k] :
       r[k][g] # None <=> (IF g = "soc" THEN "soc_percent" ELSE g) \in DOMAIN m[f][k]

LEMMA RecordsFaithful ==
  ASSUME NEW rvm, NEW m, Conforms(rvm, m), NEW f \in Lists,
         NEW N \in Dataclasses, N \cap (Parts \cup Lists \cup {"soc"}) = {}
  PROVE  ListFaithful(m, f, Records(m, f, N))
<1> DEFINE l == Repeated(m, f)
           r == Records(m, f, N)
<1>1. r = [i \in DOMAIN l |-> Fields(l[i], N)]
  BY DEF Records
<1>2. /\ Len(l) \in Nat /\ DOMAIN l = 1 .. Len(l)
      /\ \A i \in DOMAIN l : l[i] = m[f][i] /\ Scalars(l[i])
  BY RepeatedOf
<1> HIDE DEF l, r
<1>3. DOMAIN r = DOMAIN l /\ \A i \in DOMAIN l : r[i] = Fields(l[i], N)
  BY <1>1
<1>4. Len(r) = Len(l)
  <2>1. r = [i \in 1 .. Len(l) |-> r[i]]
    BY <1>1, <1>2
  <2> QED
    BY <1>2, <2>1, LengthOf
<1>5. ASSUME NEW i \in DOMAIN l
      PROVE  /\ DOMAIN r[i] = N
             /\ \A g \in N : g # "soc" /\ (r[i][g] # None <=> g \in DOMAIN m[f][i])
  <2>1. DOMAIN r[i] = N /\ \A g \in N : r[i][g] = Optional(l[i], g)
    BY <1>3, FieldsOf
  <2>2. \A g \in N : g \notin Parts \cup Lists /\ g # "soc"
    OBVIOUS
  <2>3. \A g \in N : Optional(l[i], g) # None <=> g \in DOMAIN l[i]
    BY <1>2, <2>2, OptionalPresent
  <2> QED
    BY <1>2, <2>1, <2>2, <2>3
<1> QED
  BY <1>3, <1>4, <1>5 DEF ListFaithful, l, r

(* The field of a graph's bar that is renamed is the only one.             *)
LEMMA BarsFaithful ==
  ASSUME NEW rvm, NEW m, Conforms(rvm, m)
  PROVE  ListFaithful(m, "bars", decode_charging_graph_global(m)["bars"])
<1> DEFINE l == Repeated(m, "bars")
           r == decode_charging_graph_global(m)["bars"]
<1>1. r = [i \in DOMAIN l |-> Joined(Fields(l[i], BarFields),
                                    [soc |-> Optional(l[i], "soc_percent")])]
  BY DEF decode_charging_graph_global
<1>2. /\ Len(l) \in Nat /\ DOMAIN l = 1 .. Len(l)
      /\ \A i \in DOMAIN l : l[i] = m["bars"][i] /\ Scalars(l[i])
  BY RepeatedOf DEF Lists
<1> HIDE DEF l, r
<1>3. DOMAIN r = DOMAIN l
  BY <1>1
<1>4. Len(r) = Len(l)
  <2>1. r = [i \in 1 .. Len(l) |-> r[i]]
    BY <1>1, <1>2
  <2> QED
    BY <1>2, <2>1, LengthOf
<1>5. ASSUME NEW i \in DOMAIN l
      PROVE  /\ DOMAIN r[i] = BarFields \cup {"soc"}
             /\ \A g \in BarFields : r[i][g] = Optional(l[i], g)
             /\ r[i]["soc"] = Optional(l[i], "soc_percent")
  BY <1>1 DEF Joined, Fields, BarFields
<1>6. BarFields \cup {"soc"} \in Dataclasses
  <2>1. BarFields \cup {"soc"} =
          {"soc", "power_kw", "start_time_ms", "end_time_ms", "time_estimation_validity_code",
           "charging_state_code", "context_code"}
    BY DEF BarFields
  <2> QED
    BY <2>1 DEF Dataclasses, ComfortAndChargingData
<1>7. ASSUME NEW i \in DOMAIN l, NEW g \in DOMAIN r[i]
      PROVE  r[i][g] # None <=>
               (IF g = "soc" THEN "soc_percent" ELSE g) \in DOMAIN m["bars"][i]
  <2>1. CASE g = "soc"
    <3>1. "soc_percent" \notin Parts \cup Lists
      BY DEF Parts, Lists
    <3> QED
      BY <1>2, <1>5, <2>1, <3>1, OptionalPresent
  <2>2. CASE g \in BarFields
    <3>1. g \notin Parts \cup Lists /\ g # "soc"
      BY <2>2 DEF BarFields, Parts, Lists
    <3> QED
      BY <1>2, <1>5, <2>2, <3>1, OptionalPresent
  <2> QED
    BY <1>5, <2>1, <2>2
<1> QED
  BY <1>3, <1>4, <1>5, <1>6, <1>7 DEF ListFaithful, l, r

(* Data with one list, and beside it fields of the message.                *)
LEMMA ListData ==
  ASSUME NEW m, NEW d, NEW f \in Lists, DOMAIN d \in Dataclasses, f \in DOMAIN d,
         DOMAIN d \cap (Lists \cup {"motion"}) = {f}, ListFaithful(m, f, d[f]),
         \A g \in DOMAIN d \ {f} : d[g] # None <=> Has(m, Path(g))
  PROVE  ShapeOf(d) /\ PresenceOf(m, d)
<1>1. "motion" \notin DOMAIN d
  BY DEF Lists
<1>2. \A g \in Lists \cap DOMAIN d : g = f
  OBVIOUS
<1> QED
  BY <1>1, <1>2 DEF ShapeOf, PresenceOf, ListFaithful

LEMMA TiresFaithful ==
  ASSUME NEW m, Conforms("dynamics.tires.state", m)
  PROVE  Faithful(m, decode_tire_states(m))
<1> DEFINE d == decode_tire_states(m)
           N == {"position_code", "status_code", "pressure_bar", "validity_code",
                 "timestamp_ms"}
<1>1. /\ DOMAIN d = {"monitor_status_code", "tires"}
      /\ d["monitor_status_code"] = Optional(m, "monitor_status_code")
      /\ d["tires"] = Records(m, "tires", N)
  BY DEF decode_tire_states, Joined, Fields
<1> HIDE DEF d
<1>2. ListFaithful(m, "tires", d["tires"])
  <2>1. N \in Dataclasses /\ N \cap (Parts \cup Lists \cup {"soc"}) = {}
    BY DEF Dataclasses, VehicleData, Parts, Lists
  <2> QED
    BY <1>1, <2>1, RecordsFaithful DEF Lists
<1>3. d["monitor_status_code"] # None <=> Has(m, Path("monitor_status_code"))
  <2>1. "monitor_status_code" \notin Named \cup Parts \cup Lists
    BY DEF Named, Parts, Lists
  <2> QED
    BY <1>1, <2>1, OptionalPresent, HasField DEF Conforms
<1>4. DOMAIN d \in Dataclasses
  BY <1>1 DEF Dataclasses, VehicleData
<1>5. "tires" \in Lists /\ DOMAIN d \cap (Lists \cup {"motion"}) = {"tires"}
  BY <1>1 DEF Lists
<1>6. ShapeOf(d) /\ PresenceOf(m, d)
  BY <1>1, <1>2, <1>3, <1>4, <1>5, ListData
<1> QED
  BY <1>6 DEF Faithful, d

(* Data that is a list and nothing else.                                   *)
LEMMA ListOnly ==
  ASSUME NEW m, NEW d, NEW f \in {"states", "bars"}, DOMAIN d = {f},
         ListFaithful(m, f, d[f])
  PROVE  ShapeOf(d) /\ PresenceOf(m, d)
<1>1. DOMAIN d \in Dataclasses
  BY DEF Dataclasses, VehicleData, ComfortAndChargingData
<1>2. f \in Lists /\ DOMAIN d \cap (Lists \cup {"motion"}) = {f}
  BY DEF Lists
<1> QED
  BY <1>1, <1>2, ListData

LEMMA StatesFaithful ==
  ASSUME NEW rvm \in {"body.closures.states", "body.locks.states"},
         NEW m, Conforms(rvm, m)
  PROVE  Faithful(m, decode_body_states(m))
<1> DEFINE d == decode_body_states(m)
           N == {"position_code", "state_code"}
<1>1. DOMAIN d = {"states"} /\ d["states"] = Records(m, "states", N)
  BY DEF decode_body_states
<1> HIDE DEF d
<1>2. N \in Dataclasses /\ N \cap (Parts \cup Lists \cup {"soc"}) = {}
  BY DEF Dataclasses, VehicleData, Parts, Lists
<1>3. ListFaithful(m, "states", d["states"])
  BY <1>1, <1>2, RecordsFaithful DEF Lists
<1> QED
  BY <1>1, <1>3, ListOnly DEF Faithful, d

LEMMA SeatsFaithful ==
  ASSUME NEW m, Conforms("comfort.cabin.seat_conditioning_status", m)
  PROVE  Faithful(m, decode_seat_conditioning_states(m))
<1> DEFINE d == decode_seat_conditioning_states(m)
           N == {"component_code", "conditioning_type_code"}
<1>1. DOMAIN d = {"states"} /\ d["states"] = Records(m, "states", N)
  BY DEF decode_seat_conditioning_states
<1> HIDE DEF d
<1>2. N \in Dataclasses /\ N \cap (Parts \cup Lists \cup {"soc"}) = {}
  BY DEF Dataclasses, ComfortAndChargingData, Parts, Lists
<1>3. ListFaithful(m, "states", d["states"])
  BY <1>1, <1>2, RecordsFaithful DEF Lists
<1> QED
  BY <1>1, <1>3, ListOnly DEF Faithful, d

LEMMA GraphFaithful ==
  ASSUME NEW m, Conforms("energy_edge_compute.graphs.charging_graph_global", m)
  PROVE  Faithful(m, decode_charging_graph_global(m))
<1> DEFINE d == decode_charging_graph_global(m)
<1>1. DOMAIN d = {"bars"}
  BY DEF decode_charging_graph_global
<1>2. ListFaithful(m, "bars", d["bars"])
  BY BarsFaithful
<1> HIDE DEF d
<1> QED
  BY <1>1, <1>2, ListOnly DEF Faithful, d

(* Every decoder, for messages of any content.                             *)
LEMMA DecodersFaithful ==
  ASSUME NEW rvm \in Supported, NEW m, Conforms(rvm, m)
  PROVE  Faithful(m, Decode(rvm, m))
<1>1. CASE rvm \in Structured
  BY <1>1, StructuredDecoders, BatteryFaithful, GnssFaithful, TripProgressFaithful,
     TripInfoFaithful, TiresFaithful, StatesFaithful, HoldFaithful, SeatsFaithful,
     GraphFaithful DEF Structured
<1> QED
  BY <1>1, FlatFaithful

(* The message kept for a topic is one of the topic's payloads.            *)
LEMMA KnownPayload ==
  ASSUME IInv, NEW rvm \in Known
  PROVE  rvm \in Supported /\ Conforms(rvm, Sent(rvm)) /\ Data(rvm) = Decode(rvm, Sent(rvm))
<1>1. rvm \in Topics /\ kept[rvm].rvm \in Supported /\ kept[rvm].payload # Malformed
  BY DEF Known, Decodes
<1>2. kept[rvm] \in MessageOf(rvm)
  <2>1. NoMessage.payload = Malformed
    BY DEF NoMessage
  <2> QED
    BY <1>1, <2>1 DEF IInv, StreamInv, KeptInv
<1>3. kept[rvm].rvm = rvm /\ Sent(rvm) \in Payloads[rvm]
  BY <1>1, <1>2 DEF MessageOf, Contents, Sent
<1>4. Data(rvm) = Decode(rvm, Sent(rvm))
  BY <1>1, <1>3 DEF Data, Sent, decode_parallax_message, Decodes
<1>5. Conforms(rvm, Sent(rvm))
  BY <1>1, <1>3, ParallaxAssumption
<1> QED
  BY <1>1, <1>3, <1>4, <1>5

LEMMA KnownMessage ==
  ASSUME IInv, NEW rvm \in Known
  PROVE  Faithful(Sent(rvm), Data(rvm))
  BY KnownPayload, DecodersFaithful

(* Whatever frames are sent, handled and lost, there are never more than   *)
(* MaxFrames of them, a running callback has a message of a subscribed     *)
(* topic, and what is kept decodes to a dataclass of records.              *)
THEOREM StreamTyped == Spec => []TypeOK
<1>1. IInv => TypeOK
  BY KnownMessage DEF IInv, StreamInv, TypeOK, Faithful, ShapeOf
<1> QED
  BY Invariance, <1>1, PTL

(* For every payload that follows parallax.proto: a value is shown exactly *)
(* if it was sent, and no record is left out.                              *)
THEOREM PresenceIsKept == Spec => []PresenceKept
<1>1. IInv => PresenceKept
  BY KnownMessage DEF PresenceKept, Faithful, PresenceOf
<1> QED
  BY Invariance, <1>1, PTL

-----------------------------------------------------------------------------
(* The destination of a trip                                               *)

(* The loop is well defined: its first i steps are, for every i.           *)
LEMMA PlacesDefined ==
  ASSUME NEW stops, Len(stops) \in Nat
  PROVE  PlacesUpto(stops) =
           [i \in 0 .. Len(stops) |->
              IF i = 0 THEN <<>>
              ELSE IF HasPlace(stops[i]) THEN Append(PlacesUpto(stops)[i - 1], stops[i])
                   ELSE PlacesUpto(stops)[i - 1]]
<1> DEFINE n == Len(stops)
           Step(places, i) == IF HasPlace(stops[i]) THEN Append(places, stops[i]) ELSE places
           Loop(g, i) == g = [j \in 0 .. i |-> IF j = 0 THEN <<>> ELSE Step(g[j - 1], j)]
           Ends == {i \in 0 .. n : \E g : Loop(g, i)}
<1>1. 0 \in Ends
  <2>1. Loop([j \in 0 .. 0 |-> <<>>], 0)
    OBVIOUS
  <2>2. 0 \in 0 .. n
    OBVIOUS
  <2> HIDE DEF Loop
  <2> QED
    BY <2>1, <2>2
<1>2. ASSUME NEW i \in 1 .. n, i - 1 \in Ends PROVE i \in Ends
  <2>1. PICK g : Loop(g, i - 1)
    BY <1>2
  <2> HIDE DEF Step
  <2> DEFINE h == [j \in 0 .. i |-> IF j = i THEN Step(g[i - 1], i) ELSE g[j]]
  <2>2. \A j \in 0 .. i - 1 : h[j] = g[j] /\ j # i /\ j \in 0 .. i
    OBVIOUS
  <2>3. \A j \in 0 .. i - 1 : g[j] = IF j = 0 THEN <<>> ELSE Step(g[j - 1], j)
    BY <2>1
  <2>4. ASSUME NEW j \in 0 .. i
        PROVE  h[j] = IF j = 0 THEN <<>> ELSE Step(h[j - 1], j)
    <3>1. CASE j = i
      <4>1. j # 0 /\ j - 1 \in 0 .. i - 1
        BY <3>1
      <4> QED
        BY <3>1, <4>1, <2>2
    <3>2. CASE j # i
      <4>1. j \in 0 .. i - 1 /\ (j # 0 => j - 1 \in 0 .. i - 1)
        BY <3>2
      <4> HIDE DEF h
      <4> QED
        BY <2>2, <2>3, <4>1
    <3> QED
      BY <3>1, <3>2
  <2>5. h = [j \in 0 .. i |-> h[j]]
    OBVIOUS
  <2> HIDE DEF h
  <2>6. Loop(h, i)
    BY <2>4, <2>5
  <2> QED
    BY <2>6
<1> HIDE DEF Ends
<1>3. n \in Ends
  <2>1. 0 .. n \subseteq Ends
    BY <1>1, <1>2, InductionUpto
  <2> QED
    BY <2>1
<1>4. \E g : Loop(g, n)
  BY <1>3 DEF Ends
<1>5. Loop(PlacesUpto(stops), n)
  BY <1>4, Zenon DEF PlacesUpto
<1> QED
  BY <1>5

(* After i steps: nothing if none of these stops has a place, else the     *)
(* last is the last stop with one.                                         *)
PlacesOf(stops, places, i) ==
  \/ places = <<>> /\ \A k \in 1 .. i : ~HasPlace(stops[k])
  \/ /\ places # <<>>
     /\ \E k \in 1 .. i :
          /\ HasPlace(stops[k]) /\ places[Len(places)] = stops[k]
          /\ \A l \in k + 1 .. i : ~HasPlace(stops[l])

LEMMA LastPlace ==
  ASSUME NEW R, NEW stops \in Seq(R)
  PROVE  PlacesOf(stops, PlacesUpto(stops)[Len(stops)], Len(stops))
<1> DEFINE n == Len(stops)
           upto == PlacesUpto(stops)
           Right == {i \in 0 .. n : upto[i] \in Seq(R) /\ PlacesOf(stops, upto[i], i)}
<1>1. n \in Nat /\ \A i \in 1 .. n : stops[i] \in R
  BY ElementOfSeq, LenProperties
<1> HIDE DEF n, upto
<1>2. /\ upto[0] = <<>>
      /\ \A i \in 1 .. n : upto[i] = IF HasPlace(stops[i]) THEN Append(upto[i - 1], stops[i])
                                     ELSE upto[i - 1]
  <2>1. upto = [i \in 0 .. n |->
                  IF i = 0 THEN <<>>
                  ELSE IF HasPlace(stops[i]) THEN Append(upto[i - 1], stops[i])
                       ELSE upto[i - 1]]
    BY <1>1, PlacesDefined DEF n, upto
  <2>2. 0 \in 0 .. n /\ \A i \in 1 .. n : i \in 0 .. n /\ i # 0
    BY <1>1
  <2> QED
    BY <2>1, <2>2
<1>3. 0 \in Right
  <2>1. 0 \in 0 .. n /\ \A k \in 1 .. 0 : FALSE
    BY <1>1
  <2>2. upto[0] \in Seq(R)
    BY <1>2, EmptySeq
  <2>3. PlacesOf(stops, upto[0], 0)
    BY <1>2, <2>1 DEF PlacesOf
  <2> QED
    BY <2>1, <2>2, <2>3
<1>4. ASSUME NEW i \in 1 .. n, i - 1 \in Right PROVE i \in Right
  <2>1. i \in 0 .. n /\ upto[i - 1] \in Seq(R) /\ PlacesOf(stops, upto[i - 1], i - 1)
    BY <1>1, <1>4
  <2>2. CASE HasPlace(stops[i])
    <3>1. upto[i] = Append(upto[i - 1], stops[i])
      BY <1>2, <2>2
    <3>2. /\ upto[i] \in Seq(R) /\ upto[i] # <<>> /\ upto[i][Len(upto[i])] = stops[i]
      BY <1>1, <2>1, <3>1, AppendProperties
    <3>3. \A l \in i + 1 .. i : FALSE
      BY <1>1
    <3>4. i \in 1 .. i
      BY <1>1
    <3>5. PlacesOf(stops, upto[i], i)
      BY <2>2, <3>2, <3>3, <3>4 DEF PlacesOf
    <3> QED
      BY <2>1, <3>2, <3>5
  <2>3. CASE ~HasPlace(stops[i])
    <3>1. upto[i] = upto[i - 1]
      BY <1>2, <2>3
    <3>2. \A k \in 1 .. i : k \in 1 .. i - 1 \/ k = i
      BY <1>1
    <3>3. \A k \in 1 .. i - 1 : k \in 1 .. i /\ \A l \in k + 1 .. i : l \in k + 1 .. i - 1 \/ l = i
      BY <1>1
    <3>4. PlacesOf(stops, upto[i], i)
      BY <2>1, <2>3, <3>1, <3>2, <3>3 DEF PlacesOf
    <3> QED
      BY <2>1, <3>1, <3>4
  <2> QED
    BY <2>2, <2>3
<1> HIDE DEF Right
<1>5. 0 .. n \subseteq Right
  BY <1>1, <1>3, <1>4, InductionUpto
<1>6. n \in Right
  BY <1>1, <1>5
<1> QED
  BY <1>6 DEF Right, n, upto

(* No other topic has a destination.                                       *)
LEMMA OnlyTripHasDestination ==
  ASSUME NEW rvm \in Supported \ {"navigation.navigation_service.trip_info"}, NEW m
  PROVE  "destination_name" \notin DOMAIN Decode(rvm, m)
<1>1. CASE rvm \notin Structured
  <2>1. PICK N \in FlatData : Decode(rvm, m) = Fields(m, N)
    BY <1>1, FlatDecoders
  <2>2. "destination_name" \notin N
    BY DEF FlatData
  <2> QED
    BY <2>1, <2>2, FieldsOf
<1>2. /\ "destination_name" \notin DOMAIN decode_high_voltage_battery_state(m)
      /\ "destination_name" \notin DOMAIN decode_vehicle_gnss(m)
      /\ "destination_name" \notin DOMAIN decode_navigation_trip_progress(m)
      /\ "destination_name" \notin DOMAIN decode_climate_hold_status(m)
  BY DEF decode_high_voltage_battery_state, decode_vehicle_gnss,
    decode_navigation_trip_progress, decode_climate_hold_status, Joined, Fields
<1>3. /\ "destination_name" \notin DOMAIN decode_tire_states(m)
      /\ "destination_name" \notin DOMAIN decode_body_states(m)
      /\ "destination_name" \notin DOMAIN decode_seat_conditioning_states(m)
      /\ "destination_name" \notin DOMAIN decode_charging_graph_global(m)
  BY DEF decode_tire_states, decode_body_states, decode_seat_conditioning_states,
    decode_charging_graph_global, Joined, Fields
<1>4. CASE rvm \in Structured
  BY <1>2, <1>3, <1>4, StructuredDecoders DEF Structured
<1> QED
  BY <1>1, <1>4

(* What the decoder makes of the places.                                   *)
LEMMA TripDestination ==
  ASSUME NEW m
  PROVE  LET d           == decode_navigation_trip_info(m)
             places      == Places(m)
             destination == IF places = <<>> THEN Nothing ELSE places[Len(places)].place
             coordinates == Within(destination, "coordinates")
         IN  /\ d.destination_name = Optional(destination, "name")
             /\ d.destination_latitude = Optional(coordinates, "latitude")
             /\ d.destination_longitude = Optional(coordinates, "longitude")
  BY DEF decode_navigation_trip_info, TripInfo

(* For any number of stops, places and coordinates among them: what is     *)
(* shown of a destination is from one stop, the last that has a place.     *)
THEOREM OneStopIsShown == Spec => []DestinationIsOneStop
<1>1. ASSUME IInv, NEW rvm \in Known, "destination_name" \in DOMAIN Data(rvm)
      PROVE  LET d     == Data(rvm)
                 stops == Stops(Sent(rvm))
             IN  \/ /\ \A k \in DOMAIN stops : ~HasPlace(stops[k])
                    /\ \A f \in Destination : d[f] = None
                 \/ \E k \in DOMAIN stops :
                      /\ HasPlace(stops[k])
                      /\ \A l \in k + 1 .. Len(stops) : ~HasPlace(stops[l])
                      /\ d.destination_name = Optional(stops[k].place, "name")
                      /\ LET coordinates == Within(stops[k].place, "coordinates") IN
                         /\ d.destination_latitude = Optional(coordinates, "latitude")
                         /\ d.destination_longitude = Optional(coordinates, "longitude")
  <2> DEFINE m      == Sent(rvm)
             stops  == Stops(m)
             places == Places(m)
  <2>1. Data(rvm) = decode_navigation_trip_info(m) /\ Conforms(rvm, m)
    BY <1>1, KnownPayload, OnlyTripHasDestination, StructuredDecoders
  <2>2. PlacesOf(stops, places, Len(stops)) /\ DOMAIN stops = 1 .. Len(stops)
    <3>1. stops \in Seq({stops[i] : i \in DOMAIN stops})
      BY <2>1 DEF Conforms
    <3> QED
      BY <3>1, LastPlace DEF Places
  <2> HIDE DEF m, stops, places
  <2>3. CASE places = <<>>
    <3>1. \A f \in Destination : Data(rvm)[f] = None
      BY <2>1, <2>3, TripDestination DEF Destination, Within, Optional, Nothing, places
    <3>2. \A k \in DOMAIN stops : ~HasPlace(stops[k])
      BY <2>2, <2>3 DEF PlacesOf
    <3> QED
      BY <3>1, <3>2 DEF stops, m
  <2>4. CASE places # <<>>
    <3>1. PICK k \in DOMAIN stops :
            /\ HasPlace(stops[k]) /\ places[Len(places)] = stops[k]
            /\ \A l \in k + 1 .. Len(stops) : ~HasPlace(stops[l])
      BY <2>2, <2>4 DEF PlacesOf
    <3>2. /\ Data(rvm).destination_name = Optional(stops[k].place, "name")
          /\ LET coordinates == Within(stops[k].place, "coordinates") IN
             /\ Data(rvm).destination_latitude = Optional(coordinates, "latitude")
             /\ Data(rvm).destination_longitude = Optional(coordinates, "longitude")
      BY <2>1, <2>4, <3>1, TripDestination DEF places
    <3> QED
      BY <3>1, <3>2 DEF stops, m
  <2> QED
    BY <2>3, <2>4
<1>2. IInv => DestinationIsOneStop
  BY <1>1 DEF DestinationIsOneStop
<1> QED
  BY Invariance, <1>2, PTL
=============================================================================
