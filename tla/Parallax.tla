------------------------------ MODULE Parallax ------------------------------
(***************************************************************************)
(* One Parallax subscription of a client: the argument checks and          *)
(* handle_frame of subscribe_for_parallax_messages in src/rivian/rivian.py *)
(* and the typed data of src/rivian/parallax.py.  The connection under it  *)
(* is the subject of RivianClient; here it may be replaced at any time,    *)
(* which loses the frames on their way and cancels the receiver.           *)
(*                                                                         *)
(* The callback is the application's: a coroutine function that suspends   *)
(* and then keeps the message it was given for decode_parallax_message, or *)
(* raises.                                                                 *)
(***************************************************************************)
EXTENDS ParallaxDecoders

CONSTANTS
  Requests,   \* the collections of topics the application passes
  Payloads,   \* Payloads[rvm]: the messages that frames of rvm carry
  MaxFrames   \* bound: frames the server sends

Topics == DOMAIN Payloads

Lists == {"tires", "states", "bars"}
Parts == {"charge_state", "temperature_state", "motion", "coordinates", "route", "eta",
          "hold_end_time", "stops"}

(* The messages of parallax.proto as far as the decoders tell them apart:  *)
(* what is no part and no list is a scalar, and the times are in messages  *)
(* of one topic each.                                                      *)
Scalars(m) == \A f \in DOMAIN m \ (Parts \cup Lists) : m[f] \in Int
Conforms(rvm, m) ==
  /\ Scalars(m)
  /\ \A f \in Parts \cap DOMAIN m : Scalars(m[f])
  /\ \A f \in Lists \cap DOMAIN m :
       m[f] \in Seq({m[f][i] : i \in DOMAIN m[f]}) /\ \A i \in DOMAIN m[f] : Scalars(m[f][i])
  /\ Stops(m) \in Seq({Stops(m)[i] : i \in DOMAIN Stops(m)})
  /\ "motion" \in DOMAIN m =>
       LET coordinates == Within(m["motion"], "coordinates") IN
       /\ DOMAIN m["motion"] \subseteq {"coordinates", "speed_m_s", "heading_deg", "timestamp_ms"}
       /\ DOMAIN coordinates \subseteq {"latitude", "longitude"} /\ Scalars(coordinates)
  /\ "gps_timestamp_ms" \in DOMAIN m => rvm = "dynamics.vehicle.gnss"
  /\ "eta" \in DOMAIN m => rvm = "navigation.navigation_service.trip_info"
  /\ "hold_end_time" \in DOMAIN m => rvm = "comfort.cabin.climate_hold_status"

(* What the timestamp of a frame may be; a text that is no number and a    *)
(* missing one come to the same.                                           *)
Stamps == {"number", "infinity", None}

ASSUME ParallaxAssumption ==
  /\ Requests \subseteq Seq(Topics \cup {""})
  /\ MaxFrames \in Nat
  /\ \A rvm \in Topics \cap Supported : \A m \in Payloads[rvm] : Conforms(rvm, m)

VARIABLES
  state,    \* "new", "rejected", "failed", "subscribed" or "unsubscribed"
  topics,   \* the topics of the subscription
  wire,     \* frames on their way to the receiver
  running,  \* messages whose callback is suspended
  kept,     \* kept[rvm]: the message the application keeps
  frames    \* frames sent

vars == <<state, topics, wire, running, kept, frames>>

NoMessage == [number |-> 0, rvm |-> None, timestamp_ms |-> None, payload |-> Malformed]

Init ==
  /\ state = "new" /\ topics = {}
  /\ wire = <<>> /\ running = {}
  /\ kept = [rvm \in Topics |-> NoMessage]
  /\ frames = 0

-----------------------------------------------------------------------------
(* A nonempty collection of nonempty topics (a text is none).              *)
ValidTopics(rvms) == rvms # <<>> /\ \A i \in DOMAIN rvms : rvms[i] # ""

(* A topic that is listed twice is subscribed once; their order, which is  *)
(* kept, is left out.  The setup may fail as in RivianClient.              *)
Subscribe ==
  /\ state = "new"
  /\ \E rvms \in Requests :
       \/ ~ValidTopics(rvms) /\ state' = "rejected" /\ UNCHANGED topics
       \/ ValidTopics(rvms) /\ state' = "failed" /\ UNCHANGED topics
       \/ /\ ValidTopics(rvms) /\ state' = "subscribed"
          /\ topics' = {rvms[i] : i \in DOMAIN rvms}
  /\ UNCHANGED <<wire, running, kept, frames>>

Unsubscribe ==
  /\ state = "subscribed" /\ state' = "unsubscribed"
  /\ UNCHANGED <<topics, wire, running, kept, frames>>

(* Frames of a topic: any bytes in a sound frame, and frames that are      *)
(* sound but for their timestamp or not what handle_frame looks for.       *)
FramesOf(rvm) ==
  [number : {frames + 1}, rvm : {rvm}, sound : {TRUE}, timestamp : {"number"},
   payload : Payloads[rvm]] \cup
  [number : {frames + 1}, rvm : {rvm}, sound : BOOLEAN, timestamp : Stamps,
   payload : {Malformed}]

ServerSends ==
  /\ state = "subscribed" /\ frames < MaxFrames
  /\ frames' = frames + 1
  /\ \E rvm \in topics : \E frame \in FramesOf(rvm) : wire' = Append(wire, frame)
  /\ UNCHANGED <<state, topics, running, kept>>

(* handle_frame takes a frame that is not sound for none, and raises on an *)
(* infinite timestamp: int() raises OverflowError.                         *)
Delivers(frame) == frame.sound /\ frame.timestamp # "infinity"

Message(frame) ==
  [number |-> frame.number, rvm |-> frame.rvm, payload |-> frame.payload,
   timestamp_ms |-> IF frame.timestamp = "number" THEN frame.number ELSE None]

(* The receiver takes the next frame: the callback of a registered         *)
(* subscription is called, and suspends.                                   *)
TakeFrame ==
  /\ wire # <<>> /\ wire' = Tail(wire)
  /\ running' = IF state = "subscribed" /\ Delivers(Head(wire))
                THEN running \cup {Message(Head(wire))} ELSE running
  /\ UNCHANGED <<state, topics, kept, frames>>

(* Mutant: handle_frame starts a task for the callback and returns.        *)
HandleFrameInTask == TakeFrame

(* Mutant: a frame that is not sound raises out of the receiver.           *)
HandleSoundFrame == running = {} /\ wire # <<>> /\ Delivers(Head(wire)) /\ TakeFrame

(* The callback of the frame before has returned: it is awaited.           *)
HandleFrame == running = {} /\ TakeFrame

CallbackKeeps ==
  /\ \E m \in running : kept' = [kept EXCEPT ![m.rvm] = m] /\ running' = running \ {m}
  /\ UNCHANGED <<state, topics, wire, frames>>

(* What the callback raises is logged by the receiver.                     *)
CallbackRaises ==
  /\ \E m \in running : running' = running \ {m}
  /\ UNCHANGED <<state, topics, wire, kept, frames>>

(* The connection is replaced: the old receiver is cancelled, and with it  *)
(* the callback it awaits, before a new one reads the new socket.          *)
Reconnect ==
  /\ state \in {"subscribed", "unsubscribed"}
  /\ wire' = <<>> /\ running' = {}
  /\ UNCHANGED <<state, topics, kept, frames>>

Next ==
  \/ Subscribe \/ Unsubscribe \/ ServerSends
  \/ HandleFrame \/ CallbackKeeps \/ CallbackRaises \/ Reconnect

Spec == Init /\ [][Next]_vars

(* The receiver runs; that a callback ends is asked of the application.    *)
FairSpec ==
  Spec /\ WF_vars(HandleFrame) /\ WF_vars(CallbackKeeps \/ CallbackRaises)

-----------------------------------------------------------------------------
(* decode_parallax_message                                                 *)
Decodes(m) == m.rvm \in Supported /\ m.payload # Malformed

decode_parallax_message(m) ==
  IF Decodes(m) THEN Decode(m.rvm, m.payload) ELSE "ParallaxDecodeError"

Known == {rvm \in Topics : Decodes(kept[rvm])}
Data(rvm) == decode_parallax_message(kept[rvm])
Sent(rvm) == kept[rvm].payload

(* The fields of the dataclasses of a vehicle, of its climate and charging,*)
(* and of the records in them.                                             *)
VehicleData ==
  {{"soc_percent", "capacity_kwh", "range_km", "cell_average_c", "cell_max_c",
    "cell_min_c", "power_output_code", "requires_calibration", "cold_weather_state_code"},
   {"distance_km"},
   {"latitude", "longitude", "altitude_m", "speed_m_s", "heading_deg", "timestamp_ms",
    "gps_timestamp_ms"},
   {"latitude", "longitude", "speed_m_s", "heading_deg", "timestamp_ms"},
   {"remaining_distance_m", "remaining_drive_time_s", "motion"},
   {"trip_id", "destination_name", "destination_latitude", "destination_longitude",
    "eta_timestamp_ms"},
   {"state_code"}, {"mode_code"},
   {"position_code", "status_code", "pressure_bar", "validity_code", "timestamp_ms"},
   {"monitor_status_code", "tires"},
   {"position_code", "state_code"}, {"states"}}
ComfortAndChargingData ==
  {{"status_code", "type_code"}, {"interior_c"}, {"target_temperature_c"},
   {"state_code", "temperature_status_code"}, {"setting_code"}, {"duration_seconds"},
   {"status_code", "availability_code", "unavailability_reason_code",
    "hold_end_timestamp_ms"},
   {"status_code"}, {"component_code", "conditioning_type_code"}, {"states"},
   {"plug_connection_status_code", "display_status_code", "evse_type_code"},
   {"estimated_minutes_remaining"},
   {"total_kwh", "pack_kwh", "thermal_kwh", "outlets_kwh", "system_kwh",
    "session_duration_minutes", "time_remaining_minutes", "range_added_km",
    "current_power_kw", "current_range_km_per_hour", "is_free_session",
    "charging_state_code"},
   {"soc", "power_kw", "start_time_ms", "end_time_ms", "time_estimation_validity_code",
    "charging_state_code", "context_code"},
   {"bars"}}
Dataclasses == VehicleData \cup ComfortAndChargingData

(* Type invariant; what a decoder makes has the fields of a dataclass, and *)
(* so have the records in its lists.                                       *)
StreamTypes ==
  /\ state \in {"new", "rejected", "failed", "subscribed", "unsubscribed"}
  /\ topics \subseteq Topics /\ (state = "subscribed" => topics # {})
  /\ frames \in 0 .. MaxFrames /\ Len(wire) <= frames
  /\ \A m \in running : m.number \in 1 .. frames /\ m.rvm \in topics
TypeOK ==
  /\ StreamTypes
  /\ \A rvm \in Known :
       /\ DOMAIN Data(rvm) \in Dataclasses
       /\ \A f \in Lists \cap DOMAIN Data(rvm) : \A i \in DOMAIN Data(rvm)[f] :
            DOMAIN Data(rvm)[f][i] \in Dataclasses

(* The message kept for a topic is never replaced by an older one, however *)
(* long the callbacks take: frames are handled one after the other.        *)
NewestKept == [][\A rvm \in Topics : kept'[rvm].number >= kept[rvm].number]_vars

(* No frame and no callback that raises stops the stream: every frame is   *)
(* handled or lost with its connection.                                    *)
FramesHandled == wire # <<>> ~> wire = <<>>

(* Where the value of a field comes from, if not from a field of its name. *)
Path(f) ==
  CASE f \in {"soc_percent", "capacity_kwh", "range_km"} -> <<"charge_state", f>>
    [] f \in {"cell_average_c", "cell_max_c", "cell_min_c"} -> <<"temperature_state", f>>
    [] f = "timestamp_ms" -> <<"gps_timestamp_ms">>
    [] f = "eta_timestamp_ms" -> <<"eta", "seconds">>
    [] f = "hold_end_timestamp_ms" -> <<"hold_end_time", "seconds">>
    [] OTHER -> <<f>>
Has(m, path) ==
  IF Len(path) = 1 THEN path[1] \in DOMAIN m ELSE path[2] \in DOMAIN Within(m, path[1])

Destination == {"destination_name", "destination_latitude", "destination_longitude"}

(* A value is shown exactly if it was sent: an absent field or submessage  *)
(* is None and no default, a zero is a zero; no record is left out.        *)
PresenceKept ==
  \A rvm \in Known :
    LET m == Sent(rvm)
        d == Data(rvm)
    IN  /\ \A f \in DOMAIN d \ (Lists \cup Destination) : d[f] # None <=> Has(m, Path(f))
        /\ "motion" \in DOMAIN d /\ d["motion"] # None =>
             \A f \in DOMAIN d["motion"] :
               d["motion"][f] # None <=>
                 f \in DOMAIN m["motion"] \cup DOMAIN Within(m["motion"], "coordinates")
        /\ \A f \in Lists \cap DOMAIN d :
             /\ Len(d[f]) = Len(Repeated(m, f))
             /\ \A k \in DOMAIN Repeated(m, f) : \A g \in DOMAIN d[f][k] :
                  d[f][k][g] # None <=> (IF g = "soc" THEN "soc_percent" ELSE g) \in DOMAIN m[f][k]

(* Name and coordinates of a destination are those of one stop, the last   *)
(* that has a place.                                                       *)
DestinationIsOneStop ==
  \A rvm \in Known : "destination_name" \in DOMAIN Data(rvm) =>
    LET d     == Data(rvm)
        stops == Stops(Sent(rvm))
    IN  \/ /\ \A k \in DOMAIN stops : ~HasPlace(stops[k])
           /\ \A f \in Destination : d[f] = None
        \/ \E k \in DOMAIN stops :
             /\ HasPlace(stops[k]) /\ \A l \in k + 1 .. Len(stops) : ~HasPlace(stops[l])
             /\ d.destination_name = Optional(stops[k].place, "name")
             /\ LET coordinates == Within(stops[k].place, "coordinates") IN
                /\ d.destination_latitude = Optional(coordinates, "latitude")
                /\ d.destination_longitude = Optional(coordinates, "longitude")
=============================================================================
