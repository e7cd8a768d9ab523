--------------------------- MODULE ParallaxDecoders ---------------------------
(***************************************************************************)
(* The typed decoders of src/rivian/parallax.py.  A protobuf message is a  *)
(* function on the names of the fields that are present in it: numbers,    *)
(* texts and flags are integers, a submessage is a message and a repeated  *)
(* field a sequence of messages.  Decoded data is a function on the names  *)
(* of the fields of its dataclass.                                         *)
(***************************************************************************)
EXTENDS Integers, Sequences

CONSTANTS
  None,       \* Python's None
  Malformed,  \* a payload that ParseFromString rejects
  GpsOffset   \* 315_964_800_000 - 18_000 in the code, too large for TLC

(* The fields of NavigationMotionData.                                     *)
MotionFields == {"latitude", "longitude", "speed_m_s", "heading_deg", "timestamp_ms"}

(* None is no number and no motion.                                        *)
ASSUME DecoderAssumption ==
  /\ GpsOffset \in Int /\ Malformed # None
  /\ None \notin Int /\ None \notin [MotionFields -> Int \cup {None}]

Nothing == <<>>  \* the message without fields

(* Mutant: a field is read without asking whether it is present.           *)
OptionalOrDefault(m, f) == IF f \in DOMAIN m THEN m[f] ELSE 0

(* _optional: a field that is absent is None, one that is 0 is 0.          *)
Optional(m, f) == IF f \in DOMAIN m THEN m[f] ELSE None

Fields(m, names) == [f \in names |-> Optional(m, f)]

(* A submessage; when it is absent so are all its fields.                  *)
Within(m, f) == IF f \in DOMAIN m THEN m[f] ELSE Nothing

Repeated(m, f) == IF f \in DOMAIN m THEN m[f] ELSE <<>>

(* The data d with the fields of e.                                        *)
Joined(d, e) ==
  [f \in DOMAIN d \cup DOMAIN e |-> IF f \in DOMAIN d THEN d[f] ELSE e[f]]

Records(m, f, names) == [i \in DOMAIN Repeated(m, f) |-> Fields(Repeated(m, f)[i], names)]

gps_to_unix_timestamp_ms(t) == IF t = None THEN None ELSE t + GpsOffset

Milliseconds(seconds) == IF seconds = None THEN None ELSE seconds * 1000

-----------------------------------------------------------------------------
decode_high_voltage_battery_state(m) ==
  Joined(Fields(Within(m, "charge_state"), {"soc_percent", "capacity_kwh", "range_km"}),
    Joined(Fields(Within(m, "temperature_state"), {"cell_average_c", "cell_max_c", "cell_min_c"}),
           Fields(m, {"power_output_code", "requires_calibration", "cold_weather_state_code"})))

decode_vehicle_range(m)    == Fields(m, {"distance_km"})
decode_vehicle_odometer(m) == Fields(m, {"distance_km"})

decode_vehicle_gnss(m) ==
  Joined(
    Fields(m, {"latitude", "longitude", "altitude_m", "speed_m_s", "heading_deg",
               "gps_timestamp_ms"}),
    [timestamp_ms |-> gps_to_unix_timestamp_ms(Optional(m, "gps_timestamp_ms"))])

(* The motion is None when absent, and data without values when empty.     *)
decode_navigation_trip_progress(m) ==
  LET motion == Within(m, "motion") IN
  Joined(Fields(m, {"remaining_distance_m", "remaining_drive_time_s"}),
    [motion |-> IF "motion" \notin DOMAIN m THEN None
                ELSE Joined(Fields(Within(motion, "coordinates"), {"latitude", "longitude"}),
                            Fields(motion, {"speed_m_s", "heading_deg", "timestamp_ms"}))])

TripInfo(m, name, coordinates) ==
  [trip_id               |-> Optional(m, "trip_id"),
   destination_name      |-> name,
   destination_latitude  |-> Optional(coordinates, "latitude"),
   destination_longitude |-> Optional(coordinates, "longitude"),
   eta_timestamp_ms      |-> Milliseconds(Optional(Within(m, "eta"), "seconds"))]

HasPlace(stop) == "place" \in DOMAIN stop

(* The loop over the stops: the stops with a place among the first i.      *)
PlacesUpto(stops) ==
  LET upto[i \in 0 .. Len(stops)] ==
        IF i = 0 THEN <<>>
        ELSE IF HasPlace(stops[i]) THEN Append(upto[i - 1], stops[i]) ELSE upto[i - 1]
  IN  upto

Stops(m) == Repeated(Within(m, "route"), "stops")

Places(m) == PlacesUpto(Stops(m))[Len(Stops(m))]

(* Mutant: the coordinates are those of the last place that has any.       *)
CoordinatesOfAnyPlace(m) ==
  LET places  == Places(m)
      located == {i \in DOMAIN places : "coordinates" \in DOMAIN places[i].place}
      last    == CHOOSE i \in located : \A j \in located : j <= i
  IN  TripInfo(m,
        IF places = <<>> THEN None ELSE Optional(places[Len(places)].place, "name"),
        IF located = {} THEN Nothing ELSE places[last].place.coordinates)

(* The destination is the place of the last stop that has one.             *)
decode_navigation_trip_info(m) ==
  LET places      == Places(m)
      destination == IF places = <<>> THEN Nothing ELSE places[Len(places)].place
  IN  TripInfo(m, Optional(destination, "name"), Within(destination, "coordinates"))

decode_vehicle_power_state(m) == Fields(m, {"state_code"})
decode_vehicle_gear(m)        == Fields(m, {"state_code"})
decode_vehicle_drive_mode(m)  == Fields(m, {"mode_code"})

decode_tire_states(m) ==
  Joined(Fields(m, {"monitor_status_code"}),
    [tires |-> Records(m, "tires", {"position_code", "status_code", "pressure_bar",
                                    "validity_code", "timestamp_ms"})])

(* The topics of the closures and of the locks share this decoder.         *)
decode_body_states(m) ==
  [states |-> Records(m, "states", {"position_code", "state_code"})]

decode_cabin_preconditioning_status(m) == Fields(m, {"status_code", "type_code"})
decode_cabin_temperatures(m)           == Fields(m, {"interior_c"})
decode_hvac_settings_status(m)         == Fields(m, {"target_temperature_c"})
decode_pet_mode_status(m)              == Fields(m, {"state_code", "temperature_status_code"})
decode_cabin_ventilation_setting(m)    == Fields(m, {"setting_code"})
decode_climate_hold_setting(m)         == Fields(m, {"duration_seconds"})

decode_climate_hold_status(m) ==
  Joined(Fields(m, {"status_code", "availability_code", "unavailability_reason_code"}),
    [hold_end_timestamp_ms |-> Milliseconds(Optional(Within(m, "hold_end_time"), "seconds"))])

decode_defrost_defog_status(m) == Fields(m, {"status_code"})

decode_seat_conditioning_states(m) ==
  [states |-> Records(m, "states", {"component_code", "conditioning_type_code"})]

decode_charging_session_status(m) ==
  Fields(m, {"plug_connection_status_code", "display_status_code", "evse_type_code"})

decode_charging_time_estimation(m) == Fields(m, {"estimated_minutes_remaining"})

decode_charging_session_live_data(m) ==
  Fields(m, {"total_kwh", "pack_kwh", "thermal_kwh", "outlets_kwh", "system_kwh",
             "session_duration_minutes", "time_remaining_minutes", "range_added_km",
             "current_power_kw", "current_range_km_per_hour", "is_free_session",
             "charging_state_code"})

BarFields == {"power_kw", "start_time_ms", "end_time_ms", "time_estimation_validity_code",
              "charging_state_code", "context_code"}

(* Mutant: the fields of a bar keep the names they have in the message.    *)
BarsNotRenamed(m) == [bars |-> Records(m, "bars", BarFields \cup {"soc_percent"})]

(* The field soc_percent of a bar becomes soc.                             *)
decode_charging_graph_global(m) ==
  LET bars == Repeated(m, "bars") IN
  [bars |-> [i \in DOMAIN bars |->
               Joined(Fields(bars[i], BarFields), [soc |-> Optional(bars[i], "soc_percent")])]]

-----------------------------------------------------------------------------
(* _DECODERS: its keys, and the decoder of each.                           *)
Supported ==
  {"energy.high_voltage.battery_state", "dynamics.vehicle.range",
   "dynamics.vehicle.odometer", "dynamics.vehicle.gnss",
   "navigation.navigation_service.trip_progress", "navigation.navigation_service.trip_info",
   "vehicle.power.state", "dynamics.vehicle.gear", "dynamics.vehicle.drive_mode",
   "dynamics.tires.state", "body.closures.states", "body.locks.states",
   "comfort.cabin.cabin_preconditioning_status", "comfort.cabin.cabin_temperatures",
   "comfort.cabin.hvac_settings_status", "comfort.cabin.pet_mode_status",
   "comfort.cabin.cabin_ventilation_setting", "comfort.cabin.climate_hold_setting",
   "comfort.cabin.climate_hold_status", "comfort.cabin.defrost_defog_status",
   "comfort.cabin.seat_conditioning_status", "charging.session.status",
   "charging.session.time_estimation",
   "energy_edge_compute.graphs.charge_session_breakdown",
   "energy_edge_compute.graphs.charging_graph_global"}

Decode(rvm, m) ==
  CASE rvm = "energy.high_voltage.battery_state" -> decode_high_voltage_battery_state(m)
    [] rvm = "dynamics.vehicle.range" -> decode_vehicle_range(m)
    [] rvm = "dynamics.vehicle.odometer" -> decode_vehicle_odometer(m)
    [] rvm = "dynamics.vehicle.gnss" -> decode_vehicle_gnss(m)
    [] rvm = "navigation.navigation_service.trip_progress" ->
         decode_navigation_trip_progress(m)
    [] rvm = "navigation.navigation_service.trip_info" -> decode_navigation_trip_info(m)
    [] rvm = "vehicle.power.state" -> decode_vehicle_power_state(m)
    [] rvm = "dynamics.vehicle.gear" -> decode_vehicle_gear(m)
    [] rvm = "dynamics.vehicle.drive_mode" -> decode_vehicle_drive_mode(m)
    [] rvm = "dynamics.tires.state" -> decode_tire_states(m)
    [] rvm \in {"body.closures.states", "body.locks.states"} -> decode_body_states(m)
    [] rvm = "comfort.cabin.cabin_preconditioning_status" ->
         decode_cabin_preconditioning_status(m)
    [] rvm = "comfort.cabin.cabin_temperatures" -> decode_cabin_temperatures(m)
    [] rvm = "comfort.cabin.hvac_settings_status" -> decode_hvac_settings_status(m)
    [] rvm = "comfort.cabin.pet_mode_status" -> decode_pet_mode_status(m)
    [] rvm = "comfort.cabin.cabin_ventilation_setting" -> decode_cabin_ventilation_setting(m)
    [] rvm = "comfort.cabin.climate_hold_setting" -> decode_climate_hold_setting(m)
    [] rvm = "comfort.cabin.climate_hold_status" -> decode_climate_hold_status(m)
    [] rvm = "comfort.cabin.defrost_defog_status" -> decode_defrost_defog_status(m)
    [] rvm = "comfort.cabin.seat_conditioning_status" -> decode_seat_conditioning_states(m)
    [] rvm = "charging.session.status" -> decode_charging_session_status(m)
    [] rvm = "charging.session.time_estimation" -> decode_charging_time_estimation(m)
    [] rvm = "energy_edge_compute.graphs.charge_session_breakdown" ->
         decode_charging_session_live_data(m)
    [] rvm = "energy_edge_compute.graphs.charging_graph_global" ->
         decode_charging_graph_global(m)
=============================================================================
