----------------------------- MODULE MCParallax -----------------------------
(* An instance of Parallax for TLC.                                        *)
EXTENDS Parallax, FiniteSets, TLC

(* Messages of the flat fields names: none or all of them, one, all but    *)
(* one; every value is 0, the default of a field that is absent.           *)
Zeros(names) == [n \in names |-> 0]
Flat(names) ==
  {Zeros(present) : present \in
     {{}, names} \cup {{n} : n \in names} \cup {names \ {n} : n \in names}}

(* m with the field f, and without it.                                     *)
With(ms, f, values) == ms \cup {m @@ (f :> v) : m \in ms, v \in values}

Sparse(names) == {Zeros({}), Zeros(names)}

Position == {Zeros({}), [latitude |-> 1, longitude |-> 2]}
Places3  == {Zeros({}), [name |-> 3], [name |-> 4, coordinates |-> [latitude |-> 5, longitude |-> 6]]}
Stops3   == {Zeros({})} \cup {[place |-> p] : p \in Places3}
Seconds  == {Zeros({}), [seconds |-> 5]}
Lists2(records) == {<<r>> : r \in records} \cup (records \X records)

Messages ==
  ("energy.high_voltage.battery_state" :>
     With(With(Sparse({"power_output_code", "requires_calibration", "cold_weather_state_code"}),
               "charge_state", Flat({"soc_percent", "capacity_kwh", "range_km"})),
          "temperature_state", Sparse({"cell_average_c", "cell_max_c", "cell_min_c"}))) @@
  ("dynamics.vehicle.range" :> Flat({"distance_km"})) @@
  ("dynamics.vehicle.odometer" :> Flat({"distance_km"})) @@
  ("dynamics.vehicle.gnss" :>
     Flat({"latitude", "longitude", "altitude_m", "speed_m_s", "heading_deg",
           "gps_timestamp_ms"})) @@
  ("navigation.navigation_service.trip_progress" :>
     With(Sparse({"remaining_distance_m", "remaining_drive_time_s"}), "motion",
          With(Flat({"speed_m_s", "heading_deg", "timestamp_ms"}), "coordinates", Position))) @@
  ("navigation.navigation_service.trip_info" :>
     With({Zeros({}), [trip_id |-> 0]}, "eta", Seconds) \cup
     {[route |-> r] : r \in With({Zeros({})}, "stops", Lists2(Stops3))}) @@
  ("vehicle.power.state" :> Flat({"state_code"})) @@
  ("dynamics.vehicle.gear" :> Flat({"state_code"})) @@
  ("dynamics.vehicle.drive_mode" :> Flat({"mode_code"})) @@
  ("dynamics.tires.state" :>
     With(Flat({"monitor_status_code"}), "tires",
          {<<t>> : t \in Flat({"position_code", "status_code", "pressure_bar",
                               "validity_code", "timestamp_ms"})})) @@
  ("body.closures.states" :>
     With({Zeros({})}, "states", Lists2(Flat({"position_code", "state_code"})))) @@
  ("body.locks.states" :>
     With({Zeros({})}, "states", Lists2(Flat({"position_code", "state_code"})))) @@
  ("comfort.cabin.cabin_preconditioning_status" :> Flat({"status_code", "type_code"})) @@
  ("comfort.cabin.cabin_temperatures" :> Flat({"interior_c"})) @@
  ("comfort.cabin.hvac_settings_status" :> Flat({"target_temperature_c"})) @@
  ("comfort.cabin.pet_mode_status" :> Flat({"state_code", "temperature_status_code"})) @@
  ("comfort.cabin.cabin_ventilation_setting" :> Flat({"setting_code"})) @@
  ("comfort.cabin.climate_hold_setting" :> Flat({"duration_seconds"})) @@
  ("comfort.cabin.climate_hold_status" :>
     With(Flat({"status_code", "availability_code", "unavailability_reason_code"}),
          "hold_end_time", Seconds)) @@
  ("comfort.cabin.defrost_defog_status" :> Flat({"status_code"})) @@
  ("comfort.cabin.seat_conditioning_status" :>
     With({Zeros({})}, "states", Lists2(Flat({"component_code", "conditioning_type_code"})))) @@
  ("charging.session.status" :>
     Flat({"plug_connection_status_code", "display_status_code", "evse_type_code"})) @@
  ("charging.session.time_estimation" :> Flat({"estimated_minutes_remaining"})) @@
  ("energy_edge_compute.graphs.charge_session_breakdown" :>
     Flat({"total_kwh", "pack_kwh", "thermal_kwh", "outlets_kwh", "system_kwh",
           "session_duration_minutes", "time_remaining_minutes", "range_added_km",
           "current_power_kw", "current_range_km_per_hour", "is_free_session",
           "charging_state_code"})) @@
  ("energy_edge_compute.graphs.charging_graph_global" :>
     With({Zeros({})}, "bars",
          {<<b>> : b \in Flat(BarFields \cup {"soc_percent"})})) @@
  ("unknown" :> {Zeros({})})

(* One topic, the two that share a decoder, one twice; none and an empty.  *)
TopicLists ==
  {<<rvm>> : rvm \in DOMAIN Messages} \cup
  {<<"body.closures.states", "body.locks.states">>,
   <<"vehicle.power.state", "vehicle.power.state">>, <<>>, <<"vehicle.power.state", "">>}
=============================================================================
