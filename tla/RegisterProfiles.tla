--------------------------- MODULE RegisterProfiles ---------------------------
(***************************************************************************)
(* The register tables of the device families, the blocks that poll them,  *)
(* and the sensors that show them.                                         *)
(*                                                                         *)
(* A register is its key, its first address and its number of words; types *)
(* and scales are left out.  A block lists the addresses that are decoded  *)
(* from it.  A sensor is the key of its entity with the key of the data it *)
(* shows.  The registers of a Rack PDU are of a phase, outlet or bank n.   *)
(***************************************************************************)
EXTENDS Integers, Sequences, SequencesExt, TLC

Register(key, at, words) == [key |-> key, at |-> at, words |-> words]

(* Registers of one word in a row from an address on.                      *)
Row(at, keys) == {Register(keys[i], at + i - 1, 1) : i \in DOMAIN keys}

Block(start, count, listed) ==
  [start |-> start, count |-> count, listed |-> listed]

(* Sensors whose entity has the key of their register, and others.         *)
Plain(keys) == {[key |-> k, shows |-> k] : k \in keys}
Of(key, shows) == [key |-> key, shows |-> shows]
Showing(shows, keys) == {[key |-> k, shows |-> shows] : k \in keys}

-----------------------------------------------------------------------------
(* Legacy Smart-UPS.                                                       *)
SmartUpsStatus ==
  Row(0, <<"status_word_0", "status_word_1", "status_word_2", "status_word_3",
           "line_quality", "battery_state_of_charge", "runtime_remaining",
           "battery_voltage", "ups_internal_temperature", "load_amps",
           "bad_battery_packs", "total_battery_packs", "load_percent",
           "nominal_output_voltage", "actual_output_voltage",
           "max_input_voltage", "min_input_voltage", "input_voltage">>)

SmartUpsSettings ==
  Row(18, <<"input_frequency", "measure_ups_temp_probe1",
            "measure_ups_humidity_probe1", "measure_ups_temp_probe2",
            "measure_ups_humidity_probe2", "measure_ups_contact_position">>)
  \cup
  Row(26, <<"minimum_return_battery_capacity", "lower_transfer_point",
            "upper_transfer_point", "nominal_output_voltage_setting",
            "shutdown_delay", "low_battery_duration", "turn_on_delay",
            "sensitivity">>)
  \cup
  Row(42, <<"status_word_4", "status_word_5", "nominal_battery_voltage",
            "actual_battery_voltage", "utility_input_voltage_phase_a">>)
  \cup Row(77, <<"battery_current">>)

(* The settings block lists addresses of texts that no register describes. *)
SmartUpsBlocks == {Block(0, 24, 0..23), Block(26, 21, 26..46),
                   Block(77, 1, {77})}

SmartUpsSensors ==
  Plain({"battery_state_of_charge", "battery_voltage", "runtime_remaining",
         "ups_internal_temperature", "bad_battery_packs",
         "total_battery_packs", "load_amps", "load_percent",
         "input_voltage", "input_frequency", "max_input_voltage",
         "min_input_voltage", "actual_output_voltage",
         "nominal_output_voltage", "lower_transfer_point",
         "upper_transfer_point", "shutdown_delay", "low_battery_duration",
         "turn_on_delay"})

SmartUpsBinarySensors ==
  Showing("status_word_1",
          {"ups_on_battery_low_shutdown", "ups_unable_transfer_overload",
           "ups_main_relay_fault", "ups_battery_charger_fault",
           "ups_temperature_fault"})
  \cup Showing("status_word_2", {"ups_bypass_fault", "ups_inverter_fault"})
  \cup Showing("status_word_3",
               {"ups_online", "ups_on_battery", "ups_overload",
                "ups_low_battery", "ups_replace_battery"})

-----------------------------------------------------------------------------
(* SMT/SMX/SRT, and SmartConnect with the same registers.                  *)
SmtStatus ==
  {Register("ups_status_bf", 0, 2), Register("power_system_error_bf", 20, 2)}
  \cup Row(2, <<"ups_status_change_cause">>)
  \cup Row(18, <<"simple_signaling_status_bf", "general_error_bf">>)
  \cup Row(22, <<"battery_system_error_bf">>)
  \cup Row(25, <<"battery_lifetime_status_bf">>)

SmtBattery ==
  {Register("runtime_remaining", 128, 2)}
  \cup Row(130, <<"battery_state_of_charge", "battery_voltage",
                  "battery_voltage_negative", "battery_replacement_date_days">>)
  \cup Row(135, <<"battery_temperature">>)
  \cup Row(595, <<"battery_installation_date_days">>)

SmtPower ==
  {Register("output_energy", 145, 2)}
  \cup Row(136, <<"output_load_percent", "output_load_percent_l2",
                  "output_apparent_power_percent",
                  "output_apparent_power_percent_l2", "output_current",
                  "output_current_l2", "output_voltage", "output_voltage_l2",
                  "output_frequency">>)
  \cup Row(147, <<"bypass_input_status_bf", "bypass_voltage",
                  "bypass_frequency", "input_status_bf", "input_voltage",
                  "input_voltage_l2", "input_voltage_l3", "input_efficiency">>)

(* A variant of SmtBlocks that a plausible bug would give.                  *)
ShortSmtBlocks ==
  {Block(0, 26, {0, 2, 18, 19, 20, 22, 25}), Block(595, 1, {595}),
   Block(128, 26, {128} \cup (130..133) \cup (135..145) \cup (147..154))}

SmtBlocks ==
  {Block(0, 26, {0, 2, 18, 19, 20, 22, 25}), Block(595, 1, {595}),
   Block(128, 27, {128} \cup (130..133) \cup (135..145) \cup (147..154))}

SmtSensors ==
  Plain({"ups_status_change_cause", "runtime_remaining",
         "battery_state_of_charge", "battery_voltage",
         "battery_voltage_negative", "battery_temperature",
         "output_load_percent", "output_load_percent_l2",
         "output_apparent_power_percent", "output_apparent_power_percent_l2",
         "output_current", "output_current_l2", "output_voltage",
         "output_voltage_l2", "output_frequency", "input_frequency",
         "output_energy_rollover", "input_voltage", "input_voltage_l2",
         "input_voltage_l3", "bypass_voltage", "bypass_frequency"})
  \cup {Of("battery_replacement_date", "battery_replacement_date_days"),
        Of("output_energy_kwh", "output_energy"),
        Of("ups_efficiency", "input_efficiency"),
        Of("ups_efficiency_status", "input_efficiency")}

SmartConnectUnsupported ==
  {"output_load_percent_l2", "output_apparent_power_percent_l2",
   "output_current_l2", "output_voltage_l2", "bypass_voltage",
   "bypass_frequency", "input_voltage_l2", "input_voltage_l3",
   "input_frequency"}

SmartConnectSensors ==
  {s \in SmtSensors : s.key \notin SmartConnectUnsupported}

SmtStatusSensors ==
  Showing("ups_status_bf",
          {"ups_online", "ups_on_battery", "ups_on_bypass", "ups_output_off",
           "ups_fault", "ups_input_bad", "ups_fault_state", "ups_overload"})
  \cup Showing("simple_signaling_status_bf", {"ups_shutdown_imminent"})

SmtBatterySensors ==
  Showing("battery_lifetime_status_bf",
          {"battery_lifetime_ok", "battery_lifetime_near_end",
           "battery_lifetime_exceeded",
           "battery_lifetime_near_end_acknowledged",
           "battery_lifetime_exceeded_acknowledged",
           "battery_measured_lifetime_near_end",
           "battery_measured_lifetime_near_end_acknowledged"})
  \cup
  Showing("battery_system_error_bf",
          {"battery_disconnected", "battery_overvoltage",
           "battery_needs_replacement", "battery_overtemperature_critical",
           "battery_charger_fault", "battery_temperature_sensor_fault",
           "battery_bus_soft_start_fault", "battery_overtemperature",
           "battery_general_error", "battery_communication_error",
           "battery_disconnected_frame", "battery_firmware_mismatch",
           "battery_voltage_sense_error", "battery_incompatible_pack"})

-----------------------------------------------------------------------------
(* Rack PDU: of the whole device, and by number of phases, metered outlets *)
(* and banks.                                                              *)
Capabilities == <<"num_phases", "num_metered_phases", "num_banks",
                  "num_outlets", "num_metered_outlets">>

PduDevice ==
  Row(158, Capabilities)
  \cup Row(207, <<"device_real_power", "device_apparent_power",
                  "device_power_factor">>)
  \cup {Register("device_energy", 210, 2)}
  \cup Row(212, <<"device_load_state">>)

(* "outlet_3_power": a string, as all keys are.                            *)
KeyOf(part, n, what) == ToString(<<part, n, what>>)
Numbered(part, n, keys) == [i \in DOMAIN keys |-> KeyOf(part, n, keys[i])]

PhaseKeys == <<"current", "voltage", "real_power", "apparent_power",
               "power_factor", "state">>

PhaseAt == <<667, 689, 711>>

PhaseRegisters(phases) ==
  UNION {Row(PhaseAt[n], Numbered("phase", n, PhaseKeys)) :
           n \in {p \in DOMAIN PhaseAt : p <= phases}}

(* Outlets come in groups of eight, each with four base addresses: those   *)
(* of the currents are 8 apart, the others 24.                             *)
OutletRegisters(outlets) ==
  UNION {LET g == (n - 1) \div 8
             i == (n - 1) % 8
         IN {Register(KeyOf("outlet", n, "current"), 1786 + 8 * g + i, 1),
             Register(KeyOf("outlet", n, "power"), 1810 + 24 * g + i, 1),
             Register(KeyOf("outlet", n, "energy"), 1794 + 24 * g + 2 * i, 2),
             Register(KeyOf("outlet", n, "alarm_state"), 1818 + 24 * g + i,
                      1)} :
         n \in {o \in 1..64 : o <= outlets}}

BankRegisters(banks) ==
  UNION {LET g == (n - 1) \div 6
             i == (n - 1) % 6
         IN {Register(KeyOf("bank", n, "current"), 780 + 12 * g + i, 1),
             Register(KeyOf("bank", n, "state"), 786 + 12 * g + i, 1)} :
         n \in {b \in 1..12 : b <= banks}}

BuildRegisters(phases, outlets, banks) ==
  PduDevice \cup PhaseRegisters(phases) \cup OutletRegisters(outlets)
    \cup BankRegisters(banks)

(* What is installed: REGISTERS = _build_registers(), whatever the PDU is. *)
PduRegisters == BuildRegisters(1, 0, 0)

PduBlocks == {Block(158, 5, 158..162), Block(207, 7, 207..212),
              Block(667, 6, 667..672)}

(* get_sensor_descriptions() of what has been discovered.                  *)
PduDeviceSensors ==
  Plain({"device_real_power", "device_apparent_power", "device_power_factor",
         "device_energy", "device_load_state"})

PduNumberedSensors(phases, outlets, banks) ==
  Plain({KeyOf("phase", n, k) : n \in 1..phases, k \in ToSet(PhaseKeys)}
        \cup {KeyOf("outlet", n, k) :
                n \in 1..outlets,
                k \in {"current", "power", "energy", "alarm_state"}}
        \cup {KeyOf("bank", n, k) : n \in 1..banks, k \in {"current", "state"}})
=============================================================================
