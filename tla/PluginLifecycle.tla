--------------------------- MODULE PluginLifecycle ---------------------------
(***************************************************************************)
(* The Mosquitto plugin as the broker loads and unloads it                 *)
(* (mosquitto_plugin/plugin.cpp): the choice of the mode and of the time   *)
(* measurement from the options of mosquitto.conf, the queue's descriptor, *)
(* and the counter of the measurement.  All of it lives in the memory of   *)
(* the broker process and starts anew with it.                             *)
(***************************************************************************)
EXTENDS Integers, Sequences, SequencesExt

CONSTANTS
  Modes,         \* the values sync_mode knows
  OptionLists,   \* the options mosquitto.conf may give the plugin, name and value
  Versions,      \* the plugin interfaces the broker offers
  Maximum        \* synchronisation_counter_maximum

ASSUME PluginLifecycleAssumption ==
  /\ Modes = {"client", "mq", "global"}
  /\ OptionLists \subseteq Seq(STRING \X STRING)
  /\ 5 \in Versions
  /\ Maximum \in Nat \ {0}

VARIABLES
  broker,        \* whether the broker runs, with the plugin loaded
  sync_mode,     \* static variables of the plugin
  measuring,     \* time_measurement_trigger_to_publish
  descriptor,    \* whether mq_descriptor is open
  counter,       \* synchronisation_counter
  registered     \* the events the plugin has callbacks for

plugin == <<broker, sync_mode, measuring, descriptor, counter, registered>>

PluginTypeOK ==
  /\ broker \in {"down", "up"}
  /\ sync_mode \in Modes
  /\ measuring \in BOOLEAN /\ descriptor \in BOOLEAN
  /\ counter \in 0..(Maximum - 1)
  /\ registered \subseteq {"TICK", "MESSAGE", "BASIC_AUTH"}

(* The static variables of a process that has just loaded the plugin.      *)
Unloaded ==
  /\ broker' = "down"
  /\ sync_mode' = "client" /\ measuring' = FALSE /\ descriptor' = FALSE
  /\ counter' = 0 /\ registered' = {}

PluginInit ==
  /\ broker = "down"
  /\ sync_mode = "client" /\ measuring = FALSE /\ descriptor = FALSE
  /\ counter = 0 /\ registered = {}

-----------------------------------------------------------------------------
(* mosquitto_plugin_version                                                *)
Version == IF 5 \in Versions THEN 5 ELSE -1

(* mosquitto_plugin_init goes through the options in their order: a later  *)
(* mode replaces an earlier one, an unknown mode changes nothing.          *)
ModeOf(options) ==
  LET given == {i \in DOMAIN options : options[i][1] = "sync_mode" /\ options[i][2] \in Modes}
  IN IF given = {} THEN "client" ELSE options[Max(given)][2]
MeasuringOf(options) ==
  <<"time_measurement_trigger_to_publish", "true">> \in {options[i] : i \in DOMAIN options}

PluginStarts(options) ==
  /\ broker = "down" /\ Version = 5
  /\ broker' = "up" /\ counter' = 0
  /\ sync_mode' = ModeOf(options)
  /\ measuring' = MeasuringOf(options)
  /\ descriptor' = (sync_mode' = "mq")
  /\ registered' = {"TICK", "MESSAGE"}

(* mq_open fails: init returns MOSQ_ERR_UNKNOWN, and the broker ends.      *)
PluginRefuses(options) ==
  /\ broker = "down" /\ Version = 5
  /\ ModeOf(options) = "mq"
  /\ UNCHANGED <<broker, sync_mode, measuring, descriptor, counter, registered>>

(* mosquitto_plugin_cleanup, on the way out of the broker.  It unregisters *)
(* an event it never registered and, as that fails, no other; the broker   *)
(* raises no event after it, and its process ends.                         *)
PluginStops == broker = "up" /\ Unloaded

(* An exception leaves a callback, or a signal ends the process.           *)
PluginDies == broker = "up" /\ Unloaded

-----------------------------------------------------------------------------
(* Mutant of Counted: the counter is not reset.                            *)
CountedWithoutReset(n) == IF counter + n <= Maximum THEN counter + n ELSE Maximum

(* The counter after n more synchronisations: at the maximum the time of   *)
(* the batch is printed and the next one begins.                           *)
Counted(n) == (counter + n) % Maximum
==============================================================================
