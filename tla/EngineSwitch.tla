----------------------------- MODULE EngineSwitch ----------------------------
(***************************************************************************)
(* What the interface promises of the engine, without threads, handles or  *)
(* flags: a switch.  The engine is off, or on with some settings in force. *)
(* It comes on with the settings saved last, never straight from one       *)
(* setting to another, and settings that are no longer the saved ones do   *)
(* not stay in force.  EngineLifecycle implements it.                      *)
(***************************************************************************)
CONSTANTS
    Setting,       \* what the dashboard can save
    Off            \* nothing in force, not a setting

VARIABLES
    saved,         \* the settings as saved last
    inForce        \* the settings of the engine that treats packets, or Off

vars == <<saved, inForce>>

Init == saved \in Setting /\ inForce = Off

Save ==
    /\ saved' \in Setting
    /\ UNCHANGED inForce

SwitchOn ==
    /\ inForce = Off
    /\ inForce' = saved
    /\ UNCHANGED saved

SwitchOff ==
    /\ inForce # Off
    /\ inForce' = Off
    /\ UNCHANGED saved

Next == Save \/ SwitchOn \/ SwitchOff

(* Settings saved while the engine is on take effect: what was in force    *)
(* before goes out of force.                                               *)
OutdatedEnds == inForce \notin {saved, Off} ~> inForce \in {saved, Off}

Spec == Init /\ [][Next]_vars /\ OutdatedEnds
=============================================================================
