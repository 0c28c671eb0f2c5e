--------------------------- MODULE MCPidAttribution --------------------------
(* Instances of PidAttribution for TLC.                                    *)
EXTENDS PidAttribution, TLC
=============================================================================
