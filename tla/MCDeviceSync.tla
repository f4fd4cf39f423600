---------------------------- MODULE MCDeviceSync ----------------------------
(* Small instances of DeviceSync for TLC. *)
EXTENDS DeviceSync, TLC

CONSTANTS d1, d2, d3, s1, s2
=============================================================================
