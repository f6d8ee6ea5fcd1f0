--------------------------- MODULE MCDeviceManager ---------------------------
(* A small instance of DeviceManager for TLC.                              *)
EXTENDS DeviceManager

\* The valves of the firmware.
MCValves == <<"valve1", "valve2">>
=============================================================================
