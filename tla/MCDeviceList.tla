---------------------------- MODULE MCDeviceList ----------------------------
(* Small instances of DeviceList: two devices that may change, and a channel *)
(* of two entries, which overflows.                                         *)
EXTENDS DeviceList

CONSTANTS alice, bob, i1, i2
=============================================================================
