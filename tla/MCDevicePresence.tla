-------------------------- MODULE MCDevicePresence --------------------------
(* Small instances of DevicePresence: every connection is of one device.   *)
EXTENDS DevicePresence

CONSTANTS d1

MCdeviceOf == [c \in Conn |-> d1]
=============================================================================
