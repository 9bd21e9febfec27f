--------------------------- MODULE MCDeviceControl ---------------------------
(* Two cameras, the second of which counts its channels from another one.  *)
EXTENDS DeviceControl

MCDevices == <<1, 2>>
MCStartChan == <<1, 2>>

=============================================================================
