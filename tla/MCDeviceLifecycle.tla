-------------------------- MODULE MCDeviceLifecycle --------------------------
(* Model-checking instance of DeviceLifecycle, which has no constants. *)
EXTENDS DeviceLifecycle
=============================================================================
