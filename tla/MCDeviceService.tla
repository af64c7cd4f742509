--------------------------- MODULE MCDeviceService ---------------------------
(* Instances of DeviceService for TLC. *)
EXTENDS DeviceProperties, TLC

\* The service compares values, it never orders them.
ValueSymmetry == Permutations(Values)
=============================================================================
