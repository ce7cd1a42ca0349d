--------------------------- MODULE MCDeviceManager ---------------------------
(***************************************************************************)
(* Instances of DeviceManager for TLC.  Requests are interchangeable, and  *)
(* so are addresses.                                                       *)
(***************************************************************************)
EXTENDS DeviceManager, TLC

ManagerSymmetry == Permutations(Requests) \cup Permutations(Addrs)
=============================================================================
