--------------------------- MODULE MCDeviceRequests ---------------------------
(* A field that must be sent and a password, and the bodies that tell the  *)
(* rules of set_config() apart.                                            *)
EXTENDS DeviceRequests, TLC

CONSTANTS f1, f2

\* The password left out; the field left out; null, to keep what it holds.
SomeBodies == {f1 :> 0, f2 :> 1, (f1 :> Null) @@ (f2 :> 1)}
=============================================================================
