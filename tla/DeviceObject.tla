----------------------------- MODULE DeviceObject -----------------------------
(***************************************************************************)
(* What the registry may assume of one BleDevice whose calls do not        *)
(* overlap: it runs or not, start() makes it run, and stop() takes two     *)
(* steps if there is anything to wait for, a task or the gateway that one  *)
(* left open, and brings it to rest.  These are the values and the steps   *)
(* of DeviceManager's run[creator][address] once the object exists.        *)
(***************************************************************************)

VARIABLE run

Init == run = "offline"

Started == run \in {"offline", "ended"} /\ run' = "live"

Ends == run = "live" /\ run' \in {"offline", "ended"}

StopSuspends == run \in {"live", "ended"} /\ run' = "stopping"

StopReturns == run = "stopping" /\ run' = "offline"

Next == Started \/ Ends \/ StopSuspends \/ StopReturns
=============================================================================
