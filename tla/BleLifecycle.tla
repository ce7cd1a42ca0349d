----------------------------- MODULE BleLifecycle -----------------------------
(***************************************************************************)
(* What one device promises to the consumers of its events, whatever goes  *)
(* on below: the radio is off, being linked, ready, being updated, or      *)
(* blocked by its firmware.  It becomes ready only out of linking, so a    *)
(* sync precedes every READY, also after an update; an update starts only  *)
(* from ready and never leads back to it; blocked is left only by a        *)
(* shutdown or a restart.  Linking and updating come to an end.            *)
(***************************************************************************)

VARIABLE phase

Init == phase = "off"

Begin == phase = "off" /\ phase' = "linking"

LinkingEnds == phase = "linking" /\ phase' \in {"ready", "off", "blocked"}

ReadyEnds == phase = "ready" /\ phase' \in {"linking", "updating", "off"}

UpdateEnds == phase = "updating" /\ phase' = "off"

Shutdown == phase # "off" /\ phase' = "off"

Next == Begin \/ LinkingEnds \/ ReadyEnds \/ UpdateEnds \/ Shutdown

Spec == Init /\ [][Next]_phase

FairSpec == Spec /\ WF_phase(LinkingEnds) /\ WF_phase(UpdateEnds)
=============================================================================
