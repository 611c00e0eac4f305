---------------------------- MODULE StableStore ----------------------------
(***************************************************************************)
(* What the kernel promises of the file system image: programs work on a   *)
(* volatile image, an exit makes it the stable one, and a power loss       *)
(* throws the volatile image away.  Only a power loss in the middle of a   *)
(* save leaves something else than the last image saved, and then one of   *)
(* the mixtures of old and new that Mixed allows.                          *)
(***************************************************************************)
CONSTANT Mixed(_, _)     \* what a save of the second image over the first may leave

VARIABLES stable, volatile, status

vars == <<stable, volatile, status>>

\* Programs change the volatile image in any way.
Work == status = "on" /\ UNCHANGED <<stable, status>>

StartSave == status = "on" /\ status' = "saving" /\ UNCHANGED <<stable, volatile>>
EndSave ==
  status = "saving" /\ status' = "on" /\ stable' = volatile /\ UNCHANGED volatile

PowerFails ==
  /\ status # "off" /\ status' = "off"
  /\ IF status = "saving" THEN stable' \in Mixed(stable, volatile) ELSE UNCHANGED stable

PowerReturns ==
  status = "off" /\ status' = "on" /\ volatile' = stable /\ UNCHANGED stable

Next == Work \/ StartSave \/ EndSave \/ PowerFails \/ PowerReturns

Spec == status = "off" /\ [][Next]_vars
=============================================================================
