-------------------------- MODULE RuntimeSurfaces --------------------------
(***************************************************************************)
(* What the speed notification (SpeedNotification) and the control cards   *)
(* (ControlCards) share: each refresh of the page hands both of them its   *)
(* status and waits for neither.  They touch nothing of each other, so     *)
(* each has a specification of its own.                                    *)
(***************************************************************************)
EXTENDS Integers

CONSTANT MaxActs  \* bound: changes of the status or the setting, failures,
                  \* ends of a process, cards placed, refreshed or removed

ASSUME MaxActsAssumption == MaxActs \in Nat

VARIABLES status,  \* Index.status
          acts     \* number of those acts

Status == {"IDLE", "RUNNING"}

Act == acts < MaxActs /\ acts' = acts + 1
=============================================================================
