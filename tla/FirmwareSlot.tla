---------------------------- MODULE FirmwareSlot ----------------------------
(***************************************************************************)
(* What the boot loader promises about the user firmware, without flash,   *)
(* sectors or packets: there is one slot.  It holds a complete image or    *)
(* nothing the loader would start.  An upgrade first empties the slot and  *)
(* fills it again later; what runs is what the slot holds, and the slot    *)
(* does not change while its image runs.                                   *)
(***************************************************************************)
CONSTANTS
  Images, \* the firmware images
  None    \* no image

VARIABLES
  slot,    \* the image a reset would start
  running  \* the image that runs

SlotInit == slot \in Images \cup {None} /\ running = None

\* The first erase of an upgrade.
Invalidate == /\ slot # None /\ running = None
              /\ slot' = None
              /\ UNCHANGED running

\* The last packet of an upgrade.
Install(i) == /\ slot = None /\ running = None
              /\ slot' = i
              /\ UNCHANGED running

Start == /\ running = None /\ slot # None
         /\ running' = slot
         /\ UNCHANGED slot

Stop == /\ running # None
        /\ running' = None
        /\ UNCHANGED slot

SlotNext == Invalidate \/ (\E i \in Images : Install(i)) \/ Start \/ Stop

Spec == SlotInit /\ [][SlotNext]_<<slot, running>>
=============================================================================
