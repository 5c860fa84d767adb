--------------------------- MODULE FirmwareUpdate ---------------------------
(***************************************************************************)
(* What an update over the network promises, whatever is sent and whenever *)
(* it breaks off or power fails: the partition that runs and the one that  *)
(* would be started are never written, and only a partition that holds a   *)
(* whole image is chosen to be started.                                    *)
(***************************************************************************)
CONSTANT Slot       \* the application partitions

VARIABLES
    running,        \* the partition that runs
    boot,           \* the partition a restart starts
    image           \* what each holds

Content == {"whole", "partial"}

Init ==
    /\ running \in Slot
    /\ boot = running
    /\ image \in [Slot -> Content]
    /\ image[running] = "whole"

Write ==
    /\ \E s \in Slot \ {running, boot}, c \in Content : image' = [image EXCEPT ![s] = c]
    /\ UNCHANGED <<running, boot>>

Choose ==
    /\ boot' \in {s \in Slot : image[s] = "whole"}
    /\ UNCHANGED <<running, image>>

Start ==
    /\ running' = boot
    /\ UNCHANGED <<boot, image>>

Next == Write \/ Choose \/ Start

Spec == Init /\ [][Next]_<<running, boot, image>>
=============================================================================
