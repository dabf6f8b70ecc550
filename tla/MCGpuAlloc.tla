----------------------------- MODULE MCGpuAlloc -----------------------------
(* The allocator of GpuAlloc on a RAM_G of three or four words.            *)
EXTENDS GpuAlloc

(* A block that is collected, one that stays until it is given up, and one *)
(* that is collected but whose address must not change.                    *)
Blocks == {"image", "font", "anim"}
MCSize  == [r \in Blocks |-> IF r = "image" THEN 7 ELSE 4]
MCFlags == [r \in Blocks |-> CASE r = "font" -> {}
                               [] r = "anim" -> {"gc", "fixed"}
                               [] OTHER      -> {"gc"}]
=============================================================================
