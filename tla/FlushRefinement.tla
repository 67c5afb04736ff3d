--------------------------- MODULE FlushRefinement ---------------------------
(***************************************************************************)
(* static_config_flush run by one process at a time on real hardware       *)
(* implements SwitchUpdate.                                                *)
(***************************************************************************)
EXTENDS Flush

CONSTANT Uploader       \* the one process

ASSUME SoleUploaderAssumption == Proc = {Uploader}
ASSUME OnHardwareAssumption == \A u \in Uploads : ~u.dry

VerdictOf ==
    IF pc[Uploader] = "idle" THEN "failed"
    ELSE IF pc[Uploader] # "flushed" THEN "pending"
    ELSE IF rc[Uploader] = "OK" THEN "ok" ELSE "failed"

Update == INSTANCE SwitchUpdate WITH
    Wanted  <- {u.cfg : u \in Uploads},
    Unasked <- EmptyConfig(NoDevice),
    Down    <- None,
    live    <- running,
    want    <- mem[Uploader],
    verdict <- VerdictOf

(***************************************************************************)
(* Every flush is an update: down, then up with the configuration asked    *)
(* for, and reported successful only when that configuration is in force.  *)
(***************************************************************************)
ImplementsSwitchUpdate == Update!UpdateSpec
=============================================================================
