------------------------------- MODULE Tool -------------------------------
(***************************************************************************)
(* What every invocation of sja1105-tool has: a control location, the      *)
(* static_config it holds in memory, the return code it carries and the    *)
(* dry_run flag of its spi_setup.  The staging area and the switch are     *)
(* shared by all invocations; StagingArea and Flush add them.              *)
(***************************************************************************)
EXTENDS StaticConfig

CONSTANT Proc           \* invocations that may run at the same time

VARIABLES
    pc,                 \* control location of every invocation
    mem,                \* its static_config
    rc,                 \* its return code
    dry                 \* spi_setup->dry_run

toolVars == <<pc, mem, rc, dry>>

\* lib/include/errors.h, and the raw errno values that main returns as they
\* are (see reinterpreted_return_code).
ErrorCodes ==
    { "OK", "USAGE", "CMDLINE_PARSE",
      "HW_NOT_RESPONDING", "HW_NOT_RESPONDING_STAGING_AREA_DIRTY",
      "HW_LEFT_FLOATING", "HW_LEFT_FLOATING_STAGING_AREA_DIRTY",
      "STAGING_AREA_INVALID", "INVALID_XML", "FILESYSTEM", "ERRNO" }

Goto(p, label) ==
    /\ pc' = [pc EXCEPT ![p] = label]
    /\ UNCHANGED rc

\* Leave the current function for label with a return code.
Return(p, code, label) ==
    /\ pc' = [pc EXCEPT ![p] = label]
    /\ rc' = [rc EXCEPT ![p] = code]
=============================================================================
