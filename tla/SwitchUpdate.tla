---------------------------- MODULE SwitchUpdate ----------------------------
(***************************************************************************)
(* What uploading a configuration promises to its user, with none of the   *)
(* registers, messages or error bits: the switch passes from one           *)
(* configuration to another only through a state without any, takes no     *)
(* configuration but the one being uploaded, and an upload that is         *)
(* reported successful has left exactly that configuration in force.       *)
(***************************************************************************)
CONSTANTS
    Wanted,         \* configurations a user may ask for
    Unasked,        \* what want holds before the first upload
    Down            \* no configuration in force

VARIABLES
    live,           \* the configuration in force, or Down
    want,           \* the configuration of the current or last upload
    verdict         \* "pending" while the upload runs, then how it ended

updateVars == <<live, want, verdict>>

Request ==
    /\ want' \in Wanted
    /\ verdict' = "pending"
    /\ UNCHANGED live

TakeDown ==
    /\ verdict = "pending"
    /\ live' = Down
    /\ verdict' \in {"pending", "failed"}
    /\ UNCHANGED want

BringUp ==
    /\ verdict = "pending"
    /\ live = Down
    /\ live' = want
    /\ verdict' \in {"pending", "failed"}
    /\ UNCHANGED want

\* The upload fails, or its process dies; the switch is left as it is.
GiveUp ==
    /\ verdict = "pending"
    /\ verdict' = "failed"
    /\ UNCHANGED <<live, want>>

Confirm ==
    /\ verdict = "pending"
    /\ live = want
    /\ verdict' = "ok"
    /\ UNCHANGED <<live, want>>

UpdateInit ==
    /\ live = Down
    /\ want = Unasked
    /\ verdict = "failed"

UpdateNext == Request \/ TakeDown \/ BringUp \/ GiveUp \/ Confirm

UpdateSpec == UpdateInit /\ [][UpdateNext]_updateVars
=============================================================================
