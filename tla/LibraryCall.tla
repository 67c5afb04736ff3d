----------------------------- MODULE LibraryCall -----------------------------
(***************************************************************************)
(* Applications linked with libsja1105 that talk to a running switch: what *)
(* the calls of lib/ptp, lib/dynamic-config and lib/control have in        *)
(* common.  A call is a sequence of SPI transfers.  The device is locked   *)
(* for one transfer at a time, so the transfers of two applications, or of *)
(* two threads of one, interleave.                                         *)
(***************************************************************************)
EXTENDS Integers

CONSTANTS
    App,            \* applications
    Outcomes,       \* what one SPI transfer may do, see Transferred
    Workloads       \* [App -> set of calls]: who may call what

VARIABLES
    work,           \* the workload at hand
    pc,             \* next transfer of every application's call, or "idle"
    call,           \* the call and its arguments
    ret,            \* what the last call returned
    alone           \* history: no other application has written to the
                    \* registers since the call began

callVars == <<work, pc, call, ret, alone>>

ASSUME OutcomesAssumption == {"ok"} \subseteq Outcomes /\ Outcomes \subseteq {"ok", "lost", "late"}

NoCall == [op |-> "none"]
Pending == [rc |-> "pending", value |-> 0]

(***************************************************************************)
(* sja1105_spi_transfer, as in Flush: the message reaches the chip and the *)
(* call returns 0 ("ok"), it does not ("lost"), or it does and an error is *)
(* returned all the same ("late").                                         *)
(***************************************************************************)
Transferred(o) == o # "lost"

CallInit ==
    /\ work \in Workloads
    /\ pc = [a \in App |-> "idle"]
    /\ call = [a \in App |-> NoCall]
    /\ ret = [a \in App |-> Pending]
    /\ alone = [a \in App |-> TRUE]

\* The caller enters function c.op; its first transfer is at label.
Enter(a, c, label) ==
    /\ pc[a] = "idle"
    /\ call' = [call EXCEPT ![a] = c]
    /\ pc' = [pc EXCEPT ![a] = label]
    /\ ret' = [ret EXCEPT ![a] = Pending]
    /\ alone' = [alone EXCEPT ![a] = TRUE]
    /\ UNCHANGED work

Continue(a, label) ==
    /\ pc' = [pc EXCEPT ![a] = label]
    /\ UNCHANGED <<work, call, ret>>

LeaveWith(a, code, value) ==
    /\ pc' = [pc EXCEPT ![a] = "idle"]
    /\ ret' = [ret EXCEPT ![a] = [rc |-> code, value |-> value]]
    /\ call' = [call EXCEPT ![a] = NoCall]
    /\ UNCHANGED work

Leave(a, code) == LeaveWith(a, code, 0)

\* What a call returns that hands on the result of a transfer.
LeaveAfter(a, o) == Leave(a, IF o = "ok" THEN "ok" ELSE "ERRNO")

\* Application a's transfer has changed registers that others use.
Disturb(a, o) ==
    alone' = [x \in App |-> pc[x] = "idle" \/ (alone[x] /\ (x = a \/ ~Transferred(o)))]

\* The application is killed in the middle of a call.
Killed(a) ==
    /\ pc[a] # "idle"
    /\ Leave(a, "killed")
    /\ UNCHANGED alone

\* Action: the call of application a returns 0 from the transfer at label.
Succeeds(a, label) == pc[a] = label /\ pc'[a] = "idle" /\ ret'[a].rc = "ok"
=============================================================================
