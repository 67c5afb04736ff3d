------------------------------- MODULE Dynamic -------------------------------
(***************************************************************************)
(* Registers of a running switch through which its tables are changed:     *)
(* management routes (lib/dynamic-config/l2-lookup.c) and credit based     *)
(* shapers (lib/control/port.c).  In both a window of data registers is    *)
(* filled and a command register names the entry it is meant for, and all  *)
(* applications share the window.                                          *)
(***************************************************************************)
EXTENDS LibraryCall

CONSTANTS
    Routes,         \* indices of management routes: 0..SJA1105_MGMT_ROUTE_COUNT - 1
    Shapers         \* indices of shapers

VARIABLES
    route,          \* chip: the management routes
    window,         \* chip: the last route named by a command
    shaper,         \* chip: the shapers
    slopes          \* chip: the data registers of the shapers

dynamicVars == <<route, window, shaper, slopes>>

\* A caller names an entry that exists: the library does not look.
ASSUME IndicesAssumption ==
    \A w \in Workloads : \A a \in App : \A c \in w[a] :
        /\ c.op \in {"mgmt_route_get", "mgmt_route_set"} => c.index \in Routes
        /\ c.op = "cbs_commit" => c.index \in Shapers

Unset == "unset"
Garbage == "garbage"

(***************************************************************************)
(* A command is executed at once: the window then shows the route named.   *)
(* It travels in one message with the window, and sets enfport whatever    *)
(* the caller said.                                                        *)
(***************************************************************************)
\* Mutant: the index is only filled in when a route is written.
RouteCommand_NoIndex(c) ==
    IF c.op = "mgmt_route_set"
    THEN /\ route' = [route EXCEPT ![c.index] = c.entry]
         /\ window' = [index |-> c.index, entry |-> c.entry]
    ELSE /\ window' = [index |-> 0, entry |-> route[0]]
         /\ UNCHANGED route

RouteCommand(c) ==
    IF c.op = "mgmt_route_set"
    THEN /\ route' = [route EXCEPT ![c.index] = c.entry]
         /\ window' = [index |-> c.index, entry |-> c.entry]
    ELSE /\ window' = [index |-> c.index, entry |-> route[c.index]]
         /\ UNCHANGED route

\* sja1105_mgmt_route_commit; a get goes on to read the window.
RouteCommit(a) ==
    /\ pc[a] = "route"
    /\ \E o \in Outcomes :
         /\ IF Transferred(o) THEN RouteCommand(call[a]) ELSE UNCHANGED <<route, window>>
         /\ IF o = "ok" /\ call[a].op = "mgmt_route_get" THEN Continue(a, "window")
            ELSE LeaveAfter(a, o)
         /\ Disturb(a, o)
    /\ UNCHANGED <<shaper, slopes>>

RouteRead(a) ==
    /\ pc[a] = "window"
    /\ \E o \in Outcomes :
         IF o = "ok" THEN LeaveWith(a, "ok", window) ELSE Leave(a, "ERRNO")
    /\ UNCHANGED <<dynamicVars, alone>>

(***************************************************************************)
(* sja1105_cbs_commit.  The buffer has 32 bytes, four words of data and    *)
(* four that are never initialised, and all are written from 0x2C on: the  *)
(* fifth lands on the command register at 0x30.  What was on the stack may *)
(* be a command for any shaper, or none.                                   *)
(***************************************************************************)
StrayCommand(data) ==
    \/ UNCHANGED shaper
    \/ \E i \in Shapers : shaper' = [shaper EXCEPT ![i] = [data |-> data, bound |-> Garbage]]

\* Mutant: the command follows whatever became of the data.
CbsData_Unchecked(a) ==
    /\ pc[a] = "slopes"
    /\ \E o \in Outcomes :
         /\ IF Transferred(o) THEN slopes' = call[a].slopes /\ StrayCommand(call[a].slopes)
            ELSE UNCHANGED <<slopes, shaper>>
         /\ Continue(a, "shaper")
         /\ Disturb(a, o)
    /\ UNCHANGED <<route, window>>

CbsData(a) ==
    /\ pc[a] = "slopes"
    /\ \E o \in Outcomes :
         /\ IF Transferred(o) THEN slopes' = call[a].slopes /\ StrayCommand(call[a].slopes)
            ELSE UNCHANGED <<slopes, shaper>>
         /\ IF o = "ok" THEN Continue(a, "shaper") ELSE Leave(a, "ERRNO")
         /\ Disturb(a, o)
    /\ UNCHANGED <<route, window>>

CbsCommand(a) ==
    /\ pc[a] = "shaper"
    /\ \E o \in Outcomes :
         /\ shaper' = IF Transferred(o)
                      THEN [shaper EXCEPT ![call[a].index] = [data |-> slopes, bound |-> call[a].bound]]
                      ELSE shaper
         /\ LeaveAfter(a, o)
         /\ Disturb(a, o)
    /\ UNCHANGED <<route, window, slopes>>
-----------------------------------------------------------------------------
DynamicOps == {"mgmt_route_get", "mgmt_route_set", "cbs_commit"}

DynamicEnter(a) ==
    /\ \E c \in work[a] :
         /\ c.op \in DynamicOps
         /\ Enter(a, c, IF c.op = "cbs_commit" THEN "slopes" ELSE "route")
    /\ UNCHANGED dynamicVars

DynamicCall(a) ==
    DynamicEnter(a) \/ RouteCommit(a) \/ RouteRead(a) \/ CbsData(a) \/ CbsCommand(a)

DynamicInit ==
    /\ route = [i \in Routes |-> Unset]
    /\ window = [index |-> 0, entry |-> Unset]
    /\ shaper = [i \in Shapers |-> [data |-> Unset, bound |-> Unset]]
    /\ slopes = Unset
-----------------------------------------------------------------------------
(***************************************************************************)
(* What a get returns is a management route as the switch has it at that   *)
(* time, under its own index, whatever another application asked for or    *)
(* wrote between the two transfers and whichever of them failed; and it is *)
(* the one asked for when no other application wrote in between.  (With    *)
(* another in between it may be the other's route, returned with 0: the    *)
(* code does not compare the index it gets with the one it asked for.)     *)
(***************************************************************************)
RouteAnswersTheQuestion ==
    [][\A a \in App : Succeeds(a, "window") =>
         LET got == ret'[a].value
         IN  /\ got.entry = route[got.index]
             /\ alone[a] => got.index = call[a].index
      ]_<<callVars, dynamicVars>>

(***************************************************************************)
(* When no other application wrote between its two transfers and it        *)
(* returns 0, sja1105_cbs_commit has left the shaper with the slopes and   *)
(* the queue asked for, whatever failed before and whatever the four words *)
(* too many have done.                                                     *)
(***************************************************************************)
ShaperIsAsAsked ==
    [][\A a \in App : Succeeds(a, "shaper") /\ alone[a] =>
         LET c == call[a]
         IN  shaper'[c.index] = [data |-> c.slopes, bound |-> c.bound]
      ]_<<callVars, dynamicVars>>
=============================================================================
