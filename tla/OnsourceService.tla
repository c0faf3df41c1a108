-------------------------- MODULE OnsourceService --------------------------
(***************************************************************************)
(* What the pointing programs of the Field System (onoff, fivpt) rely on   *)
(* when they have asked for a position and wait for ionsor: they are not   *)
(* told that the antenna is on source before it has been there.  Nothing   *)
(* is said of when, nor of how antcn and antrcv find out.                  *)
(***************************************************************************)

VARIABLES service,  \* of the last request: "none" promised, "owed", "there"
          report    \* whether the antenna is reported on source

serviceVars == <<service, report>>

ServiceInit == service = "none" /\ report \in BOOLEAN

\* A request ends the last report; it may be one nothing is promised for.
Ask == service' \in {"owed", "none"} /\ report' = FALSE

\* The position asked for is reached; nobody knows yet.
Reach == service = "owed" /\ service' = "there" /\ UNCHANGED report

\* The request is withdrawn or lost, or antcn dies over it.
Lapse == service # "none" /\ service' = "none" /\ report' \in BOOLEAN

Judge ==
    /\ report' \in BOOLEAN
    /\ report' => service # "owed"
    /\ UNCHANGED service

ServiceNext == Ask \/ Reach \/ Lapse \/ Judge

ServiceSpec == ServiceInit /\ [][ServiceNext]_serviceVars
============================================================================
