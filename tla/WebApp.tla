------------------------------- MODULE WebApp ---------------------------------
(***************************************************************************)
(* A tab of the web app: it is at one of the forms of WebForms.tla, or at  *)
(* the pages of Dashboard.tla.  The two share no state (a form is filled   *)
(* from what its page was rendered with, and goes through the API by       *)
(* itself), so that a behaviour is of the one or the other.                *)
(***************************************************************************)
EXTENDS WebForms, Dashboard

appVars == <<vars, dashboardVars>>

AppTypeOK ==
  /\ page = "dashboard" \/ TypeOK
  /\ DashboardTypeOK

AppInit ==
  /\ page \in Pages \cup {"dashboard"}
  /\ FormInit
  /\ DashboardInit

AppNext ==
  \/ /\ page # "dashboard" /\ Next
     /\ UNCHANGED dashboardVars
  \/ /\ page = "dashboard" /\ DashboardNext
     /\ UNCHANGED vars

AppSpec == AppInit /\ [][AppNext]_appVars

\* As in WebForms: timers fire, and a GET of one row is answered, or fails.
AppFairSpec == AppSpec /\ WF_appVars(Poll /\ UNCHANGED dashboardVars)
=============================================================================
