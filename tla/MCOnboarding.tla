---------------------------- MODULE MCOnboarding -----------------------------
(* Instances of Onboarding for TLC. *)
EXTENDS Onboarding, TLC

CONSTANTS a1, a2, c1, c2

\* The second application is of another customer, who has a row.
OwnCustomer == (a1 :> c1) @@ (a2 :> c2)
=============================================================================
