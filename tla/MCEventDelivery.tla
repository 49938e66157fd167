-------------------------- MODULE MCEventDelivery --------------------------
(***************************************************************************)
(* Instances of EventDelivery for TLC.                                     *)
(***************************************************************************)
EXTENDS EventDelivery, TLC

\* The instances of the server are alike.
AnyInstance == Permutations(Instances)
=============================================================================
