------------------------------ MODULE ErrorSets ------------------------------
(***************************************************************************)
(* The validators of the repository append a message to a list under a     *)
(* condition; here they return the set of the kinds of errors.              *)
(***************************************************************************)
When(condition, error) == IF condition THEN {error} ELSE {}
=============================================================================
