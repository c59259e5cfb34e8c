------------------------------ MODULE MCDriver ------------------------------
(* Driver with two events that are both written, whatever a validator      *)
(* would say of them.                                                      *)
EXTENDS Driver

ValidValid == <<"valid", "valid">>
=============================================================================
