---------------------------- MODULE MCHttpReader ----------------------------
(* HttpReader on small streams.                                            *)
EXTENDS HttpReader

ValidInvalid == <<"valid", "invalid">>
InvalidValidValid == <<"invalid", "valid", "valid">>
=============================================================================
