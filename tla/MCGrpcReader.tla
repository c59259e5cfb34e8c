---------------------------- MODULE MCGrpcReader ----------------------------
(* GrpcReader on small streams.                                            *)
EXTENDS GrpcReader

ValidInvalidNotAllowed == <<"valid", "invalid", "notAllowed">>
OneValid == <<"valid">>
=============================================================================
