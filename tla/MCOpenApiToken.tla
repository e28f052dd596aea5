---------------------------- MODULE MCOpenApiToken ----------------------------
(***************************************************************************)
(* A token that lives no longer than the margin, one that outlives it by a *)
(* little and one by more than a request can take.                         *)
(***************************************************************************)
EXTENDS OpenApiToken

MCLifetimes == {2, 4, 8}
=============================================================================
