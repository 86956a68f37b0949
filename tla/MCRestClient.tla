---------------------------- MODULE MCRestClient ----------------------------
(* Instances of RestClient for TLC. *)
EXTENDS RestClient

CONSTANTS k1, k2, r1, r2, r3
=============================================================================
