------------------------------- MODULE MCDict -------------------------------
(* Dict for TLC: the commands of one executor on a few keys.               *)
EXTENDS Dict
=============================================================================
