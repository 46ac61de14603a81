------------------------------ MODULE MCIoMux ------------------------------
(* IoMux for TLC: a few connections and fewer descriptors.                 *)
EXTENDS IoMux
=============================================================================
