------------------------------ MODULE MCGateway -----------------------------
(***************************************************************************)
(* A small instance of Gateway: see the configurations for the upstreams,  *)
(* connections and bounds of each run.                                     *)
(***************************************************************************)
EXTENDS Gateway
=============================================================================
