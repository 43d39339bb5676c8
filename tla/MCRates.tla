------------------------------ MODULE MCRates ------------------------------
(* A getter, a converter and the nightly job, with a fetch and a write of  *)
(* a unit of time each and a TTL of two.                                   *)
EXTENDS Rates
=============================================================================
