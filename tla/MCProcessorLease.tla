-------------------------- MODULE MCProcessorLease --------------------------
(***************************************************************************)
(* ProcessorLease with a unit of 20 seconds: maxDuration is 3, the lease 6 *)
(* and the clocks of two instances may be 40 seconds apart.                *)
(***************************************************************************)
EXTENDS ProcessorLease

=============================================================================
