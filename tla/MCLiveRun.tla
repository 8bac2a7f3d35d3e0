------------------------------ MODULE MCLiveRun ------------------------------
(***************************************************************************)
(* A small instance of LiveRun for TLC.                                    *)
(***************************************************************************)
EXTENDS LiveRun

MCCollections ==
    {[kept |-> 2, linked |-> TRUE, onDomain |-> TRUE],
     [kept |-> 3, linked |-> TRUE, onDomain |-> TRUE],
     [kept |-> 1, linked |-> TRUE, onDomain |-> TRUE],
     [kept |-> 2, linked |-> TRUE, onDomain |-> FALSE]}
=============================================================================
