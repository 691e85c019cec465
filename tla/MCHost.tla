------------------------------- MODULE MCHost -------------------------------
(***************************************************************************)
(* Host with requests that differ in nothing but their names.              *)
(***************************************************************************)
EXTENDS HostProperties, TLC

Interchangeable == Permutations(Request)
=============================================================================
