----------------------------- MODULE MCCommunity -----------------------------
(***************************************************************************)
(* Values for the constants of Community.                                  *)
(***************************************************************************)
EXTENDS CommunityProperties, TLC

MCDeltas == {-2}

(* The order in which SetToSeq lists members makes no difference.          *)
Interchangeable == Permutations(Founders)
=============================================================================
