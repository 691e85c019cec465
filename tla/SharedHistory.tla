---------------------------- MODULE SharedHistory ----------------------------
(***************************************************************************)
(* What a contact promises its two parties: one history of operations,     *)
(* which both apply in the same order, each operation once, and never more *)
(* than one operation apart.  `hist` is the history, at[p] says how much   *)
(* of it party p has applied.  (PROTOCOL 8.2: the channel hash folds in    *)
(* "every committed operation", identically on both sides.)                *)
(***************************************************************************)
EXTENDS Integers, Sequences

CONSTANTS Party
VARIABLES hist, at

Init == hist = <<>> /\ at = [p \in Party |-> 0]

(* A party applies an operation nobody has applied before: only when all   *)
(* parties have applied everything there is.                               *)
Lead(p) ==
    /\ \A q \in Party : at[q] = Len(hist)
    /\ Len(hist') = Len(hist) + 1
    /\ SubSeq(hist', 1, Len(hist)) = hist
    /\ \A i \in 1..Len(hist) : hist'[i] # hist'[Len(hist')]
    /\ at' = [at EXCEPT ![p] = @ + 1]

(* A party applies the operation the other one is ahead by.                *)
Follow(p) ==
    /\ at[p] < Len(hist)
    /\ at' = [at EXCEPT ![p] = @ + 1]
    /\ UNCHANGED hist

Next == \E p \in Party : Lead(p) \/ Follow(p)

Spec == Init /\ [][Next]_<<hist, at>>
=============================================================================
