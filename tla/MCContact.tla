------------------------------ MODULE MCContact ------------------------------
(***************************************************************************)
(* Values for the constants of Contact.  The seeds and amounts are chosen  *)
(* so that prices are small but neither dust nor exact: 20 against 30, a   *)
(* payment of 5 buys 6, a payment of 8 buys 8.                             *)
(***************************************************************************)
EXTENDS ContactProperties, TLC

MCAutoAcceptSeed == (A :> 20 @@ B :> 30)   \* both nodes accept contacts
MCOnlyBAccepts == (A :> 0 @@ B :> 30)      \* A refuses them
MCGrant == (A :> 12 @@ B :> 9)
MCLargeGrant == (A :> 60 @@ B :> 46)    \* for a payment of 45; only A can pay 50
MCNoDelta == {}
MCWithdraw == {-18}                        \* nearly the whole reserve
MCTopUp == {4}

(***************************************************************************)
(* Once a contact is open its two nodes run the same code in the same      *)
(* roles, so a call that one node makes shows what the call does: the runs *)
(* let each of the calls they are not about be made by one node only.      *)
(***************************************************************************)
MCCoreCalls == (A :> {"expire"} @@ B :> {"expire", "close", "retire"})
MCFaultCalls == (A :> {"abort", "expire", "pay", "close"}
                 @@ B :> {"expire", "retire", "reconcile"})
MCPinnedCalls == (A :> {"expire"} @@ B :> {"expire"})

Ids == Permutations(TransferId) \cup Permutations(AdjustId)
=============================================================================
