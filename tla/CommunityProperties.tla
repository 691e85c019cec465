------------------------- MODULE CommunityProperties -------------------------
(***************************************************************************)
(* What the members of a node may rely on, as properties of Community.     *)
(***************************************************************************)
EXTENDS Community

Transfer == [from : Member \cup {"wallet"}, to : Member \cup {"wallet"}, amount : Amounts]

(* The type invariant.  The wallet and the fund are never negative (the    *)
(* wallet by the check of Append), members may be.                         *)
TypeOK ==
    /\ status \in [Member -> {"unknown", "active", "left"}]
    /\ balance \in [Account -> Int]
    /\ balance["fund"] \in Nat /\ balance["wallet"] \in Nat
    /\ currentUD \in Nat
    /\ transfer \in Transfer \cup {None}
    /\ closed \in BOOLEAN /\ issues \in 0..MaxIssues

(* The transfer in flight moves money of m in this step.                   *)
Commits(m) == transfer # None /\ transfer' = None /\ m \in {transfer.from, transfer.to}

(* Whoever has left is out: no dividend, gift, payment or share of the     *)
(* fund reaches the account, and nobody spends from it.  Only a transfer   *)
(* started or accepted before still goes through (Leave, RunUD, Pay,       *)
(* redistributeLocked and the two commits of transfer.go).                 *)
LeftIsFinal ==
    [][\A m \in Member :
          (status[m] = "left" /\ balance'[m] # balance[m]) => Commits(m)]_vars

(* A dividend is all or nothing, although unbatched it is one transaction  *)
(* per member: every active member gets the same, namely the dividend and  *)
(* a share of the fund; the supply grows by the dividends and nothing      *)
(* else; and what is left in the fund is less than one unit each (RunUD,   *)
(* redistributeLocked).                                                    *)
Issued == issues' > issues /\ balance'["wallet"] = balance["wallet"]
DividendIsWhole ==
    [][Issued =>
        LET n == Cardinality(Active(status))
            ud == UDBase(status, balance)
            share == balance["fund"] \div n
        IN  /\ \A m \in Active(status) : balance'[m] = balance[m] + ud + share
            /\ balance'["fund"] \in 0..(n - 1)
            /\ MoneySupply(balance') = MoneySupply(balance) + n * ud]_vars

(* The published dividend is the one the next RunUD pays ("recipients      *)
(* receive weight * current_ud each ud_period"), through every change of   *)
(* members and money, until the reserve of the contact changes: only       *)
(* seedLedger, handleReserveAccept and RetireReserve forget currentUD.     *)
Published(ud, st, bal) == ud = UDBase(st, bal)
StaleOnlyByReserve ==
    [][(/\ Published(currentUD, status, balance)
        /\ ~Published(currentUD', status', balance'))
       => /\ balance'["wallet"] # balance["wallet"]
          /\ balance'["issuance"] # balance["issuance"]]_vars

(* The dividend never dries up for a reason the members cannot mend: with  *)
(* anybody left to receive one, it is zero only while someone is in debt   *)
(* (computeUDBase refuses a negative supply, which retiring the reserve    *)
(* brings about when members have overdrawn).                              *)
NoDividendNeedsDebt ==
    UDBase(status, balance) = 0 => Active(status) = {} \/ \E m \in Member : balance[m] < 0

(* Nobody is put into debt but by a transfer of their own, whose balance   *)
(* was checked when it started: not by a payment, and not by someone in    *)
(* debt who leaves everything to them (Pay, Leave, handleTransferAccept).  *)
DebtOnlyByTransfer ==
    [][\A m \in Member :
          (balance'[m] < balance[m] /\ balance'[m] < 0)
          => Commits(m) /\ transfer.from = m]_vars
=============================================================================
