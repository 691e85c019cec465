------------------------------ MODULE Community ------------------------------
(***************************************************************************)
(* The members of one node and their money: joining, the universal         *)
(* dividend, payments, and leaving with one of four choices for the        *)
(* balance (members.go, leave.go, pay.go, node.go of src/node over         *)
(* ledger.go).                                                             *)
(*                                                                         *)
(* The node has one peer.  Of a transfer to or from it only the two        *)
(* moments that touch members appear: when the member is checked, and when *)
(* the ledger is written; module Contact has everything in between.        *)
(***************************************************************************)
EXTENDS Integers, FiniteSets, SequencesExt

CONSTANTS
    Member,          \* names a member may have
    Founders,        \* the members in the configuration
    Grants,          \* grants with which founders and members start
    Seed,            \* our reserve of the peer at the start
    Amounts,         \* amounts of payments and transfers
    Deltas,          \* changes of the reserve
    CPeriodPpm, GenesisUD,   \* the configuration's dividend policy
    BatchUD,         \* ways to book a dividend the configuration may choose
    None,            \* no transfer
    MaxIssues        \* how often the supply changes by a dividend or reserve

ASSUME MemberAssumption ==
    /\ Founders \subseteq Member /\ IsFiniteSet(Member)
    /\ Member \cap {"issuance", "fund", "wallet", None} = {}
ASSUME MoneyAssumption ==
    /\ Grants \subseteq Nat /\ Seed \in Nat
    /\ Amounts \subseteq Nat \ {0} /\ Deltas \subseteq Int \ {0}
ASSUME PolicyAssumption == CPeriodPpm \in Nat /\ GenesisUD \in Nat /\ BatchUD \subseteq BOOLEAN
ASSUME BoundAssumption == MaxIssues \in Nat

VARIABLES
    status,      \* status[m]: "unknown", "active" or "left"
    balance,     \* balance[a] of every account
    currentUD,   \* the dividend the node publishes
    transfer,    \* the transfer in flight over the contact, or None
    closed,      \* the contact is closed
    issues       \* dividends and reserve changes so far

vars == <<status, balance, currentUD, transfer, closed, issues>>

(* "issuance" stands for issuance and treasury, which every computation    *)
(* adds up; "fund" is FundRedistribute, "wallet" the node wallet.          *)
Account == Member \cup {"issuance", "fund", "wallet"}
StandardWeight == 1000000
Million == 1000000

-----------------------------------------------------------------------------
(* Ledger.Append: a transaction maps the accounts it touches to amounts; a *)
(* refused one changes nothing.                                            *)
EntrySum(tx) == FoldFunction(LAMBDA x, y : x + y, 0, tx)

(* Slip: the wallet may become negative.                                   *)
AppendAnyWallet(bal, tx) == EntrySum(tx) = 0

AppendOK(bal, tx) ==
    /\ EntrySum(tx) = 0
    /\ "wallet" \in DOMAIN tx => bal["wallet"] + tx["wallet"] >= 0

Posted(bal, tx) ==
    IF AppendOK(bal, tx)
    THEN [a \in Account |-> bal[a] + IF a \in DOMAIN tx THEN tx[a] ELSE 0]
    ELSE bal

Move(from, to, n) == [a \in {from, to} |-> IF a = from THEN -n ELSE n]

(* A list of transactions, appended until the ledger refuses one.          *)
PostAll(bal, txs) ==
    FoldLeft(LAMBDA acc, tx : IF acc.ok /\ AppendOK(acc.bal, tx)
                              THEN [bal |-> Posted(acc.bal, tx), ok |-> TRUE]
                              ELSE [acc EXCEPT !.ok = FALSE],
             [bal |-> bal, ok |-> TRUE], txs)

MoneySupply(bal) == -bal["issuance"]

-----------------------------------------------------------------------------
Active(st) == {m \in Member : st[m] = "active"}

(* computeUDBase: no dividend without members or over a negative supply.   *)
UDBase(st, bal) ==
    LET weightTotal == StandardWeight * Cardinality(Active(st))
        base == (MoneySupply(bal) * CPeriodPpm) \div weightTotal
    IN  IF weightTotal = 0 \/ MoneySupply(bal) < 0 THEN 0
        ELSE IF base < GenesisUD THEN GenesisUD ELSE base

RecipientUD(udBase) == (udBase * StandardWeight) \div Million

(* Slip: the published dividend is computed before the change.             *)
SetMembersEarly(st, bal) ==
    /\ status' = st /\ balance' = bal
    /\ currentUD' = UDBase(status, bal)

(* A change of the members, and the dividend published from then on.       *)
SetMembers(st, bal) ==
    /\ status' = st /\ balance' = bal
    /\ currentUD' = UDBase(st, bal)

(* AddMember, with a grant from issuance.                                  *)
AddMember(m, grant) ==
    /\ status[m] = "unknown"
    /\ SetMembers([status EXCEPT ![m] = "active"],
                  Posted(balance, Move("issuance", m, grant)))
    /\ UNCHANGED <<transfer, closed, issues>>

(* DeactivateMember: of any known member, its balance stays.               *)
DeactivateMember(m) ==
    /\ status[m] # "unknown"
    /\ SetMembers([status EXCEPT ![m] = "left"], balance)
    /\ UNCHANGED <<transfer, closed, issues>>

Reactivate(m) ==
    /\ status[m] = "left"
    /\ SetMembers([status EXCEPT ![m] = "active"], balance)
    /\ UNCHANGED <<transfer, closed, issues>>

-----------------------------------------------------------------------------
Heirs(m) == Active(status) \ {m}

(* Where the balance of m may go: destroyed, shared out, or given.         *)
Destinations(m) == {"issuance", "fund"} \cup Heirs(m)

(* Slip: an overdrawn balance is moved as well.                            *)
WorthMovingAny(m) == balance[m] # 0

WorthMoving(m) == balance[m] > 0

(* Leave: an overdrawn balance stays.                                      *)
LeaveTo(m, to) ==
    /\ status[m] = "active" /\ to \in Destinations(m)
    /\ SetMembers([status EXCEPT ![m] = "left"],
                  IF WorthMoving(m) THEN Posted(balance, Move(m, to, balance[m]))
                  ELSE balance)
    /\ UNCHANGED <<transfer, closed, issues>>

LeaveKeep(m) ==
    /\ status[m] = "active"
    /\ SetMembers([status EXCEPT ![m] = "left"], balance)
    /\ UNCHANGED <<transfer, closed, issues>>

-----------------------------------------------------------------------------
(* Slip: everyone who ever was a member gets the dividend.                 *)
RecipientsKnown == {m \in Member : status[m] # "unknown"}

Recipients == Active(status)

(* One transaction for all of a dividend, or one per member.               *)
DividendTxs(ud, batch) ==
    LET amounts == [m \in Recipients |-> RecipientUD(ud)]
    IN  IF ud = 0 \/ Recipients = {} THEN <<>>
        ELSE IF batch
             THEN <<[a \in Recipients \cup {"issuance"} |->
                       IF a = "issuance" THEN -EntrySum(amounts) ELSE amounts[a]]>>
             ELSE LET order == SetToSeq(Recipients)
                  IN  [i \in DOMAIN order |-> Move("issuance", order[i], amounts[order[i]])]

(* Slip: the fund is emptied, the remainder of the division included.      *)
RedistributeTxsAll ==
    LET share == balance["fund"] \div Cardinality(Recipients)
    IN  IF balance["fund"] <= 0 \/ Recipients = {} \/ share = 0 THEN <<>>
        ELSE <<[a \in Recipients \cup {"fund"} |->
                  IF a = "fund" THEN -balance["fund"] ELSE share]>>

(* redistributeLocked: equal shares; the remainder stays in the fund.      *)
RedistributeTxs ==
    LET share == balance["fund"] \div Cardinality(Recipients)
    IN  IF balance["fund"] <= 0 \/ Recipients = {} \/ share = 0 THEN <<>>
        ELSE <<[a \in Recipients \cup {"fund"} |->
                  IF a = "fund" THEN -(share * Cardinality(Recipients)) ELSE share]>>

(* RunUD.  A refused transaction ends it: what was posted stays, and the   *)
(* published dividend is not computed again.                               *)
RunUD(batch) ==
    LET ud == UDBase(status, balance)
        result == PostAll(balance, DividendTxs(ud, batch) \o RedistributeTxs)
    IN  /\ ud > 0 /\ issues < MaxIssues
        /\ balance' = result.bal
        /\ currentUD' = IF result.ok THEN UDBase(status, result.bal) ELSE currentUD
        /\ issues' = issues + 1
        /\ UNCHANGED <<status, transfer, closed>>

-----------------------------------------------------------------------------
(* Pay, between two members.                                               *)
Pay(m, to, n) ==
    /\ m # to /\ {m, to} \subseteq Active(status)
    /\ balance[m] >= n
    /\ balance' = Posted(balance, Move(m, to, n))
    /\ UNCHANGED <<status, currentUD, transfer, closed, issues>>

(* StartTransfer: the balance is checked, and nothing is set aside.        *)
StartTransfer(m, n) ==
    /\ transfer = None /\ ~closed
    /\ status[m] = "active" /\ balance[m] >= n
    /\ transfer' = [from |-> m, to |-> "wallet", amount |-> n]
    /\ UNCHANGED <<status, balance, currentUD, closed, issues>>

(* handleTransferPropose: the receiver is checked; prices stay below our   *)
(* reserve.                                                                *)
AcceptTransfer(m, n) ==
    /\ transfer = None /\ ~closed
    /\ status[m] = "active" /\ n < balance["wallet"]
    /\ transfer' = [from |-> "wallet", to |-> m, amount |-> n]
    /\ UNCHANGED <<status, balance, currentUD, closed, issues>>

(* handleTransferAccept and handleTransferCommit write the ledger, whether *)
(* the member is still one or not.                                         *)
CommitTransfer ==
    /\ transfer # None
    /\ balance' = Posted(balance, Move(transfer.from, transfer.to, transfer.amount))
    /\ transfer' = None
    /\ UNCHANGED <<status, currentUD, closed, issues>>

(* Rejected, aborted or expired.                                           *)
DropTransfer ==
    /\ transfer # None /\ transfer' = None
    /\ UNCHANGED <<status, balance, currentUD, closed, issues>>

(* handleReserveAccept: the supply changes, the published dividend does    *)
(* not.  The contact is free of transfers until then.                      *)
AdjustReserve(d) ==
    /\ transfer = None /\ ~closed /\ issues < MaxIssues
    /\ balance["wallet"] + d >= 0
    /\ balance' = Posted(balance, Move("issuance", "wallet", d))
    /\ issues' = issues + 1
    /\ UNCHANGED <<status, currentUD, transfer, closed>>

(* CloseContact, and RetireReserve at some later time: a transfer may      *)
(* still be in flight, and its commit is then refused.                     *)
CloseContact ==
    /\ ~closed /\ closed' = TRUE
    /\ UNCHANGED <<status, balance, currentUD, transfer, issues>>

RetireReserve ==
    /\ closed /\ balance["wallet"] > 0
    /\ balance' = Posted(balance, Move("wallet", "issuance", balance["wallet"]))
    /\ UNCHANGED <<status, currentUD, transfer, closed, issues>>

-----------------------------------------------------------------------------
(* NewNode with its founders, and a contact that has been seeded.          *)
Init ==
    \E grant \in [Founders -> Grants] :
        /\ status = [m \in Member |-> IF m \in Founders THEN "active" ELSE "unknown"]
        /\ balance = [a \in Account |->
                        CASE a \in Founders -> grant[a]
                          [] a = "wallet" -> Seed
                          [] a = "issuance" -> -(EntrySum(grant) + Seed)
                          [] OTHER -> 0]
        /\ currentUD = UDBase(status, [balance EXCEPT !["issuance"] = @ + Seed])
        /\ transfer = None /\ closed = FALSE /\ issues = 0

Next ==
    \/ \E m \in Member, n \in Grants : AddMember(m, n)
    \/ \E m \in Member : DeactivateMember(m) \/ Reactivate(m) \/ LeaveKeep(m)
    \/ \E m \in Member, to \in Account : LeaveTo(m, to)
    \/ \E m, to \in Member, n \in Amounts : Pay(m, to, n)
    \/ \E m \in Member, n \in Amounts : StartTransfer(m, n) \/ AcceptTransfer(m, n)
    \/ CommitTransfer \/ DropTransfer
    \/ \E d \in Deltas : AdjustReserve(d)
    \/ CloseContact \/ RetireReserve
    \/ \E batch \in BatchUD : RunUD(batch)

Spec == Init /\ [][Next]_vars
=============================================================================
