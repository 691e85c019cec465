-------------------------- MODULE ContactProperties --------------------------
(***************************************************************************)
(* What the two nodes of a contact must get right, as properties of the    *)
(* specification in Contact.                                               *)
(***************************************************************************)
EXTENDS Contact

InFlight == {"PROPOSED", "ACCEPTED", "COMMITTED"}

(* The lock of a contact is neither lost nor leaked: n is busy with an     *)
(* operation exactly while that operation is in flight at n, so at most    *)
(* one ever is (PROTOCOL 6.3).  A release in any of the nine handlers that *)
(* end an operation, or one too many, would break it.                      *)
BusyLock ==
    \A n \in Node :
        /\ \A t \in TransferId :
              xfer[n][t].st \in InFlight <=> contact[n].busy = t
        /\ \A a \in AdjustId : contact[n].pend = a <=> contact[n].busy = a

(* Every transaction balances: the five accounts of a node that a contact  *)
(* touches always sum to zero, and the wallet held for the peer is never   *)
(* negative (ledger.Append).                                               *)
Conservation ==
    \A n \in Node :
        LET b == bal[n]
        IN  /\ b["member"] + b["others"] + b["wallet"] + b["issuance"] + b["treasury"] = 0
            /\ b["wallet"] >= 0

(* The reserve that prices transfers is the reserve in the ledger: on an   *)
(* open contact MyReserveOfPeer equals the balance of the node wallet.     *)
WalletIsReserve ==
    \A n \in Node : ~contact[n].closed => contact[n].mine = bal[n]["wallet"]

(* "An accept is a promise that commit cannot fail" (PROTOCOL 7.1): while  *)
(* the payee holds a transfer ACCEPTED, its wallet covers the payout,      *)
(* whatever other operations on the contact come in between.  The one way  *)
(* to break the promise is to close the contact, which RetireReserve asks  *)
(* for before it empties the wallet (contact.go:306).                      *)
PromiseKept ==
    \A n \in Node, t \in TransferId :
        xfer[n][t].st = "ACCEPTED" => xfer[n][t].dst <= bal[n]["wallet"] \/ contact[n].closed

(* Two nodes that have applied the same operations have mirrored reserves. *)
MirroredReserves ==
    contact[A].ops = contact[B].ops /\ contact[A].ops # <<>> =>
        /\ contact[A].mine = contact[B].theirs
        /\ contact[A].theirs = contact[B].mine

(* op_seq alone decides the price: a proposal that reaches a usable, idle  *)
(* payee at its own op_seq is priced there exactly as the payer priced it, *)
(* so price-mismatch is never the reason of a rejection between two nodes  *)
(* of this implementation.                                                 *)
SeqDecidesPrice ==
    \A n \in Node :
        LET m == Head(net[n])
            c == contact[n]
        IN  Incoming(n, "transfer.propose") /\ Open(c) /\ Free(c) /\ m.seq = OpSeq(c)
                => PoolPrice(c.theirs, c.mine, m.src) = m.dst

(* The payee pays out only what the payer has already paid in.             *)
NoPayoutWithoutPayment ==
    \A n \in Node, t \in TransferId :
        xfer[n][t].st = "SETTLED" /\ ~xfer[n][t].out =>
            LET p == xfer[Peer(n)][t]
            IN  p.out /\ p.st \in {"COMMITTED", "SETTLED"}
                /\ p.src = xfer[n][t].src /\ p.dst = xfer[n][t].dst

(* Once paid in, the payout is never refused but by the payee's own clock: *)
(* whatever is aborted, crosses or gets lost, a COMMITTED transfer of the  *)
(* payer is ACCEPTED, SETTLED or EXPIRED at the payee.  Only a payee that  *)
(* has closed the contact, and returned the reserve to issuance before the *)
(* commit came, is left with a payout its ledger refuses.                  *)
CommitIsAccepted ==
    \A n \in Node, t \in TransferId :
        xfer[n][t].st = "COMMITTED" /\ xfer[n][t].out =>
            LET p == Peer(n)
            IN  \/ xfer[p][t].st \in {"ACCEPTED", "SETTLED", "EXPIRED"}
                \/ xfer[p][t].st = "COMMITTED" /\ contact[p].closed

(* No trade makes the pool of a node worse: the product of its reserves    *)
(* only shrinks by a reserve adjustment.                                   *)
TradeKeepsK ==
    [][\A n \in Node :
          contact[n].delta = contact'[n].delta /\ contact[n].applied = contact'[n].applied
              => contact'[n].mine * contact'[n].theirs >= contact[n].mine * contact[n].theirs]_vars

(* Both nodes apply one history of operations: see SharedHistory.          *)
History ==
    INSTANCE SharedHistory WITH
        Party <- Node,
        hist <- IF Len(contact[A].ops) > Len(contact[B].ops)
                THEN contact[A].ops ELSE contact[B].ops,
        at <- [n \in Node |-> Len(contact[n].ops)]

OneHistory == History!Spec

(* A peer that lags or leads, or a checkpoint that is old by the time it   *)
(* is compared, never looks like a fork.  The only checkpoint that does is *)
(* one the peer made before its seed operation: ReconcilePeer compares its *)
(* empty root although nothing has forked.                                 *)
OnlySeedlessLooksForked ==
    \A n \in Node : \A k \in CheckpointsOf(Peer(n)) :
        Contradicts(contact[n], k) => k.root = <<>>

-----------------------------------------------------------------------------
(***************************************************************************)
(* Liveness, under FairSpec.                                               *)
(***************************************************************************)

(* No transfer keeps a contact busy for ever.                              *)
LockIsFreed ==
    \A n \in Node, t \in TransferId : contact[n].busy = t ~> contact[n].busy # t

(* The payee has booked the commit as a state, but its ledger has refused  *)
(* the payout: it stays COMMITTED, and so does the payer, who gets an      *)
(* error instead of a receipt.                                             *)
PayoutRefused(t) ==
    \E p \in Node : ~xfer[p][t].out /\ xfer[p][t].st = "COMMITTED" /\ contact[p].closed

(* A committed transfer hangs when the payee has expired it, or has closed *)
(* the contact and retired the reserve it would be paid from; a reserve    *)
(* adjustment when the peer has refused it, or when it withdraws what its  *)
(* proposer has closed the contact over and retired.  Both hang when an    *)
(* envelope got lost.                                                      *)
Hangs(n, op) ==
    IF op \in TransferId
    THEN xfer[n][op].st = "COMMITTED"
         /\ (lost > 0 \/ xfer[Peer(n)][op].st = "EXPIRED" \/ PayoutRefused(op))
    ELSE \/ lost > 0 \/ op \notin contact[Peer(n)].applied
         \/ contact[n].closed /\ contact[n].delta < 0

(* A proposal of a contact hangs when the peer accepts none, when it has   *)
(* proposed one itself, or when an envelope got lost.                      *)
Unopened(n) ==
    AutoAcceptSeed[Peer(n)] = 0 \/ contact[Peer(n)].id = Peer(n) \/ lost > 0

(* Whatever else is begun ends at both nodes, by a receipt, an abort, a    *)
(* rejection, the sweeper or a reserve.accept, and every other proposed    *)
(* contact becomes active, however operations cross, whatever clock runs   *)
(* ahead and whoever closes.                                               *)
OperationEnds ==
    \A n \in Node :
        /\ \A op \in OpId : contact[n].busy = op ~> contact[n].busy # op \/ Hangs(n, op)
        /\ contact[n].status = "pending" ~> contact[n].status = "active" \/ Unopened(n)

=============================================================================
