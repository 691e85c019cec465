------------------------------- MODULE Contact -------------------------------
(***************************************************************************)
(* One contact between two nodes: the bilateral pool of PROTOCOL sections  *)
(* 6 to 8, as src/node implements it.  Each node keeps its own record of   *)
(* the contact (type Contact), of the transfers on it (type Transfer) and  *)
(* of the five ledger accounts the contact touches; the nodes share        *)
(* nothing but the envelopes they send each other.                         *)
(*                                                                         *)
(* Every handler and every operator call runs under the node's mutex, so   *)
(* each is one action.  The outbox, the push worker and the receiver's     *)
(* duplicate and sequence checks together deliver the envelopes of one     *)
(* direction in order, each at most once: net[n] is that queue.  Up to     *)
(* MaxLoss envelopes may never arrive (an expired, stale or unverifiable   *)
(* envelope is dropped by the receiver, and the sender never learns it).   *)
(***************************************************************************)
EXTENDS Pool, Sequences, FiniteSets

CONSTANTS
    A, B,            \* the two nodes
    TransferId,      \* the transfer ids newID may return
    AdjustId,        \* the adjust ids newID may return
    None,            \* no operation, no id, no checkpoint
    Seeds,           \* seeds an operator may offer in OpenContact
    AutoAcceptSeed,  \* Config.AutoAcceptSeed of each node (0: refuse)
    Grant,           \* opening balance of the members of each node
    SrcAmounts,      \* amounts a member may transfer to the peer
    PayAmounts,      \* amounts a member may pay inside the node
    Deltas,          \* reserve adjustments an operator may propose
    Calls,           \* Calls[n]: which of the optional calls below n makes
    MaxLoss          \* how many envelopes may get lost

Node == {A, B}
OpId == TransferId \cup AdjustId
OptionalCalls == {"abort", "pay", "close", "retire", "expire", "reconcile"}

ASSUME NodeAssumption == A # B /\ None \notin OpId \cup Node
ASSUME IdAssumption == TransferId \cap AdjustId = {}
ASSUME SeedAssumption == /\ Seeds \subseteq Nat \ {0}
                         /\ AutoAcceptSeed \in [Node -> Nat]
                         /\ Grant \in [Node -> Nat]
ASSUME AmountAssumption == /\ SrcAmounts \subseteq Nat \ {0}
                           /\ PayAmounts \subseteq Nat \ {0}
                           /\ Deltas \subseteq Int \ {0}
ASSUME CallAssumption == Calls \in [Node -> SUBSET OptionalCalls] /\ MaxLoss \in Nat

VARIABLES
    contact,  \* contact[n]: n's record of the contact
    xfer,     \* xfer[n][t]: n's record of transfer t
    bal,      \* bal[n][a]: balance of account a in n's ledger
    net,      \* net[n]: the envelopes on their way to n
    late,     \* late[n]: transfers whose `expires` has passed on n's clock
    used,     \* ids newID has returned so far
    lost      \* number of envelopes lost so far

vars == <<contact, xfer, bal, net, late, used, lost>>

Peer(n) == IF n = A THEN B ELSE A

Account == {"member", "others", "wallet", "issuance", "treasury"}

-----------------------------------------------------------------------------
(***************************************************************************)
(* The contact record.  `id` is the contact id: a node opens at most one   *)
(* contact with a peer, so the proposing node names it, and IAmProposer is *)
(* id = n.  `ops` is the sequence of operations folded into the channel    *)
(* hash; Roots[i] is its prefix of length i+1 (equal hashes mean equal     *)
(* histories), and a contact without a seed has the zero root and op_seq 0.*)
(***************************************************************************)
OpSeq(c) == IF c.ops = <<>> THEN 0 ELSE Len(c.ops) - 1

SeedOp(id, p, r) == <<"seed", id, p, r>>
TransferOp(t, src, dst) == <<"transfer", t, src, dst>>
AdjustOp(a, delta) == <<"adjust", a, delta, 0>>

Op == ({"seed"} \X Node \X Nat \X Nat)
      \cup ({"transfer"} \X TransferId \X Nat \X Nat)
      \cup ({"adjust"} \X AdjustId \X Int \X {0})

NoContact ==
    [status |-> "none", id |-> None, seed |-> 0, closed |-> FALSE,
     diverged |-> FALSE, mine |-> 0, theirs |-> 0, ops |-> <<>>,
     busy |-> None, pend |-> None, delta |-> 0, applied |-> {}]

NoTransfer == [st |-> "NONE", out |-> FALSE, src |-> 0, dst |-> 0]

Open(c) == c.status = "active" /\ ~c.closed

(* Envelopes.  `error` carries a code that its receiver only logs.         *)
Error == [type |-> "error"]
TransferMsg(type, t) == [type |-> type, id |-> t]

(* Envelope m from n goes to the end of the peer's queue.                  *)
Send(n, m) == net' = [net EXCEPT ![Peer(n)] = Append(@, m)]

Incoming(n, type) == net[n] # <<>> /\ Head(net[n]).type = type

(* n is done with the envelope at the head of its queue and answers with   *)
(* the envelopes of `replies` (none or one).                               *)
Reply(n, replies) ==
    net' = [net EXCEPT ![n] = Tail(@), ![Peer(n)] = @ \o replies]

-----------------------------------------------------------------------------
(***************************************************************************)
(* The ledger.  Each transaction of these modules has two entries that     *)
(* cancel: `amount` leaves account `from` for account `to`.  Append refuses*)
(* a transaction that would leave the node wallet negative.                *)
(***************************************************************************)
Moved(b, from, to, amount) ==
    [b EXCEPT ![from] = @ - amount, ![to] = @ + amount]

AppendOKAlways(b, from, to, amount) == TRUE    \* slip: no wallet check

AppendOK(b, from, to, amount) ==
    "wallet" \in {from, to} => Moved(b, from, to, amount)["wallet"] >= 0

-----------------------------------------------------------------------------
(***************************************************************************)
(* Small steps the handlers share.                                         *)
(***************************************************************************)

FreeAlways(c) == TRUE                          \* slip: no busy check
Free(c) == c.busy = None

(* c.Busy, c.BusyTransfer = false, "" when the operation that ended is the *)
(* one that holds the lock.                                                *)
ReleaseNever(c, t) == c                        \* slip: the lock is kept
Release(c, t) == IF c.busy = t THEN [c EXCEPT !.busy = None] ELSE c

Lock(c, op) == [c EXCEPT !.busy = op]

(* expireIfDueLocked acts on the transfers in Due(n) ...                   *)
DueIfProposed(n) ==                            \* slip: ACCEPTED never expires
    {t \in late[n] : xfer[n][t].st = "PROPOSED"}
Due(n) == {t \in late[n] : Can(xfer[n][t].st, "expire")}

(* ... turning them EXPIRED and releasing the lock one of them holds.      *)
ExpireTransfers(x, D) ==
    [t \in TransferId |->
        IF t \in D THEN [x[t] EXCEPT !.st = "EXPIRED"] ELSE x[t]]
ExpireLock(c, D) == IF c.busy \in D THEN [c EXCEPT !.busy = None] ELSE c

(* The transfers releaseIfBusyExpired expires before n refuses as busy.    *)
BusyDue(n) == {t \in Due(n) : contact[n].busy = t}

(* Pool updates of a committed transfer.                                   *)
PaidOut(c, t, src, dst) ==
    [c EXCEPT !.mine = @ + src, !.theirs = @ - dst,
              !.ops = Append(@, TransferOp(t, src, dst))]

PaidInSwapped(c, t, src, dst) ==               \* slip: src and dst swapped
    [c EXCEPT !.theirs = @ + dst, !.mine = @ - src, !.busy = None,
              !.ops = Append(@, TransferOp(t, src, dst))]
PaidIn(c, t, src, dst) ==
    [c EXCEPT !.theirs = @ + src, !.mine = @ - dst, !.busy = None,
              !.ops = Append(@, TransferOp(t, src, dst))]

(* The two sides of a reserve adjustment.                                  *)
AdjustMirrored(c, a, delta) ==
    [c EXCEPT !.theirs = @ + delta, !.ops = Append(@, AdjustOp(a, delta)),
              !.applied = @ \cup {a}]

Adjusted(c) ==
    [c EXCEPT !.mine = @ + c.delta, !.ops = Append(@, AdjustOp(c.pend, c.delta)),
              !.busy = None, !.pend = None, !.delta = 0]

(* An active contact after its seed operation.                             *)
SeedActive(c, id, p, r, mine, theirs) ==
    [c EXCEPT !.status = "active", !.id = id, !.seed = p, !.mine = mine,
              !.theirs = theirs, !.ops = <<SeedOp(id, p, r)>>]

-----------------------------------------------------------------------------
(***************************************************************************)
(* Opening a contact.                                                      *)
(***************************************************************************)
OpenContact(n, seed) ==
    /\ contact[n].status = "none"
    /\ contact' = [contact EXCEPT ![n] =
                     [NoContact EXCEPT !.status = "pending", !.id = n, !.seed = seed]]
    /\ Send(n, [type |-> "contact.propose", id |-> n, seed |-> seed])
    /\ UNCHANGED <<xfer, bal, late, used, lost>>

HandleContactPropose(n) ==
    /\ Incoming(n, "contact.propose")
    /\ LET m == Head(net[n])
           mySeed == AutoAcceptSeed[n]
       IN  \/ /\ mySeed = 0 \/ contact[n].status # "none"
              /\ Reply(n, <<Error>>)
              /\ UNCHANGED <<contact, bal>>
           \/ /\ mySeed > 0 /\ contact[n].status = "none"
              /\ bal' = [bal EXCEPT ![n] = Moved(@, "issuance", "wallet", mySeed)]
              /\ contact' = [contact EXCEPT ![n] =
                               SeedActive(NoContact, m.id, m.seed, mySeed, mySeed, m.seed)]
              /\ Reply(n, <<[type |-> "contact.accept", id |-> m.id, seed |-> mySeed]>>)
    /\ UNCHANGED <<xfer, late, used, lost>>

HandleContactAccept(n) ==
    /\ Incoming(n, "contact.accept")
    /\ LET m == Head(net[n])
           c == contact[n]
       IN  IF c.id # m.id \/ c.id # n
           THEN Reply(n, <<Error>>) /\ UNCHANGED <<contact, bal>>
           ELSE IF c.status = "active"
           THEN Reply(n, <<>>) /\ UNCHANGED <<contact, bal>>
           ELSE /\ bal' = [bal EXCEPT ![n] = Moved(@, "issuance", "wallet", c.seed)]
                /\ contact' = [contact EXCEPT ![n] =
                                 SeedActive(c, n, c.seed, m.seed, c.seed, m.seed)]
                /\ Reply(n, <<>>)
    /\ UNCHANGED <<xfer, late, used, lost>>

-----------------------------------------------------------------------------
(***************************************************************************)
(* Transfers: the operator's calls at the payer.                           *)
(***************************************************************************)

(* A member of n pays src to a member of the peer.  A call that fails      *)
(* changes nothing but, when the busy transfer is due, expires it: that is *)
(* what SweepExpired does.                                                 *)
StartTransfer(n, t, src) ==
    /\ t \notin used
    /\ Open(contact[n]) /\ ~contact[n].diverged
    /\ bal[n]["member"] >= src
    /\ LET D == BusyDue(n)
           c == ExpireLock(contact[n], D)
           dst == PoolPrice(c.mine, c.theirs, src)
       IN  /\ Free(c)
           /\ dst > 0
           /\ xfer' = [xfer EXCEPT ![n] =
                         [ExpireTransfers(@, D) EXCEPT ![t] =
                            [st |-> "PROPOSED", out |-> TRUE, src |-> src, dst |-> dst]]]
           /\ contact' = [contact EXCEPT ![n] = Lock(c, t)]
           /\ Send(n, [type |-> "transfer.propose", id |-> t, seq |-> OpSeq(c),
                       src |-> src, dst |-> dst])
    /\ used' = used \cup {t}
    /\ UNCHANGED <<bal, late, lost>>

AbortTransfer(n, t) ==
    /\ "abort" \in Calls[n]
    /\ xfer[n][t].out
    /\ Can(xfer[n][t].st, "abort")
    /\ xfer' = [xfer EXCEPT ![n][t].st = "ABORTED"]
    /\ contact' = [contact EXCEPT ![n] = Release(@, t)]
    /\ Send(n, TransferMsg("transfer.abort", t))
    /\ UNCHANGED <<bal, late, used, lost>>

-----------------------------------------------------------------------------
(***************************************************************************)
(* Transfers: the handlers.                                                *)
(***************************************************************************)

Acceptable(c, m) ==
    /\ Free(c)
    /\ m.seq = OpSeq(c)
    /\ m.dst > 0
    /\ PoolPrice(c.theirs, c.mine, m.src) = m.dst

(* Whether to_member is an active member of n is n's own business and may  *)
(* change at any time: an acceptable proposal may still be rejected.       *)
HandleTransferPropose(n) ==
    /\ Incoming(n, "transfer.propose")
    /\ LET m == Head(net[n])
           usable == Open(contact[n]) /\ ~contact[n].diverged
           D == IF usable THEN BusyDue(n) ELSE {}
           c == ExpireLock(contact[n], D)
           x == ExpireTransfers(xfer[n], D)
       IN  \/ /\ xfer' = [xfer EXCEPT ![n] = x]
              /\ contact' = [contact EXCEPT ![n] = c]
              /\ Reply(n, <<TransferMsg("transfer.reject", m.id)>>)
           \/ /\ usable /\ Acceptable(c, m)
              /\ xfer' = [xfer EXCEPT ![n] = [x EXCEPT ![m.id] =
                            [st |-> "ACCEPTED", out |-> FALSE, src |-> m.src, dst |-> m.dst]]]
              /\ contact' = [contact EXCEPT ![n] = Lock(c, m.id)]
              /\ Reply(n, <<TransferMsg("transfer.accept", m.id)>>)
    /\ UNCHANGED <<bal, late, used, lost>>

(* The payer's commit.  Its own wallet for the peer grows, so Append does  *)
(* not refuse; the member's balance is not looked at again.  An accept of  *)
(* an expired transfer is answered with an abort, any other accept that    *)
(* comes too late with an error.                                           *)
MayCommit(n, t) ==
    xfer[n][t].out /\ t \notin Due(n) /\ Can(xfer[n][t].st, "accept")

HandleTransferAccept(n) ==
    /\ Incoming(n, "transfer.accept")
    /\ LET t == Head(net[n]).id
           x == xfer[n][t]
       IN  \/ /\ MayCommit(n, t)
              /\ bal' = [bal EXCEPT ![n] = Moved(@, "member", "wallet", x.src)]
              /\ contact' = [contact EXCEPT ![n] = PaidOut(@, t, x.src, x.dst)]
              /\ xfer' = [xfer EXCEPT ![n][t].st =
                            Transition(Transition(x.st, "accept"), "commit")]
              /\ Reply(n, <<TransferMsg("transfer.commit", t)>>)
           \/ /\ ~MayCommit(n, t) /\ x.out /\ t \in Due(n)
              /\ xfer' = [xfer EXCEPT ![n][t].st = "EXPIRED"]
              /\ contact' = [contact EXCEPT ![n] = Release(@, t)]
              /\ Reply(n, <<TransferMsg("transfer.abort", t)>>)
              /\ UNCHANGED bal
           \/ /\ ~MayCommit(n, t) /\ ~(x.out /\ t \in Due(n))
              /\ Reply(n, IF x.out /\ x.st \in {"COMMITTED", "SETTLED"}
                          THEN <<>> ELSE <<Error>>)
              /\ UNCHANGED <<contact, xfer, bal>>
    /\ UNCHANGED <<late, used, lost>>

(* The payee's commit.  When Append refuses, the transfer stays COMMITTED  *)
(* and nothing else changes.  A commit of a transfer the payee has already *)
(* applied is answered with the receipt it cached.                         *)
HandleTransferCommit(n) ==
    /\ Incoming(n, "transfer.commit")
    /\ LET t == Head(net[n]).id
           x == xfer[n][t]
           receipt == <<TransferMsg("transfer.receipt", t)>>
           applicable == /\ ~x.out /\ Can(x.st, "commit")
                         /\ x.st \notin {"COMMITTED", "SETTLED"}
       IN  \/ /\ ~applicable
              /\ Reply(n, CASE ~x.out /\ x.st = "SETTLED" -> receipt
                            [] ~x.out /\ x.st = "COMMITTED" -> <<>>
                            [] OTHER -> <<Error>>)
              /\ UNCHANGED <<contact, xfer, bal>>
           \/ /\ applicable /\ ~AppendOK(bal[n], "wallet", "member", x.dst)
              /\ xfer' = [xfer EXCEPT ![n][t].st = Transition(@, "commit")]
              /\ Reply(n, <<Error>>)
              /\ UNCHANGED <<contact, bal>>
           \/ /\ applicable /\ AppendOK(bal[n], "wallet", "member", x.dst)
              /\ bal' = [bal EXCEPT ![n] = Moved(@, "wallet", "member", x.dst)]
              /\ contact' = [contact EXCEPT ![n] = PaidIn(@, t, x.src, x.dst)]
              /\ xfer' = [xfer EXCEPT ![n][t].st =
                            Transition(Transition(@, "commit"), "receipt")]
              /\ Reply(n, receipt)
    /\ UNCHANGED <<late, used, lost>>

(* The events that end a transfer and free the lock it holds: receipt and  *)
(* reject at the payer, abort at the payee.                                *)
End(n, t, event) ==
    /\ xfer' = [xfer EXCEPT ![n][t].st = Transition(@, event)]
    /\ contact' = [contact EXCEPT ![n] = Release(@, t)]

HandleTransferReceipt(n) ==
    /\ Incoming(n, "transfer.receipt")
    /\ LET t == Head(net[n]).id
           x == xfer[n][t]
       IN  IF x.out /\ Can(x.st, "receipt")
           THEN End(n, t, "receipt") /\ Reply(n, <<>>)
           ELSE /\ Reply(n, IF x.out /\ x.st = "SETTLED" THEN <<>> ELSE <<Error>>)
                /\ UNCHANGED <<contact, xfer>>
    /\ UNCHANGED <<bal, late, used, lost>>

HandleTransferReject(n) ==
    /\ Incoming(n, "transfer.reject")
    /\ LET t == Head(net[n]).id
       IN  IF xfer[n][t].out /\ Can(xfer[n][t].st, "reject")
           THEN End(n, t, "reject")
           ELSE UNCHANGED <<contact, xfer>>
    /\ Reply(n, <<>>)
    /\ UNCHANGED <<bal, late, used, lost>>

HandleTransferAbort(n) ==
    /\ Incoming(n, "transfer.abort")
    /\ LET t == Head(net[n]).id
       IN  IF ~xfer[n][t].out /\ Can(xfer[n][t].st, "abort")
           THEN End(n, t, "abort")
           ELSE UNCHANGED <<contact, xfer>>
    /\ Reply(n, <<>>)
    /\ UNCHANGED <<bal, late, used, lost>>

-----------------------------------------------------------------------------
(***************************************************************************)
(* Expiry.  The clock of n passes `expires` of transfer t; only while n    *)
(* holds t uncommitted does the code look at it.                           *)
(***************************************************************************)
ClockPasses(n, t) ==
    /\ "expire" \in Calls[n]
    /\ t \notin late[n]
    /\ Can(xfer[n][t].st, "expire")
    /\ late' = [late EXCEPT ![n] = @ \cup {t}]
    /\ UNCHANGED <<contact, xfer, bal, net, used, lost>>

SweepExpired(n) ==
    /\ Due(n) # {}
    /\ xfer' = [xfer EXCEPT ![n] = ExpireTransfers(@, Due(n))]
    /\ contact' = [contact EXCEPT ![n] = ExpireLock(@, Due(n))]
    /\ UNCHANGED <<bal, net, late, used, lost>>

-----------------------------------------------------------------------------
(***************************************************************************)
(* Reserve adjustments: n proposes to change its own reserve of the peer.  *)
(***************************************************************************)
AdjustReserve(n, a, delta) ==
    /\ a \notin used
    /\ Open(contact[n]) /\ ~contact[n].diverged
    /\ LET D == BusyDue(n)
           c == ExpireLock(contact[n], D)
       IN  /\ Free(c)
           /\ c.mine + delta >= 0
           /\ xfer' = [xfer EXCEPT ![n] = ExpireTransfers(@, D)]
           /\ contact' = [contact EXCEPT ![n] =
                            [Lock(c, a) EXCEPT !.pend = a, !.delta = delta]]
           /\ Send(n, [type |-> "reserve.adjust", id |-> a, seq |-> OpSeq(c),
                       delta |-> delta])
    /\ used' = used \cup {a}
    /\ UNCHANGED <<bal, late, lost>>

Mirrorable(c, m) == Free(c) /\ m.seq = OpSeq(c) /\ c.theirs + m.delta >= 0

(* The responder mirrors the change at once.  Refusals are answered with   *)
(* an error, which the proposer only logs.                                 *)
HandleReserveAdjust(n) ==
    /\ Incoming(n, "reserve.adjust")
    /\ LET m == Head(net[n])
           usable == Open(contact[n]) /\ ~contact[n].diverged
           D == IF usable THEN BusyDue(n) ELSE {}
           c == ExpireLock(contact[n], D)
           again == Free(c) /\ m.seq = OpSeq(c) /\ m.id \in c.applied
           accept == <<[type |-> "reserve.accept", id |-> m.id]>>
       IN  /\ xfer' = [xfer EXCEPT ![n] = ExpireTransfers(@, D)]
           /\ IF usable /\ ~again /\ Mirrorable(c, m)
              THEN /\ contact' = [contact EXCEPT ![n] = AdjustMirrored(c, m.id, m.delta)]
                   /\ Reply(n, accept)
              ELSE /\ contact' = [contact EXCEPT ![n] = c]
                   /\ Reply(n, IF usable /\ again THEN accept ELSE <<Error>>)
    /\ UNCHANGED <<bal, late, used, lost>>

HandleReserveAccept(n) ==
    /\ Incoming(n, "reserve.accept")
    /\ LET a == Head(net[n]).id
           c == contact[n]
       IN  IF c.pend # a
           THEN Reply(n, <<>>) /\ UNCHANGED <<contact, bal>>
           ELSE IF ~AppendOK(bal[n], "treasury", "wallet", c.delta)
           THEN Reply(n, <<Error>>) /\ UNCHANGED <<contact, bal>>
           ELSE /\ bal' = [bal EXCEPT ![n] = Moved(@, "treasury", "wallet", c.delta)]
                /\ contact' = [contact EXCEPT ![n] = Adjusted(c)]
                /\ Reply(n, <<>>)
    /\ UNCHANGED <<xfer, late, used, lost>>

-----------------------------------------------------------------------------
(***************************************************************************)
(* Closing, and returning the reserve of a peer that is gone to issuance.  *)
(* The code lets an operator close twice; the guard ~closed bounds that.   *)
(***************************************************************************)
CloseContact(n) ==
    /\ "close" \in Calls[n]
    /\ contact[n].status # "none" /\ ~contact[n].closed
    /\ contact' = [contact EXCEPT ![n].closed = TRUE]
    /\ Send(n, [type |-> "contact.close"])
    /\ UNCHANGED <<xfer, bal, late, used, lost>>

HandleContactClose(n) ==
    /\ Incoming(n, "contact.close")
    /\ contact' = IF contact[n].status = "none" THEN contact
                  ELSE [contact EXCEPT ![n].closed = TRUE]
    /\ Reply(n, <<>>)
    /\ UNCHANGED <<xfer, bal, late, used, lost>>

RetireReserve(n) ==
    /\ "retire" \in Calls[n]
    /\ contact[n].closed
    /\ bal[n]["wallet"] > 0
    /\ bal' = [bal EXCEPT ![n] = Moved(@, "wallet", "issuance", @["wallet"])]
    /\ UNCHANGED <<contact, xfer, net, late, used, lost>>

-----------------------------------------------------------------------------
(***************************************************************************)
(* A payment between members of one node: no business of the contact's,    *)
(* but it spends the balance a proposed transfer counts on.                *)
(***************************************************************************)
Affordable(n, amount) == bal[n]["member"] >= amount

Pay(n, amount) ==
    /\ "pay" \in Calls[n]
    /\ Affordable(n, amount)
    /\ bal' = [bal EXCEPT ![n] = Moved(@, "member", "others", amount)]
    /\ UNCHANGED <<contact, xfer, net, late, used, lost>>

-----------------------------------------------------------------------------
(***************************************************************************)
(* Reconciliation.  ReconcilePeer fetches the peer's checkpoint without    *)
(* the lock and compares it at any later time: it may be any checkpoint    *)
(* the peer has had so far.  The checkpoint lists a contact whatever its   *)
(* status; a pending one has op_seq 0 and the zero root, the empty         *)
(* sequence here.                                                          *)
(***************************************************************************)
CheckpointsOf(p) ==
    LET c == contact[p]
    IN  {[id |-> c.id, root |-> SubSeq(c.ops, 1, i), seq |-> IF i = 0 THEN 0 ELSE i - 1] :
            i \in {i \in 0..Len(c.ops) : c.status # "none" /\ (i = 0 => c.id = p)}}

ContradictsLatest(c, k) ==                     \* slip: only roots at the latest op_seq
    k.id = c.id /\ k.root # c.ops

Contradicts(c, k) ==
    /\ k.id = c.id
    /\ k.seq <= OpSeq(c) /\ k.seq < Len(c.ops)
    /\ k.root # SubSeq(c.ops, 1, k.seq + 1)

ReconcilePeer(n) ==
    /\ "reconcile" \in Calls[n]
    /\ contact[n].status # "none"
    /\ \E k \in CheckpointsOf(Peer(n)) :
          contact' = [contact EXCEPT ![n].diverged = @ \/ Contradicts(contact[n], k)]
    /\ UNCHANGED <<xfer, bal, net, late, used, lost>>

-----------------------------------------------------------------------------
(* A peer error is logged and changes nothing.                             *)
HandleError(n) ==
    /\ Incoming(n, "error")
    /\ Reply(n, <<>>)
    /\ UNCHANGED <<contact, xfer, bal, late, used, lost>>

(* The envelope n would process next never gets there.                     *)
Lose(n) ==
    /\ lost < MaxLoss
    /\ net[n] # <<>>
    /\ lost' = lost + 1
    /\ Reply(n, <<>>)
    /\ UNCHANGED <<contact, xfer, bal, late, used>>

-----------------------------------------------------------------------------
Init ==
    /\ contact = [n \in Node |-> NoContact]
    /\ xfer = [n \in Node |-> [t \in TransferId |-> NoTransfer]]
    /\ bal = [n \in Node |-> [a \in Account |->
                CASE a = "member" -> Grant[n]
                  [] a = "issuance" -> -Grant[n]
                  [] OTHER -> 0]]
    /\ net = [n \in Node |-> <<>>]
    /\ late = [n \in Node |-> {}]
    /\ used = {}
    /\ lost = 0

(* What the operator and the members of n do.                              *)
Operator(n) ==
    \/ \E seed \in Seeds : OpenContact(n, seed)
    \/ \E t \in TransferId, src \in SrcAmounts : StartTransfer(n, t, src)
    \/ \E t \in TransferId : AbortTransfer(n, t)
    \/ \E a \in AdjustId, delta \in Deltas : AdjustReserve(n, a, delta)
    \/ CloseContact(n)
    \/ RetireReserve(n)
    \/ \E amount \in PayAmounts : Pay(n, amount)

(* ProcessInbound of the next envelope.                                    *)
Handle(n) ==
    \/ HandleContactPropose(n)
    \/ HandleContactAccept(n)
    \/ HandleContactClose(n)
    \/ HandleTransferPropose(n)
    \/ HandleTransferAccept(n)
    \/ HandleTransferReject(n)
    \/ HandleTransferCommit(n)
    \/ HandleTransferReceipt(n)
    \/ HandleTransferAbort(n)
    \/ HandleReserveAdjust(n)
    \/ HandleReserveAccept(n)
    \/ HandleError(n)

(* The node's own timers.                                                  *)
Timer(n) ==
    \/ \E t \in TransferId : ClockPasses(n, t)
    \/ SweepExpired(n)
    \/ ReconcilePeer(n)

Next == \E n \in Node : Operator(n) \/ Handle(n) \/ Timer(n) \/ Lose(n)

Spec == Init /\ [][Next]_vars

(***************************************************************************)
(* The push worker retries the head of the outbox for ever, so envelopes   *)
(* that are not lost arrive; clocks advance; the sweeper ticks.  Nobody    *)
(* has to call anything.                                                   *)
(***************************************************************************)
Fairness ==
    \A n \in Node : /\ WF_vars(Handle(n))
                    /\ WF_vars(SweepExpired(n))
                    /\ \A t \in TransferId : WF_vars(ClockPasses(n, t))

FairSpec == Spec /\ Fairness

-----------------------------------------------------------------------------
(***************************************************************************)
(* Types.                                                                  *)
(***************************************************************************)
ContactRecord ==
    [status: {"none", "pending", "active"}, id: Node \cup {None}, seed: Nat,
     closed: BOOLEAN, diverged: BOOLEAN, mine: Int, theirs: Int, ops: Seq(Op),
     busy: OpId \cup {None}, pend: AdjustId \cup {None}, delta: Int,
     applied: SUBSET AdjustId]

TransferRecord == [st: TransferStates, out: BOOLEAN, src: Nat, dst: Nat]

Message ==
    [type: {"contact.propose", "contact.accept"}, id: Node, seed: Nat]
    \cup [type: {"contact.close", "error"}]
    \cup [type: {"transfer.propose"}, id: TransferId, seq: Nat, src: Nat, dst: Nat]
    \cup [type: {"transfer.accept", "transfer.reject", "transfer.commit",
                 "transfer.receipt", "transfer.abort"}, id: TransferId]
    \cup [type: {"reserve.adjust"}, id: AdjustId, seq: Nat, delta: Int]
    \cup [type: {"reserve.accept"}, id: AdjustId]

(* Every variable has its type: in particular no handler ever takes an     *)
(* event the transition table refuses for a state.                         *)
TypeOK ==
    /\ contact \in [Node -> ContactRecord]
    /\ xfer \in [Node -> [TransferId -> TransferRecord]]
    /\ bal \in [Node -> [Account -> Int]]
    /\ net \in [Node -> Seq(Message)]
    /\ late \in [Node -> SUBSET TransferId]
    /\ used \in SUBSET OpId
    /\ lost \in Nat
=============================================================================
