---------------------------- MODULE ContactProofs ----------------------------
(***************************************************************************)
(* Proofs about Contact, for any ids, seeds, amounts, deltas, optional     *)
(* calls and number of lost envelopes: types, and the safety of the        *)
(* records of one node.                                                    *)
(***************************************************************************)
EXTENDS ContactProperties, TLAPS

(* Transition follows a row of the table.                                  *)
LEMMA TransitionRow ==
    ASSUME NEW s, NEW e, Can(s, e)
    PROVE  <<s, e, Transition(s, e)>> \in Transitions
<1>1. PICK row \in Transitions : row[1] = s /\ row[2] = e
  BY DEF Can
<1> DEFINE chosen == CHOOSE r \in Transitions : r[1] = s /\ r[2] = e
<1>2. chosen \in Transitions /\ chosen[1] = s /\ chosen[2] = e
  BY <1>1
<1>3. chosen = <<s, e, chosen[3]>>
  BY <1>2, SMTT(30) DEF Transitions, BeforeCommit, AfterCommit
<1> QED BY <1>2, <1>3 DEF Transition

(* Where each event may happen and where it leads.                         *)
LEMMA TransitionTable ==
    ASSUME NEW s
    PROVE  /\ Can(s, "accept") <=> s = "PROPOSED"
           /\ Can(s, "reject") <=> s = "PROPOSED"
           /\ Can(s, "abort") <=> s \in {"PROPOSED", "ACCEPTED"}
           /\ Can(s, "expire") <=> s \in {"PROPOSED", "ACCEPTED"}
           /\ Can(s, "commit") <=> s \in {"ACCEPTED", "COMMITTED", "SETTLED"}
           /\ Can(s, "receipt") <=> s = "COMMITTED"
           /\ s = "PROPOSED" => Transition(s, "accept") = "ACCEPTED"
           /\ s = "PROPOSED" => Transition(s, "reject") = "REJECTED"
           /\ s \in {"PROPOSED", "ACCEPTED"} => Transition(s, "abort") = "ABORTED"
           /\ s = "ACCEPTED" => Transition(s, "commit") = "COMMITTED"
           /\ s = "COMMITTED" => Transition(s, "receipt") = "SETTLED"
<1> USE DEF Transitions, BeforeCommit, AfterCommit
<1>1. /\ Can(s, "accept") <=> s = "PROPOSED"
      /\ Can(s, "reject") <=> s = "PROPOSED"
      /\ Can(s, "abort") <=> s \in {"PROPOSED", "ACCEPTED"}
      /\ Can(s, "expire") <=> s \in {"PROPOSED", "ACCEPTED"}
      /\ Can(s, "commit") <=> s \in {"ACCEPTED", "COMMITTED", "SETTLED"}
      /\ Can(s, "receipt") <=> s = "COMMITTED"
  BY DEF Can
<1>2. s = "PROPOSED" => Transition(s, "accept") = "ACCEPTED"
  BY <1>1, TransitionRow
<1>3. s = "PROPOSED" => Transition(s, "reject") = "REJECTED"
  BY <1>1, TransitionRow
<1>4. s \in {"PROPOSED", "ACCEPTED"} => Transition(s, "abort") = "ABORTED"
  BY <1>1, TransitionRow
<1>5. s = "ACCEPTED" => Transition(s, "commit") = "COMMITTED"
  BY <1>1, TransitionRow
<1>6. s = "COMMITTED" => Transition(s, "receipt") = "SETTLED"
  BY <1>1, TransitionRow
<1> QED BY <1>1, <1>2, <1>3, <1>4, <1>5, <1>6

(* A price is a natural number.                                            *)
LEMMA PriceType ==
    ASSUME NEW rSrc \in Int, NEW rDst \in Int, NEW src \in Int
    PROVE  PoolPrice(rSrc, rDst, src) \in Nat
<1>1. CASE src <= 0 \/ rSrc <= 0 \/ rDst <= 0
  BY <1>1 DEF PoolPrice
<1>2. CASE src > 0 /\ rSrc > 0 /\ rDst > 0
  <2>1. rDst * src \in Nat /\ rSrc + src \in Nat \ {0}
    BY <1>2
  <2>2. \A p \in Nat, q \in Nat \ {0} : p \div q \in Nat
    OBVIOUS
  <2> QED BY <1>2, <2>1, <2>2 DEF PoolPrice
<1> QED BY <1>1, <1>2

(* ... and never more than the reserve it is paid from.                    *)
LEMMA PriceWithinReserve ==
    ASSUME NEW rSrc \in Int, NEW rDst \in Int, NEW src \in Int,
           PoolPrice(rSrc, rDst, src) > 0
    PROVE  PoolPrice(rSrc, rDst, src) <= rDst
<1>1. src > 0 /\ rSrc > 0 /\ rDst > 0
  BY DEF PoolPrice
<1> DEFINE p == rDst * src
           q == rSrc + src
           d == p \div q
<1>2. p \in Nat /\ q \in Nat \ {0} /\ d \in Nat /\ d = PoolPrice(rSrc, rDst, src)
  BY <1>1, PriceType DEF PoolPrice
<1>3. d * q <= p
  <2> HIDE DEF p, q
  <2> QED BY <1>2
<1>4. p <= rDst * q
  BY <1>1
<1>5. d * q <= rDst * q
  <2> HIDE DEF d
  <2> QED BY <1>2, <1>3, <1>4
<1>6. \A x, y \in Int, z \in Nat \ {0} : x * z <= y * z => x <= y
  OBVIOUS
<1> HIDE DEF d, q
<1> QED BY <1>2, <1>5, <1>6

-----------------------------------------------------------------------------
(***************************************************************************)
(* Types.                                                                  *)
(***************************************************************************)

(* The assumptions on the constants, in one place.                         *)
LEMMA Constants ==
    /\ A # B /\ None \notin OpId \cup Node
    /\ TransferId \cap AdjustId = {}
    /\ Seeds \subseteq Nat \ {0} /\ AutoAcceptSeed \in [Node -> Nat]
    /\ Grant \in [Node -> Nat]
    /\ SrcAmounts \subseteq Nat \ {0} /\ PayAmounts \subseteq Nat \ {0}
    /\ Deltas \subseteq Int \ {0}
BY NodeAssumption, IdAssumption, SeedAssumption, AmountAssumption

LEMMA PeerType ==
    ASSUME NEW n \in Node
    PROVE  Peer(n) \in Node /\ Peer(n) # n /\ Peer(Peer(n)) = n
BY Constants DEF Peer, Node

LEMMA OpSeqType ==
    ASSUME NEW c \in ContactRecord
    PROVE  OpSeq(c) \in Nat
<1>1. c.ops \in Seq(Op)
  BY DEF ContactRecord
<1>2. Len(c.ops) \in Nat /\ (c.ops # <<>> => Len(c.ops) > 0)
  BY <1>1
<1> QED BY <1>2 DEF OpSeq

(* Locking, releasing and expiring keep the type of a contact ...          *)
LEMMA LockTypes ==
    ASSUME NEW c \in ContactRecord
    PROVE  /\ \A t : Release(c, t) \in ContactRecord
           /\ \A D : ExpireLock(c, D) \in ContactRecord
           /\ \A op \in OpId : Lock(c, op) \in ContactRecord
           /\ \A a \in AdjustId, delta \in Int :
                 [Lock(c, a) EXCEPT !.pend = a, !.delta = delta] \in ContactRecord
<1> USE DEF ContactRecord
<1>1. \A t : Release(c, t) \in ContactRecord
  BY DEF Release
<1>2. \A D : ExpireLock(c, D) \in ContactRecord
  BY DEF ExpireLock
<1>3. \A op \in OpId : Lock(c, op) \in ContactRecord
  BY DEF Lock
<1>4. \A a \in AdjustId, delta \in Int :
         [Lock(c, a) EXCEPT !.pend = a, !.delta = delta] \in ContactRecord
  BY DEF Lock, OpId
<1> QED BY <1>1, <1>2, <1>3, <1>4

(* ... and so do the pool updates.                                         *)
LEMMA PoolTypes ==
    ASSUME NEW c \in ContactRecord
    PROVE  /\ \A t \in TransferId, src, dst \in Nat :
                 /\ PaidOut(c, t, src, dst) \in ContactRecord
                 /\ PaidIn(c, t, src, dst) \in ContactRecord
           /\ \A a \in AdjustId, delta \in Int : AdjustMirrored(c, a, delta) \in ContactRecord
           /\ c.pend \in AdjustId => Adjusted(c) \in ContactRecord
<1> USE DEF ContactRecord
<1>1. ASSUME NEW t \in TransferId, NEW src \in Nat, NEW dst \in Nat
      PROVE  /\ PaidOut(c, t, src, dst) \in ContactRecord
             /\ PaidIn(c, t, src, dst) \in ContactRecord
  <2>1. TransferOp(t, src, dst) \in Op
    BY DEF TransferOp, Op
  <2>2. /\ c.mine + src \in Int /\ c.theirs - dst \in Int
        /\ c.mine - dst \in Int /\ c.theirs + src \in Int
        /\ Append(c.ops, TransferOp(t, src, dst)) \in Seq(Op)
    BY <2>1
  <2>3. PaidOut(c, t, src, dst) \in ContactRecord
    BY <2>2, Zenon DEF PaidOut
  <2>4. PaidIn(c, t, src, dst) \in ContactRecord
    BY <2>2, Zenon DEF PaidIn
  <2> QED BY <2>3, <2>4
<1>2. ASSUME NEW a \in AdjustId, NEW delta \in Int
      PROVE  AdjustMirrored(c, a, delta) \in ContactRecord
  <2>1. AdjustOp(a, delta) \in Op
    BY DEF AdjustOp, Op
  <2>2. /\ c.theirs + delta \in Int /\ c.applied \cup {a} \in SUBSET AdjustId
        /\ Append(c.ops, AdjustOp(a, delta)) \in Seq(Op)
    BY <2>1
  <2> QED BY <2>2, Zenon DEF AdjustMirrored
<1>3. ASSUME c.pend \in AdjustId PROVE Adjusted(c) \in ContactRecord
  <2>1. AdjustOp(c.pend, c.delta) \in Op
    BY <1>3 DEF AdjustOp, Op
  <2>2. /\ c.mine + c.delta \in Int /\ 0 \in Int
        /\ Append(c.ops, AdjustOp(c.pend, c.delta)) \in Seq(Op)
    BY <2>1
  <2> QED BY <2>2, Zenon DEF Adjusted
<1> QED BY <1>1, <1>2, <1>3

(* What the updates leave in the fields that the invariants talk about.    *)
LEMMA LockFields ==
    ASSUME NEW c \in ContactRecord, NEW t, NEW D, NEW op, NEW delta
    PROVE  /\ Release(c, t).busy = (IF c.busy = t THEN None ELSE c.busy)
           /\ ExpireLock(c, D).busy = (IF c.busy \in D THEN None ELSE c.busy)
           /\ Lock(c, op).busy = op
           /\ [Lock(c, op) EXCEPT !.pend = op, !.delta = delta].busy = op
           /\ [Lock(c, op) EXCEPT !.pend = op, !.delta = delta].pend = op
           /\ \A d \in {Release(c, t), ExpireLock(c, D), Lock(c, op)} : d.pend = c.pend
           /\ \A d \in {Release(c, t), ExpireLock(c, D), Lock(c, op),
                        [Lock(c, op) EXCEPT !.pend = op, !.delta = delta]} :
                 /\ d.mine = c.mine /\ d.theirs = c.theirs /\ d.ops = c.ops
                 /\ d.status = c.status /\ d.closed = c.closed
BY ZenonT(60) DEF Release, ExpireLock, Lock, ContactRecord

LEMMA PoolFields ==
    ASSUME NEW c \in ContactRecord, NEW t, NEW src, NEW dst, NEW a, NEW delta
    PROVE  /\ LET d == PaidOut(c, t, src, dst)
              IN  /\ d.busy = c.busy /\ d.pend = c.pend /\ d.status = c.status
                  /\ d.closed = c.closed /\ d.mine = c.mine + src
           /\ LET d == PaidIn(c, t, src, dst)
              IN  /\ d.busy = None /\ d.pend = c.pend /\ d.status = c.status
                  /\ d.closed = c.closed /\ d.mine = c.mine - dst
           /\ LET d == AdjustMirrored(c, a, delta)
              IN  /\ d.busy = c.busy /\ d.pend = c.pend /\ d.status = c.status
                  /\ d.closed = c.closed /\ d.mine = c.mine
           /\ LET d == Adjusted(c)
              IN  /\ d.busy = None /\ d.pend = None /\ d.status = c.status
                  /\ d.closed = c.closed /\ d.mine = c.mine + c.delta
BY Zenon DEF PaidOut, PaidIn, AdjustMirrored, Adjusted, ContactRecord

LEMMA SeedFields ==
    ASSUME NEW c \in ContactRecord, NEW id, NEW p, NEW r, NEW mine, NEW theirs
    PROVE  /\ LET d == SeedActive(c, id, p, r, mine, theirs)
              IN  /\ d.busy = c.busy /\ d.pend = c.pend /\ d.status = "active"
                  /\ d.closed = c.closed /\ d.mine = mine
           /\ LET d == [NoContact EXCEPT !.status = "pending", !.id = id, !.seed = p]
              IN  /\ d.busy = None /\ d.pend = None /\ d.status = "pending"
                  /\ d.closed = FALSE /\ d.mine = 0
           /\ LET d == NoContact
              IN  /\ d.busy = None /\ d.pend = None /\ d.status = "none"
                  /\ d.closed = FALSE /\ d.mine = 0
BY Zenon DEF SeedActive, NoContact, ContactRecord

LEMMA SeedUpdates ==
    ASSUME NEW c \in ContactRecord, NEW id \in Node, NEW p \in Nat, NEW r \in Nat,
           NEW mine \in Nat, NEW theirs \in Nat
    PROVE  /\ NoContact \in ContactRecord
           /\ [NoContact EXCEPT !.status = "pending", !.id = id, !.seed = p] \in ContactRecord
           /\ SeedActive(c, id, p, r, mine, theirs) \in ContactRecord
<1>1. NoContact \in ContactRecord
  BY DEF NoContact, ContactRecord
<1>2. [NoContact EXCEPT !.status = "pending", !.id = id, !.seed = p] \in ContactRecord
  BY <1>1, Zenon DEF ContactRecord
<1>3. <<SeedOp(id, p, r)>> \in Seq(Op)
  BY DEF SeedOp, Op
<1>4. SeedActive(c, id, p, r, mine, theirs) \in ContactRecord
  <2>1. mine \in Int /\ theirs \in Int
    OBVIOUS
  <2> QED BY <1>3, <2>1, Zenon DEF SeedActive, ContactRecord
<1> QED BY <1>1, <1>2, <1>4

(* Expiring transfers keeps their type.                                    *)
LEMMA ExpireType ==
    ASSUME NEW x \in [TransferId -> TransferRecord], NEW D
    PROVE  ExpireTransfers(x, D) \in [TransferId -> TransferRecord]
BY DEF ExpireTransfers, TransferRecord, TransferStates

(* So does any new state.                                                  *)
LEMMA NewState ==
    ASSUME NEW x \in TransferRecord, NEW s \in TransferStates
    PROVE  [x EXCEPT !.st = s] \in TransferRecord
BY DEF TransferRecord

LEMMA MovedType ==
    ASSUME NEW b \in [Account -> Int], NEW from \in Account, NEW to \in Account,
           NEW amount \in Int
    PROVE  Moved(b, from, to, amount) \in [Account -> Int]
BY DEF Moved, Account

(* Envelopes.                                                              *)
LEMMA MessageTypes ==
    /\ <<>> \in Seq(Message) /\ Error \in Message /\ <<Error>> \in Seq(Message)
    /\ \A t \in TransferId :
          \A type \in {"transfer.accept", "transfer.reject", "transfer.commit",
                       "transfer.receipt", "transfer.abort"} :
             TransferMsg(type, t) \in Message
BY DEF Error, TransferMsg, Message

LEMMA SendType ==
    ASSUME net \in [Node -> Seq(Message)], NEW n \in Node, NEW m \in Message, Send(n, m)
    PROVE  net' \in [Node -> Seq(Message)]
BY PeerType DEF Send

LEMMA ReplyType ==
    ASSUME net \in [Node -> Seq(Message)], NEW n \in Node, net[n] # <<>>,
           NEW replies \in Seq(Message), Reply(n, replies)
    PROVE  net' \in [Node -> Seq(Message)]
<1>1. Tail(net[n]) \in Seq(Message) /\ net[Peer(n)] \o replies \in Seq(Message)
  BY PeerType
<1> QED BY <1>1, PeerType DEF Reply

(* What the envelope at the head of a queue carries.                       *)
LEMMA HeadType ==
    ASSUME net \in [Node -> Seq(Message)], NEW n \in Node, NEW type, Incoming(n, type)
    PROVE  LET m == Head(net[n])
           IN  /\ net[n] # <<>> /\ m \in Message /\ m.type = type
               /\ type \in {"contact.propose", "contact.accept"} =>
                     m.id \in Node /\ m.seed \in Nat
               /\ type = "transfer.propose" =>
                     m.id \in TransferId /\ m.seq \in Nat /\ m.src \in Nat /\ m.dst \in Nat
               /\ type \in {"transfer.accept", "transfer.reject", "transfer.commit",
                            "transfer.receipt", "transfer.abort"} => m.id \in TransferId
               /\ type = "reserve.adjust" =>
                     m.id \in AdjustId /\ m.seq \in Nat /\ m.delta \in Int
               /\ type = "reserve.accept" => m.id \in AdjustId
<1>1. net[n] # <<>> /\ Head(net[n]) \in Message /\ Head(net[n]).type = type
  BY DEF Incoming
<1> QED BY <1>1 DEF Message

LEMMA TypeInit == Init => TypeOK
<1> SUFFICES ASSUME Init PROVE TypeOK
  OBVIOUS
<1> USE DEF Init
<1>1. contact \in [Node -> ContactRecord]
  <2>1. NoContact \in ContactRecord
    BY DEF NoContact, ContactRecord
  <2> QED BY <2>1
<1>2. xfer \in [Node -> [TransferId -> TransferRecord]]
  <2>1. NoTransfer \in TransferRecord
    BY DEF NoTransfer, TransferRecord, TransferStates
  <2> QED BY <2>1
<1>3. bal \in [Node -> [Account -> Int]]
  <2>1. \A n \in Node : Grant[n] \in Int /\ -Grant[n] \in Int
    BY Constants
  <2>2. \A n \in Node, a \in Account : bal[n][a] \in {Grant[n], -Grant[n], 0}
    BY DEF Account
  <2>3. \A n \in Node, a \in Account : bal[n][a] \in Int
    BY <2>1, <2>2
  <2>4. bal = [n \in Node |-> [a \in Account |-> bal[n][a]]]
    BY Zenon
  <2> QED BY <2>3, <2>4
<1>4. net \in [Node -> Seq(Message)] /\ late \in [Node -> SUBSET TransferId]
  OBVIOUS
<1>5. used \in SUBSET OpId /\ lost \in Nat
  OBVIOUS
<1> QED BY <1>1, <1>2, <1>3, <1>4, <1>5 DEF TypeOK

(* Calls of the operator and of the members.                               *)
LEMMA TypeOfOperator ==
    ASSUME TypeOK, NEW n \in Node, Operator(n)
    PROVE  TypeOK'
<1> USE DEF TypeOK
<1>0. contact[n] \in ContactRecord /\ bal[n] \in [Account -> Int]
  OBVIOUS
<1>1. ASSUME NEW seed \in Seeds, OpenContact(n, seed) PROVE TypeOK'
  <2>1. seed \in Nat
    BY Constants
  <2>2. [type |-> "contact.propose", id |-> n, seed |-> seed] \in Message
    BY <2>1 DEF Message
  <2>3. net' \in [Node -> Seq(Message)]
    BY <1>1, <2>2, SendType DEF OpenContact
  <2>4. contact' \in [Node -> ContactRecord]
    BY <1>0, <1>1, <2>1, SeedUpdates DEF OpenContact
  <2> QED BY <1>1, <2>3, <2>4 DEF OpenContact
<1>2. ASSUME NEW t \in TransferId, NEW src \in SrcAmounts, StartTransfer(n, t, src)
      PROVE TypeOK'
  <2> DEFINE D == BusyDue(n)
             c == ExpireLock(contact[n], D)
             dst == PoolPrice(c.mine, c.theirs, src)
             r == [st |-> "PROPOSED", out |-> TRUE, src |-> src, dst |-> dst]
             m == [type |-> "transfer.propose", id |-> t, seq |-> OpSeq(c),
                   src |-> src, dst |-> dst]
  <2>1. c \in ContactRecord /\ Lock(c, t) \in ContactRecord
    BY <1>0, LockTypes DEF OpId
  <2>2. src \in Nat /\ dst \in Nat /\ OpSeq(c) \in Nat
    <3>1. c.mine \in Int /\ c.theirs \in Int /\ c.ops \in Seq(Op)
      BY <2>1 DEF ContactRecord
    <3>2. src \in Nat
      BY Constants
    <3>3. OpSeq(c) \in Nat
      BY <2>1, OpSeqType
    <3>4. dst \in Nat
      <4>1. \A x, y, z \in Int : PoolPrice(x, y, z) \in Nat
        BY PriceType
      <4>2. src \in Int
        BY <3>2
      <4> HIDE DEF c
      <4> QED BY <3>1, <4>1, <4>2, Zenon
    <3> QED BY <3>2, <3>3, <3>4
  <2>3. r \in TransferRecord /\ m \in Message
    BY <2>2 DEF TransferRecord, TransferStates, Message
  <2>4. ExpireTransfers(xfer[n], D) \in [TransferId -> TransferRecord]
    BY ExpireType
  <2> HIDE DEF D, c, dst, r, m
  <2>5. /\ xfer' = [xfer EXCEPT ![n] = [ExpireTransfers(xfer[n], D) EXCEPT ![t] = r]]
        /\ contact' = [contact EXCEPT ![n] = Lock(c, t)]
        /\ Send(n, m)
    BY <1>2 DEF StartTransfer, D, c, dst, r, m
  <2>6. net' \in [Node -> Seq(Message)]
    BY <2>3, <2>5, SendType
  <2>7. contact' \in [Node -> ContactRecord]
    BY <2>1, <2>5
  <2>8. xfer' \in [Node -> [TransferId -> TransferRecord]]
    <3>1. [ExpireTransfers(xfer[n], D) EXCEPT ![t] = r] \in [TransferId -> TransferRecord]
      BY <2>3, <2>4
    <3> QED BY <2>5, <3>1
  <2>9. /\ used' \in SUBSET OpId
        /\ bal' = bal /\ late' = late /\ lost' = lost
    BY <1>2 DEF StartTransfer, OpId
  <2> QED BY <2>6, <2>7, <2>8, <2>9
<1>3. ASSUME NEW t \in TransferId, AbortTransfer(n, t) PROVE TypeOK'
  <2>1. TransferMsg("transfer.abort", t) \in Message
    BY MessageTypes
  <2>2. net' \in [Node -> Seq(Message)]
    BY <1>3, <2>1, SendType DEF AbortTransfer
  <2>3. Release(contact[n], t) \in ContactRecord
    BY <1>0, LockTypes
  <2>4. [xfer[n][t] EXCEPT !.st = "ABORTED"] \in TransferRecord
    <3>1. xfer[n][t] \in TransferRecord /\ "ABORTED" \in TransferStates
      BY DEF TransferStates
    <3> QED BY <3>1, NewState
  <2> QED BY <1>3, <2>2, <2>3, <2>4 DEF AbortTransfer
<1>4. ASSUME NEW a \in AdjustId, NEW delta \in Deltas, AdjustReserve(n, a, delta)
      PROVE TypeOK'
  <2> DEFINE D == BusyDue(n)
             c == ExpireLock(contact[n], D)
             k == [Lock(c, a) EXCEPT !.pend = a, !.delta = delta]
             m == [type |-> "reserve.adjust", id |-> a, seq |-> OpSeq(c), delta |-> delta]
  <2>1. delta \in Int
    BY Constants
  <2>2. c \in ContactRecord
    BY <1>0, LockTypes
  <2>3. k \in ContactRecord
    BY <2>1, <2>2, LockTypes
  <2>4. m \in Message
    <3>1. OpSeq(c) \in Nat
      BY <2>2, OpSeqType
    <3> QED BY <2>1, <3>1 DEF Message
  <2>5. ExpireTransfers(xfer[n], D) \in [TransferId -> TransferRecord]
    BY ExpireType
  <2> HIDE DEF D, c, k, m
  <2>6. /\ xfer' = [xfer EXCEPT ![n] = ExpireTransfers(xfer[n], D)]
        /\ contact' = [contact EXCEPT ![n] = k]
        /\ Send(n, m)
    BY <1>4 DEF AdjustReserve, D, c, k, m
  <2>7. net' \in [Node -> Seq(Message)]
    BY <2>4, <2>6, SendType
  <2>8. /\ contact' \in [Node -> ContactRecord]
        /\ xfer' \in [Node -> [TransferId -> TransferRecord]]
    BY <2>3, <2>5, <2>6
  <2>9. /\ used' \in SUBSET OpId
        /\ bal' = bal /\ late' = late /\ lost' = lost
    BY <1>4 DEF AdjustReserve, OpId
  <2> QED BY <2>7, <2>8, <2>9
<1>5. CASE CloseContact(n)
  <2>1. [type |-> "contact.close"] \in Message
    BY DEF Message
  <2>2. net' \in [Node -> Seq(Message)]
    BY <1>5, <2>1, SendType DEF CloseContact
  <2>3. [contact[n] EXCEPT !.closed = TRUE] \in ContactRecord
    BY <1>0, Zenon DEF ContactRecord
  <2> QED BY <1>5, <2>2, <2>3 DEF CloseContact
<1>6. CASE RetireReserve(n)
  <2>1. Moved(bal[n], "wallet", "issuance", bal[n]["wallet"]) \in [Account -> Int]
    BY <1>0, MovedType DEF Account
  <2> QED BY <1>6, <2>1 DEF RetireReserve
<1>7. ASSUME NEW amount \in PayAmounts, Pay(n, amount) PROVE TypeOK'
  <2>1. Moved(bal[n], "member", "others", amount) \in [Account -> Int]
    BY <1>0, MovedType, Constants DEF Account
  <2> QED BY <1>7, <2>1 DEF Pay
<1> QED BY <1>1, <1>2, <1>3, <1>4, <1>5, <1>6, <1>7 DEF Operator

(* A handler that changes no record of a transfer or contact.              *)
LEMMA TypeOfReply ==
    ASSUME TypeOK, NEW n \in Node, net[n] # <<>>, NEW replies \in Seq(Message),
           Reply(n, replies), UNCHANGED <<contact, xfer, bal, late, used, lost>>
    PROVE  TypeOK'
BY ReplyType DEF TypeOK

(* A handler that changes only n's records, each to a value of its type.   *)
LEMMA TypeOfUpdate ==
    ASSUME TypeOK, NEW n \in Node, net[n] # <<>>, NEW replies \in Seq(Message),
           Reply(n, replies),
           NEW c \in ContactRecord, contact' = [contact EXCEPT ![n] = c],
           NEW x \in [TransferId -> TransferRecord], xfer' = [xfer EXCEPT ![n] = x],
           NEW b \in [Account -> Int], bal' = [bal EXCEPT ![n] = b],
           UNCHANGED <<late, used, lost>>
    PROVE  TypeOK'
<1>1. net' \in [Node -> Seq(Message)]
  BY ReplyType DEF TypeOK
<1> QED BY <1>1 DEF TypeOK

(* Keeping a record is an update too.                                      *)
LEMMA NoUpdate ==
    ASSUME TypeOK, NEW n \in Node
    PROVE  /\ contact[n] \in ContactRecord /\ contact = [contact EXCEPT ![n] = contact[n]]
           /\ xfer[n] \in [TransferId -> TransferRecord]
           /\ xfer = [xfer EXCEPT ![n] = xfer[n]]
           /\ bal[n] \in [Account -> Int] /\ bal = [bal EXCEPT ![n] = bal[n]]
BY DEF TypeOK

(* A new state of one transfer.                                            *)
LEMMA StateType ==
    ASSUME TypeOK, NEW n \in Node, NEW t \in TransferId, NEW s \in TransferStates
    PROVE  /\ [xfer[n] EXCEPT ![t].st = s] \in [TransferId -> TransferRecord]
           /\ [xfer EXCEPT ![n][t].st = s] = [xfer EXCEPT ![n] = [xfer[n] EXCEPT ![t].st = s]]
<1>1. xfer[n] \in [TransferId -> TransferRecord] /\ xfer[n][t] \in TransferRecord
  BY DEF TypeOK
<1>2. [xfer[n][t] EXCEPT !.st = s] \in TransferRecord
  BY <1>1, NewState
<1> QED BY <1>1, <1>2 DEF TypeOK

(* Handlers of contact envelopes.                                          *)
LEMMA TypeOfContactHandlers ==
    ASSUME TypeOK, NEW n \in Node,
           \/ HandleContactPropose(n) \/ HandleContactAccept(n)
           \/ HandleContactClose(n) \/ HandleError(n)
    PROVE  TypeOK'
<1> DEFINE m == Head(net[n])
           c == contact[n]
<1>0. /\ <<>> \in Seq(Message) /\ <<Error>> \in Seq(Message)
      /\ net \in [Node -> Seq(Message)]
  BY MessageTypes DEF TypeOK
<1>1. CASE HandleContactPropose(n)
  <2>1. m.id \in Node /\ m.seed \in Nat /\ net[n] # <<>>
    BY <1>0, <1>1, HeadType DEF HandleContactPropose
  <2>2. AutoAcceptSeed[n] \in Nat
    BY Constants
  <2>3. CASE Reply(n, <<Error>>) /\ UNCHANGED <<contact, bal>>
    BY <1>0, <1>1, <2>1, <2>3, TypeOfReply DEF HandleContactPropose
  <2>4. CASE ~(Reply(n, <<Error>>) /\ UNCHANGED <<contact, bal>>)
    <3> DEFINE k == SeedActive(NoContact, m.id, m.seed, AutoAcceptSeed[n],
                               AutoAcceptSeed[n], m.seed)
               b == Moved(bal[n], "issuance", "wallet", AutoAcceptSeed[n])
               reply == [type |-> "contact.accept", id |-> m.id, seed |-> AutoAcceptSeed[n]]
    <3>1. k \in ContactRecord
      <4>1. NoContact \in ContactRecord
        BY <2>1, <2>2, SeedUpdates, NoUpdate
      <4> QED BY <2>1, <2>2, <4>1, SeedUpdates
    <3>2. b \in [Account -> Int]
      BY <2>2, NoUpdate, MovedType DEF Account
    <3>3. <<reply>> \in Seq(Message)
      BY <2>1, <2>2 DEF Message
    <3>4. /\ contact' = [contact EXCEPT ![n] = k] /\ bal' = [bal EXCEPT ![n] = b]
          /\ Reply(n, <<reply>>) /\ UNCHANGED <<xfer, late, used, lost>>
      BY <1>1, <2>4, Zenon DEF HandleContactPropose
    <3> HIDE DEF k, b, reply
    <3> QED BY <2>1, <3>1, <3>2, <3>3, <3>4, NoUpdate, TypeOfUpdate
  <2> QED BY <2>3, <2>4
<1>2. CASE HandleContactAccept(n)
  <2>1. m.id \in Node /\ m.seed \in Nat /\ net[n] # <<>>
    BY <1>0, <1>2, HeadType DEF HandleContactAccept
  <2>2. c \in ContactRecord /\ c.seed \in Nat
    BY NoUpdate DEF ContactRecord
  <2>3. CASE UNCHANGED <<contact, bal>>
    <3>1. \E replies \in Seq(Message) : Reply(n, replies)
      BY <1>0, <1>2 DEF HandleContactAccept
    <3> QED BY <1>2, <2>1, <2>3, <3>1, TypeOfReply DEF HandleContactAccept
  <2>4. CASE ~UNCHANGED <<contact, bal>>
    <3> DEFINE k == SeedActive(c, n, c.seed, m.seed, c.seed, m.seed)
               b == Moved(bal[n], "issuance", "wallet", c.seed)
    <3>1. k \in ContactRecord
      BY <2>1, <2>2, SeedUpdates
    <3>2. b \in [Account -> Int]
      BY <2>2, NoUpdate, MovedType DEF Account
    <3>3. /\ contact' = [contact EXCEPT ![n] = k] /\ bal' = [bal EXCEPT ![n] = b]
          /\ Reply(n, <<>>) /\ UNCHANGED <<xfer, late, used, lost>>
      BY <1>2, <2>4, Zenon DEF HandleContactAccept
    <3> HIDE DEF k, b
    <3> QED BY <1>0, <2>1, <3>1, <3>2, <3>3, NoUpdate, TypeOfUpdate
  <2> QED BY <2>3, <2>4
<1>3. CASE HandleContactClose(n)
  <2>1. net[n] # <<>>
    BY <1>3 DEF HandleContactClose, Incoming
  <2>2. [contact EXCEPT ![n].closed = TRUE] = [contact EXCEPT ![n] = [c EXCEPT !.closed = TRUE]]
    BY Zenon
  <2>3. [c EXCEPT !.closed = TRUE] \in ContactRecord
    BY NoUpdate, Zenon DEF ContactRecord
  <2>4. \E k \in ContactRecord : contact' = [contact EXCEPT ![n] = k]
    BY <1>3, <2>2, <2>3, NoUpdate DEF HandleContactClose
  <2> QED BY <1>0, <1>3, <2>1, <2>4, NoUpdate, TypeOfUpdate DEF HandleContactClose
<1>4. CASE HandleError(n)
  BY <1>0, <1>4, TypeOfReply DEF HandleError, Incoming
<1> QED BY <1>1, <1>2, <1>3, <1>4

(* Handlers of transfer envelopes.                                         *)
LEMMA TypeOfTransferPropose ==
    ASSUME TypeOK, NEW n \in Node, HandleTransferPropose(n)
    PROVE  TypeOK'
<1> DEFINE m == Head(net[n])
           usable == Open(contact[n]) /\ ~contact[n].diverged
           D == IF usable THEN BusyDue(n) ELSE {}
           c == ExpireLock(contact[n], D)
           x == ExpireTransfers(xfer[n], D)
           r == [st |-> "ACCEPTED", out |-> FALSE, src |-> m.src, dst |-> m.dst]
<1>1. m.id \in TransferId /\ m.src \in Nat /\ m.dst \in Nat /\ net[n] # <<>>
  BY HeadType DEF HandleTransferPropose, TypeOK
<1>2. c \in ContactRecord /\ Lock(c, m.id) \in ContactRecord
  BY <1>1, NoUpdate, LockTypes DEF OpId
<1>3. x \in [TransferId -> TransferRecord]
  BY NoUpdate, ExpireType
<1>4. [x EXCEPT ![m.id] = r] \in [TransferId -> TransferRecord]
  BY <1>1, <1>3 DEF TransferRecord, TransferStates
<1>5. \A type \in {"transfer.reject", "transfer.accept"} :
         <<TransferMsg(type, m.id)>> \in Seq(Message)
  BY <1>1, MessageTypes
<1>6. UNCHANGED <<bal, late, used, lost>>
  BY DEF HandleTransferPropose
<1>7. \/ /\ xfer' = [xfer EXCEPT ![n] = x]
         /\ contact' = [contact EXCEPT ![n] = c]
         /\ Reply(n, <<TransferMsg("transfer.reject", m.id)>>)
      \/ /\ xfer' = [xfer EXCEPT ![n] = [x EXCEPT ![m.id] = r]]
         /\ contact' = [contact EXCEPT ![n] = Lock(c, m.id)]
         /\ Reply(n, <<TransferMsg("transfer.accept", m.id)>>)
  BY DEF HandleTransferPropose
<1> HIDE DEF m, D, c, x, r
<1> QED BY <1>1, <1>2, <1>3, <1>4, <1>5, <1>6, <1>7, NoUpdate, TypeOfUpdate

LEMMA TypeOfTransferAccept ==
    ASSUME TypeOK, NEW n \in Node, HandleTransferAccept(n)
    PROVE  TypeOK'
<1> DEFINE t == Head(net[n]).id
           x == xfer[n][t]
<1>1. t \in TransferId /\ net[n] # <<>>
  BY HeadType DEF HandleTransferAccept, TypeOK
<1>2. x \in TransferRecord /\ x.src \in Nat /\ x.dst \in Nat
  BY <1>1 DEF TypeOK, TransferRecord
<1>3. /\ <<>> \in Seq(Message) /\ <<Error>> \in Seq(Message)
      /\ \A type \in {"transfer.commit", "transfer.abort"} :
            <<TransferMsg(type, t)>> \in Seq(Message)
  BY <1>1, MessageTypes
<1>4. UNCHANGED <<late, used, lost>>
  BY DEF HandleTransferAccept
<1>5. "COMMITTED" \in TransferStates /\ "EXPIRED" \in TransferStates
  BY DEF TransferStates
<1>6. CASE MayCommit(n, t)
  <2>1. Transition(Transition(x.st, "accept"), "commit") = "COMMITTED"
    BY <1>6, TransitionTable DEF MayCommit
  <2>2. Moved(bal[n], "member", "wallet", x.src) \in [Account -> Int]
    BY <1>2, NoUpdate, MovedType DEF Account
  <2>3. PaidOut(contact[n], t, x.src, x.dst) \in ContactRecord
    BY <1>1, <1>2, NoUpdate, PoolTypes
  <2>4. /\ bal' = [bal EXCEPT ![n] = Moved(bal[n], "member", "wallet", x.src)]
        /\ contact' = [contact EXCEPT ![n] = PaidOut(contact[n], t, x.src, x.dst)]
        /\ xfer' = [xfer EXCEPT ![n][t].st = "COMMITTED"]
        /\ Reply(n, <<TransferMsg("transfer.commit", t)>>)
    BY <1>6, <2>1, Zenon DEF HandleTransferAccept
  <2>5. xfer' = [xfer EXCEPT ![n] = [xfer[n] EXCEPT ![t].st = "COMMITTED"]]
    BY <1>1, <1>5, <2>4, StateType
  <2>6. [xfer[n] EXCEPT ![t].st = "COMMITTED"] \in [TransferId -> TransferRecord]
    BY <1>1, <1>5, StateType
  <2> HIDE DEF t, x
  <2> QED BY <1>1, <1>3, <1>4, <2>2, <2>3, <2>4, <2>5, <2>6, TypeOfUpdate
<1>7. CASE ~MayCommit(n, t) /\ x.out /\ t \in Due(n)
  <2>1. Release(contact[n], t) \in ContactRecord
    BY NoUpdate, LockTypes
  <2>2. /\ contact' = [contact EXCEPT ![n] = Release(contact[n], t)]
        /\ xfer' = [xfer EXCEPT ![n][t].st = "EXPIRED"]
        /\ Reply(n, <<TransferMsg("transfer.abort", t)>>) /\ UNCHANGED bal
    BY <1>7, Zenon DEF HandleTransferAccept
  <2>3. xfer' = [xfer EXCEPT ![n] = [xfer[n] EXCEPT ![t].st = "EXPIRED"]]
    BY <1>1, <1>5, <2>2, StateType
  <2>4. [xfer[n] EXCEPT ![t].st = "EXPIRED"] \in [TransferId -> TransferRecord]
    BY <1>1, <1>5, StateType
  <2> HIDE DEF t, x
  <2> QED BY <1>1, <1>3, <1>4, <2>1, <2>2, <2>3, <2>4, NoUpdate, TypeOfUpdate
<1>8. CASE ~MayCommit(n, t) /\ ~(x.out /\ t \in Due(n))
  <2>1. \E replies \in Seq(Message) : Reply(n, replies)
    BY <1>3, <1>8 DEF HandleTransferAccept
  <2>2. UNCHANGED <<contact, xfer, bal>>
    BY <1>8 DEF HandleTransferAccept
  <2> QED BY <1>1, <1>4, <2>1, <2>2, TypeOfReply
<1> QED BY <1>6, <1>7, <1>8

LEMMA TypeOfTransferCommit ==
    ASSUME TypeOK, NEW n \in Node, HandleTransferCommit(n)
    PROVE  TypeOK'
<1> DEFINE t == Head(net[n]).id
           x == xfer[n][t]
           applicable == /\ ~x.out /\ Can(x.st, "commit")
                         /\ x.st \notin {"COMMITTED", "SETTLED"}
           receipt == <<TransferMsg("transfer.receipt", t)>>
<1>1. t \in TransferId /\ net[n] # <<>>
  BY HeadType DEF HandleTransferCommit, TypeOK
<1>2. x \in TransferRecord /\ x.src \in Nat /\ x.dst \in Nat
  BY <1>1 DEF TypeOK, TransferRecord
<1>3. <<>> \in Seq(Message) /\ <<Error>> \in Seq(Message) /\ receipt \in Seq(Message)
  BY <1>1, MessageTypes
<1>4. UNCHANGED <<late, used, lost>>
  BY DEF HandleTransferCommit
<1>5. /\ "COMMITTED" \in TransferStates /\ "SETTLED" \in TransferStates
  BY DEF TransferStates
<1>6. CASE ~applicable
  <2>1. \E replies \in Seq(Message) : Reply(n, replies)
    <3>1. Reply(n, CASE ~x.out /\ x.st = "SETTLED" -> receipt
                     [] ~x.out /\ x.st = "COMMITTED" -> <<>>
                     [] OTHER -> <<Error>>)
      BY <1>6, Zenon DEF HandleTransferCommit
    <3>2. (CASE ~x.out /\ x.st = "SETTLED" -> receipt
             [] ~x.out /\ x.st = "COMMITTED" -> <<>>
             [] OTHER -> <<Error>>) \in {<<>>, <<Error>>, receipt}
      <4> HIDE DEF receipt, x
      <4> QED OBVIOUS
    <3> QED BY <1>3, <3>1, <3>2, Zenon
  <2>2. UNCHANGED <<contact, xfer, bal>>
    BY <1>6, Zenon DEF HandleTransferCommit
  <2> QED BY <1>1, <1>4, <2>1, <2>2, TypeOfReply
<1>7. CASE applicable
  <2>1. x.st = "ACCEPTED"
    BY <1>7, TransitionTable
  <2>2. /\ Transition(x.st, "commit") = "COMMITTED"
        /\ Transition(Transition(x.st, "commit"), "receipt") = "SETTLED"
    BY <2>1, TransitionTable
  <2>3. CASE ~AppendOK(bal[n], "wallet", "member", x.dst)
    <3>1. /\ xfer' = [xfer EXCEPT ![n][t].st = Transition(@, "commit")]
          /\ Reply(n, <<Error>>) /\ UNCHANGED <<contact, bal>>
      BY <1>7, <2>3, Zenon DEF HandleTransferCommit
    <3>2. xfer' = [xfer EXCEPT ![n][t].st = "COMMITTED"]
      BY <2>2, <3>1
    <3>3. xfer' = [xfer EXCEPT ![n] = [xfer[n] EXCEPT ![t].st = "COMMITTED"]]
      BY <1>1, <1>5, <3>2, StateType
    <3>4. [xfer[n] EXCEPT ![t].st = "COMMITTED"] \in [TransferId -> TransferRecord]
      BY <1>1, <1>5, StateType
    <3> HIDE DEF t, x
    <3> QED BY <1>1, <1>3, <1>4, <3>1, <3>3, <3>4, NoUpdate, TypeOfUpdate
  <2>4. CASE AppendOK(bal[n], "wallet", "member", x.dst)
    <3>1. /\ bal' = [bal EXCEPT ![n] = Moved(bal[n], "wallet", "member", x.dst)]
          /\ contact' = [contact EXCEPT ![n] = PaidIn(contact[n], t, x.src, x.dst)]
          /\ xfer' = [xfer EXCEPT ![n][t].st = Transition(Transition(@, "commit"), "receipt")]
          /\ Reply(n, receipt)
      BY <1>7, <2>4, Zenon DEF HandleTransferCommit
    <3>2. xfer' = [xfer EXCEPT ![n][t].st = "SETTLED"]
      BY <2>2, <3>1
    <3>3. xfer' = [xfer EXCEPT ![n] = [xfer[n] EXCEPT ![t].st = "SETTLED"]]
      BY <1>1, <1>5, <3>2, StateType
    <3>4. [xfer[n] EXCEPT ![t].st = "SETTLED"] \in [TransferId -> TransferRecord]
      BY <1>1, <1>5, StateType
    <3>5. Moved(bal[n], "wallet", "member", x.dst) \in [Account -> Int]
      BY <1>2, NoUpdate, MovedType DEF Account
    <3>6. PaidIn(contact[n], t, x.src, x.dst) \in ContactRecord
      BY <1>1, <1>2, NoUpdate, PoolTypes
    <3> HIDE DEF t, x, receipt
    <3> QED BY <1>1, <1>3, <1>4, <3>1, <3>3, <3>4, <3>5, <3>6, TypeOfUpdate
  <2> QED BY <2>3, <2>4
<1> QED BY <1>6, <1>7

(* End takes a transfer to a state of the table and releases its lock.     *)
LEMMA EndType ==
    ASSUME TypeOK, NEW n \in Node, NEW t \in TransferId,
           NEW event \in {"receipt", "reject", "abort"}, Can(xfer[n][t].st, event),
           End(n, t, event)
    PROVE  \E c \in ContactRecord, x \in [TransferId -> TransferRecord] :
              contact' = [contact EXCEPT ![n] = c] /\ xfer' = [xfer EXCEPT ![n] = x]
<1> DEFINE s == Transition(xfer[n][t].st, event)
<1>1. s \in TransferStates
  BY TransitionTable DEF TransferStates
<1>2. Release(contact[n], t) \in ContactRecord
  BY NoUpdate, LockTypes
<1>3. /\ contact' = [contact EXCEPT ![n] = Release(contact[n], t)]
      /\ xfer' = [xfer EXCEPT ![n][t].st = s]
  BY DEF End
<1> HIDE DEF s
<1> QED BY <1>1, <1>2, <1>3, StateType

LEMMA TypeOfTransferEnds ==
    ASSUME TypeOK, NEW n \in Node,
           HandleTransferReceipt(n) \/ HandleTransferReject(n) \/ HandleTransferAbort(n)
    PROVE  TypeOK'
<1> DEFINE t == Head(net[n]).id
<1>1. t \in TransferId /\ net[n] # <<>>
  BY HeadType DEF HandleTransferReceipt, HandleTransferReject, HandleTransferAbort, TypeOK
<1>2. \E replies \in Seq(Message) : Reply(n, replies)
  BY MessageTypes DEF HandleTransferReceipt, HandleTransferReject, HandleTransferAbort
<1>3. UNCHANGED <<bal, late, used, lost>>
  BY DEF HandleTransferReceipt, HandleTransferReject, HandleTransferAbort
<1>4. \/ UNCHANGED <<contact, xfer>>
      \/ \E event \in {"receipt", "reject", "abort"} :
            Can(xfer[n][t].st, event) /\ End(n, t, event)
  BY DEF HandleTransferReceipt, HandleTransferReject, HandleTransferAbort
<1>5. \E c \in ContactRecord, x \in [TransferId -> TransferRecord] :
         contact' = [contact EXCEPT ![n] = c] /\ xfer' = [xfer EXCEPT ![n] = x]
  BY <1>1, <1>4, EndType, NoUpdate
<1> QED BY <1>1, <1>2, <1>3, <1>5, NoUpdate, TypeOfUpdate

(* Handlers of reserve envelopes.                                          *)
LEMMA TypeOfReserveHandlers ==
    ASSUME TypeOK, NEW n \in Node, HandleReserveAdjust(n) \/ HandleReserveAccept(n)
    PROVE  TypeOK'
<1> DEFINE m == Head(net[n])
<1>1. CASE HandleReserveAdjust(n)
  <2> DEFINE usable == Open(contact[n]) /\ ~contact[n].diverged
             D == IF usable THEN BusyDue(n) ELSE {}
             c == ExpireLock(contact[n], D)
             x == ExpireTransfers(xfer[n], D)
             k == AdjustMirrored(c, m.id, m.delta)
             accept == <<[type |-> "reserve.accept", id |-> m.id]>>
  <2>1. m.id \in AdjustId /\ m.delta \in Int /\ net[n] # <<>>
    BY <1>1, HeadType DEF HandleReserveAdjust, TypeOK
  <2>2. c \in ContactRecord
    BY NoUpdate, LockTypes
  <2>3. k \in ContactRecord
    BY <2>1, <2>2, PoolTypes
  <2>4. x \in [TransferId -> TransferRecord]
    BY NoUpdate, ExpireType
  <2>5. accept \in Seq(Message) /\ <<Error>> \in Seq(Message)
    BY <2>1, MessageTypes DEF Message
  <2>6. UNCHANGED <<bal, late, used, lost>>
    BY <1>1 DEF HandleReserveAdjust
  <2>7. /\ xfer' = [xfer EXCEPT ![n] = x]
        /\ \E d \in {k, c} : contact' = [contact EXCEPT ![n] = d]
        /\ \E replies \in {accept, <<Error>>} : Reply(n, replies)
    BY <1>1, Zenon DEF HandleReserveAdjust
  <2>8. PICK d \in ContactRecord : contact' = [contact EXCEPT ![n] = d]
    BY <2>2, <2>3, <2>7
  <2>9. PICK replies \in Seq(Message) : Reply(n, replies)
    BY <2>5, <2>7
  <2> HIDE DEF m, D, c, x, k, accept
  <2> QED BY <2>1, <2>4, <2>6, <2>7, <2>8, <2>9, NoUpdate, TypeOfUpdate
<1>2. CASE HandleReserveAccept(n)
  <2> DEFINE c == contact[n]
             b == Moved(bal[n], "treasury", "wallet", c.delta)
  <2>1. m.id \in AdjustId /\ net[n] # <<>>
    BY <1>2, HeadType DEF HandleReserveAccept, TypeOK
  <2>2. \E replies \in Seq(Message) : Reply(n, replies)
    BY <1>2, MessageTypes DEF HandleReserveAccept
  <2>3. c \in ContactRecord /\ c.delta \in Int
    BY NoUpdate DEF ContactRecord
  <2>4. CASE UNCHANGED <<contact, bal>>
    BY <1>2, <2>1, <2>2, <2>4, TypeOfReply DEF HandleReserveAccept
  <2>5. CASE ~UNCHANGED <<contact, bal>>
    <3>1. /\ c.pend = m.id /\ contact' = [contact EXCEPT ![n] = Adjusted(c)]
          /\ bal' = [bal EXCEPT ![n] = b] /\ UNCHANGED <<xfer, late, used, lost>>
      BY <1>2, <2>5, Zenon DEF HandleReserveAccept
    <3>2. Adjusted(c) \in ContactRecord
      BY <2>1, <2>3, <3>1, PoolTypes
    <3>3. b \in [Account -> Int]
      BY <2>3, NoUpdate, MovedType DEF Account
    <3> HIDE DEF b, c, m
    <3> QED BY <2>1, <2>2, <3>1, <3>2, <3>3, NoUpdate, TypeOfUpdate
  <2> QED BY <2>4, <2>5
<1> QED BY <1>1, <1>2

(* Timers, and lost envelopes.                                             *)
LEMMA TypeOfTimer ==
    ASSUME TypeOK, NEW n \in Node, Timer(n) \/ Lose(n)
    PROVE  TypeOK'
<1> USE DEF TypeOK
<1>1. ASSUME NEW t \in TransferId, ClockPasses(n, t) PROVE TypeOK'
  BY <1>1 DEF ClockPasses
<1>2. CASE SweepExpired(n)
  <2>1. ExpireLock(contact[n], Due(n)) \in ContactRecord
    BY LockTypes
  <2>2. ExpireTransfers(xfer[n], Due(n)) \in [TransferId -> TransferRecord]
    BY ExpireType
  <2> QED BY <1>2, <2>1, <2>2 DEF SweepExpired
<1>3. CASE ReconcilePeer(n)
  <2>1. PICK k \in CheckpointsOf(Peer(n)) :
           contact' = [contact EXCEPT ![n].diverged = @ \/ Contradicts(contact[n], k)]
    BY <1>3, Zenon DEF ReconcilePeer
  <2> DEFINE d == contact[n].diverged \/ Contradicts(contact[n], k)
  <2>2. d \in BOOLEAN /\ contact[n] \in ContactRecord
    OBVIOUS
  <2> HIDE DEF d
  <2>3. [contact[n] EXCEPT !.diverged = d] \in ContactRecord
    BY <2>2, Zenon DEF ContactRecord
  <2>4. contact' = [contact EXCEPT ![n] = [contact[n] EXCEPT !.diverged = d]]
    BY <2>1, Zenon DEF d
  <2> QED BY <1>3, <2>3, <2>4 DEF ReconcilePeer
<1>4. CASE Lose(n)
  <2>1. net' \in [Node -> Seq(Message)]
    BY <1>4, ReplyType, MessageTypes DEF Lose
  <2> QED BY <1>4, <2>1 DEF Lose
<1> QED BY <1>1, <1>2, <1>3, <1>4 DEF Timer

LEMMA TypeOfStep == TypeOK /\ [Next]_vars => TypeOK'
<1> SUFFICES ASSUME TypeOK, [Next]_vars PROVE TypeOK'
  OBVIOUS
<1>1. CASE UNCHANGED vars
  BY <1>1 DEF TypeOK, vars
<1>2. ASSUME NEW n \in Node, Operator(n) \/ Handle(n) \/ Timer(n) \/ Lose(n)
      PROVE TypeOK'
  BY <1>2, TypeOfOperator, TypeOfContactHandlers, TypeOfTransferPropose,
     TypeOfTransferAccept, TypeOfTransferCommit, TypeOfTransferEnds,
     TypeOfReserveHandlers, TypeOfTimer DEF Handle
<1> QED BY <1>1, <1>2 DEF Next

(* Type correctness: in particular the handlers only ever take a transfer  *)
(* along rows of the transition table, and a ledger balance, a price and   *)
(* an op_seq are always integers, the latter two never negative.           *)
THEOREM TypeCorrect == Spec => []TypeOK
BY TypeInit, TypeOfStep, PTL DEF Spec

-----------------------------------------------------------------------------
(***************************************************************************)
(* The safety of one node's records, for any values of the constants: the  *)
(* lock, the ledger, the reserve and the promise of an accept.             *)
(*                                                                         *)
(* None of the four is inductive alone: the reserve only covers an accepted*)
(* transfer because the lock keeps other operations from spending it, and  *)
(* the lock is only free on a contact that is not active yet because       *)
(* nothing can be in flight there.  Together with types they are: each step*)
(* changes the records of one node, and looks at no other node's.          *)
(***************************************************************************)

LockHeld(c, x) ==
    /\ \A t \in TransferId : x[t].st \in InFlight <=> c.busy = t
    /\ \A a \in AdjustId : c.pend = a <=> c.busy = a

(* Nothing happens on a contact before its seed operation.                 *)
Idle(c) ==
    /\ c.status # "active" => c.busy = None /\ c.pend = None /\ c.mine = 0
    /\ c.status = "none" => ~c.closed

Balanced(b) ==
    /\ b["member"] + b["others"] + b["wallet"] + b["issuance"] + b["treasury"] = 0
    /\ b["wallet"] >= 0

Backed(c, b) == ~c.closed => c.mine = b["wallet"]

Covered(c, x) ==
    \A t \in TransferId : x[t].st = "ACCEPTED" => x[t].dst <= c.mine

NodeInv(c, x, b) ==
    LockHeld(c, x) /\ Idle(c) /\ Balanced(b) /\ Backed(c, b) /\ Covered(c, x)

IInv == TypeOK /\ \A n \in Node : NodeInv(contact[n], xfer[n], bal[n])

-----------------------------------------------------------------------------
(* NodeInv looks at five fields of the contact, and at the state and the   *)
(* payout of transfers.                                                    *)
LEMMA SameView ==
    ASSUME NEW c, NEW x, NEW b, NodeInv(c, x, b), NEW d,
           d.busy = c.busy, d.pend = c.pend, d.status = c.status,
           d.closed = c.closed, d.mine = c.mine
    PROVE  NodeInv(d, x, b)
BY DEF NodeInv, LockHeld, Idle, Balanced, Backed, Covered

(* Transfers that expire, and the lock that one of them holds.             *)
LEMMA ExpireInv ==
    ASSUME NEW c \in ContactRecord, NEW x \in [TransferId -> TransferRecord], NEW b,
           NodeInv(c, x, b),
           NEW D, D \subseteq {t \in TransferId : Can(x[t].st, "expire")}
    PROVE  NodeInv(ExpireLock(c, D), ExpireTransfers(x, D), b)
<1> DEFINE d == ExpireLock(c, D)
           y == ExpireTransfers(x, D)
<1>1. /\ d.busy = (IF c.busy \in D THEN None ELSE c.busy)
      /\ d.pend = c.pend /\ d.status = c.status /\ d.closed = c.closed /\ d.mine = c.mine
  BY LockFields
<1>2. \A t \in TransferId : /\ y[t].st = (IF t \in D THEN "EXPIRED" ELSE x[t].st)
                            /\ y[t].dst = x[t].dst
  BY DEF ExpireTransfers, TransferRecord
<1>3. \A t \in D : t \in TransferId /\ x[t].st \in InFlight /\ c.busy = t
  BY TransitionTable DEF InFlight, NodeInv, LockHeld
<1>4. None \notin TransferId \cup AdjustId /\ TransferId \cap AdjustId = {}
  BY Constants DEF OpId
<1> HIDE DEF d, y
<1>5. LockHeld(d, y)
  BY <1>1, <1>2, <1>3, <1>4 DEF NodeInv, LockHeld, InFlight
<1>6. Idle(d) /\ Backed(d, b) /\ Covered(d, y)
  BY <1>1, <1>2, <1>3, <1>4 DEF NodeInv, LockHeld, Idle, Backed, Covered
<1> QED BY <1>5, <1>6 DEF NodeInv, d, y

(* A transfer that begins on an idle, active contact.                      *)
LEMMA BeginInv ==
    ASSUME NEW c \in ContactRecord, NEW x \in [TransferId -> TransferRecord], NEW b,
           NodeInv(c, x, b), Free(c), c.status = "active",
           NEW t \in TransferId, NEW r \in TransferRecord,
           r.st = "PROPOSED" \/ (r.st = "ACCEPTED" /\ r.dst <= c.mine)
    PROVE  NodeInv(Lock(c, t), [x EXCEPT ![t] = r], b)
<1> DEFINE d == Lock(c, t)
           y == [x EXCEPT ![t] = r]
<1>1. /\ d.busy = t
      /\ d.pend = c.pend /\ d.status = c.status /\ d.closed = c.closed /\ d.mine = c.mine
  BY LockFields
<1>2. \A u \in TransferId : y[u] = (IF u = t THEN r ELSE x[u])
  OBVIOUS
<1>3. None \notin TransferId \cup AdjustId /\ TransferId \cap AdjustId = {}
  BY Constants DEF OpId
<1> HIDE DEF d, y
<1>4. LockHeld(d, y)
  BY <1>1, <1>2, <1>3 DEF NodeInv, LockHeld, InFlight, Free
<1>5. Idle(d) /\ Backed(d, b) /\ Covered(d, y)
  BY <1>1, <1>2 DEF NodeInv, Idle, Backed, Covered
<1> QED BY <1>4, <1>5 DEF NodeInv, d, y

(* A transfer that ends, releasing the lock it holds.                      *)
LEMMA EndInv ==
    ASSUME NEW c \in ContactRecord, NEW x \in [TransferId -> TransferRecord], NEW b,
           NodeInv(c, x, b),
           NEW t \in TransferId, x[t].st \in InFlight,
           NEW s \in TransferStates \ InFlight
    PROVE  NodeInv(Release(c, t), [x EXCEPT ![t].st = s], b)
<1> DEFINE d == Release(c, t)
           y == [x EXCEPT ![t].st = s]
<1>1. /\ d.busy = (IF c.busy = t THEN None ELSE c.busy)
      /\ d.pend = c.pend /\ d.status = c.status /\ d.closed = c.closed /\ d.mine = c.mine
  BY LockFields
<1>2. \A u \in TransferId : y[u].st = (IF u = t THEN s ELSE x[u].st) /\ y[u].dst = x[u].dst
  BY DEF TransferRecord
<1>3. None \notin TransferId \cup AdjustId /\ TransferId \cap AdjustId = {}
  BY Constants DEF OpId
<1>4. c.busy = t /\ s # "ACCEPTED"
  BY DEF NodeInv, LockHeld, InFlight
<1> HIDE DEF d, y
<1>5. LockHeld(d, y)
  BY <1>1, <1>2, <1>3, <1>4 DEF NodeInv, LockHeld
<1>6. Idle(d) /\ Backed(d, b) /\ Covered(d, y)
  BY <1>1, <1>2, <1>4 DEF NodeInv, Idle, Backed, Covered
<1> QED BY <1>5, <1>6 DEF NodeInv, d, y

(* Only the transfer that holds the lock is in flight.                     *)
LEMMA OneInFlight ==
    ASSUME NEW c, NEW x, NEW b, NodeInv(c, x, b),
           NEW t \in TransferId, x[t].st \in InFlight
    PROVE  /\ c.busy = t /\ c.status = "active"
           /\ \A u \in TransferId : x[u].st \in InFlight => u = t
           /\ \A a \in AdjustId : c.pend # a
<1>1. None \notin TransferId \cup AdjustId /\ TransferId \cap AdjustId = {}
  BY Constants DEF OpId
<1> QED BY <1>1 DEF NodeInv, LockHeld, Idle

(* Moving money keeps the sum of the accounts.                             *)
LEMMA MovedFields ==
    ASSUME NEW b \in [Account -> Int], NEW from \in Account, NEW to \in Account,
           from # to, NEW amount \in Int
    PROVE  LET d == Moved(b, from, to, amount)
           IN  \A a \in Account :
                  d[a] = IF a = from THEN b[a] - amount
                         ELSE IF a = to THEN b[a] + amount ELSE b[a]
BY DEF Moved, Account

LEMMA MovedBalance ==
    ASSUME NEW b \in [Account -> Int], NEW from \in Account, NEW to \in Account,
           from # to, NEW amount \in Int, Balanced(b),
           Moved(b, from, to, amount)["wallet"] >= 0
    PROVE  Balanced(Moved(b, from, to, amount))
<1> DEFINE d == Moved(b, from, to, amount)
<1>1. \A a \in Account :
         d[a] = IF a = from THEN b[a] - amount ELSE IF a = to THEN b[a] + amount ELSE b[a]
  BY MovedFields
<1> HIDE DEF d
<1>2. d["member"] + d["others"] + d["wallet"] + d["issuance"] + d["treasury"] = 0
  BY <1>1 DEF Balanced, Account
<1> QED BY <1>2 DEF Balanced, d

(* The payer's commit: the wallet and the reserve grow by the same amount. *)
LEMMA CommitOutInv ==
    ASSUME NEW c \in ContactRecord, NEW x \in [TransferId -> TransferRecord],
           NEW b \in [Account -> Int], NodeInv(c, x, b),
           NEW t \in TransferId, x[t].st = "PROPOSED", NEW src \in Nat, NEW dst \in Nat
    PROVE  NodeInv(PaidOut(c, t, src, dst), [x EXCEPT ![t].st = "COMMITTED"],
                   Moved(b, "member", "wallet", src))
<1> DEFINE d == PaidOut(c, t, src, dst)
           y == [x EXCEPT ![t].st = "COMMITTED"]
           e == Moved(b, "member", "wallet", src)
<1>1. /\ d.busy = c.busy /\ d.pend = c.pend /\ d.status = c.status
      /\ d.closed = c.closed /\ d.mine = c.mine + src
  BY PoolFields
<1>2. \A u \in TransferId : /\ y[u].st = (IF u = t THEN "COMMITTED" ELSE x[u].st)
                            /\ y[u].dst = x[u].dst
  BY DEF TransferRecord
<1>3. e["wallet"] = b["wallet"] + src /\ b["wallet"] \in Int
  BY MovedFields DEF Account
<1>4. Balanced(e)
  BY <1>3, MovedBalance DEF NodeInv, Balanced, Account
<1>5. c.status = "active" /\ c.mine \in Int
  BY OneInFlight DEF InFlight, ContactRecord
<1>6. \A u \in TransferId : y[u].st # "ACCEPTED"
  BY <1>2, OneInFlight DEF InFlight
<1> HIDE DEF d, y, e
<1>7. LockHeld(d, y)
  BY <1>1, <1>2 DEF NodeInv, LockHeld, InFlight
<1>8. Idle(d) /\ Backed(d, e) /\ Covered(d, y)
  BY <1>1, <1>3, <1>5, <1>6 DEF NodeInv, Idle, Backed, Covered
<1> QED BY <1>4, <1>7, <1>8 DEF NodeInv, d, y, e

(* The payee's commit: both shrink, and nothing else is accepted.          *)
LEMMA CommitInInv ==
    ASSUME NEW c \in ContactRecord, NEW x \in [TransferId -> TransferRecord],
           NEW b \in [Account -> Int], NodeInv(c, x, b),
           NEW t \in TransferId, x[t].st = "ACCEPTED", NEW src \in Nat, NEW dst \in Nat,
           AppendOK(b, "wallet", "member", dst)
    PROVE  NodeInv(PaidIn(c, t, src, dst), [x EXCEPT ![t].st = "SETTLED"],
                   Moved(b, "wallet", "member", dst))
<1> DEFINE d == PaidIn(c, t, src, dst)
           y == [x EXCEPT ![t].st = "SETTLED"]
           e == Moved(b, "wallet", "member", dst)
<1>1. /\ d.busy = None /\ d.pend = c.pend /\ d.status = c.status
      /\ d.closed = c.closed /\ d.mine = c.mine - dst
  BY PoolFields
<1>2. \A u \in TransferId : /\ y[u].st = (IF u = t THEN "SETTLED" ELSE x[u].st)
                            /\ y[u].dst = x[u].dst
  BY DEF TransferRecord
<1>3. e["wallet"] = b["wallet"] - dst /\ b["wallet"] \in Int
  BY MovedFields DEF Account
<1>4. Balanced(e)
  BY MovedBalance DEF NodeInv, AppendOK, Account
<1>5. /\ c.status = "active" /\ c.busy = t /\ c.mine \in Int
      /\ \A u \in TransferId : x[u].st \in InFlight => u = t
      /\ \A a \in AdjustId : c.pend # a
  BY OneInFlight DEF InFlight, ContactRecord
<1>6. None \notin TransferId \cup AdjustId
  BY Constants DEF OpId
<1> HIDE DEF d, y, e
<1>7. LockHeld(d, y)
  BY <1>1, <1>2, <1>5, <1>6 DEF LockHeld, InFlight
<1>8. Idle(d) /\ Backed(d, e) /\ Covered(d, y)
  BY <1>1, <1>2, <1>3, <1>5 DEF NodeInv, Idle, Backed, Covered, InFlight
<1> QED BY <1>4, <1>7, <1>8 DEF NodeInv, d, y, e

(* The payee's commit that the ledger refuses.                             *)
LEMMA CommitRefusedInv ==
    ASSUME NEW c \in ContactRecord, NEW x \in [TransferId -> TransferRecord], NEW b,
           NodeInv(c, x, b), NEW t \in TransferId, x[t].st = "ACCEPTED"
    PROVE  NodeInv(c, [x EXCEPT ![t].st = "COMMITTED"], b)
<1> DEFINE y == [x EXCEPT ![t].st = "COMMITTED"]
<1>1. \A u \in TransferId : /\ y[u].st = (IF u = t THEN "COMMITTED" ELSE x[u].st)
                            /\ y[u].dst = x[u].dst
  BY DEF TransferRecord
<1> HIDE DEF y
<1>2. LockHeld(c, y) /\ Covered(c, y)
  BY <1>1 DEF NodeInv, LockHeld, Covered, InFlight
<1> QED BY <1>2 DEF NodeInv, y

(* A reserve adjustment begins, and ends.                                  *)
LEMMA AdjustBeginInv ==
    ASSUME NEW c \in ContactRecord, NEW x, NEW b, NodeInv(c, x, b),
           Free(c), c.status = "active", NEW a \in AdjustId, NEW delta
    PROVE  NodeInv([Lock(c, a) EXCEPT !.pend = a, !.delta = delta], x, b)
<1> DEFINE d == [Lock(c, a) EXCEPT !.pend = a, !.delta = delta]
<1>1. /\ d.busy = a /\ d.pend = a /\ d.status = c.status
      /\ d.closed = c.closed /\ d.mine = c.mine
  BY LockFields
<1>2. None \notin TransferId \cup AdjustId /\ TransferId \cap AdjustId = {}
  BY Constants DEF OpId
<1> HIDE DEF d
<1>3. LockHeld(d, x)
  BY <1>1, <1>2 DEF NodeInv, LockHeld, Free
<1>4. Idle(d) /\ Backed(d, b) /\ Covered(d, x)
  BY <1>1 DEF NodeInv, Idle, Backed, Covered
<1> QED BY <1>3, <1>4 DEF NodeInv, d

LEMMA AdjustEndInv ==
    ASSUME NEW c \in ContactRecord, NEW x \in [TransferId -> TransferRecord],
           NEW b \in [Account -> Int], NodeInv(c, x, b), c.pend \in AdjustId,
           AppendOK(b, "treasury", "wallet", c.delta)
    PROVE  NodeInv(Adjusted(c), x, Moved(b, "treasury", "wallet", c.delta))
<1> DEFINE d == Adjusted(c)
           e == Moved(b, "treasury", "wallet", c.delta)
<1>1. /\ d.busy = None /\ d.pend = None /\ d.status = c.status
      /\ d.closed = c.closed /\ d.mine = c.mine + c.delta
  BY PoolFields
<1>2. c.delta \in Int
  BY DEF ContactRecord
<1>3. e["wallet"] = b["wallet"] + c.delta /\ b["wallet"] \in Int
  <2>1. \A v \in Int : Moved(b, "treasury", "wallet", v)["wallet"] = b["wallet"] + v
    BY MovedFields DEF Account
  <2> QED BY <1>2, <2>1 DEF Account
<1>4. Balanced(e)
  BY <1>2, MovedBalance DEF NodeInv, AppendOK, Account
<1>5. None \notin TransferId \cup AdjustId /\ TransferId \cap AdjustId = {}
  BY Constants DEF OpId
<1>6. /\ c.busy = c.pend /\ c.status = "active"
      /\ \A t \in TransferId : x[t].st \notin InFlight
  BY <1>5 DEF NodeInv, LockHeld, Idle
<1> HIDE DEF d, e
<1>7. LockHeld(d, x)
  BY <1>1, <1>5, <1>6 DEF LockHeld
<1>8. Idle(d) /\ Backed(d, e) /\ Covered(d, x)
  BY <1>1, <1>3, <1>6 DEF NodeInv, Idle, Backed, Covered, InFlight
<1> QED BY <1>4, <1>7, <1>8 DEF NodeInv, d, e

(* The seed operation: the wallet of a contact that is not active is empty *)
(* until the contact is closed, and then nobody counts on it.              *)
LEMMA SeedInv ==
    ASSUME NEW c \in ContactRecord, NEW x \in [TransferId -> TransferRecord],
           NEW b \in [Account -> Int], NodeInv(c, x, b), c.status # "active",
           NEW c0 \in ContactRecord, c0 = c \/ (c.status = "none" /\ c0 = NoContact),
           NEW id, NEW p, NEW r, NEW mine \in Nat, NEW theirs
    PROVE  NodeInv(SeedActive(c0, id, p, r, mine, theirs), x,
                   Moved(b, "issuance", "wallet", mine))
<1> DEFINE d == SeedActive(c0, id, p, r, mine, theirs)
           e == Moved(b, "issuance", "wallet", mine)
<1>1. /\ d.busy = c0.busy /\ d.pend = c0.pend /\ d.status = "active"
      /\ d.closed = c0.closed /\ d.mine = mine
  BY Zenon DEF SeedActive, ContactRecord
<1>2. NoContact.busy = None /\ NoContact.pend = None /\ ~NoContact.closed
  BY DEF NoContact
<1>3. e["wallet"] = b["wallet"] + mine /\ b["wallet"] \in Int
  BY MovedFields DEF Account
<1>4. Balanced(e)
  BY <1>3, MovedBalance DEF NodeInv, Balanced, Account
<1>5. /\ c.busy = None /\ c.pend = None /\ c.mine = 0
      /\ c0.busy = None /\ c0.pend = None /\ (~c0.closed => ~c.closed)
  BY <1>2 DEF NodeInv, Idle
<1>6. \A t \in TransferId : x[t].st \notin InFlight
  BY <1>5, Constants DEF NodeInv, LockHeld, OpId
<1> HIDE DEF d, e
<1>7. LockHeld(d, x)
  BY <1>1, <1>5, Constants, <1>6 DEF LockHeld, OpId
<1>8. Idle(d) /\ Backed(d, e) /\ Covered(d, x)
  BY <1>1, <1>3, <1>5, <1>6 DEF NodeInv, Idle, Backed, Covered, InFlight
<1> QED BY <1>4, <1>7, <1>8 DEF NodeInv, d, e

-----------------------------------------------------------------------------
(***************************************************************************)
(* Every step changes the records of at most one node.                     *)
(***************************************************************************)
LEMMA OneNode ==
    ASSUME IInv, TypeOK', NEW n \in Node, NEW c, NEW x, NEW b, NodeInv(c, x, b),
           contact' = [contact EXCEPT ![n] = c],
           xfer' = [xfer EXCEPT ![n] = x], bal' = [bal EXCEPT ![n] = b]
    PROVE  IInv'
<1>1. \A k \in Node : /\ contact'[k] = (IF k = n THEN c ELSE contact[k])
                      /\ xfer'[k] = (IF k = n THEN x ELSE xfer[k])
                      /\ bal'[k] = (IF k = n THEN b ELSE bal[k])
  BY DEF IInv, TypeOK
<1>2. \A k \in Node : NodeInv(contact'[k], xfer'[k], bal'[k])
  BY <1>1, Zenon DEF IInv
<1> QED BY <1>2, Zenon DEF IInv

LEMMA InvView ==
    ASSUME IInv, NEW n \in Node
    PROVE  /\ contact[n] \in ContactRecord /\ contact = [contact EXCEPT ![n] = contact[n]]
           /\ xfer[n] \in [TransferId -> TransferRecord]
           /\ xfer = [xfer EXCEPT ![n] = xfer[n]]
           /\ bal[n] \in [Account -> Int] /\ bal = [bal EXCEPT ![n] = bal[n]]
           /\ NodeInv(contact[n], xfer[n], bal[n])
BY NoUpdate DEF IInv

(* A step that only changes n's record of the contact.                     *)
LEMMA OnlyContact ==
    ASSUME IInv, TypeOK', NEW n \in Node, NEW c, NodeInv(c, xfer[n], bal[n]),
           contact' = [contact EXCEPT ![n] = c], UNCHANGED <<xfer, bal>>
    PROVE  IInv'
<1> DEFINE x == xfer[n]
           b == bal[n]
<1>1. xfer' = [xfer EXCEPT ![n] = x] /\ bal' = [bal EXCEPT ![n] = b]
  BY InvView
<1>2. NodeInv(c, x, b)
  OBVIOUS
<1> HIDE DEF x, b
<1> QED BY <1>1, <1>2, OneNode

LEMMA InvUnchanged ==
    ASSUME IInv, TypeOK', UNCHANGED <<contact, xfer, bal>>
    PROVE  IInv'
BY Zenon DEF IInv

(* What releaseIfBusyExpired leaves.                                       *)
LEMMA AfterExpiry ==
    ASSUME IInv, NEW n \in Node, NEW D \in SUBSET Due(n)
    PROVE  LET c == ExpireLock(contact[n], D)
               x == ExpireTransfers(xfer[n], D)
           IN  /\ c \in ContactRecord /\ x \in [TransferId -> TransferRecord]
               /\ NodeInv(c, x, bal[n])
               /\ c.status = contact[n].status /\ c.mine = contact[n].mine
<1>1. D \subseteq {t \in TransferId : Can(xfer[n][t].st, "expire")}
  BY DEF Due, IInv, TypeOK
<1>2. NodeInv(ExpireLock(contact[n], D), ExpireTransfers(xfer[n], D), bal[n])
  BY <1>1, InvView, ExpireInv
<1>3. ExpireLock(contact[n], D) \in ContactRecord
  BY InvView, LockTypes
<1>4. ExpireTransfers(xfer[n], D) \in [TransferId -> TransferRecord]
  BY InvView, ExpireType
<1>5. /\ ExpireLock(contact[n], D).status = contact[n].status
      /\ ExpireLock(contact[n], D).mine = contact[n].mine
  BY InvView, Zenon DEF ExpireLock, ContactRecord
<1> QED BY <1>2, <1>3, <1>4, <1>5

LEMMA InvOfOperator ==
    ASSUME IInv, TypeOK', NEW n \in Node, Operator(n)
    PROVE  IInv'
<1>1. ASSUME NEW seed \in Seeds, OpenContact(n, seed) PROVE IInv'
  <2> DEFINE d == [NoContact EXCEPT !.status = "pending", !.id = n, !.seed = seed]
  <2>1. /\ d.busy = None /\ d.pend = None /\ d.status = "pending"
        /\ d.closed = FALSE /\ d.mine = 0
    BY Zenon DEF NoContact
  <2>2. contact' = [contact EXCEPT ![n] = d] /\ UNCHANGED <<xfer, bal>>
    BY <1>1 DEF OpenContact
  <2>3. contact[n].status = "none"
    BY <1>1 DEF OpenContact
  <2> HIDE DEF d
  <2>4. NodeInv(d, xfer[n], bal[n])
    BY <2>1, <2>3, InvView DEF NodeInv, LockHeld, Idle, Balanced, Backed, Covered
  <2> QED BY <2>2, <2>4, OnlyContact
<1>2. ASSUME NEW t \in TransferId, NEW src \in SrcAmounts, StartTransfer(n, t, src)
      PROVE IInv'
  <2> DEFINE D == BusyDue(n)
             c == ExpireLock(contact[n], D)
             x == ExpireTransfers(xfer[n], D)
             dst == PoolPrice(c.mine, c.theirs, src)
             r == [st |-> "PROPOSED", out |-> TRUE, src |-> src, dst |-> dst]
  <2>1. /\ c \in ContactRecord /\ x \in [TransferId -> TransferRecord]
        /\ NodeInv(c, x, bal[n]) /\ c.status = contact[n].status
    BY AfterExpiry DEF BusyDue
  <2>2. dst \in Nat
    <3>1. c.mine \in Int /\ c.theirs \in Int /\ src \in Int
      BY <2>1, Constants DEF ContactRecord
    <3>2. \A p, q, v \in Int : PoolPrice(p, q, v) \in Nat
      BY PriceType
    <3> HIDE DEF c
    <3> QED BY <3>1, <3>2, Zenon
  <2>3. r \in TransferRecord /\ r.st = "PROPOSED"
    BY <2>2, Constants DEF TransferRecord, TransferStates
  <2>4. Free(c) /\ contact[n].status = "active"
    BY <1>2 DEF StartTransfer, Open
  <2> HIDE DEF D, c, x, dst, r
  <2>5. /\ contact' = [contact EXCEPT ![n] = Lock(c, t)]
        /\ xfer' = [xfer EXCEPT ![n] = [x EXCEPT ![t] = r]] /\ UNCHANGED bal
    BY <1>2, Zenon DEF StartTransfer, D, c, x, dst, r
  <2>6. NodeInv(Lock(c, t), [x EXCEPT ![t] = r], bal[n])
    BY <2>1, <2>3, <2>4, BeginInv
  <2> QED BY <2>5, <2>6, InvView, OneNode
<1>3. ASSUME NEW t \in TransferId, AbortTransfer(n, t) PROVE IInv'
  <2>1. xfer[n][t].st \in InFlight /\ "ABORTED" \in TransferStates \ InFlight
    BY <1>3, TransitionTable DEF AbortTransfer, InFlight, TransferStates
  <2>2. NodeInv(Release(contact[n], t), [xfer[n] EXCEPT ![t].st = "ABORTED"], bal[n])
    BY <2>1, InvView, EndInv
  <2>3. /\ contact' = [contact EXCEPT ![n] = Release(contact[n], t)]
        /\ xfer' = [xfer EXCEPT ![n] = [xfer[n] EXCEPT ![t].st = "ABORTED"]]
        /\ UNCHANGED bal
    BY <1>3, <2>1, StateType, Zenon DEF AbortTransfer, IInv
  <2> QED BY <2>2, <2>3, InvView, OneNode
<1>4. ASSUME NEW a \in AdjustId, NEW delta \in Deltas, AdjustReserve(n, a, delta)
      PROVE IInv'
  <2> DEFINE D == BusyDue(n)
             c == ExpireLock(contact[n], D)
             x == ExpireTransfers(xfer[n], D)
             d == [Lock(c, a) EXCEPT !.pend = a, !.delta = delta]
  <2>1. /\ c \in ContactRecord /\ x \in [TransferId -> TransferRecord]
        /\ NodeInv(c, x, bal[n]) /\ c.status = contact[n].status
    BY AfterExpiry DEF BusyDue
  <2>2. Free(c) /\ contact[n].status = "active"
    BY <1>4 DEF AdjustReserve, Open
  <2>3. /\ contact' = [contact EXCEPT ![n] = d]
        /\ xfer' = [xfer EXCEPT ![n] = x] /\ UNCHANGED bal
    BY <1>4 DEF AdjustReserve
  <2>4. NodeInv(d, x, bal[n])
    <3> HIDE DEF D, c, x
    <3> QED BY <2>1, <2>2, AdjustBeginInv
  <2> HIDE DEF d, x
  <2> QED BY <2>3, <2>4, InvView, OneNode
<1>5. CASE CloseContact(n)
  <2> DEFINE d == [contact[n] EXCEPT !.closed = TRUE]
  <2>1. /\ d.busy = contact[n].busy /\ d.pend = contact[n].pend
        /\ d.status = contact[n].status /\ d.closed = TRUE /\ d.mine = contact[n].mine
    BY InvView, Zenon DEF ContactRecord
  <2>2. contact' = [contact EXCEPT ![n] = d] /\ UNCHANGED <<xfer, bal>>
    BY <1>5 DEF CloseContact
  <2>3. contact[n].status # "none"
    BY <1>5 DEF CloseContact
  <2> HIDE DEF d
  <2>4. NodeInv(d, xfer[n], bal[n])
    BY <2>1, <2>3, InvView DEF NodeInv, LockHeld, Idle, Backed, Covered
  <2> QED BY <2>2, <2>4, OnlyContact
<1>6. CASE RetireReserve(n)
  <2> DEFINE e == Moved(bal[n], "wallet", "issuance", bal[n]["wallet"])
  <2>1. bal[n]["wallet"] \in Int
    BY InvView DEF Account
  <2>2. e["wallet"] = 0
    <3>1. \A v \in Int : Moved(bal[n], "wallet", "issuance", v)["wallet"]
                            = bal[n]["wallet"] - v
      BY InvView, MovedFields DEF Account
    <3> QED BY <2>1, <3>1
  <2>3. Balanced(e)
    <3>1. \A v \in Int : Moved(bal[n], "wallet", "issuance", v)["wallet"] >= 0
                            => Balanced(Moved(bal[n], "wallet", "issuance", v))
      BY InvView, MovedBalance DEF Account, NodeInv
    <3> QED BY <2>1, <2>2, <3>1
  <2>4. NodeInv(contact[n], xfer[n], e)
    BY <1>6, <2>3, InvView DEF RetireReserve, NodeInv, Backed
  <2>5. bal' = [bal EXCEPT ![n] = e] /\ UNCHANGED <<contact, xfer>>
    BY <1>6 DEF RetireReserve
  <2> HIDE DEF e
  <2> QED BY <2>4, <2>5, InvView, OneNode
<1>7. ASSUME NEW amount \in PayAmounts, Pay(n, amount) PROVE IInv'
  <2> DEFINE e == Moved(bal[n], "member", "others", amount)
  <2>1. amount \in Int
    BY Constants
  <2>2. e["wallet"] = bal[n]["wallet"]
    BY <2>1, InvView, MovedFields DEF Account
  <2>3. Balanced(e)
    BY <2>1, <2>2, InvView, MovedBalance DEF Account, NodeInv, Balanced
  <2>4. bal' = [bal EXCEPT ![n] = e] /\ UNCHANGED <<contact, xfer>>
    BY <1>7 DEF Pay
  <2> HIDE DEF e
  <2>5. NodeInv(contact[n], xfer[n], e)
    BY <2>2, <2>3, InvView DEF NodeInv, Backed
  <2> QED BY <2>4, <2>5, InvView, OneNode
<1> QED BY <1>1, <1>2, <1>3, <1>4, <1>5, <1>6, <1>7 DEF Operator

LEMMA InvOfContactHandlers ==
    ASSUME IInv, TypeOK', NEW n \in Node,
           \/ HandleContactPropose(n) \/ HandleContactAccept(n)
           \/ HandleContactClose(n) \/ HandleError(n)
    PROVE  IInv'
<1> DEFINE m == Head(net[n])
           c == contact[n]
<1>0. net \in [Node -> Seq(Message)]
  BY DEF IInv, TypeOK
<1>1. CASE HandleContactPropose(n)
  <2>1. UNCHANGED xfer
    BY <1>1 DEF HandleContactPropose
  <2>2. CASE UNCHANGED <<contact, bal>>
    BY <2>1, <2>2, InvUnchanged
  <2>3. CASE ~UNCHANGED <<contact, bal>>
    <3> DEFINE g == AutoAcceptSeed[n]
               k == SeedActive(NoContact, m.id, m.seed, g, g, m.seed)
               b == Moved(bal[n], "issuance", "wallet", g)
    <3>1. /\ contact' = [contact EXCEPT ![n] = k] /\ bal' = [bal EXCEPT ![n] = b]
          /\ c.status = "none"
      BY <1>1, <2>3, Zenon DEF HandleContactPropose
    <3>2. g \in Nat /\ NoContact \in ContactRecord
      BY Constants DEF NoContact, ContactRecord
    <3> HIDE DEF g
    <3>3. NodeInv(k, xfer[n], b)
      BY <3>1, <3>2, InvView, SeedInv
    <3> HIDE DEF k, b
    <3> QED BY <2>1, <3>1, <3>3, InvView, OneNode
  <2> QED BY <2>2, <2>3
<1>2. CASE HandleContactAccept(n)
  <2>1. m.id \in Node
    BY <1>0, <1>2, HeadType DEF HandleContactAccept
  <2>2. UNCHANGED xfer
    BY <1>2 DEF HandleContactAccept
  <2>3. CASE UNCHANGED <<contact, bal>>
    BY <2>2, <2>3, InvUnchanged
  <2>4. CASE ~UNCHANGED <<contact, bal>>
    <3> DEFINE g == c.seed
               k == SeedActive(c, n, g, m.seed, g, m.seed)
               b == Moved(bal[n], "issuance", "wallet", g)
    <3>1. /\ contact' = [contact EXCEPT ![n] = k] /\ bal' = [bal EXCEPT ![n] = b]
          /\ c.status # "active"
      BY <1>2, <2>4, Zenon DEF HandleContactAccept
    <3>2. g \in Nat
      BY InvView DEF ContactRecord
    <3> HIDE DEF g
    <3>3. NodeInv(k, xfer[n], b)
      BY <3>1, <3>2, InvView, SeedInv
    <3> HIDE DEF k, b
    <3> QED BY <2>2, <3>1, <3>3, InvView, OneNode
  <2> QED BY <2>3, <2>4
<1>3. CASE HandleContactClose(n)
  <2> DEFINE d == [c EXCEPT !.closed = TRUE]
  <2>1. UNCHANGED <<xfer, bal>>
    BY <1>3 DEF HandleContactClose
  <2>2. CASE c.status = "none"
    BY <1>3, <2>1, <2>2, InvUnchanged DEF HandleContactClose
  <2>3. CASE c.status # "none"
    <3>1. /\ d.busy = c.busy /\ d.pend = c.pend
          /\ d.status = c.status /\ d.closed = TRUE /\ d.mine = c.mine
      BY InvView, Zenon DEF ContactRecord
    <3>2. contact' = [contact EXCEPT ![n] = d]
      BY <1>3, <2>3 DEF HandleContactClose
    <3> HIDE DEF d
    <3>3. NodeInv(d, xfer[n], bal[n])
      BY <3>1, <2>3, InvView DEF NodeInv, LockHeld, Idle, Backed, Covered
    <3> QED BY <2>1, <3>2, <3>3, OnlyContact
  <2> QED BY <2>2, <2>3
<1>4. CASE HandleError(n)
  BY <1>4, InvUnchanged DEF HandleError
<1> QED BY <1>1, <1>2, <1>3, <1>4

(* The payee's accept: the price is covered because it is a price.         *)
LEMMA InvOfTransferPropose ==
    ASSUME IInv, TypeOK', NEW n \in Node, HandleTransferPropose(n)
    PROVE  IInv'
<1> DEFINE m == Head(net[n])
           usable == Open(contact[n]) /\ ~contact[n].diverged
           D == IF usable THEN BusyDue(n) ELSE {}
           c == ExpireLock(contact[n], D)
           x == ExpireTransfers(xfer[n], D)
           r == [st |-> "ACCEPTED", out |-> FALSE, src |-> m.src, dst |-> m.dst]
<1>1. m.id \in TransferId /\ m.src \in Nat /\ m.dst \in Nat
  BY HeadType DEF HandleTransferPropose, IInv, TypeOK
<1>2. /\ c \in ContactRecord /\ x \in [TransferId -> TransferRecord]
      /\ NodeInv(c, x, bal[n]) /\ c.status = contact[n].status
  BY AfterExpiry DEF BusyDue
<1>3. r \in TransferRecord /\ r.st = "ACCEPTED" /\ r.dst = m.dst
  BY <1>1 DEF TransferRecord, TransferStates
<1>4. UNCHANGED bal
  BY DEF HandleTransferPropose
<1>5. \/ xfer' = [xfer EXCEPT ![n] = x] /\ contact' = [contact EXCEPT ![n] = c]
      \/ /\ usable /\ Acceptable(c, m)
         /\ xfer' = [xfer EXCEPT ![n] = [x EXCEPT ![m.id] = r]]
         /\ contact' = [contact EXCEPT ![n] = Lock(c, m.id)]
  BY DEF HandleTransferPropose
<1>6. CASE xfer' = [xfer EXCEPT ![n] = x] /\ contact' = [contact EXCEPT ![n] = c]
  <2> HIDE DEF c, x
  <2> QED BY <1>2, <1>4, <1>6, InvView, OneNode
<1>7. CASE /\ usable /\ Acceptable(c, m)
           /\ xfer' = [xfer EXCEPT ![n] = [x EXCEPT ![m.id] = r]]
           /\ contact' = [contact EXCEPT ![n] = Lock(c, m.id)]
  <2>1. m.dst <= c.mine
    <3>1. c.theirs \in Int /\ c.mine \in Int /\ m.src \in Int
      BY <1>1, <1>2 DEF ContactRecord
    <3>2. PoolPrice(c.theirs, c.mine, m.src) = m.dst /\ m.dst > 0
      BY <1>7 DEF Acceptable
    <3>3. \A p, q, v \in Int : PoolPrice(p, q, v) > 0 => PoolPrice(p, q, v) <= q
      BY PriceWithinReserve
    <3> HIDE DEF c
    <3> QED BY <3>1, <3>2, <3>3
  <2>2. Free(c) /\ contact[n].status = "active"
    BY <1>7 DEF Acceptable, Open
  <2> HIDE DEF c, x, r
  <2>3. NodeInv(Lock(c, m.id), [x EXCEPT ![m.id] = r], bal[n])
    BY <1>1, <1>2, <1>3, <2>1, <2>2, BeginInv
  <2> QED BY <1>4, <1>7, <2>3, InvView, OneNode
<1> QED BY <1>5, <1>6, <1>7

LEMMA InvOfTransferAccept ==
    ASSUME IInv, TypeOK', NEW n \in Node, HandleTransferAccept(n)
    PROVE  IInv'
<1> DEFINE t == Head(net[n]).id
           x == xfer[n][t]
           c == contact[n]
<1>1. t \in TransferId
  BY HeadType DEF HandleTransferAccept, IInv, TypeOK
<1>2. /\ c \in ContactRecord /\ xfer[n] \in [TransferId -> TransferRecord]
      /\ bal[n] \in [Account -> Int] /\ NodeInv(c, xfer[n], bal[n])
  BY InvView
<1>3. x.src \in Nat /\ x.dst \in Nat
  BY <1>1, <1>2 DEF TransferRecord
<1>4. "COMMITTED" \in TransferStates /\ "EXPIRED" \in TransferStates \ InFlight
  BY DEF TransferStates, InFlight
<1>5. CASE MayCommit(n, t)
  <2> DEFINE d == PaidOut(c, t, x.src, x.dst)
             e == Moved(bal[n], "member", "wallet", x.src)
             y == [xfer[n] EXCEPT ![t].st = "COMMITTED"]
  <2>1. /\ x.st = "PROPOSED"
        /\ Transition(Transition(x.st, "accept"), "commit") = "COMMITTED"
    BY <1>5, TransitionTable DEF MayCommit
  <2>2. /\ bal' = [bal EXCEPT ![n] = e] /\ contact' = [contact EXCEPT ![n] = d]
        /\ xfer' = [xfer EXCEPT ![n][t].st = "COMMITTED"]
    BY <1>5, <2>1, Zenon DEF HandleTransferAccept
  <2>3. xfer' = [xfer EXCEPT ![n] = y]
    BY <1>1, <1>4, <2>2, StateType DEF IInv
  <2>4. NodeInv(d, y, e)
    BY <1>1, <1>2, <1>3, <2>1, CommitOutInv
  <2> HIDE DEF d, e, y
  <2> QED BY <2>2, <2>3, <2>4, OneNode
<1>6. CASE ~MayCommit(n, t) /\ x.out /\ t \in Due(n)
  <2> DEFINE d == Release(c, t)
             y == [xfer[n] EXCEPT ![t].st = "EXPIRED"]
  <2>1. x.st \in InFlight
    BY <1>6, TransitionTable DEF Due, InFlight
  <2>2. /\ contact' = [contact EXCEPT ![n] = d] /\ UNCHANGED bal
        /\ xfer' = [xfer EXCEPT ![n][t].st = "EXPIRED"]
    BY <1>6, Zenon DEF HandleTransferAccept
  <2>3. xfer' = [xfer EXCEPT ![n] = y]
    BY <1>1, <1>4, <2>2, StateType DEF IInv
  <2>4. NodeInv(d, y, bal[n])
    BY <1>1, <1>2, <1>4, <2>1, EndInv
  <2> HIDE DEF d, y
  <2> QED BY <2>2, <2>3, <2>4, InvView, OneNode
<1>7. CASE ~MayCommit(n, t) /\ ~(x.out /\ t \in Due(n))
  BY <1>7, InvUnchanged DEF HandleTransferAccept
<1> QED BY <1>5, <1>6, <1>7

LEMMA InvOfTransferCommit ==
    ASSUME IInv, TypeOK', NEW n \in Node, HandleTransferCommit(n)
    PROVE  IInv'
<1> DEFINE t == Head(net[n]).id
           x == xfer[n][t]
           c == contact[n]
           applicable == /\ ~x.out /\ Can(x.st, "commit")
                         /\ x.st \notin {"COMMITTED", "SETTLED"}
           payable == AppendOK(bal[n], "wallet", "member", x.dst)
<1>1. t \in TransferId
  BY HeadType DEF HandleTransferCommit, IInv, TypeOK
<1>2. /\ c \in ContactRecord /\ xfer[n] \in [TransferId -> TransferRecord]
      /\ bal[n] \in [Account -> Int] /\ NodeInv(c, xfer[n], bal[n])
  BY InvView
<1>3. x.src \in Nat /\ x.dst \in Nat
  BY <1>1, <1>2 DEF TransferRecord
<1>4. "COMMITTED" \in TransferStates /\ "SETTLED" \in TransferStates
  BY DEF TransferStates
<1>5. CASE ~applicable
  <2>1. UNCHANGED <<contact, xfer, bal>>
    BY <1>5, Zenon DEF HandleTransferCommit
  <2> QED BY <2>1, InvUnchanged
<1>6. CASE applicable
  <2>1. x.st = "ACCEPTED"
    BY <1>6, TransitionTable
  <2>2. /\ Transition(x.st, "commit") = "COMMITTED"
        /\ Transition(Transition(x.st, "commit"), "receipt") = "SETTLED"
    BY <2>1, TransitionTable
  <2>3. CASE ~payable
    <3> DEFINE y == [xfer[n] EXCEPT ![t].st = "COMMITTED"]
    <3>1. /\ xfer' = [xfer EXCEPT ![n][t].st = Transition(@, "commit")]
          /\ UNCHANGED <<contact, bal>>
      BY <1>6, <2>3, Zenon DEF HandleTransferCommit
    <3>2. xfer' = [xfer EXCEPT ![n][t].st = "COMMITTED"]
      BY <2>2, <3>1
    <3>3. xfer' = [xfer EXCEPT ![n] = y]
      BY <1>1, <1>4, <3>2, StateType DEF IInv
    <3>4. NodeInv(c, y, bal[n])
      BY <1>1, <1>2, <2>1, CommitRefusedInv
    <3>5. contact' = [contact EXCEPT ![n] = c] /\ bal' = [bal EXCEPT ![n] = bal[n]]
      BY <3>1, InvView
    <3> HIDE DEF c, y
    <3> QED BY <3>3, <3>4, <3>5, OneNode
  <2>4. CASE payable
    <3> DEFINE d == PaidIn(c, t, x.src, x.dst)
               e == Moved(bal[n], "wallet", "member", x.dst)
               y == [xfer[n] EXCEPT ![t].st = "SETTLED"]
    <3>1. /\ bal' = [bal EXCEPT ![n] = e] /\ contact' = [contact EXCEPT ![n] = d]
          /\ xfer' = [xfer EXCEPT ![n][t].st = Transition(Transition(@, "commit"), "receipt")]
      BY <1>6, <2>4, Zenon DEF HandleTransferCommit
    <3>2. xfer' = [xfer EXCEPT ![n][t].st = "SETTLED"]
      BY <2>2, <3>1
    <3>3. xfer' = [xfer EXCEPT ![n] = y]
      BY <1>1, <1>4, <3>2, StateType DEF IInv
    <3>4. NodeInv(d, y, e)
      BY <1>1, <1>2, <1>3, <2>1, <2>4, CommitInInv
    <3> HIDE DEF d, e, y
    <3> QED BY <3>1, <3>3, <3>4, OneNode
  <2> QED BY <2>3, <2>4
<1> QED BY <1>5, <1>6

LEMMA InvOfTransferEnds ==
    ASSUME IInv, TypeOK', NEW n \in Node,
           HandleTransferReceipt(n) \/ HandleTransferReject(n) \/ HandleTransferAbort(n)
    PROVE  IInv'
<1> DEFINE t == Head(net[n]).id
<1>1. t \in TransferId
  BY HeadType DEF HandleTransferReceipt, HandleTransferReject, HandleTransferAbort,
                  IInv, TypeOK
<1>2. UNCHANGED bal
  BY DEF HandleTransferReceipt, HandleTransferReject, HandleTransferAbort
<1>3. \/ UNCHANGED <<contact, xfer>>
      \/ \E event \in {"receipt", "reject", "abort"} :
            Can(xfer[n][t].st, event) /\ End(n, t, event)
  BY DEF HandleTransferReceipt, HandleTransferReject, HandleTransferAbort
<1>4. ASSUME NEW event \in {"receipt", "reject", "abort"},
             Can(xfer[n][t].st, event), End(n, t, event)
      PROVE  IInv'
  <2> DEFINE s == Transition(xfer[n][t].st, event)
             d == Release(contact[n], t)
             y == [xfer[n] EXCEPT ![t].st = s]
  <2>1. xfer[n][t].st \in InFlight /\ s \in TransferStates \ InFlight
    BY <1>4, TransitionTable DEF TransferStates, InFlight
  <2>2. contact' = [contact EXCEPT ![n] = d] /\ xfer' = [xfer EXCEPT ![n][t].st = s]
    BY <1>4 DEF End
  <2> HIDE DEF s
  <2>3. xfer' = [xfer EXCEPT ![n] = y]
    BY <1>1, <2>1, <2>2, StateType DEF IInv
  <2>4. NodeInv(d, y, bal[n])
    BY <1>1, <2>1, InvView, EndInv
  <2>5. bal' = [bal EXCEPT ![n] = bal[n]]
    BY <1>2, InvView
  <2> HIDE DEF d, y
  <2> QED BY <2>2, <2>3, <2>4, <2>5, OneNode
<1>5. CASE UNCHANGED <<contact, xfer>>
  BY <1>2, <1>5, InvUnchanged
<1> QED BY <1>3, <1>4, <1>5

LEMMA InvOfReserveHandlers ==
    ASSUME IInv, TypeOK', NEW n \in Node, HandleReserveAdjust(n) \/ HandleReserveAccept(n)
    PROVE  IInv'
<1> DEFINE m == Head(net[n])
<1>1. CASE HandleReserveAdjust(n)
  <2> DEFINE usable == Open(contact[n]) /\ ~contact[n].diverged
             D == IF usable THEN BusyDue(n) ELSE {}
             c == ExpireLock(contact[n], D)
             x == ExpireTransfers(xfer[n], D)
             k == AdjustMirrored(c, m.id, m.delta)
  <2>1. /\ c \in ContactRecord /\ NodeInv(c, x, bal[n])
    BY AfterExpiry DEF BusyDue
  <2>2. NodeInv(k, x, bal[n])
    <3>1. /\ k.busy = c.busy /\ k.pend = c.pend /\ k.status = c.status
          /\ k.closed = c.closed /\ k.mine = c.mine
      BY <2>1, PoolFields
    <3> HIDE DEF k, c, x
    <3> QED BY <2>1, <3>1, SameView
  <2>3. /\ xfer' = [xfer EXCEPT ![n] = x] /\ UNCHANGED bal
        /\ contact' = [contact EXCEPT ![n] = k] \/ contact' = [contact EXCEPT ![n] = c]
    BY <1>1, Zenon DEF HandleReserveAdjust
  <2> HIDE DEF c, x, k
  <2> QED BY <2>1, <2>2, <2>3, InvView, OneNode
<1>2. CASE HandleReserveAccept(n)
  <2> DEFINE c == contact[n]
             d == Adjusted(c)
             e == Moved(bal[n], "treasury", "wallet", c.delta)
  <2>1. m.id \in AdjustId
    BY <1>2, HeadType DEF HandleReserveAccept, IInv, TypeOK
  <2>2. UNCHANGED xfer
    BY <1>2 DEF HandleReserveAccept
  <2>3. CASE UNCHANGED <<contact, bal>>
    BY <2>2, <2>3, InvUnchanged
  <2>4. CASE ~UNCHANGED <<contact, bal>>
    <3>1. /\ c.pend = m.id /\ AppendOK(bal[n], "treasury", "wallet", c.delta)
          /\ contact' = [contact EXCEPT ![n] = d] /\ bal' = [bal EXCEPT ![n] = e]
      BY <1>2, <2>4, Zenon DEF HandleReserveAccept
    <3>2. NodeInv(d, xfer[n], e)
      BY <2>1, <3>1, InvView, AdjustEndInv
    <3> HIDE DEF d, e
    <3> QED BY <2>2, <3>1, <3>2, InvView, OneNode
  <2> QED BY <2>3, <2>4
<1> QED BY <1>1, <1>2

LEMMA InvOfTimer ==
    ASSUME IInv, TypeOK', NEW n \in Node, Timer(n) \/ Lose(n)
    PROVE  IInv'
<1>1. ASSUME NEW t \in TransferId, ClockPasses(n, t) PROVE IInv'
  BY <1>1, InvUnchanged DEF ClockPasses
<1>2. CASE SweepExpired(n)
  <2> DEFINE c == ExpireLock(contact[n], Due(n))
             x == ExpireTransfers(xfer[n], Due(n))
  <2>1. NodeInv(c, x, bal[n])
    BY AfterExpiry
  <2>2. /\ contact' = [contact EXCEPT ![n] = c] /\ xfer' = [xfer EXCEPT ![n] = x]
        /\ UNCHANGED bal
    BY <1>2 DEF SweepExpired
  <2> HIDE DEF c, x
  <2> QED BY <2>1, <2>2, InvView, OneNode
<1>3. CASE ReconcilePeer(n)
  <2>1. PICK k \in CheckpointsOf(Peer(n)) :
           contact' = [contact EXCEPT ![n].diverged = @ \/ Contradicts(contact[n], k)]
    BY <1>3, Zenon DEF ReconcilePeer
  <2> DEFINE c == contact[n]
             d == [c EXCEPT !.diverged = @ \/ Contradicts(contact[n], k)]
  <2>2. /\ d.busy = c.busy /\ d.pend = c.pend /\ d.status = c.status
        /\ d.closed = c.closed /\ d.mine = c.mine
    BY InvView, Zenon DEF ContactRecord
  <2>3. contact' = [contact EXCEPT ![n] = d] /\ UNCHANGED <<xfer, bal>>
    BY <1>3, <2>1, Zenon DEF ReconcilePeer
  <2> HIDE DEF d
  <2>4. NodeInv(d, xfer[n], bal[n])
    BY <2>2, InvView, SameView
  <2> QED BY <2>3, <2>4, OnlyContact
<1>4. CASE Lose(n)
  BY <1>4, InvUnchanged DEF Lose
<1> QED BY <1>1, <1>2, <1>3, <1>4 DEF Timer

LEMMA InvInit == Init => IInv
<1> SUFFICES ASSUME Init PROVE IInv
  OBVIOUS
<1> SUFFICES ASSUME NEW n \in Node PROVE NodeInv(contact[n], xfer[n], bal[n])
  BY TypeInit DEF IInv
<1>1. /\ contact[n].busy = None /\ contact[n].pend = None /\ contact[n].mine = 0
      /\ contact[n].status = "none" /\ contact[n].closed = FALSE
  BY DEF Init, NoContact
<1>2. \A t \in TransferId : xfer[n][t].st = "NONE"
  BY DEF Init, NoTransfer
<1>3. /\ bal[n]["member"] = Grant[n] /\ bal[n]["issuance"] = -Grant[n]
      /\ bal[n]["wallet"] = 0 /\ bal[n]["others"] = 0 /\ bal[n]["treasury"] = 0
  BY DEF Init, Account
<1>4. Grant[n] \in Int
  BY Constants
<1>5. None \notin OpId
  BY Constants
<1>6. LockHeld(contact[n], xfer[n]) /\ Covered(contact[n], xfer[n])
  BY <1>1, <1>2, <1>5 DEF LockHeld, Covered, OpId, InFlight
<1>7. Idle(contact[n]) /\ Balanced(bal[n]) /\ Backed(contact[n], bal[n])
  BY <1>1, <1>3, <1>4 DEF Idle, Balanced, Backed
<1> QED BY <1>6, <1>7 DEF NodeInv

LEMMA InvStep == IInv /\ [Next]_vars => IInv'
<1> SUFFICES ASSUME IInv, [Next]_vars PROVE IInv'
  OBVIOUS
<1>0. TypeOK'
  BY TypeOfStep DEF IInv
<1>1. CASE UNCHANGED vars
  BY <1>0, <1>1, InvUnchanged DEF vars
<1>2. ASSUME NEW n \in Node, Operator(n) \/ Handle(n) \/ Timer(n) \/ Lose(n)
      PROVE IInv'
  BY <1>0, <1>2, InvOfOperator, InvOfContactHandlers, InvOfTransferPropose,
     InvOfTransferAccept, InvOfTransferCommit, InvOfTransferEnds,
     InvOfReserveHandlers, InvOfTimer DEF Handle
<1> QED BY <1>1, <1>2 DEF Next

LEMMA Invariant == Spec => []IInv
BY InvInit, InvStep, PTL DEF Spec

-----------------------------------------------------------------------------
(* The busy lock of each node is held exactly by the one operation that is *)
(* in flight there.                                                        *)
THEOREM LockNeitherLostNorLeaked == Spec => []BusyLock
<1>1. IInv => BusyLock
  BY DEF IInv, NodeInv, LockHeld, BusyLock
<1> QED BY <1>1, Invariant, PTL

(* Every ledger balances, and no wallet of a peer is ever overdrawn.       *)
THEOREM LedgerConserves == Spec => []Conservation
<1>1. IInv => Conservation
  BY DEF IInv, NodeInv, Balanced, Conservation
<1> QED BY <1>1, Invariant, PTL

(* The reserve that prices transfers is the wallet in the ledger.          *)
THEOREM ReserveIsWallet == Spec => []WalletIsReserve
<1>1. IInv => WalletIsReserve
  BY DEF IInv, NodeInv, Backed, WalletIsReserve
<1> QED BY <1>1, Invariant, PTL

(* An accepted transfer stays covered by the wallet of the payee, unless   *)
(* the payee has closed the contact.                                       *)
THEOREM AcceptIsAPromise == Spec => []PromiseKept
<1>1. IInv => PromiseKept
  <2> SUFFICES ASSUME IInv, NEW n \in Node, NEW t \in TransferId,
                      xfer[n][t].st = "ACCEPTED", ~contact[n].closed
               PROVE  xfer[n][t].dst <= bal[n]["wallet"]
    BY DEF PromiseKept
  <2> QED BY DEF IInv, NodeInv, Covered, Backed
<1> QED BY <1>1, Invariant, PTL

(* The promise in terms of the wallet.                                     *)
CommitNotRefused ==
    \A n \in Node, t \in TransferId :
        xfer[n][t].st = "ACCEPTED" /\ ~contact[n].closed
            => AppendOK(bal[n], "wallet", "member", xfer[n][t].dst)

LEMMA OpenCommit == IInv => CommitNotRefused
<1> SUFFICES ASSUME IInv, NEW n \in Node, NEW t \in TransferId,
                    xfer[n][t].st = "ACCEPTED", ~contact[n].closed
             PROVE  AppendOK(bal[n], "wallet", "member", xfer[n][t].dst)
  BY DEF CommitNotRefused
<1>1. xfer[n][t].dst <= bal[n]["wallet"]
  BY DEF IInv, NodeInv, Covered, Backed
<1>2. xfer[n][t].dst \in Int /\ bal[n] \in [Account -> Int]
  BY DEF IInv, TypeOK, TransferRecord
<1>3. Moved(bal[n], "wallet", "member", xfer[n][t].dst)["wallet"]
         = bal[n]["wallet"] - xfer[n][t].dst
  <2>1. \A v \in Int : Moved(bal[n], "wallet", "member", v)["wallet"]
                          = bal[n]["wallet"] - v
    BY <1>2, MovedFields DEF Account
  <2> QED BY <1>2, <2>1
<1> QED BY <1>1, <1>2, <1>3 DEF AppendOK, Account

(* On an open contact the ledger never refuses the commit of an accepted   *)
(* transfer.                                                               *)
THEOREM CommitOfOpenContactSucceeds == Spec => []CommitNotRefused
BY OpenCommit, Invariant, PTL
=============================================================================
