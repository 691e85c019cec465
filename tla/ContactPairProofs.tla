-------------------------- MODULE ContactPairProofs --------------------------
(***************************************************************************)
(* The two nodes of a contact together, for any values of the constants:   *)
(* they share one history of operations, mirror each other's reserves, and *)
(* pay out only what has been paid in.                                     *)
(*                                                                         *)
(* The invariant is about both contact records c, both tables of transfers *)
(* x, the envelopes M[n] under way to n, and the ids u used so far.  It    *)
(* takes the envelopes as sets: that they arrive in order and once is not  *)
(* needed for any of this.                                                 *)
(***************************************************************************)
EXTENDS ContactProofs

Mail(q) == {q[i] : i \in 1..Len(q)}

Paid == {"COMMITTED", "SETTLED"}

-----------------------------------------------------------------------------
(* One node.  Operations are in its history once; a transfer is in it only *)
(* if it is paid, an adjustment only if it is not still pending.           *)
NoRepeat(ops) == \A i, j \in 1..Len(ops) : ops[i] = ops[j] => i = j

(* The operation op is over when a node has the transfers x and pending    *)
(* adjustment a.                                                           *)
Over(op, x, a, u) ==
    /\ \A t \in TransferId : op[1] = "transfer" /\ op[2] = t => x[t].st \in Paid
    /\ \A b \in AdjustId : op[1] = "adjust" /\ op[2] = b => b \in u /\ b # a

Recorded(c, x, u) == \A i \in 1..Len(c.ops) : Over(c.ops[i], x, c.pend, u)

Local(n, c, x, u) ==
    /\ c.status = "active" <=> c.ops # <<>>
    /\ c.status = "pending" => c.id = n
    /\ c.status = "none" => c.id = None
    /\ c.status # "active" => c.mine = 0 /\ c.theirs = 0
    /\ c.pend # None => c.pend \in u
    /\ NoRepeat(c.ops) /\ Recorded(c, x, u)
    /\ \A t \in TransferId :
          /\ x[t].st = "NONE" => ~x[t].out
          /\ x[t].st # "NONE" => t \in u
          /\ x[t].st \in {"PROPOSED", "REJECTED"} => x[t].out
          /\ x[t].st = "ACCEPTED" => ~x[t].out

-----------------------------------------------------------------------------
(* The history.  Either both nodes have applied all of it and mirror each  *)
(* other's reserves, or one is ahead by one operation which the other has  *)
(* asked for or accepted.                                                  *)
Mirror(c) ==
    /\ c[A].ops = c[B].ops
    /\ c[A].mine = c[B].theirs /\ c[A].theirs = c[B].mine

AheadByTransfer(n, t, c, x) ==
    LET p == Peer(n)
    IN  /\ c[n].ops = Append(c[p].ops, TransferOp(t, x[n][t].src, x[n][t].dst))
        /\ c[n].mine = c[p].theirs + x[n][t].src
        /\ c[n].theirs = c[p].mine - x[n][t].dst
        /\ c[p].ops # <<>>

AheadByAdjust(n, c) ==
    LET p == Peer(n)
    IN  /\ c[p].pend # None
        /\ c[n].ops = Append(c[p].ops, AdjustOp(c[p].pend, c[p].delta))
        /\ c[n].mine = c[p].theirs
        /\ c[n].theirs = c[p].mine + c[p].delta
        /\ c[p].ops # <<>>

AheadBySeed(n, c) ==
    LET p == Peer(n)
    IN  /\ c[n].ops = <<SeedOp(p, c[p].seed, c[n].mine)>>
        /\ c[n].theirs = c[p].seed
        /\ c[p].status = "pending" /\ c[p].ops = <<>>

(* The payer has paid, the payee has not applied it.                       *)
Owed(n, t, x) ==
    x[n][t].out /\ x[n][t].st = "COMMITTED" /\ x[Peer(n)][t].st # "SETTLED"

Ahead(n, c, x) ==
    \/ \E t \in TransferId : Owed(n, t, x)
    \/ AheadByAdjust(n, c)
    \/ AheadBySeed(n, c)

Together(c, x) == Mirror(c) \/ Ahead(A, c, x) \/ Ahead(B, c, x)

(* Both nodes' records of one transfer.                                    *)
Agree(n, c, x) ==
    LET p == Peer(n)
    IN  \A t \in TransferId :
          /\ x[n][t].out => ~x[p][t].out
          /\ x[n][t].st # "NONE" /\ ~x[n][t].out =>
                /\ x[p][t].out /\ x[p][t].src = x[n][t].src /\ x[p][t].dst = x[n][t].dst
                /\ x[n][t].st \in Paid => x[p][t].st \in Paid
          /\ x[n][t].out /\ x[n][t].st = "SETTLED" => x[p][t].st = "SETTLED"
          /\ x[n][t].out /\ x[n][t].st = "COMMITTED" =>
                x[p][t].st \in {"ACCEPTED", "EXPIRED"} \cup Paid
          /\ Owed(n, t, x) => AheadByTransfer(n, t, c, x)

-----------------------------------------------------------------------------
(* What an envelope m under way to n says is true.                         *)
Priced(rSrc, rDst, m) == PoolPrice(rSrc, rDst, m.src) = m.dst

TrueOfProposal(n, m, c, x) ==
    LET p == Peer(n)
        y == x[p][m.id]
    IN  /\ c[p].ops # <<>> /\ y.out /\ y.src = m.src /\ y.dst = m.dst
        /\ m.seq <= OpSeq(c[p])
        /\ m.seq = OpSeq(c[p]) => Priced(c[p].mine, c[p].theirs, m)
        /\ c[n].ops # <<>> /\ m.seq = OpSeq(c[n]) => Priced(c[n].theirs, c[n].mine, m)
        /\ y.st = "PROPOSED" => m.seq = OpSeq(c[p])
        /\ y.st \in Paid => m.seq < OpSeq(c[p])
        /\ x[n][m.id].st = "SETTLED" => m.seq < OpSeq(c[n])

TrueOfAdjust(n, m, c, u) ==
    LET p == Peer(n)
    IN  /\ c[p].ops # <<>> /\ m.id \in u
        /\ \/ c[p].pend = m.id /\ m.delta = c[p].delta /\ m.seq = OpSeq(c[p])
           \/ m.seq < OpSeq(c[n])

TrueOf(n, m, c, x, u) ==
    LET p == Peer(n)
        y == x[p][m.id]
    IN  /\ m.type = "contact.propose" =>
              m.id = p /\ (c[n].status = "none" => c[p].status = "pending" /\ c[p].seed = m.seed)
        /\ m.type = "contact.accept" =>
              m.id = n /\ c[p].ops # <<>> /\ (c[n].status = "pending" => c[p].mine = m.seed)
        /\ m.type = "transfer.propose" => TrueOfProposal(n, m, c, x)
        /\ m.type = "transfer.accept" =>
              /\ y.st # "NONE" /\ ~y.out
              /\ x[n][m.id].st = "PROPOSED" => Mirror(c) /\ y.st \in {"ACCEPTED", "EXPIRED"}
        /\ m.type = "transfer.commit" => y.out /\ y.st \in Paid
        /\ m.type = "transfer.receipt" => ~y.out /\ y.st = "SETTLED"
        /\ m.type = "transfer.abort" => y.out /\ y.st \in {"ABORTED", "EXPIRED"}
        /\ m.type = "reserve.adjust" => TrueOfAdjust(n, m, c, u)
        /\ m.type = "reserve.accept" =>
              m.id \in u /\ (c[n].pend = m.id => AheadByAdjust(p, c))

(* An accept that the payer still waits for.                               *)
Live(n, x, M) ==
    \E m \in M[n] : m.type = "transfer.accept" /\ x[n][m.id].st = "PROPOSED"

Honest(c, x, M, u) == \A n \in Node : \A m \in M[n] : TrueOf(n, m, c, x, u)

PairInv(c, x, M, u) ==
    /\ \A n \in Node : Local(n, c[n], x[n], u)
    /\ \A n \in Node : Agree(n, c, x)
    /\ Together(c, x)
    /\ Honest(c, x, M, u)
    /\ ~(Live(A, x, M) /\ Live(B, x, M))

PInv == PairInv(contact, xfer, [n \in Node |-> Mail(net[n])], used)

-----------------------------------------------------------------------------
(* The two nodes of a contact, whichever of them is called n.              *)
LEMMA TwoNodes ==
    ASSUME NEW n \in Node
    PROVE  /\ Peer(n) \in Node /\ Peer(n) # n /\ Peer(Peer(n)) = n
           /\ \A k \in Node : k = n \/ k = Peer(n)
BY PeerType DEF Peer, Node

LEMMA MirrorView ==
    ASSUME NEW n \in Node, NEW c
    PROVE  LET p == Peer(n)
           IN  Mirror(c) <=> /\ c[n].ops = c[p].ops
                             /\ c[n].mine = c[p].theirs /\ c[n].theirs = c[p].mine
<1>1. (n = A /\ Peer(n) = B) \/ (n = B /\ Peer(n) = A)
  BY Constants DEF Peer, Node
<1> QED BY <1>1 DEF Mirror

LEMMA PairView ==
    ASSUME NEW n \in Node, NEW c, NEW x, NEW M
    PROVE  LET p == Peer(n)
           IN  /\ Together(c, x) <=> Mirror(c) \/ Ahead(n, c, x) \/ Ahead(p, c, x)
               /\ Live(A, x, M) /\ Live(B, x, M) <=> Live(n, x, M) /\ Live(p, x, M)
<1>1. (n = A /\ Peer(n) = B) \/ (n = B /\ Peer(n) = A)
  BY Constants DEF Peer, Node
<1> QED BY <1>1 DEF Together

-----------------------------------------------------------------------------
(***************************************************************************)
(* Steps that leave the history and the reserves alone.  A transfer may    *)
(* fade: end at its payer or payee before it is paid, or be settled.       *)
(***************************************************************************)
SameCore(c, d) ==
    /\ d.status = c.status /\ d.id = c.id /\ d.seed = c.seed /\ d.ops = c.ops
    /\ d.mine = c.mine /\ d.theirs = c.theirs
    /\ d.pend = c.pend /\ d.delta = c.delta

(* The record a becomes b, while the peer has the record z.                *)
Fade(a, b, z) ==
    /\ b.out = a.out /\ b.src = a.src /\ b.dst = a.dst
    /\ \/ b.st = a.st
       \/ a.st = "PROPOSED" /\ b.st \in {"EXPIRED", "ABORTED", "REJECTED"}
       \/ a.st = "ACCEPTED" /\ b.st = "EXPIRED"
       \/ a.st = "ACCEPTED" /\ b.st = "ABORTED" /\ z.st \in {"ABORTED", "EXPIRED"}
       \/ a.st = "ACCEPTED" /\ b.st = "COMMITTED" /\ z.st \in Paid
       \/ a.st = "COMMITTED" /\ a.out /\ b.st = "SETTLED" /\ z.st = "SETTLED"

LEMMA MessageId ==
    ASSUME NEW m \in Message
    PROVE  /\ m.type \in {"transfer.propose", "transfer.accept", "transfer.commit",
                          "transfer.receipt", "transfer.abort"} => m.id \in TransferId
           /\ m.type \in {"reserve.adjust", "reserve.accept"} => m.id \in AdjustId
BY DEF Message

LEMMA QuietStep ==
    ASSUME NEW c, NEW x, NEW M, NEW u, PairInv(c, x, M, u),
           NEW d, NEW y, NEW L, NEW v, u \subseteq v,
           \A k \in Node : SameCore(c[k], d[k]),
           \A k \in Node, t \in TransferId : Fade(x[k][t], y[k][t], x[Peer(k)][t]),
           \A k \in Node : L[k] \subseteq Message,
           \A k \in Node : \A m \in L[k] : m \in M[k] \/ (m.type # "transfer.accept" /\ TrueOf(k, m, d, y, v))
    PROVE  PairInv(d, y, L, v)
<1>1. ASSUME NEW n \in Node PROVE Local(n, d[n], y[n], v)
  BY DEF PairInv, Local, NoRepeat, Recorded, Over, SameCore, Fade, Paid
<1>2. Mirror(c) <=> Mirror(d)
  BY DEF Mirror, SameCore, Node
<1>3. ASSUME NEW n \in Node
      PROVE  /\ AheadByAdjust(n, c) <=> AheadByAdjust(n, d)
             /\ AheadBySeed(n, c) <=> AheadBySeed(n, d)
  BY TwoNodes DEF AheadByAdjust, AheadBySeed, SameCore
<1>4. ASSUME NEW n \in Node, NEW t \in TransferId
      PROVE  /\ Owed(n, t, x) <=> Owed(n, t, y)
             /\ AheadByTransfer(n, t, c, x) => AheadByTransfer(n, t, d, y)
  <2> DEFINE p == Peer(n)
  <2>1. /\ p \in Node /\ p # n /\ Peer(p) = n
        /\ Fade(x[n][t], y[n][t], x[p][t]) /\ Fade(x[p][t], y[p][t], x[n][t])
    BY TwoNodes
  <2>2. Local(n, c[n], x[n], u) /\ Local(p, c[p], x[p], u) /\ Agree(n, c, x)
    BY <2>1 DEF PairInv
  <2>3. Owed(n, t, x) <=> Owed(n, t, y)
    BY <2>1, <2>2 DEF Owed, Local, Agree, Fade
  <2>4. AheadByTransfer(n, t, c, x) => AheadByTransfer(n, t, d, y)
    <3>1. SameCore(c[n], d[n]) /\ SameCore(c[p], d[p])
      BY <2>1
    <3>2. y[n][t].src = x[n][t].src /\ y[n][t].dst = x[n][t].dst
      BY <2>1 DEF Fade
    <3> QED BY <3>1, <3>2 DEF AheadByTransfer, SameCore
  <2> QED BY <2>3, <2>4
<1>5. Together(d, y)
  BY <1>2, <1>3, <1>4 DEF PairInv, Together, Ahead, Node
<1>6. ASSUME NEW n \in Node PROVE Agree(n, d, y)
  <2> SUFFICES ASSUME NEW t \in TransferId
               PROVE  /\ y[n][t].out => ~y[Peer(n)][t].out
                      /\ y[n][t].st # "NONE" /\ ~y[n][t].out =>
                            /\ y[Peer(n)][t].out /\ y[Peer(n)][t].src = y[n][t].src
                            /\ y[Peer(n)][t].dst = y[n][t].dst
                            /\ y[n][t].st \in Paid => y[Peer(n)][t].st \in Paid
                      /\ y[n][t].out /\ y[n][t].st = "SETTLED" => y[Peer(n)][t].st = "SETTLED"
                      /\ y[n][t].out /\ y[n][t].st = "COMMITTED" =>
                            y[Peer(n)][t].st \in {"ACCEPTED", "EXPIRED"} \cup Paid
                      /\ Owed(n, t, y) => AheadByTransfer(n, t, d, y)
    BY DEF Agree
  <2> DEFINE p == Peer(n)
  <2>1. /\ p \in Node /\ p # n /\ Peer(p) = n
        /\ Fade(x[n][t], y[n][t], x[p][t]) /\ Fade(x[p][t], y[p][t], x[n][t])
    BY TwoNodes
  <2>2. Local(n, c[n], x[n], u) /\ Local(p, c[p], x[p], u) /\ Agree(n, c, x) /\ Agree(p, c, x)
    BY <2>1 DEF PairInv
  <2>3. Owed(n, t, y) => AheadByTransfer(n, t, d, y)
    BY <1>4, <2>2 DEF Agree
  <2>4. /\ y[n][t].out => ~y[p][t].out
        /\ y[n][t].st # "NONE" /\ ~y[n][t].out =>
              y[p][t].out /\ y[p][t].src = y[n][t].src /\ y[p][t].dst = y[n][t].dst
    BY <2>1, <2>2, SMTT(30) DEF Local, Agree, Fade
  <2>5. y[n][t].st \in Paid /\ ~y[n][t].out => y[p][t].st \in Paid
    BY <2>1, <2>2 DEF Local, Agree, Fade, Paid
  <2>6. y[n][t].out /\ y[n][t].st = "SETTLED" => y[p][t].st = "SETTLED"
    BY <2>1, <2>2, SMTT(30) DEF Local, Agree, Fade, Paid
  <2>7. y[n][t].out /\ y[n][t].st = "COMMITTED" =>
              y[p][t].st \in {"ACCEPTED", "EXPIRED"} \cup Paid
    BY <2>1, <2>2, SMTT(30) DEF Local, Agree, Fade, Paid
  <2> QED BY <2>3, <2>4, <2>5, <2>6, <2>7
<1>7. ASSUME NEW n \in Node, NEW m \in L[n] PROVE TrueOf(n, m, d, y, v)
  <2> SUFFICES ASSUME m \in M[n] PROVE TrueOf(n, m, d, y, v)
    OBVIOUS
  <2> DEFINE p == Peer(n)
             t == m.id
  <2>1. p \in Node /\ p # n /\ Peer(p) = n /\ m \in Message
    BY TwoNodes
  <2>2. /\ Local(n, c[n], x[n], u) /\ Local(p, c[p], x[p], u)
        /\ Agree(n, c, x) /\ Agree(p, c, x) /\ TrueOf(n, m, c, x, u)
    BY <2>1 DEF PairInv, Honest
  <2>3. SameCore(c[n], d[n]) /\ SameCore(c[p], d[p])
    BY <2>1
  <2>4. t \in TransferId =>
           Fade(x[n][t], y[n][t], x[p][t]) /\ Fade(x[p][t], y[p][t], x[n][t])
    BY <2>1
  <2>5. m.type = "transfer.propose" => TrueOfProposal(n, m, d, y)
    <3> SUFFICES ASSUME m.type = "transfer.propose" PROVE TrueOfProposal(n, m, d, y)
      OBVIOUS
    <3>1. t \in TransferId /\ TrueOfProposal(n, m, c, x)
      BY <2>1, <2>2, MessageId DEF TrueOf
    <3>2. OpSeq(d[n]) = OpSeq(c[n]) /\ OpSeq(d[p]) = OpSeq(c[p])
      BY <2>3 DEF SameCore, OpSeq
    <3>3. /\ y[p][t].out = x[p][t].out
          /\ y[p][t].src = x[p][t].src /\ y[p][t].dst = x[p][t].dst
          /\ y[p][t].st = "PROPOSED" => x[p][t].st = "PROPOSED"
          /\ y[p][t].st \in Paid /\ x[p][t].out => x[p][t].st \in Paid
      BY <2>1, <2>2, <2>4, <3>1 DEF Fade, Local, Paid
    <3>4. y[n][t].st = "SETTLED" /\ x[p][t].out => x[n][t].st = "SETTLED"
      BY <2>1, <2>2, <2>4, <3>1 DEF Fade, Agree
    <3> QED BY <2>3, <3>1, <3>2, <3>3, <3>4 DEF TrueOfProposal, SameCore
  <2>6. m.type = "transfer.accept" =>
           /\ y[p][t].st # "NONE" /\ ~y[p][t].out
           /\ y[n][t].st = "PROPOSED" => Mirror(d) /\ y[p][t].st \in {"ACCEPTED", "EXPIRED"}
    BY <1>2, <2>1, <2>2, <2>4, MessageId DEF TrueOf, Fade, Paid
  <2>7. m.type = "transfer.commit" => y[p][t].out /\ y[p][t].st \in Paid
    BY <2>1, <2>2, <2>4, MessageId DEF TrueOf, Fade, Paid
  <2>8. m.type = "transfer.receipt" => ~y[p][t].out /\ y[p][t].st = "SETTLED"
    BY <2>1, <2>2, <2>4, MessageId DEF TrueOf, Fade
  <2>9. m.type = "transfer.abort" => y[p][t].out /\ y[p][t].st \in {"ABORTED", "EXPIRED"}
    BY <2>1, <2>2, <2>4, MessageId DEF TrueOf, Fade
  <2>10. m.type = "reserve.adjust" => TrueOfAdjust(n, m, d, v)
    BY <2>2, <2>3 DEF TrueOf, TrueOfAdjust, SameCore, OpSeq
  <2>11. m.type = "reserve.accept" => m.id \in v /\ (d[n].pend = m.id => AheadByAdjust(p, d))
    BY <1>3, <2>1, <2>2, <2>3 DEF TrueOf, SameCore
  <2>12. /\ m.type = "contact.propose" =>
               m.id = p /\ (d[n].status = "none" => d[p].status = "pending" /\ d[p].seed = m.seed)
         /\ m.type = "contact.accept" =>
               m.id = n /\ d[p].ops # <<>> /\ (d[n].status = "pending" => d[p].mine = m.seed)
    BY <2>2, <2>3 DEF TrueOf, SameCore
  <2> QED BY <2>5, <2>6, <2>7, <2>8, <2>9, <2>10, <2>11, <2>12, Zenon DEF TrueOf
<1>8. ASSUME NEW n \in Node, Live(n, y, L) PROVE Live(n, x, M)
  <2>1. PICK m \in L[n] : m.type = "transfer.accept" /\ y[n][m.id].st = "PROPOSED"
    BY <1>8 DEF Live
  <2>2. m \in M[n] /\ m \in Message
    BY <2>1
  <2>3. Fade(x[n][m.id], y[n][m.id], x[Peer(n)][m.id])
    BY <2>1, <2>2, MessageId
  <2> QED BY <2>1, <2>2, <2>3 DEF Live, Fade
<1> QED BY <1>1, <1>5, <1>6, <1>7, <1>8 DEF PairInv, Honest, Node

-----------------------------------------------------------------------------
(***************************************************************************)
(* Histories.                                                              *)
(***************************************************************************)
PairTypes(c, x, M) ==
    /\ c \in [Node -> ContactRecord]
    /\ x \in [Node -> [TransferId -> TransferRecord]]
    /\ \A k \in Node : M[k] \subseteq Message

LEMMA AppendOps ==
    ASSUME NEW s \in Seq(Op), NEW e \in Op
    PROVE  /\ Append(s, e) \in Seq(Op) /\ Append(s, e) # <<>>
           /\ Len(Append(s, e)) = Len(s) + 1
           /\ \A i \in 1..Len(Append(s, e)) :
                 Append(s, e)[i] = e \/ (i \in 1..Len(s) /\ Append(s, e)[i] = s[i])
           /\ NoRepeat(s) /\ (\A i \in 1..Len(s) : s[i] # e) => NoRepeat(Append(s, e))
<1>1. Len(s) \in Nat /\ Len(Append(s, e)) = Len(s) + 1 /\ Append(s, e)[Len(s) + 1] = e
  OBVIOUS
<1>2. \A i \in 1..Len(s) : Append(s, e)[i] = s[i]
  OBVIOUS
<1>3. ASSUME NoRepeat(s), \A i \in 1..Len(s) : s[i] # e PROVE NoRepeat(Append(s, e))
  BY <1>1, <1>2, <1>3 DEF NoRepeat
<1>4. Append(s, e) \in Seq(Op)
  OBVIOUS
<1>6. Append(s, e) # <<>>
  BY <1>1
<1>5. ASSUME NEW i \in 1..Len(Append(s, e))
      PROVE  Append(s, e)[i] = e \/ (i \in 1..Len(s) /\ Append(s, e)[i] = s[i])
  BY <1>1, <1>2
<1> QED BY <1>1, <1>3, <1>4, <1>5, <1>6

(* The last operation of a history, and the history before it.             *)
LEMMA SameAppend ==
    ASSUME NEW s \in Seq(Op), NEW r \in Seq(Op), NEW e \in Op, NEW f \in Op,
           Append(s, e) = Append(r, f)
    PROVE  s = r /\ e = f
<1>1. Len(s) = Len(r) /\ Len(s) \in Nat
  OBVIOUS
<1>2. e = f
  BY <1>1
<1>3. \A i \in 1..Len(s) : s[i] = Append(s, e)[i] /\ r[i] = Append(r, f)[i]
  BY <1>1
<1>4. s = r
  BY <1>1, <1>3
<1> QED BY <1>2, <1>4

LEMMA OpTypes ==
    /\ \A t \in TransferId, src \in Nat, dst \in Nat : TransferOp(t, src, dst) \in Op
    /\ \A a \in AdjustId, delta \in Int : AdjustOp(a, delta) \in Op
    /\ \A id \in Node, p \in Nat, r \in Nat : SeedOp(id, p, r) \in Op
BY DEF TransferOp, AdjustOp, SeedOp, Op

(* What the records of one node are made of.                               *)
LEMMA PairFields ==
    ASSUME NEW c, NEW x, NEW M, PairTypes(c, x, M), NEW k \in Node
    PROVE  /\ c[k] \in ContactRecord /\ c[k].ops \in Seq(Op)
           /\ c[k].mine \in Int /\ c[k].theirs \in Int /\ c[k].seed \in Nat
           /\ c[k].pend \in AdjustId \cup {None} /\ c[k].delta \in Int
           /\ c[k].pend # None => AdjustOp(c[k].pend, c[k].delta) \in Op
           /\ OpSeq(c[k]) = (IF c[k].ops = <<>> THEN 0 ELSE Len(c[k].ops) - 1)
           /\ Len(c[k].ops) \in Nat /\ (c[k].ops = <<>> <=> Len(c[k].ops) = 0)
           /\ \A t \in TransferId :
                 /\ x[k][t] \in TransferRecord /\ x[k][t].src \in Nat /\ x[k][t].dst \in Nat
                 /\ TransferOp(t, x[k][t].src, x[k][t].dst) \in Op
<1>1. c[k] \in ContactRecord /\ c[Peer(k)] \in ContactRecord
  BY PeerType DEF PairTypes
<1>2. /\ c[k].ops \in Seq(Op)
      /\ c[k].mine \in Int /\ c[k].theirs \in Int /\ c[k].seed \in Nat
      /\ c[k].pend \in AdjustId \cup {None} /\ c[k].delta \in Int
      /\ c[Peer(k)].seed \in Nat
  BY <1>1 DEF ContactRecord
<1>3. \A t \in TransferId :
         x[k][t] \in TransferRecord /\ x[k][t].src \in Nat /\ x[k][t].dst \in Nat
  BY DEF PairTypes, TransferRecord
<1>4. Len(c[k].ops) \in Nat /\ (c[k].ops = <<>> <=> Len(c[k].ops) = 0)
  BY <1>2
<1> QED BY <1>1, <1>2, <1>3, <1>4, OpTypes, PeerType DEF OpSeq

(* A node that is ahead is so by one operation.                            *)
LEMMA AheadByOne ==
    ASSUME NEW c, NEW x, NEW M, NEW u, PairTypes(c, x, M), PairInv(c, x, M, u),
           NEW n \in Node, Ahead(n, c, x)
    PROVE  /\ Len(c[n].ops) = Len(c[Peer(n)].ops) + 1
           /\ c[Peer(n)].ops # <<>> =>
                 /\ \E e \in Op : c[n].ops = Append(c[Peer(n)].ops, e)
                 /\ OpSeq(c[n]) = OpSeq(c[Peer(n)]) + 1
<1> DEFINE p == Peer(n)
<1>1. p \in Node /\ Peer(p) = n
  BY TwoNodes
<1>2. /\ c[n].ops \in Seq(Op) /\ c[p].ops \in Seq(Op)
      /\ OpSeq(c[n]) = (IF c[n].ops = <<>> THEN 0 ELSE Len(c[n].ops) - 1)
      /\ OpSeq(c[p]) = (IF c[p].ops = <<>> THEN 0 ELSE Len(c[p].ops) - 1)
      /\ Len(c[p].ops) \in Nat
  BY <1>1, PairFields
<1>3. ASSUME NEW e \in Op, c[n].ops = Append(c[p].ops, e)
      PROVE  Len(c[n].ops) = Len(c[p].ops) + 1 /\ c[n].ops # <<>>
  BY <1>2, <1>3, AppendOps
<1>4. CASE \E t \in TransferId : Owed(n, t, x)
  <2>1. PICK t \in TransferId : Owed(n, t, x)
    BY <1>4
  <2>2. AheadByTransfer(n, t, c, x)
    BY <2>1 DEF PairInv, Agree
  <2>3. TransferOp(t, x[n][t].src, x[n][t].dst) \in Op
    BY PairFields
  <2> QED BY <1>2, <1>3, <2>2, <2>3, AppendOps DEF AheadByTransfer
<1>5. CASE AheadByAdjust(n, c)
  <2>1. c[p].pend # None /\ AdjustOp(c[p].pend, c[p].delta) \in Op
    BY <1>1, <1>5, PairFields DEF AheadByAdjust
  <2> QED BY <1>2, <1>3, <1>5, <2>1, AppendOps DEF AheadByAdjust
<1>6. CASE AheadBySeed(n, c)
  BY <1>2, <1>6 DEF AheadBySeed
<1> QED BY <1>4, <1>5, <1>6 DEF Ahead

(* Which of the nodes is ahead can be told from their histories.           *)
LEMMA Shape ==
    ASSUME NEW c, NEW x, NEW M, NEW u, PairTypes(c, x, M), PairInv(c, x, M, u),
           NEW n \in Node
    PROVE  LET p == Peer(n)
           IN  /\ c[n].ops = c[p].ops => Mirror(c)
               /\ OpSeq(c[n]) = OpSeq(c[p]) /\ c[n].ops # <<>> /\ c[p].ops # <<>> => Mirror(c)
               /\ Mirror(c) => /\ c[n].ops = c[p].ops
                               /\ c[n].mine = c[p].theirs /\ c[n].theirs = c[p].mine
                               /\ ~Ahead(n, c, x) /\ ~Ahead(p, c, x)
               /\ Ahead(n, c, x) => ~Mirror(c) /\ ~Ahead(p, c, x)
               /\ Mirror(c) \/ Ahead(n, c, x) \/ Ahead(p, c, x)
<1> DEFINE p == Peer(n)
<1>1. p \in Node /\ Peer(p) = n
  BY TwoNodes
<1>2. /\ Len(c[n].ops) \in Nat /\ Len(c[p].ops) \in Nat
      /\ OpSeq(c[n]) = (IF c[n].ops = <<>> THEN 0 ELSE Len(c[n].ops) - 1)
      /\ OpSeq(c[p]) = (IF c[p].ops = <<>> THEN 0 ELSE Len(c[p].ops) - 1)
  BY <1>1, PairFields
<1>3. /\ Ahead(n, c, x) => Len(c[n].ops) = Len(c[p].ops) + 1
      /\ Ahead(p, c, x) => Len(c[p].ops) = Len(c[n].ops) + 1
  BY <1>1, AheadByOne
<1>4. /\ Mirror(c) \/ Ahead(n, c, x) \/ Ahead(p, c, x)
      /\ Mirror(c) => /\ c[n].ops = c[p].ops
                      /\ c[n].mine = c[p].theirs /\ c[n].theirs = c[p].mine
  BY PairView, MirrorView DEF PairInv
<1> QED BY <1>2, <1>3, <1>4

-----------------------------------------------------------------------------
(***************************************************************************)
(* A step of node n: the peer's records d[p] and y[p] stay as they were.   *)
(***************************************************************************)
LEMMA StepOfOne ==
    ASSUME NEW c, NEW x, NEW M, NEW u, PairInv(c, x, M, u),
           NEW d, NEW y, NEW L, NEW v, u \subseteq v,
           NEW n \in Node, d[Peer(n)] = c[Peer(n)], y[Peer(n)] = x[Peer(n)],
           Local(n, d[n], y[n], v), Agree(n, d, y), Agree(Peer(n), d, y), Together(d, y),
           Honest(d, y, L, v),
           ~(Live(n, y, L) /\ Live(Peer(n), y, L))
    PROVE  PairInv(d, y, L, v)
<1> DEFINE p == Peer(n)
<1>1. p \in Node /\ \A k \in Node : k = n \/ k = p
  BY TwoNodes
<1>2. Local(p, d[p], y[p], v)
  <2>1. Local(p, c[p], x[p], u)
    BY <1>1 DEF PairInv
  <2> QED BY <2>1 DEF Local, Recorded, Over
<1>3. ~(Live(A, y, L) /\ Live(B, y, L))
  BY PairView
<1> QED BY <1>1, <1>2, <1>3 DEF PairInv

(* The transfers a of a node become b: one that it proposed or accepted may *)
(* be paid, and no proposal of the node is left.  z is the peer's table.   *)
SameTransfer(r, s) == s.out = r.out /\ s.src = r.src /\ s.dst = r.dst

Becomes(a, b, t, st) ==
    \A w \in TransferId :
       SameTransfer(a[w], b[w]) /\ b[w].st = (IF w = t THEN st ELSE a[w].st)

CommitsOut(a, b) ==
    \A t \in TransferId :
       /\ SameTransfer(a[t], b[t]) /\ b[t].st # "PROPOSED"
       /\ b[t].st = a[t].st \/ (b[t].out /\ a[t].st = "PROPOSED" /\ b[t].st = "COMMITTED")

CommitsIn(a, b, z) ==
    \A t \in TransferId :
       /\ SameTransfer(a[t], b[t]) /\ b[t].st # "PROPOSED"
       /\ \/ b[t].st = a[t].st
          \/ /\ ~b[t].out /\ a[t].st = "ACCEPTED" /\ b[t].st = "SETTLED"
             /\ z[t].st \in Paid

(* What the records d and y of node n make of the envelopes under way when *)
(* n adds an operation to a history both nodes had.                        *)
LEMMA LeadMail ==
    ASSUME NEW c, NEW x, NEW M, NEW u, PairTypes(c, x, M), PairInv(c, x, M, u),
           NEW d, NEW y, NEW n \in Node,
           d[Peer(n)] = c[Peer(n)], y[Peer(n)] = x[Peer(n)],
           Mirror(c), c[n].ops # <<>>, d[n].ops # <<>>, OpSeq(d[n]) = OpSeq(c[n]) + 1,
           d[n].status = c[n].status, c[n].pend = None, d[n].pend = None,
           CommitsOut(x[n], y[n]),
           ~Live(Peer(n), x, M)
    PROVE  Honest(d, y, M, u)
<1> DEFINE p == Peer(n)
<1>1. p \in Node /\ p # n /\ Peer(p) = n
  BY TwoNodes
<1> USE DEF CommitsOut, SameTransfer
<1>2. /\ Local(n, c[n], x[n], u) /\ Local(p, c[p], x[p], u)
      /\ Agree(n, c, x) /\ Agree(p, c, x)
  BY <1>1 DEF PairInv
<1>3. /\ OpSeq(c[n]) \in Nat /\ OpSeq(c[p]) = OpSeq(c[n]) /\ c[p].ops # <<>>
      /\ c[n].ops = c[p].ops
  <2>1. c[n].ops = c[p].ops
    BY MirrorView
  <2> QED BY <2>1, PairFields DEF OpSeq
<1>4. c[n].status = "active" /\ c[p].status = "active"
  BY <1>2, <1>3 DEF Local
<1>5. ~AheadByAdjust(n, c) /\ ~AheadByAdjust(p, c)
  BY <1>1, Shape DEF Ahead
<1>6. ASSUME NEW m \in M[n] PROVE TrueOf(n, m, d, y, u)
  <2>1. TrueOf(n, m, c, x, u) /\ m \in Message
    BY DEF PairInv, Honest, PairTypes
  <2>2. m.type = "transfer.propose" => TrueOfProposal(n, m, d, y)
    <3> SUFFICES ASSUME m.type = "transfer.propose" PROVE TrueOfProposal(n, m, d, y)
      OBVIOUS
    <3>1. m.id \in TransferId /\ m.seq \in Nat /\ TrueOfProposal(n, m, c, x)
      BY <2>1 DEF TrueOf, Message
    <3>2. y[n][m.id].st = "SETTLED" => x[n][m.id].st = "SETTLED"
      BY <3>1
    <3> QED BY <1>1, <1>3, <3>1, <3>2 DEF TrueOfProposal
  <2>3. m.type = "transfer.accept" =>
           y[p][m.id].st # "NONE" /\ ~y[p][m.id].out /\ y[n][m.id].st # "PROPOSED"
    BY <2>1, MessageId DEF TrueOf
  <2>4. m.type = "reserve.adjust" => TrueOfAdjust(n, m, d, u)
    <3> SUFFICES ASSUME m.type = "reserve.adjust" PROVE TrueOfAdjust(n, m, d, u)
      OBVIOUS
    <3>1. m.seq \in Nat /\ TrueOfAdjust(n, m, c, u)
      BY <2>1 DEF TrueOf, Message
    <3> QED BY <1>3, <3>1 DEF TrueOfAdjust
  <2>5. m.type = "reserve.accept" => m.id \in u /\ d[n].pend # m.id
    <3> SUFFICES ASSUME m.type = "reserve.accept" PROVE m.id \in u /\ d[n].pend # m.id
      OBVIOUS
    <3>1. m.id \in AdjustId /\ m.id \in u
      BY <2>1, MessageId DEF TrueOf
    <3> QED BY <3>1, Constants DEF OpId
  <2> QED BY <1>1, <1>4, <2>1, <2>2, <2>3, <2>4, <2>5 DEF TrueOf
<1>7. ASSUME NEW m \in M[p] PROVE TrueOf(p, m, d, y, u)
  <2>1. TrueOf(p, m, c, x, u) /\ m \in Message
    BY <1>1 DEF PairInv, Honest, PairTypes
  <2>2. m.type = "transfer.propose" => TrueOfProposal(p, m, d, y)
    <3> SUFFICES ASSUME m.type = "transfer.propose" PROVE TrueOfProposal(p, m, d, y)
      OBVIOUS
    <3>1. m.id \in TransferId /\ m.seq \in Nat /\ TrueOfProposal(p, m, c, x)
      BY <2>1 DEF TrueOf, Message
    <3>2. m.seq < OpSeq(d[n])
      BY <1>1, <1>3, <3>1 DEF TrueOfProposal
    <3>3. OpSeq(d[n]) \in Nat
      BY <1>3
    <3> QED BY <1>1, <1>3, <3>1, <3>2, <3>3 DEF TrueOfProposal
  <2>3. m.type = "transfer.accept" =>
           y[n][m.id].st # "NONE" /\ ~y[n][m.id].out /\ y[p][m.id].st # "PROPOSED"
    <3> SUFFICES ASSUME m.type = "transfer.accept"
                 PROVE  y[n][m.id].st # "NONE" /\ ~y[n][m.id].out /\ y[p][m.id].st # "PROPOSED"
      OBVIOUS
    <3>1. m.id \in TransferId /\ x[n][m.id].st # "NONE" /\ ~x[n][m.id].out
      BY <1>1, <2>1, MessageId DEF TrueOf
    <3>2. x[p][m.id].st # "PROPOSED"
      BY DEF Live
    <3> QED BY <3>1, <3>2
  <2>4. m.type \in {"transfer.commit", "transfer.receipt", "transfer.abort"} =>
           /\ y[n][m.id].out = x[n][m.id].out
           /\ y[n][m.id].st = x[n][m.id].st \/ x[n][m.id].st = "PROPOSED"
    BY <2>1, MessageId
  <2>5. m.type = "reserve.adjust" => TrueOfAdjust(p, m, d, u)
    <3> SUFFICES ASSUME m.type = "reserve.adjust" PROVE TrueOfAdjust(p, m, d, u)
      OBVIOUS
    <3>1. m.id \in AdjustId /\ TrueOfAdjust(p, m, c, u)
      BY <2>1, MessageId DEF TrueOf
    <3>2. m.id # None
      BY <3>1, Constants DEF OpId
    <3> QED BY <1>1, <3>1, <3>2 DEF TrueOfAdjust
  <2>6. m.type = "reserve.accept" => m.id \in u /\ d[p].pend # m.id
    BY <1>1, <1>5, <2>1 DEF TrueOf
  <2> QED BY <1>1, <1>4, <2>1, <2>2, <2>3, <2>4, <2>5, <2>6 DEF TrueOf, Paid
<1> QED BY <1>1, <1>6, <1>7, TwoNodes DEF Honest

(* ... and when n adds the operation its peer is ahead by.                 *)
LEMMA FollowMail ==
    ASSUME NEW c, NEW x, NEW M, NEW u, PairTypes(c, x, M), PairInv(c, x, M, u),
           NEW d, NEW y, NEW n \in Node,
           d[Peer(n)] = c[Peer(n)], y[Peer(n)] = x[Peer(n)],
           Ahead(Peer(n), c, x), c[n].ops # <<>>, Mirror(d),
           d[n].status = c[n].status, d[n].pend = None,
           CommitsIn(x[n], y[n], x[Peer(n)])
    PROVE  Honest(d, y, M, u)
<1> DEFINE p == Peer(n)
<1>1. p \in Node /\ p # n /\ Peer(p) = n
  BY TwoNodes
<1> USE DEF CommitsIn, SameTransfer
<1>2. /\ Local(n, c[n], x[n], u) /\ Local(p, c[p], x[p], u)
      /\ Agree(n, c, x) /\ Agree(p, c, x)
  BY <1>1 DEF PairInv
<1>3. d[n].ops = c[p].ops /\ d[n].mine = c[p].theirs /\ d[n].theirs = c[p].mine
  BY MirrorView
<1>4. /\ OpSeq(c[n]) \in Nat /\ OpSeq(c[p]) = OpSeq(c[n]) + 1 /\ OpSeq(d[n]) = OpSeq(c[p])
      /\ c[p].ops # <<>> /\ d[n].ops # <<>>
  <2>1. OpSeq(c[p]) = OpSeq(c[n]) + 1 /\ Len(c[p].ops) = Len(c[n].ops) + 1
    BY <1>1, AheadByOne
  <2>2. c[p].ops # <<>>
    BY <1>1, <2>1, PairFields
  <2> QED BY <1>3, <2>1, <2>2, PairFields DEF OpSeq
<1>5. c[n].status = "active" /\ c[p].status = "active"
  BY <1>2, <1>4 DEF Local
<1>6. ~Mirror(c) /\ ~AheadByAdjust(n, c)
  <2>1. ~Mirror(c) /\ ~Ahead(n, c, x)
    BY <1>1, Shape
  <2> QED BY <2>1 DEF Ahead
<1>7. ASSUME NEW m \in M[n] PROVE TrueOf(n, m, d, y, u)
  <2>1. TrueOf(n, m, c, x, u) /\ m \in Message
    BY DEF PairInv, Honest, PairTypes
  <2>2. m.type = "transfer.propose" => TrueOfProposal(n, m, d, y)
    <3> SUFFICES ASSUME m.type = "transfer.propose" PROVE TrueOfProposal(n, m, d, y)
      OBVIOUS
    <3>1. m.id \in TransferId /\ m.seq \in Nat /\ TrueOfProposal(n, m, c, x)
      BY <2>1 DEF TrueOf, Message
    <3>2. y[n][m.id].st = "SETTLED" => x[n][m.id].st = "SETTLED" \/ x[p][m.id].st \in Paid
      BY <3>1
    <3> QED BY <1>1, <1>3, <1>4, <3>1, <3>2 DEF TrueOfProposal
  <2>3. m.type = "transfer.accept" =>
           y[p][m.id].st # "NONE" /\ ~y[p][m.id].out /\ y[n][m.id].st # "PROPOSED"
    BY <2>1, MessageId DEF TrueOf
  <2>4. m.type = "reserve.adjust" => TrueOfAdjust(n, m, d, u)
    <3> SUFFICES ASSUME m.type = "reserve.adjust" PROVE TrueOfAdjust(n, m, d, u)
      OBVIOUS
    <3>1. m.seq \in Nat /\ TrueOfAdjust(n, m, c, u)
      BY <2>1 DEF TrueOf, Message
    <3> QED BY <1>4, <3>1 DEF TrueOfAdjust
  <2>5. m.type = "reserve.accept" => m.id \in u /\ d[n].pend # m.id
    <3> SUFFICES ASSUME m.type = "reserve.accept" PROVE m.id \in u /\ d[n].pend # m.id
      OBVIOUS
    <3>1. m.id \in AdjustId /\ m.id \in u
      BY <2>1, MessageId DEF TrueOf
    <3> QED BY <3>1, Constants DEF OpId
  <2> QED BY <1>1, <1>5, <2>1, <2>2, <2>3, <2>4, <2>5 DEF TrueOf
<1>8. ASSUME NEW m \in M[p] PROVE TrueOf(p, m, d, y, u)
  <2>1. TrueOf(p, m, c, x, u) /\ m \in Message
    BY <1>1 DEF PairInv, Honest, PairTypes
  <2>2. m.type = "transfer.propose" => TrueOfProposal(p, m, d, y)
    <3> SUFFICES ASSUME m.type = "transfer.propose" PROVE TrueOfProposal(p, m, d, y)
      OBVIOUS
    <3>1. m.id \in TransferId /\ m.seq \in Nat /\ TrueOfProposal(p, m, c, x)
      BY <2>1 DEF TrueOf, Message
    <3>2. m.seq < OpSeq(d[n])
      BY <1>1, <1>4, <3>1 DEF TrueOfProposal
    <3>3. OpSeq(d[n]) \in Nat
      BY <1>4
    <3> QED BY <1>1, <1>4, <3>1, <3>2, <3>3 DEF TrueOfProposal
  <2>3. m.type = "transfer.accept" =>
           y[n][m.id].st # "NONE" /\ ~y[n][m.id].out /\ y[p][m.id].st # "PROPOSED"
    <3> SUFFICES ASSUME m.type = "transfer.accept"
                 PROVE  y[n][m.id].st # "NONE" /\ ~y[n][m.id].out /\ y[p][m.id].st # "PROPOSED"
      OBVIOUS
    <3>1. /\ m.id \in TransferId /\ x[n][m.id].st # "NONE" /\ ~x[n][m.id].out
          /\ x[p][m.id].st # "PROPOSED"
      BY <1>1, <1>6, <2>1, MessageId DEF TrueOf
    <3> QED BY <3>1
  <2>4. /\ m.type = "transfer.commit" => y[n][m.id].out /\ y[n][m.id].st \in Paid
        /\ m.type = "transfer.receipt" => ~y[n][m.id].out /\ y[n][m.id].st = "SETTLED"
        /\ m.type = "transfer.abort" => y[n][m.id].out /\ y[n][m.id].st \in {"ABORTED", "EXPIRED"}
    BY <1>1, <2>1, MessageId DEF TrueOf, Paid
  <2>5. m.type = "reserve.adjust" => TrueOfAdjust(p, m, d, u)
    <3> SUFFICES ASSUME m.type = "reserve.adjust" PROVE TrueOfAdjust(p, m, d, u)
      OBVIOUS
    <3>1. m.id \in AdjustId /\ TrueOfAdjust(p, m, c, u)
      BY <2>1, MessageId DEF TrueOf
    <3> QED BY <1>1, <1>4, <3>1 DEF TrueOfAdjust
  <2>6. m.type = "reserve.accept" => m.id \in u /\ d[p].pend # m.id
    BY <1>1, <1>6, <2>1 DEF TrueOf
  <2>7. /\ m.type = "contact.propose" => m.id = n /\ d[p].status # "none"
        /\ m.type = "contact.accept" =>
              m.id = p /\ d[n].ops # <<>> /\ d[p].status # "pending"
    BY <1>1, <1>4, <1>5, <2>1 DEF TrueOf
  <2> QED BY <1>1, <2>2, <2>3, <2>4, <2>5, <2>6, <2>7 DEF TrueOf
<1> QED BY <1>1, <1>7, <1>8, TwoNodes DEF Honest

-----------------------------------------------------------------------------
(***************************************************************************)
(* The lock of a node, and the fields of its record after each operation.  *)
(***************************************************************************)
LEMMA Locked ==
    ASSUME NEW c \in ContactRecord, NEW x, LockHeld(c, x), Idle(c)
    PROVE  /\ \A t \in TransferId : x[t].st \in InFlight =>
                 /\ c.status = "active" /\ c.pend = None
                 /\ \A w \in TransferId : x[w].st \in InFlight => w = t
           /\ Free(c) => c.pend = None /\ \A t \in TransferId : x[t].st \notin InFlight
           /\ c.pend # None => \A t \in TransferId : x[t].st \notin InFlight
           /\ c.status # "active" => c.pend = None /\ \A t \in TransferId : x[t].st \notin InFlight
<1>1. c.pend \in AdjustId \cup {None}
  BY DEF ContactRecord
<1>2. None \notin TransferId \cup AdjustId /\ TransferId \cap AdjustId = {}
  BY Constants DEF OpId
<1> QED BY <1>1, <1>2 DEF LockHeld, Idle, Free

LEMMA PaidOutFields ==
    ASSUME NEW c \in ContactRecord, NEW t, NEW src, NEW dst
    PROVE  LET d == PaidOut(c, t, src, dst)
           IN  /\ d.status = c.status /\ d.id = c.id /\ d.seed = c.seed
               /\ d.pend = c.pend /\ d.delta = c.delta
               /\ d.mine = c.mine + src /\ d.theirs = c.theirs - dst
               /\ d.ops = Append(c.ops, TransferOp(t, src, dst))
BY Zenon DEF PaidOut, ContactRecord

LEMMA PaidInFields ==
    ASSUME NEW c \in ContactRecord, NEW t, NEW src, NEW dst
    PROVE  LET d == PaidIn(c, t, src, dst)
           IN  /\ d.status = c.status /\ d.id = c.id /\ d.seed = c.seed
               /\ d.pend = c.pend /\ d.delta = c.delta
               /\ d.mine = c.mine - dst /\ d.theirs = c.theirs + src
               /\ d.ops = Append(c.ops, TransferOp(t, src, dst))
BY Zenon DEF PaidIn, ContactRecord

LEMMA MirroredFields ==
    ASSUME NEW c \in ContactRecord, NEW a, NEW delta
    PROVE  LET d == AdjustMirrored(c, a, delta)
           IN  /\ d.status = c.status /\ d.id = c.id /\ d.seed = c.seed
               /\ d.pend = c.pend /\ d.delta = c.delta
               /\ d.mine = c.mine /\ d.theirs = c.theirs + delta
               /\ d.ops = Append(c.ops, AdjustOp(a, delta))
BY Zenon DEF AdjustMirrored, ContactRecord

LEMMA AdjustedFields ==
    ASSUME NEW c \in ContactRecord
    PROVE  LET d == Adjusted(c)
           IN  /\ d.status = c.status /\ d.id = c.id /\ d.seed = c.seed /\ d.pend = None
               /\ d.mine = c.mine + c.delta /\ d.theirs = c.theirs
               /\ d.ops = Append(c.ops, AdjustOp(c.pend, c.delta))
BY Zenon DEF Adjusted, ContactRecord

LEMMA StateFields ==
    ASSUME NEW x \in [TransferId -> TransferRecord], NEW t \in TransferId, NEW st
    PROVE  Becomes(x, [x EXCEPT ![t].st = st], t, st)
BY DEF Becomes, SameTransfer, TransferRecord

-----------------------------------------------------------------------------
(***************************************************************************)
(* What stays true of one node when it adds an operation to its history.   *)
(***************************************************************************)
Fresh(ops, op) == \A i \in 1..Len(ops) : ops[i] # op

Advances(x, y) ==
    \A t \in TransferId :
       /\ y[t].out = x[t].out
       /\ y[t].st = x[t].st \/ (x[t].st \in {"PROPOSED", "ACCEPTED"} /\ y[t].st \in Paid)

LEMMA LocalAppend ==
    ASSUME NEW n, NEW c \in ContactRecord, NEW x, NEW u, Local(n, c, x, u),
           c.ops # <<>>, NEW op \in Op, Fresh(c.ops, op),
           NEW d, d.ops = Append(c.ops, op), d.status = c.status, d.id = c.id,
           d.pend = c.pend \/ d.pend = None,
           NEW y, Advances(x, y), Over(op, y, d.pend, u)
    PROVE  Local(n, d, y, u)
<1>1. c.ops \in Seq(Op)
  BY DEF ContactRecord
<1>2. NoRepeat(d.ops) /\ d.ops # <<>>
  BY <1>1, AppendOps DEF Local, Fresh
<1>3. \A a \in AdjustId : a # None
  BY Constants DEF OpId
<1>4. Recorded(d, y, u)
  <2> SUFFICES ASSUME NEW i \in 1..Len(d.ops) PROVE Over(d.ops[i], y, d.pend, u)
    BY DEF Recorded, Over
  <2>1. CASE d.ops[i] = op
    BY <2>1
  <2>2. CASE i \in 1..Len(c.ops) /\ d.ops[i] = c.ops[i]
    BY <1>3, <2>2 DEF Local, Recorded, Paid, Over, Advances
  <2> QED BY <1>1, <2>1, <2>2, AppendOps
<1>5. d.status = "active"
  BY DEF Local
<1> QED BY <1>2, <1>4, <1>5 DEF Local, Paid, Advances

LEMMA LocalPaid ==
    ASSUME NEW n, NEW c \in ContactRecord, NEW x, NEW u, Local(n, c, x, u), c.ops # <<>>,
           NEW t \in TransferId, x[t].st \in {"PROPOSED", "ACCEPTED"},
           NEW src \in Nat, NEW dst \in Nat,
           NEW d, d.ops = Append(c.ops, TransferOp(t, src, dst)),
           d.status = c.status, d.id = c.id, d.pend = c.pend,
           NEW y, NEW st \in Paid, Becomes(x, y, t, st)
    PROVE  Local(n, d, y, u)
<1> DEFINE op == TransferOp(t, src, dst)
<1>1. op \in Op /\ op[1] = "transfer" /\ op[2] = t
  BY OpTypes DEF TransferOp
<1>2. d.ops = Append(c.ops, op)
  OBVIOUS
<1> HIDE DEF op
<1>3. Fresh(c.ops, op)
  BY <1>1 DEF Fresh, Local, Recorded, Over, Paid
<1>4. Advances(x, y)
  BY DEF Advances, Becomes, SameTransfer
<1>5. Over(op, y, d.pend, u)
  BY <1>1 DEF Over, Becomes
<1> QED BY <1>1, <1>2, <1>3, <1>4, <1>5, LocalAppend

-----------------------------------------------------------------------------
(***************************************************************************)
(* The payer commits: only where both nodes had the same history.          *)
(***************************************************************************)
LEMMA CommitOutPair ==
    ASSUME NEW c, NEW x, NEW M, NEW u, PairTypes(c, x, M), PairInv(c, x, M, u),
           NEW n \in Node, LockHeld(c[n], x[n]), Idle(c[n]),
           NEW t \in TransferId, x[n][t].st = "PROPOSED",
           NEW m \in M[n], m.type = "transfer.accept", m.id = t,
           NEW d, d[Peer(n)] = c[Peer(n)],
           d[n] = PaidOut(c[n], t, x[n][t].src, x[n][t].dst),
           NEW y, y[Peer(n)] = x[Peer(n)], Becomes(x[n], y[n], t, "COMMITTED"),
           NEW L, L[n] \subseteq M[n],
           L[Peer(n)] \subseteq M[Peer(n)] \cup {TransferMsg("transfer.commit", t)}
    PROVE  PairInv(d, y, L, u)
<1> DEFINE p == Peer(n)
           op == TransferOp(t, x[n][t].src, x[n][t].dst)
<1>1. p \in Node /\ p # n /\ Peer(p) = n
  BY TwoNodes
<1>2. /\ d[n].status = c[n].status /\ d[n].id = c[n].id
      /\ d[n].pend = c[n].pend
      /\ d[n].mine = c[n].mine + x[n][t].src /\ d[n].theirs = c[n].theirs - x[n][t].dst
      /\ d[n].ops = Append(c[n].ops, op)
  BY PaidOutFields DEF PairTypes
<1>3. /\ Local(n, c[n], x[n], u) /\ Local(p, c[p], x[p], u)
      /\ Agree(n, c, x) /\ Agree(p, c, x) /\ TrueOf(n, m, c, x, u)
  BY <1>1 DEF PairInv, Honest
<1>4. /\ Mirror(c) /\ c[n].ops = c[p].ops
      /\ c[n].mine = c[p].theirs /\ c[n].theirs = c[p].mine
      /\ ~Ahead(n, c, x) /\ ~Ahead(p, c, x)
      /\ x[p][t].st \in {"ACCEPTED", "EXPIRED"} /\ ~x[p][t].out
  BY <1>3, Shape DEF TrueOf
<1>5. /\ c[n].status = "active" /\ c[n].pend = None /\ c[n].ops # <<>>
      /\ \A w \in TransferId : x[n][w].st = "PROPOSED" => w = t
  BY <1>3, PairFields, Locked DEF InFlight, Local
<1>6. /\ c[n].ops \in Seq(Op) /\ op \in Op
      /\ d[n].ops # <<>> /\ OpSeq(d[n]) = OpSeq(c[n]) + 1
  <2>1. c[n].ops \in Seq(Op) /\ op \in Op
    BY PairFields
  <2> HIDE DEF op
  <2> QED BY <1>2, <1>5, <2>1, AppendOps DEF OpSeq
<1>7. ~Live(p, x, M)
  <2>1. Live(n, x, M)
    BY DEF Live
  <2> QED BY <2>1, PairView DEF PairInv
<1>8. Local(n, d[n], y[n], u)
  <2>1. x[n][t].src \in Nat /\ x[n][t].dst \in Nat /\ c[n] \in ContactRecord
    BY PairFields
  <2> QED BY <1>2, <1>3, <1>5, <2>1, LocalPaid DEF Paid
<1>9. Owed(n, t, y) /\ AheadByTransfer(n, t, d, y)
  <2>1. x[n][t].out
    BY <1>3 DEF Local
  <2> QED BY <1>1, <1>2, <1>4, <1>5, <2>1, SMTT(30) DEF Owed, AheadByTransfer, Becomes, SameTransfer
<1>10. Agree(n, d, y)
  <2>1. \A w \in TransferId : Owed(n, w, y) => w = t
    BY <1>1, <1>4 DEF Ahead, Owed, Becomes, SameTransfer
  <2>2. \A w \in TransferId : Owed(n, w, y) => AheadByTransfer(n, w, d, y)
    BY <1>9, <2>1
  <2> HIDE DEF op
  <2> QED BY <1>1, <1>3, <1>4, <2>2 DEF Agree, Paid, Becomes, SameTransfer
<1>11. Agree(p, d, y)
  <2>1. \A w \in TransferId : ~Owed(p, w, y)
    BY <1>1, <1>4 DEF Ahead, Owed, Becomes, SameTransfer
  <2> QED BY <1>1, <1>3, <1>4, <2>1 DEF Agree, Paid, Becomes, SameTransfer
<1>12. Together(d, y)
  BY <1>9, PairView DEF Ahead
<1>13. Honest(d, y, M, u)
  <2>1. CommitsOut(x[n], y[n])
    BY <1>3, <1>5 DEF CommitsOut, Becomes, SameTransfer, Local
  <2>2. d[n].status = c[n].status /\ d[n].pend = None
    BY <1>2, <1>5
  <2> QED BY <1>1, <1>4, <1>5, <1>6, <1>7, <2>1, <2>2, LeadMail
<1>14. TrueOf(p, TransferMsg("transfer.commit", t), d, y, u)
  BY <1>1, <1>9 DEF TrueOf, TransferMsg, Owed, Paid
<1>15. ~Live(n, y, L)
  <2>1. \A k \in L[n] : k.type = "transfer.accept" => k.id \in TransferId
    BY MessageId DEF PairTypes
  <2> QED BY <1>5, <2>1 DEF Live, Becomes
<1>16. Honest(d, y, L, u)
  BY <1>1, <1>13, <1>14, TwoNodes DEF Honest
<1> QED BY <1>1, <1>8, <1>10, <1>11, <1>12, <1>15, <1>16, StepOfOne

(***************************************************************************)
(* The payee commits: only what the payer is ahead by.                     *)
(***************************************************************************)
LEMMA CommitInPair ==
    ASSUME NEW c, NEW x, NEW M, NEW u, PairTypes(c, x, M), PairInv(c, x, M, u),
           NEW n \in Node, LockHeld(c[n], x[n]), Idle(c[n]),
           NEW t \in TransferId, x[n][t].st = "ACCEPTED",
           NEW m \in M[n], m.type = "transfer.commit", m.id = t,
           NEW d, d[Peer(n)] = c[Peer(n)],
           d[n] = PaidIn(c[n], t, x[n][t].src, x[n][t].dst),
           NEW y, y[Peer(n)] = x[Peer(n)], Becomes(x[n], y[n], t, "SETTLED"),
           NEW L, L[n] \subseteq M[n],
           L[Peer(n)] \subseteq M[Peer(n)] \cup {TransferMsg("transfer.receipt", t)}
    PROVE  PairInv(d, y, L, u)
<1> DEFINE p == Peer(n)
           op == TransferOp(t, x[n][t].src, x[n][t].dst)
<1>1. p \in Node /\ p # n /\ Peer(p) = n
  BY TwoNodes
<1>2. /\ d[n].status = c[n].status /\ d[n].id = c[n].id
      /\ d[n].pend = c[n].pend
      /\ d[n].mine = c[n].mine - x[n][t].dst /\ d[n].theirs = c[n].theirs + x[n][t].src
      /\ d[n].ops = Append(c[n].ops, op)
  BY PaidInFields DEF PairTypes
<1>3. /\ Local(n, c[n], x[n], u) /\ Local(p, c[p], x[p], u)
      /\ Agree(n, c, x) /\ Agree(p, c, x) /\ TrueOf(n, m, c, x, u)
  BY <1>1 DEF PairInv, Honest
<1>4. /\ ~x[n][t].out /\ x[p][t].out /\ x[p][t].st = "COMMITTED"
      /\ x[p][t].src = x[n][t].src /\ x[p][t].dst = x[n][t].dst
  BY <1>1, <1>3 DEF Local, Agree, TrueOf, Paid
<1>5. Owed(p, t, x) /\ AheadByTransfer(p, t, c, x)
  BY <1>1, <1>3, <1>4 DEF Owed, Agree
<1>6. Ahead(p, c, x) /\ ~Ahead(n, c, x)
  BY <1>1, <1>5, Shape DEF Ahead
<1>7. /\ c[n].status = "active" /\ c[n].pend = None /\ c[n].ops # <<>>
      /\ \A w \in TransferId : x[n][w].st # "PROPOSED"
  BY <1>3, PairFields, Locked DEF InFlight, Local
<1>8. Mirror(d)
  <2>1. d[n].ops = d[p].ops
    BY <1>1, <1>2, <1>4, <1>5, SMTT(30) DEF AheadByTransfer
  <2>2. d[n].mine = d[p].theirs /\ d[n].theirs = d[p].mine
    BY <1>1, <1>2, <1>4, <1>5 DEF AheadByTransfer
  <2> QED BY <2>1, <2>2, MirrorView
<1>9. Local(n, d[n], y[n], u)
  <2>1. x[n][t].src \in Nat /\ x[n][t].dst \in Nat /\ c[n] \in ContactRecord
    BY PairFields
  <2> QED BY <1>2, <1>3, <1>7, <2>1, LocalPaid DEF Paid
<1>10. Agree(n, d, y)
  <2>1. \A w \in TransferId : ~Owed(n, w, y)
    BY <1>1, <1>4, <1>6 DEF Ahead, Owed, Becomes, SameTransfer
  <2> HIDE DEF op
  <2> QED BY <1>1, <1>3, <1>4, <2>1 DEF Agree, Paid, Becomes, SameTransfer
<1>11. Agree(p, d, y)
  <2>1. \A w \in TransferId : ~Owed(p, w, y)
    <3> SUFFICES ASSUME NEW w \in TransferId, Owed(p, w, y) PROVE FALSE
      OBVIOUS
    <3>1. w # t /\ Owed(p, w, x)
      BY <1>1 DEF Owed, Becomes
    <3>2. /\ c[p].ops = Append(c[n].ops, TransferOp(w, x[p][w].src, x[p][w].dst))
          /\ c[p].ops = Append(c[n].ops, op)
      BY <1>1, <1>3, <1>4, <1>5, <3>1 DEF Agree, AheadByTransfer
    <3>3. /\ c[n].ops \in Seq(Op) /\ op \in Op
          /\ TransferOp(w, x[p][w].src, x[p][w].dst) \in Op
      BY <1>1, PairFields
    <3>4. TransferOp(w, x[p][w].src, x[p][w].dst) = op
      BY <3>2, <3>3, SameAppend
    <3> QED BY <3>1, <3>4 DEF TransferOp
  <2> HIDE DEF op
  <2> QED BY <1>1, <1>3, <1>4, <2>1 DEF Agree, Paid, Becomes, SameTransfer
<1>12. Together(d, y)
  BY <1>8 DEF Together
<1>13. Honest(d, y, M, u)
  <2>1. CommitsIn(x[n], y[n], x[p])
    BY <1>4, <1>7 DEF CommitsIn, Becomes, SameTransfer, Paid
  <2>2. d[n].status = c[n].status /\ d[n].pend = None
    BY <1>2, <1>7
  <2> QED BY <1>1, <1>6, <1>7, <1>8, <2>1, <2>2, FollowMail
<1>14. TrueOf(p, TransferMsg("transfer.receipt", t), d, y, u)
  BY <1>1, <1>4 DEF TrueOf, TransferMsg, Becomes, SameTransfer
<1>15. ~Live(n, y, L)
  <2>1. \A k \in L[n] : k.type = "transfer.accept" => k.id \in TransferId
    BY MessageId DEF PairTypes
  <2> QED BY <1>7, <2>1 DEF Live, Becomes
<1>16. Honest(d, y, L, u)
  BY <1>1, <1>13, <1>14, TwoNodes DEF Honest
<1> QED BY <1>1, <1>9, <1>10, <1>11, <1>12, <1>15, <1>16, StepOfOne

-----------------------------------------------------------------------------
(***************************************************************************)
(* Reserve adjustments: the peer of the node that asked for one leads.     *)
(***************************************************************************)
LEMMA LocalAdjusted ==
    ASSUME NEW n, NEW c \in ContactRecord, NEW x, NEW u, Local(n, c, x, u), c.ops # <<>>,
           NEW a \in AdjustId, a \in u, NEW delta \in Int,
           Fresh(c.ops, AdjustOp(a, delta)),
           NEW d, d.ops = Append(c.ops, AdjustOp(a, delta)),
           d.status = c.status, d.id = c.id, d.pend = None
    PROVE  Local(n, d, x, u)
<1> DEFINE op == AdjustOp(a, delta)
<1>1. op \in Op /\ op[1] = "adjust" /\ op[2] = a
  BY OpTypes DEF AdjustOp
<1>2. d.ops = Append(c.ops, op) /\ Fresh(c.ops, op)
  OBVIOUS
<1> HIDE DEF op
<1>3. Advances(x, x)
  BY DEF Advances
<1>4. Over(op, x, d.pend, u)
  BY <1>1, Constants DEF Over, OpId
<1> QED BY <1>1, <1>2, <1>3, <1>4, LocalAppend

LEMMA MirrorPair ==
    ASSUME NEW c, NEW x, NEW M, NEW u, PairTypes(c, x, M), PairInv(c, x, M, u),
           NEW n \in Node, LockHeld(c[n], x[n]), Idle(c[n]),
           LockHeld(c[Peer(n)], x[Peer(n)]), Idle(c[Peer(n)]),
           Free(c[n]), c[n].status = "active",
           NEW m \in M[n], m.type = "reserve.adjust", m.seq = OpSeq(c[n]),
           NEW d, d[Peer(n)] = c[Peer(n)], d[n] = AdjustMirrored(c[n], m.id, m.delta),
           NEW L, L[n] \subseteq M[n],
           L[Peer(n)] \subseteq M[Peer(n)] \cup {[type |-> "reserve.accept", id |-> m.id]}
    PROVE  PairInv(d, x, L, u)
<1> DEFINE p == Peer(n)
           op == AdjustOp(m.id, m.delta)
<1>1. p \in Node /\ p # n /\ Peer(p) = n
  BY TwoNodes
<1>2. /\ d[n].status = c[n].status /\ d[n].id = c[n].id /\ d[n].pend = c[n].pend
      /\ d[n].mine = c[n].mine /\ d[n].theirs = c[n].theirs + m.delta
      /\ d[n].ops = Append(c[n].ops, op)
  BY MirroredFields DEF PairTypes
<1>3. /\ Local(n, c[n], x[n], u) /\ Local(p, c[p], x[p], u)
      /\ Agree(n, c, x) /\ Agree(p, c, x) /\ TrueOf(n, m, c, x, u)
  BY <1>1 DEF PairInv, Honest
<1>4. m.id \in AdjustId /\ m.id # None /\ m.delta \in Int /\ m.seq \in Nat
  <2>1. m \in Message
    BY DEF PairTypes
  <2> QED BY <2>1, Constants DEF Message, OpId
<1>5. /\ c[n].pend = None /\ c[n].ops # <<>>
      /\ \A w \in TransferId : x[n][w].st \notin InFlight
  BY <1>3, PairFields, Locked DEF Local
<1>6. c[p].pend = m.id /\ c[p].delta = m.delta /\ m.id \in u /\ Mirror(c)
  <2>1. TrueOfAdjust(n, m, c, u)
    BY <1>3 DEF TrueOf
  <2>2. c[p].pend = m.id /\ m.delta = c[p].delta /\ m.seq = OpSeq(c[p]) /\ c[p].ops # <<>>
    BY <1>4, <2>1 DEF TrueOfAdjust
  <2> QED BY <1>5, <2>1, <2>2, Shape DEF TrueOfAdjust
<1>7. /\ c[n].ops = c[p].ops /\ c[n].mine = c[p].theirs /\ c[n].theirs = c[p].mine
      /\ ~Ahead(n, c, x) /\ ~Ahead(p, c, x)
  BY <1>6, Shape
<1>8. \A w \in TransferId : x[p][w].st # "PROPOSED"
  BY <1>1, <1>4, <1>6, Locked, PairFields DEF InFlight
<1>9. /\ c[n].ops \in Seq(Op) /\ op \in Op
      /\ d[n].ops # <<>> /\ OpSeq(d[n]) = OpSeq(c[n]) + 1
  <2>1. c[n].ops \in Seq(Op) /\ op \in Op
    BY <1>4, PairFields, OpTypes
  <2> HIDE DEF op
  <2> QED BY <1>2, <1>5, <2>1, AppendOps DEF OpSeq
<1>10. Local(n, d[n], x[n], u)
  <2>1. Fresh(c[n].ops, op)
    <3>1. op[1] = "adjust" /\ op[2] = m.id
      BY DEF AdjustOp
    <3> HIDE DEF op
    <3> QED BY <1>3, <1>4, <1>6, <1>7, <3>1 DEF Fresh, Local, Recorded, Over
  <2> QED BY <1>2, <1>3, <1>4, <1>5, <1>6, <2>1, LocalAdjusted, PairFields
<1>11. AheadByAdjust(n, d)
  BY <1>1, <1>2, <1>4, <1>5, <1>6, <1>7 DEF AheadByAdjust
<1>12. Agree(n, d, x) /\ Agree(p, d, x)
  BY <1>1, <1>3, <1>7 DEF Agree, Ahead
<1>13. Together(d, x)
  BY <1>11, PairView DEF Ahead
<1>14. ~Live(p, x, M) /\ ~Live(n, x, L)
  BY <1>1, <1>5, <1>8, MessageId DEF Live, PairTypes, InFlight
<1>15. Honest(d, x, M, u)
  <2>1. CommitsOut(x[n], x[n])
    BY <1>5 DEF CommitsOut, SameTransfer, InFlight
  <2>2. d[n].status = c[n].status /\ d[n].pend = None
    BY <1>2, <1>5
  <2> QED BY <1>1, <1>5, <1>6, <1>9, <1>14, <2>1, <2>2, LeadMail
<1>16. TrueOf(p, [type |-> "reserve.accept", id |-> m.id], d, x, u)
  BY <1>1, <1>6, <1>11 DEF TrueOf
<1>17. Honest(d, x, L, u)
  BY <1>1, <1>15, <1>16, TwoNodes DEF Honest
<1> QED BY <1>1, <1>10, <1>12, <1>13, <1>14, <1>17, StepOfOne

LEMMA AdjustEndPair ==
    ASSUME NEW c, NEW x, NEW M, NEW u, PairTypes(c, x, M), PairInv(c, x, M, u),
           NEW n \in Node, LockHeld(c[n], x[n]), Idle(c[n]),
           NEW m \in M[n], m.type = "reserve.accept", c[n].pend = m.id,
           NEW d, d[Peer(n)] = c[Peer(n)], d[n] = Adjusted(c[n]),
           NEW L, L[n] \subseteq M[n], L[Peer(n)] \subseteq M[Peer(n)]
    PROVE  PairInv(d, x, L, u)
<1> DEFINE p == Peer(n)
           op == AdjustOp(c[n].pend, c[n].delta)
<1>1. p \in Node /\ p # n /\ Peer(p) = n
  BY TwoNodes
<1>2. /\ d[n].status = c[n].status /\ d[n].id = c[n].id /\ d[n].pend = None
      /\ d[n].mine = c[n].mine + c[n].delta /\ d[n].theirs = c[n].theirs
      /\ d[n].ops = Append(c[n].ops, op)
  BY AdjustedFields DEF PairTypes
<1>3. /\ Local(n, c[n], x[n], u) /\ Local(p, c[p], x[p], u)
      /\ Agree(n, c, x) /\ Agree(p, c, x) /\ TrueOf(n, m, c, x, u)
  BY <1>1 DEF PairInv, Honest
<1>4. c[n].pend \in AdjustId /\ c[n].pend # None /\ c[n].pend \in u
  <2>1. m \in Message
    BY DEF PairTypes
  <2> QED BY <1>3, <2>1, MessageId, Constants DEF OpId, TrueOf
<1>5. AheadByAdjust(p, c) /\ Ahead(p, c, x) /\ ~Ahead(n, c, x)
  BY <1>1, <1>3, Shape DEF TrueOf, Ahead
<1>6. c[n].ops # <<>> /\ \A w \in TransferId : x[n][w].st \notin InFlight
  BY <1>1, <1>4, <1>5, PairFields, Locked DEF AheadByAdjust
<1>7. Mirror(d)
  <2>1. d[n].ops = d[p].ops
    BY <1>1, <1>2, <1>5 DEF AheadByAdjust
  <2>2. d[n].mine = d[p].theirs /\ d[n].theirs = d[p].mine
    BY <1>1, <1>2, <1>5 DEF AheadByAdjust
  <2> QED BY <2>1, <2>2, MirrorView
<1>8. Local(n, d[n], x[n], u)
  <2>1. Fresh(c[n].ops, op)
    <3>1. op[1] = "adjust" /\ op[2] = c[n].pend
      BY DEF AdjustOp
    <3> HIDE DEF op
    <3> QED BY <1>3, <1>4, <3>1 DEF Fresh, Local, Recorded, Over
  <2> QED BY <1>2, <1>3, <1>4, <1>6, <2>1, LocalAdjusted, PairFields
<1>9. \A w \in TransferId : ~Owed(n, w, x) /\ ~Owed(p, w, x)
  <2> SUFFICES ASSUME NEW w \in TransferId, Owed(p, w, x) PROVE FALSE
    BY <1>5 DEF Ahead
  <2>1. /\ c[p].ops = Append(c[n].ops, TransferOp(w, x[p][w].src, x[p][w].dst))
        /\ c[p].ops = Append(c[n].ops, op)
    BY <1>1, <1>3, <1>5 DEF Agree, AheadByTransfer, AheadByAdjust
  <2>2. /\ c[n].ops \in Seq(Op) /\ op \in Op
        /\ TransferOp(w, x[p][w].src, x[p][w].dst) \in Op
    BY <1>1, <1>4, PairFields
  <2>3. TransferOp(w, x[p][w].src, x[p][w].dst) = op
    <3> DEFINE s == c[n].ops
               e == TransferOp(w, x[p][w].src, x[p][w].dst)
    <3>1. s \in Seq(Op) /\ e \in Op /\ op \in Op /\ Append(s, e) = Append(s, op)
      BY <2>1, <2>2
    <3> HIDE DEF op, e, s
    <3>2. e = op
      BY <3>1, SameAppend
    <3> QED BY <3>2 DEF e
  <2> QED BY <2>3 DEF TransferOp, AdjustOp
<1>10. Agree(n, d, x) /\ Agree(p, d, x)
  BY <1>1, <1>3, <1>9 DEF Agree
<1>11. Together(d, x)
  BY <1>7 DEF Together
<1>12. ~Live(n, x, L)
  BY <1>6, MessageId DEF Live, PairTypes, InFlight
<1>13. Honest(d, x, M, u)
  <2>1. CommitsIn(x[n], x[n], x[p])
    BY <1>6 DEF CommitsIn, SameTransfer, InFlight
  <2> QED BY <1>1, <1>2, <1>5, <1>6, <1>7, <2>1, FollowMail
<1>14. Honest(d, x, L, u)
  BY <1>1, <1>13, TwoNodes DEF Honest
<1> QED BY <1>1, <1>8, <1>10, <1>11, <1>12, <1>14, StepOfOne

(* The request itself changes no history.                                  *)
LEMMA AdjustBeginPair ==
    ASSUME NEW c, NEW x, NEW M, NEW u, PairTypes(c, x, M), PairInv(c, x, M, u),
           NEW n \in Node, c[n].pend = None, c[n].status = "active",
           NEW a \in AdjustId, a \notin u, NEW delta,
           NEW d, d[Peer(n)] = c[Peer(n)],
           d[n].status = c[n].status, d[n].id = c[n].id, d[n].seed = c[n].seed,
           d[n].ops = c[n].ops, d[n].mine = c[n].mine, d[n].theirs = c[n].theirs,
           d[n].pend = a, d[n].delta = delta,
           NEW L, L[n] \subseteq M[n],
           L[Peer(n)] \subseteq M[Peer(n)] \cup
              {[type |-> "reserve.adjust", id |-> a, seq |-> OpSeq(c[n]), delta |-> delta]}
    PROVE  PairInv(d, x, L, u \cup {a})
<1> DEFINE p == Peer(n)
           v == u \cup {a}
<1>1. p \in Node /\ p # n /\ Peer(p) = n
  BY TwoNodes
<1>2. /\ Local(n, c[n], x[n], u) /\ Local(p, c[p], x[p], u)
      /\ Agree(n, c, x) /\ Agree(p, c, x)
  BY <1>1 DEF PairInv
<1>3. OpSeq(d[n]) = OpSeq(c[n]) /\ d[n].ops # <<>>
  BY <1>2 DEF OpSeq, Local
<1>4. Local(n, d[n], x[n], v)
  BY <1>2 DEF Local, Recorded, Over
<1>5. Mirror(c) <=> Mirror(d)
  BY MirrorView
<1>6. /\ AheadByAdjust(n, c) <=> AheadByAdjust(n, d)
      /\ ~AheadByAdjust(p, c)
      /\ \A k \in Node : AheadBySeed(k, c) <=> AheadBySeed(k, d)
  BY <1>1, TwoNodes DEF AheadByAdjust, AheadBySeed
<1>7. \A t \in TransferId :
         /\ AheadByTransfer(n, t, c, x) <=> AheadByTransfer(n, t, d, x)
         /\ AheadByTransfer(p, t, c, x) <=> AheadByTransfer(p, t, d, x)
  BY <1>1 DEF AheadByTransfer
<1>8. Agree(n, d, x) /\ Agree(p, d, x)
  BY <1>1, <1>2, <1>7 DEF Agree
<1>9. Together(d, x)
  <2>1. Together(c, x)
    BY DEF PairInv
  <2> QED BY <1>1, <1>5, <1>6, <2>1, PairView DEF Ahead
<1>10. ASSUME NEW m \in M[n] PROVE TrueOf(n, m, d, x, v)
  <2>1. TrueOf(n, m, c, x, u)
    BY DEF PairInv, Honest
  <2>2. m.type = "transfer.propose" => TrueOfProposal(n, m, d, x)
    BY <1>1, <1>3, <2>1 DEF TrueOf, TrueOfProposal
  <2>3. m.type = "reserve.adjust" => TrueOfAdjust(n, m, d, v)
    BY <1>1, <1>3, <2>1 DEF TrueOf, TrueOfAdjust
  <2> QED BY <1>1, <1>5, <2>1, <2>2, <2>3 DEF TrueOf
<1>11. ASSUME NEW m \in M[p] PROVE TrueOf(p, m, d, x, v)
  <2>1. TrueOf(p, m, c, x, u) /\ m \in Message
    BY <1>1 DEF PairInv, PairTypes, Honest
  <2>2. m.type = "transfer.propose" => TrueOfProposal(p, m, d, x)
    BY <1>1, <1>3, <2>1 DEF TrueOf, TrueOfProposal
  <2>3. m.type = "reserve.adjust" => TrueOfAdjust(p, m, d, v)
    <3>1. m.type = "reserve.adjust" => m.id # None
      BY <2>1, MessageId, Constants DEF OpId
    <3> QED BY <1>1, <1>2, <1>3, <2>1, <3>1 DEF TrueOf, TrueOfAdjust, Local
  <2> QED BY <1>1, <1>5, <1>6, <2>1, <2>2, <2>3 DEF TrueOf
<1>12. TrueOf(p, [type |-> "reserve.adjust", id |-> a, seq |-> OpSeq(c[n]), delta |-> delta],
              d, x, v)
  BY <1>1, <1>3 DEF TrueOf, TrueOfAdjust
<1>13. Honest(d, x, L, v)
  BY <1>1, <1>10, <1>11, <1>12, TwoNodes DEF Honest
<1>14. ~(Live(n, x, L) /\ Live(p, x, L))
  <2>1. ~(Live(n, x, M) /\ Live(p, x, M))
    BY PairView DEF PairInv
  <2> QED BY <2>1 DEF Live
<1>15. u \subseteq v
  OBVIOUS
<1> HIDE DEF v
<1>16. PairInv(d, x, L, v)
  BY <1>1, <1>4, <1>8, <1>9, <1>13, <1>14, <1>15, StepOfOne
<1> QED BY <1>16 DEF v

-----------------------------------------------------------------------------
(***************************************************************************)
(* Proposals.  b is the table a of a node with the record r for t.         *)
(***************************************************************************)
Adds(a, b, t, r) == \A w \in TransferId : b[w] = (IF w = t THEN r ELSE a[w])

(* Steps that leave n's books alone: only transfers and locks change.      *)
LEMMA SameBooks ==
    ASSUME NEW c, NEW d, NEW n \in Node, d[Peer(n)] = c[Peer(n)], SameCore(c[n], d[n])
    PROVE  /\ Mirror(c) <=> Mirror(d)
           /\ OpSeq(d[n]) = OpSeq(c[n])
           /\ \A k \in Node : /\ AheadByAdjust(k, c) <=> AheadByAdjust(k, d)
                              /\ AheadBySeed(k, c) <=> AheadBySeed(k, d)
<1> DEFINE p == Peer(n)
<1>1. p \in Node /\ p # n /\ Peer(p) = n
  BY TwoNodes
<1>2. Mirror(c) <=> Mirror(d)
  BY MirrorView DEF SameCore
<1>3. OpSeq(d[n]) = OpSeq(c[n])
  BY DEF OpSeq, SameCore
<1>4. /\ AheadByAdjust(n, c) <=> AheadByAdjust(n, d)
      /\ AheadByAdjust(p, c) <=> AheadByAdjust(p, d)
  BY <1>1 DEF AheadByAdjust, SameCore
<1>5. /\ AheadBySeed(n, c) <=> AheadBySeed(n, d)
      /\ AheadBySeed(p, c) <=> AheadBySeed(p, d)
  BY <1>1 DEF AheadBySeed, SameCore
<1> QED BY <1>2, <1>3, <1>4, <1>5, TwoNodes

LEMMA ProposePair ==
    ASSUME NEW c, NEW x, NEW M, NEW u, PairTypes(c, x, M), PairInv(c, x, M, u),
           NEW n \in Node, c[n].status = "active",
           NEW t \in TransferId, t \notin u, NEW src,
           NEW dst, dst = PoolPrice(c[n].mine, c[n].theirs, src),
           NEW d, d[Peer(n)] = c[Peer(n)], SameCore(c[n], d[n]),
           NEW r, r.st = "PROPOSED", r.out, r.src = src, r.dst = dst,
           NEW y, y[Peer(n)] = x[Peer(n)], Adds(x[n], y[n], t, r),
           NEW L, L[n] \subseteq M[n],
           L[Peer(n)] \subseteq M[Peer(n)] \cup
              {[type |-> "transfer.propose", id |-> t, seq |-> OpSeq(c[n]), src |-> src, dst |-> dst]}
    PROVE  PairInv(d, y, L, u \cup {t})
<1> DEFINE p == Peer(n)
           v == u \cup {t}
           e == [type |-> "transfer.propose", id |-> t, seq |-> OpSeq(c[n]),
                 src |-> src, dst |-> dst]
<1>1. p \in Node /\ p # n /\ Peer(p) = n
  BY TwoNodes
<1>2. /\ Local(n, c[n], x[n], u) /\ Local(p, c[p], x[p], u)
      /\ Agree(n, c, x) /\ Agree(p, c, x)
  BY <1>1 DEF PairInv
<1>3. x[n][t].st = "NONE" /\ x[p][t].st = "NONE" /\ ~x[n][t].out /\ ~x[p][t].out
  BY <1>2 DEF Local
<1>4. y[n][t] = r /\ \A w \in TransferId : w # t => y[n][w] = x[n][w]
  BY DEF Adds
<1>5. Mirror(c) <=> Mirror(d)
  BY SameBooks
<1>6. /\ \A k \in Node : /\ AheadByAdjust(k, c) <=> AheadByAdjust(k, d)
                         /\ AheadBySeed(k, c) <=> AheadBySeed(k, d)
      /\ OpSeq(d[n]) = OpSeq(c[n])
  BY SameBooks
<1>7. Local(n, d[n], y[n], v)
  BY <1>2, <1>3, <1>4 DEF Local, Recorded, Over, SameCore, Paid
<1>8. \A w \in TransferId :
         /\ Owed(n, w, x) <=> Owed(n, w, y)
         /\ Owed(p, w, x) <=> Owed(p, w, y)
         /\ Owed(n, w, y) /\ AheadByTransfer(n, w, c, x) => AheadByTransfer(n, w, d, y)
         /\ Owed(p, w, y) /\ AheadByTransfer(p, w, c, x) => AheadByTransfer(p, w, d, y)
  BY <1>1, <1>3, <1>4, SMTT(30) DEF Owed, AheadByTransfer, SameCore
<1>9. Agree(n, d, y) /\ Agree(p, d, y)
  BY <1>1, <1>2, <1>3, <1>4, <1>8 DEF Agree, Paid
<1>10. Together(d, y)
  <2>1. Together(c, x)
    BY DEF PairInv
  <2> QED BY <1>1, <1>5, <1>6, <1>8, <2>1, PairView DEF Ahead
<1>11. ASSUME NEW m \in M[n] PROVE TrueOf(n, m, d, y, v) /\ (m.type = "transfer.accept" => m.id # t)
  <2>1. TrueOf(n, m, c, x, u) /\ m \in Message
    BY DEF PairInv, PairTypes, Honest
  <2>2. m.type = "transfer.propose" => TrueOfProposal(n, m, d, y)
    BY <1>1, <1>4, <1>6, <2>1, MessageId DEF TrueOf, TrueOfProposal, SameCore
  <2>3. m.type = "transfer.accept" =>
           /\ m.id # t /\ y[p][m.id].st # "NONE" /\ ~y[p][m.id].out
           /\ y[n][m.id].st = "PROPOSED" => Mirror(d) /\ y[p][m.id].st \in {"ACCEPTED", "EXPIRED"}
    BY <1>3, <1>4, <1>5, <2>1, MessageId DEF TrueOf
  <2>4. m.type = "reserve.adjust" => TrueOfAdjust(n, m, d, v)
    BY <1>1, <1>6, <2>1 DEF TrueOf, TrueOfAdjust
  <2>5. m.type = "reserve.accept" => m.id \in v /\ (d[n].pend = m.id => AheadByAdjust(p, d))
    BY <1>1, <1>6, <2>1 DEF TrueOf, SameCore
  <2>6. /\ d[n].status = c[n].status /\ d[n].ops = c[n].ops
    BY DEF SameCore
  <2> QED BY <1>1, <2>1, <2>2, <2>3, <2>4, <2>5, <2>6 DEF TrueOf
<1>12. ASSUME NEW m \in M[p] PROVE TrueOf(p, m, d, y, v)
  <2>1. TrueOf(p, m, c, x, u) /\ m \in Message
    BY <1>1 DEF PairInv, PairTypes, Honest
  <2>2. m.type = "transfer.propose" => TrueOfProposal(p, m, d, y)
    <3> SUFFICES ASSUME m.type = "transfer.propose" PROVE TrueOfProposal(p, m, d, y)
      OBVIOUS
    <3>1. m.id \in TransferId /\ TrueOfProposal(p, m, c, x)
      BY <2>1, MessageId DEF TrueOf
    <3>2. y[n][m.id] = x[n][m.id]
      BY <1>1, <1>3, <1>4, <3>1 DEF TrueOfProposal
    <3> QED BY <1>1, <1>6, <3>1, <3>2 DEF TrueOfProposal, SameCore
  <2>3. m.type \in {"transfer.accept", "transfer.commit", "transfer.receipt", "transfer.abort"} =>
           y[n][m.id] = x[n][m.id]
    BY <1>1, <1>3, <1>4, <2>1, MessageId DEF TrueOf, Paid
  <2>4. m.type = "reserve.adjust" => TrueOfAdjust(p, m, d, v)
    BY <1>1, <1>6, <2>1 DEF TrueOf, TrueOfAdjust, SameCore
  <2>5. m.type = "reserve.accept" => m.id \in v /\ (d[p].pend = m.id => AheadByAdjust(n, d))
    BY <1>1, <1>6, <2>1 DEF TrueOf
  <2>6. /\ d[n].status = c[n].status /\ d[n].ops = c[n].ops
        /\ d[n].seed = c[n].seed /\ d[n].mine = c[n].mine
    BY DEF SameCore
  <2> QED BY <1>1, <1>5, <2>1, <2>2, <2>3, <2>4, <2>5, <2>6 DEF TrueOf
<1>13. TrueOf(p, e, d, y, v)
  <2>1. TrueOfProposal(p, e, d, y)
    <3>1. /\ d[n].ops = c[n].ops /\ d[n].mine = c[n].mine /\ d[n].theirs = c[n].theirs
          /\ c[n].ops # <<>> /\ OpSeq(c[n]) \in Nat
      BY <1>2, PairFields DEF SameCore, Local
    <3>2. c[p].ops # <<>> /\ OpSeq(c[p]) = OpSeq(c[n]) =>
             c[p].theirs = c[n].mine /\ c[p].mine = c[n].theirs
      BY <3>1, Shape
    <3> HIDE DEF e
    <3>3. e.id = t /\ e.seq = OpSeq(c[n]) /\ e.src = src /\ e.dst = dst
      BY DEF e
    <3> QED BY <1>1, <1>3, <1>4, <1>6, <3>1, <3>2, <3>3 DEF TrueOfProposal, Priced, Paid
  <2> QED BY <2>1 DEF TrueOf
<1>14. Honest(d, y, L, v)
  BY <1>1, <1>11, <1>12, <1>13, TwoNodes DEF Honest
<1>15. ~(Live(n, y, L) /\ Live(p, y, L))
  <2>1. ~(Live(n, x, M) /\ Live(p, x, M))
    BY PairView DEF PairInv
  <2>2. Live(n, y, L) => Live(n, x, M)
    BY <1>4, <1>11, MessageId DEF Live, PairTypes
  <2>3. Live(p, y, L) => Live(p, x, M)
    BY DEF Live
  <2> QED BY <2>1, <2>2, <2>3
<1>16. u \subseteq v
  OBVIOUS
<1> HIDE DEF v
<1>17. PairInv(d, y, L, v)
  BY <1>1, <1>7, <1>9, <1>10, <1>14, <1>15, <1>16, StepOfOne
<1> QED BY <1>17 DEF v

LEMMA AcceptPair ==
    ASSUME NEW c, NEW x, NEW M, NEW u, PairTypes(c, x, M), PairInv(c, x, M, u),
           NEW n \in Node, LockHeld(c[n], x[n]), Idle(c[n]),
           Free(c[n]), c[n].status = "active",
           NEW m \in M[n], m.type = "transfer.propose", m.seq = OpSeq(c[n]),
           NEW d, d[Peer(n)] = c[Peer(n)], SameCore(c[n], d[n]),
           NEW r, r.st = "ACCEPTED", ~r.out, r.src = m.src, r.dst = m.dst,
           NEW y, y[Peer(n)] = x[Peer(n)], Adds(x[n], y[n], m.id, r),
           NEW L, L[n] \subseteq M[n],
           L[Peer(n)] \subseteq M[Peer(n)] \cup {TransferMsg("transfer.accept", m.id)}
    PROVE  PairInv(d, y, L, u)
<1> DEFINE p == Peer(n)
           t == m.id
           e == TransferMsg("transfer.accept", t)
<1>1. p \in Node /\ p # n /\ Peer(p) = n
  BY TwoNodes
<1>2. /\ Local(n, c[n], x[n], u) /\ Local(p, c[p], x[p], u)
      /\ Agree(n, c, x) /\ Agree(p, c, x)
  BY <1>1 DEF PairInv
<1>3. t \in TransferId /\ m.seq \in Nat /\ TrueOfProposal(n, m, c, x)
  <2>1. TrueOf(n, m, c, x, u) /\ m \in Message
    BY DEF PairInv, PairTypes, Honest
  <2> QED BY <2>1 DEF TrueOf, Message
<1>4. y[n][t] = r /\ \A w \in TransferId : w # t => y[n][w] = x[n][w]
  BY <1>3 DEF Adds
<1>5. /\ c[n].pend = None /\ c[n].ops # <<>>
      /\ \A w \in TransferId : x[n][w].st \notin InFlight
  BY <1>2, PairFields, Locked DEF Local
<1>6. /\ x[p][t].out /\ x[p][t].src = m.src /\ x[p][t].dst = m.dst /\ ~x[n][t].out
      /\ t \in u /\ x[n][t].st \notin Paid /\ x[p][t].st # "SETTLED"
  BY <1>1, <1>2, <1>3, <1>5 DEF TrueOfProposal, Local, Agree, Paid, InFlight
<1>7. x[p][t].st = "PROPOSED" => Mirror(c)
  BY <1>3, <1>5, Shape DEF TrueOfProposal
<1>8. /\ Mirror(c) <=> Mirror(d)
      /\ \A k \in Node : /\ AheadByAdjust(k, c) <=> AheadByAdjust(k, d)
                         /\ AheadBySeed(k, c) <=> AheadBySeed(k, d)
      /\ OpSeq(d[n]) = OpSeq(c[n])
  BY SameBooks
<1>9. Local(n, d[n], y[n], u)
  BY <1>2, <1>4, <1>6 DEF Local, Recorded, Over, SameCore, Paid
<1>10. \A w \in TransferId :
         /\ Owed(n, w, x) <=> Owed(n, w, y)
         /\ Owed(p, w, x) <=> Owed(p, w, y)
         /\ Owed(n, w, y) /\ AheadByTransfer(n, w, c, x) => AheadByTransfer(n, w, d, y)
         /\ Owed(p, w, y) /\ AheadByTransfer(p, w, c, x) => AheadByTransfer(p, w, d, y)
  BY <1>1, <1>4, <1>6, SMTT(30) DEF Owed, AheadByTransfer, SameCore, Paid
<1>11. Agree(n, d, y) /\ Agree(p, d, y)
  <2> HIDE DEF t
  <2> QED BY <1>1, <1>2, <1>4, <1>6, <1>10 DEF Agree, Paid
<1>12. Together(d, y)
  <2>1. Together(c, x)
    BY DEF PairInv
  <2> QED BY <1>1, <1>8, <1>10, <2>1, PairView DEF Ahead
<1>13. ASSUME NEW k \in M[n] PROVE TrueOf(n, k, d, y, u)
  <2>1. TrueOf(n, k, c, x, u) /\ k \in Message
    BY DEF PairInv, PairTypes, Honest
  <2>2. k.type = "transfer.propose" => TrueOfProposal(n, k, d, y)
    BY <1>1, <1>4, <1>8, <2>1, MessageId DEF TrueOf, TrueOfProposal, SameCore
  <2>3. k.type = "transfer.accept" =>
           y[p][k.id].st # "NONE" /\ ~y[p][k.id].out /\ y[n][k.id].st # "PROPOSED"
    BY <1>4, <1>5, <2>1, MessageId DEF TrueOf, InFlight
  <2>4. k.type = "reserve.adjust" => TrueOfAdjust(n, k, d, u)
    BY <1>1, <1>8, <2>1 DEF TrueOf, TrueOfAdjust
  <2>5. k.type = "reserve.accept" => k.id \in u /\ (d[n].pend = k.id => AheadByAdjust(p, d))
    BY <1>1, <1>8, <2>1 DEF TrueOf, SameCore
  <2>6. d[n].status = c[n].status /\ d[n].ops = c[n].ops
    BY DEF SameCore
  <2> QED BY <1>1, <2>1, <2>2, <2>3, <2>4, <2>5, <2>6 DEF TrueOf
<1>14. ASSUME NEW k \in M[p] PROVE TrueOf(p, k, d, y, u)
  <2>1. TrueOf(p, k, c, x, u) /\ k \in Message
    BY <1>1 DEF PairInv, PairTypes, Honest
  <2>2. k.type = "transfer.propose" => TrueOfProposal(p, k, d, y)
    <3> SUFFICES ASSUME k.type = "transfer.propose" PROVE TrueOfProposal(p, k, d, y)
      OBVIOUS
    <3>1. k.id \in TransferId /\ TrueOfProposal(p, k, c, x)
      BY <2>1, MessageId DEF TrueOf
    <3>2. y[n][k.id] = x[n][k.id]
      BY <1>1, <1>4, <1>6, <3>1 DEF TrueOfProposal
    <3> QED BY <1>1, <1>8, <3>1, <3>2 DEF TrueOfProposal, SameCore
  <2>3. k.type = "transfer.accept" =>
           /\ y[n][k.id].st # "NONE" /\ ~y[n][k.id].out
           /\ y[p][k.id].st = "PROPOSED" => Mirror(d) /\ y[n][k.id].st \in {"ACCEPTED", "EXPIRED"}
    BY <1>1, <1>4, <1>8, <2>1, MessageId DEF TrueOf
  <2>4. k.type \in {"transfer.commit", "transfer.receipt", "transfer.abort"} =>
           y[n][k.id] = x[n][k.id]
    BY <1>1, <1>4, <1>6, <2>1, MessageId DEF TrueOf, Paid
  <2>5. k.type = "reserve.adjust" => TrueOfAdjust(p, k, d, u)
    BY <1>1, <1>8, <2>1 DEF TrueOf, TrueOfAdjust, SameCore
  <2>6. k.type = "reserve.accept" => k.id \in u /\ (d[p].pend = k.id => AheadByAdjust(n, d))
    BY <1>1, <1>8, <2>1 DEF TrueOf
  <2>7. /\ d[n].status = c[n].status /\ d[n].ops = c[n].ops
        /\ d[n].seed = c[n].seed /\ d[n].mine = c[n].mine
    BY DEF SameCore
  <2> QED BY <1>1, <2>1, <2>2, <2>3, <2>4, <2>5, <2>6, <2>7 DEF TrueOf
<1>15. TrueOf(p, e, d, y, u)
  BY <1>1, <1>4, <1>7, <1>8 DEF TrueOf, TransferMsg
<1>16. Honest(d, y, L, u)
  <2> HIDE DEF e
  <2> QED BY <1>1, <1>13, <1>14, <1>15, TwoNodes DEF Honest, e
<1>17. ~Live(n, y, L)
  BY <1>4, <1>5, MessageId DEF Live, PairTypes, InFlight
<1> QED BY <1>1, <1>9, <1>11, <1>12, <1>16, <1>17, StepOfOne

-----------------------------------------------------------------------------
(***************************************************************************)
(* Opening a contact.                                                      *)
(***************************************************************************)
(* Before n has a history its peer is ahead by a seed operation, or has    *)
(* none either.                                                            *)
LEMMA Seedless ==
    ASSUME NEW c, NEW x, NEW M, NEW u, PairTypes(c, x, M), PairInv(c, x, M, u),
           NEW n \in Node, c[n].ops = <<>>
    PROVE  /\ ~Ahead(n, c, x) /\ ~AheadByAdjust(Peer(n), c)
           /\ \A t \in TransferId : ~Owed(n, t, x) /\ ~Owed(Peer(n), t, x)
           /\ AheadBySeed(Peer(n), c) \/ Mirror(c)
           /\ c[Peer(n)].ops # <<>> => AheadBySeed(Peer(n), c)
<1> DEFINE p == Peer(n)
<1>1. p \in Node /\ p # n /\ Peer(p) = n
  BY TwoNodes
<1>2. Agree(n, c, x) /\ Agree(p, c, x)
  BY <1>1 DEF PairInv
<1>3. ~Ahead(n, c, x)
  <2>1. Ahead(n, c, x) => Len(c[n].ops) = Len(c[p].ops) + 1
    BY AheadByOne
  <2>2. Len(c[n].ops) = 0 /\ Len(c[p].ops) \in Nat
    BY <1>1, PairFields
  <2> QED BY <2>1, <2>2
<1>4. ~AheadByAdjust(p, c) /\ \A t \in TransferId : ~Owed(p, t, x)
  BY <1>1, <1>2 DEF AheadByAdjust, AheadByTransfer, Agree
<1>5. Mirror(c) => c[p].ops = <<>>
  BY MirrorView
<1>6. Mirror(c) \/ Ahead(n, c, x) \/ Ahead(p, c, x)
  BY Shape
<1> QED BY <1>3, <1>4, <1>5, <1>6 DEF Ahead

LEMMA OpenPair ==
    ASSUME NEW c, NEW x, NEW M, NEW u, PairTypes(c, x, M), PairInv(c, x, M, u),
           NEW n \in Node, LockHeld(c[n], x[n]), Idle(c[n]), c[n].status = "none",
           NEW seed, NEW d, d[Peer(n)] = c[Peer(n)],
           d[n].status = "pending", d[n].id = n, d[n].seed = seed, d[n].ops = <<>>,
           d[n].mine = 0, d[n].theirs = 0, d[n].pend = None,
           NEW L, L[n] \subseteq M[n],
           L[Peer(n)] \subseteq M[Peer(n)] \cup
              {[type |-> "contact.propose", id |-> n, seed |-> seed]}
    PROVE  PairInv(d, x, L, u)
<1> DEFINE p == Peer(n)
           e == [type |-> "contact.propose", id |-> n, seed |-> seed]
<1>1. p \in Node /\ p # n /\ Peer(p) = n
  BY TwoNodes
<1>2. /\ Local(n, c[n], x[n], u) /\ Local(p, c[p], x[p], u)
      /\ Agree(n, c, x) /\ Agree(p, c, x)
  BY <1>1 DEF PairInv
<1>3. c[n].ops = <<>> /\ c[n].mine = 0 /\ c[n].theirs = 0
  BY <1>2 DEF Local
<1>4. /\ Mirror(c) /\ c[p].ops = <<>> /\ Mirror(d)
      /\ ~AheadByAdjust(n, c) /\ ~AheadByAdjust(p, c)
      /\ \A t \in TransferId : ~Owed(n, t, x) /\ ~Owed(p, t, x)
  <2>1. ~AheadBySeed(p, c)
    BY <1>1 DEF AheadBySeed
  <2>2. Mirror(c) /\ c[p].ops = <<>>
    BY <1>3, <2>1, Seedless
  <2>3. c[n].mine = c[p].theirs /\ c[n].theirs = c[p].mine
    BY <2>2, MirrorView
  <2>4. Mirror(d)
    BY <1>3, <2>2, <2>3, MirrorView
  <2> QED BY <1>3, <2>2, <2>4, Seedless DEF Ahead
<1>5. Local(n, d[n], x[n], u)
  <2>1. NoRepeat(<<>>) /\ Recorded(d[n], x[n], u)
    BY DEF NoRepeat, Recorded
  <2> QED BY <1>2, <2>1 DEF Local
<1>6. Agree(n, d, x) /\ Agree(p, d, x)
  BY <1>1, <1>2, <1>4 DEF Agree
<1>7. Together(d, x)
  BY <1>4 DEF Together
<1>8. ASSUME NEW m \in M[n] PROVE TrueOf(n, m, d, x, u)
  <2>1. TrueOf(n, m, c, x, u) /\ m \in Message
    BY DEF PairInv, PairTypes, Honest
  <2>2. m.type \notin {"transfer.propose", "reserve.adjust", "contact.accept"}
    BY <1>1, <1>4, <2>1 DEF TrueOf, TrueOfProposal, TrueOfAdjust
  <2>3. m.type = "reserve.accept" => m.id # None
    BY <2>1, MessageId, Constants DEF OpId
  <2> QED BY <1>1, <1>4, <2>1, <2>2, <2>3 DEF TrueOf
<1>9. ASSUME NEW m \in M[p] PROVE TrueOf(p, m, d, x, u)
  <2>1. TrueOf(p, m, c, x, u) /\ m \in Message
    BY <1>1 DEF PairInv, PairTypes, Honest
  <2>2. m.type \notin {"transfer.propose", "reserve.adjust", "contact.accept"}
    BY <1>1, <1>3, <2>1 DEF TrueOf, TrueOfProposal, TrueOfAdjust
  <2> QED BY <1>1, <1>4, <2>1, <2>2 DEF TrueOf
<1>10. TrueOf(p, e, d, x, u)
  BY <1>1 DEF TrueOf
<1>11. Honest(d, x, L, u)
  <2> HIDE DEF e
  <2> QED BY <1>1, <1>8, <1>9, <1>10, TwoNodes DEF Honest, e
<1>12. ~Live(n, x, L)
  <2>1. \A w \in TransferId : x[n][w].st \notin InFlight
    BY PairFields, Locked
  <2> QED BY <2>1, MessageId DEF Live, PairTypes, InFlight
<1> QED BY <1>1, <1>5, <1>6, <1>7, <1>11, <1>12, StepOfOne

LEMMA LocalSeed ==
    ASSUME NEW n, NEW c, NEW x, NEW u, Local(n, c, x, u),
           NEW id, NEW p, NEW r,
           NEW d, d.status = "active", d.ops = <<SeedOp(id, p, r)>>, d.pend = None
    PROVE  Local(n, d, x, u)
<1>1. NoRepeat(d.ops)
  BY DEF NoRepeat
<1>2. Recorded(d, x, u)
  BY DEF Recorded, Over, SeedOp
<1> QED BY <1>1, <1>2 DEF Local

(* The node that accepts the contact leads.                                *)
LEMMA SeedLeadPair ==
    ASSUME NEW c, NEW x, NEW M, NEW u, PairTypes(c, x, M), PairInv(c, x, M, u),
           NEW n \in Node, LockHeld(c[n], x[n]), Idle(c[n]), c[n].status = "none",
           LockHeld(c[Peer(n)], x[Peer(n)]), Idle(c[Peer(n)]),
           NEW m \in M[n], m.type = "contact.propose", NEW r,
           NEW d, d[Peer(n)] = c[Peer(n)], d[n].status = "active", d[n].pend = None,
           d[n].ops = <<SeedOp(m.id, m.seed, r)>>, d[n].mine = r, d[n].theirs = m.seed,
           NEW L, L[n] \subseteq M[n],
           L[Peer(n)] \subseteq M[Peer(n)] \cup
              {[type |-> "contact.accept", id |-> m.id, seed |-> r]}
    PROVE  PairInv(d, x, L, u)
<1> DEFINE p == Peer(n)
           e == [type |-> "contact.accept", id |-> m.id, seed |-> r]
<1>1. p \in Node /\ p # n /\ Peer(p) = n
  BY TwoNodes
<1>2. /\ Local(n, c[n], x[n], u) /\ Local(p, c[p], x[p], u)
      /\ Agree(n, c, x) /\ Agree(p, c, x) /\ TrueOf(n, m, c, x, u)
  BY <1>1 DEF PairInv, Honest
<1>3. /\ m.id = p /\ c[p].status = "pending" /\ c[p].seed = m.seed
      /\ c[n].ops = <<>> /\ c[p].ops = <<>>
  BY <1>2 DEF TrueOf, Local
<1>4. AheadBySeed(n, d)
  BY <1>1, <1>3 DEF AheadBySeed
<1>5. /\ c[n].pend = None /\ c[p].pend = None
      /\ \A w \in TransferId : x[n][w].st \notin InFlight /\ x[p][w].st \notin InFlight
  BY <1>1, <1>3, PairFields, Locked
<1>6. \A t \in TransferId : ~Owed(n, t, x) /\ ~Owed(p, t, x)
  BY <1>3, Seedless
<1>7. Local(n, d[n], x[n], u)
  BY <1>2, LocalSeed
<1>8. Agree(n, d, x) /\ Agree(p, d, x)
  BY <1>1, <1>2, <1>6 DEF Agree
<1>9. Together(d, x)
  BY <1>4, PairView DEF Ahead
<1>10. ASSUME NEW k \in M[n] PROVE TrueOf(n, k, d, x, u)
  <2>1. TrueOf(n, k, c, x, u) /\ k \in Message
    BY DEF PairInv, PairTypes, Honest
  <2>2. k.type \notin {"transfer.propose", "reserve.adjust", "contact.accept"}
    BY <1>1, <1>3, <2>1 DEF TrueOf, TrueOfProposal, TrueOfAdjust
  <2>3. k.type = "reserve.accept" => k.id # None
    BY <2>1, MessageId, Constants DEF OpId
  <2>4. k.type = "transfer.accept" => x[n][k.id].st # "PROPOSED"
    BY <1>5, <2>1, MessageId DEF InFlight
  <2> QED BY <1>1, <2>1, <2>2, <2>3, <2>4 DEF TrueOf
<1>11. ASSUME NEW k \in M[p] PROVE TrueOf(p, k, d, x, u)
  <2>1. TrueOf(p, k, c, x, u) /\ k \in Message
    BY <1>1 DEF PairInv, PairTypes, Honest
  <2>2. k.type \notin {"transfer.propose", "reserve.adjust", "contact.accept"}
    BY <1>1, <1>3, <2>1 DEF TrueOf, TrueOfProposal, TrueOfAdjust
  <2>3. k.type = "reserve.accept" => k.id # None
    BY <2>1, MessageId, Constants DEF OpId
  <2>4. k.type = "transfer.accept" => x[p][k.id].st # "PROPOSED"
    BY <1>5, <2>1, MessageId DEF InFlight
  <2> QED BY <1>1, <1>3, <1>5, <2>1, <2>2, <2>3, <2>4 DEF TrueOf
<1>12. TrueOf(p, e, d, x, u)
  <2>1. e.type = "contact.accept" /\ e.id = p /\ e.seed = r /\ d[n].ops # <<>>
    BY <1>3
  <2> HIDE DEF e
  <2> QED BY <1>1, <2>1 DEF TrueOf
<1>13. Honest(d, x, L, u)
  <2> HIDE DEF e
  <2> QED BY <1>1, <1>10, <1>11, <1>12, TwoNodes DEF Honest, e
<1>14. ~Live(n, x, L)
  BY <1>5, MessageId DEF Live, PairTypes, InFlight
<1> QED BY <1>1, <1>7, <1>8, <1>9, <1>13, <1>14, StepOfOne

(* The node that proposed the contact follows.                             *)
LEMMA SeedFollowPair ==
    ASSUME NEW c, NEW x, NEW M, NEW u, PairTypes(c, x, M), PairInv(c, x, M, u),
           NEW n \in Node, LockHeld(c[n], x[n]), Idle(c[n]),
           c[n].status # "active", c[n].id = n,
           NEW m \in M[n], m.type = "contact.accept",
           NEW d, d[Peer(n)] = c[Peer(n)], d[n].status = "active", d[n].pend = None,
           d[n].ops = <<SeedOp(n, c[n].seed, m.seed)>>,
           d[n].mine = c[n].seed, d[n].theirs = m.seed,
           NEW L, L[n] \subseteq M[n], L[Peer(n)] \subseteq M[Peer(n)]
    PROVE  PairInv(d, x, L, u)
<1> DEFINE p == Peer(n)
<1>1. p \in Node /\ p # n /\ Peer(p) = n
  BY TwoNodes
<1>2. /\ Local(n, c[n], x[n], u) /\ Local(p, c[p], x[p], u)
      /\ Agree(n, c, x) /\ Agree(p, c, x) /\ TrueOf(n, m, c, x, u)
  BY <1>1 DEF PairInv, Honest
<1>3. c[n].status = "pending" /\ c[n].ops = <<>>
  <2>1. c[n].status \in {"none", "pending", "active"} /\ n # None
    BY PairFields, Constants DEF ContactRecord
  <2> QED BY <1>2, <2>1 DEF Local
<1>4. c[p].ops # <<>> /\ c[p].mine = m.seed
  BY <1>2, <1>3 DEF TrueOf
<1>5. /\ AheadBySeed(p, c) /\ ~AheadByAdjust(n, c) /\ ~AheadByAdjust(p, c)
      /\ \A t \in TransferId : ~Owed(n, t, x) /\ ~Owed(p, t, x)
  BY <1>3, <1>4, Seedless DEF Ahead
<1>6. /\ c[p].ops = <<SeedOp(n, c[n].seed, m.seed)>> /\ c[p].theirs = c[n].seed
      /\ Mirror(d)
  <2>1. c[p].ops = <<SeedOp(n, c[n].seed, m.seed)>> /\ c[p].theirs = c[n].seed
    BY <1>1, <1>4, <1>5 DEF AheadBySeed
  <2> QED BY <1>1, <1>4, <2>1, MirrorView
<1>7. OpSeq(c[n]) = 0 /\ OpSeq(d[n]) = 0 /\ OpSeq(c[p]) = 0
  BY <1>3, <1>6 DEF OpSeq
<1>8. Local(n, d[n], x[n], u)
  BY <1>2, LocalSeed
<1>9. Agree(n, d, x) /\ Agree(p, d, x)
  BY <1>1, <1>2, <1>5 DEF Agree
<1>10. Together(d, x)
  BY <1>6 DEF Together
<1>11. ASSUME NEW k \in M[n] PROVE TrueOf(n, k, d, x, u)
  <2>1. TrueOf(n, k, c, x, u) /\ k \in Message
    BY DEF PairInv, PairTypes, Honest
  <2>2. k.type = "transfer.propose" => TrueOfProposal(n, k, d, x)
    <3> SUFFICES ASSUME k.type = "transfer.propose" PROVE TrueOfProposal(n, k, d, x)
      OBVIOUS
    <3>1. k.seq \in Nat /\ TrueOfProposal(n, k, c, x)
      BY <2>1 DEF TrueOf, Message
    <3> QED BY <1>1, <1>4, <1>6, <1>7, <3>1 DEF TrueOfProposal
  <2>3. k.type = "reserve.adjust" => TrueOfAdjust(n, k, d, u)
    BY <1>1, <1>7, <2>1 DEF TrueOf, TrueOfAdjust
  <2>4. k.type = "reserve.accept" => k.id # None
    BY <2>1, MessageId, Constants DEF OpId
  <2> QED BY <1>1, <1>6, <2>1, <2>2, <2>3, <2>4 DEF TrueOf
<1>12. ASSUME NEW k \in M[p] PROVE TrueOf(p, k, d, x, u)
  <2>1. TrueOf(p, k, c, x, u) /\ k \in Message
    BY <1>1 DEF PairInv, PairTypes, Honest
  <2>2. k.type \notin {"transfer.propose", "reserve.adjust", "contact.accept"}
    BY <1>1, <1>3, <2>1 DEF TrueOf, TrueOfProposal, TrueOfAdjust
  <2>3. c[p].status = "active"
    BY <1>2, <1>4 DEF Local
  <2> QED BY <1>1, <1>5, <1>6, <2>1, <2>2, <2>3 DEF TrueOf
<1>13. Honest(d, x, L, u)
  BY <1>1, <1>11, <1>12, TwoNodes DEF Honest
<1>14. ~Live(n, x, L)
  <2>1. \A w \in TransferId : x[n][w].st \notin InFlight
    BY PairFields, Locked
  <2> QED BY <2>1, MessageId DEF Live, PairTypes, InFlight
<1> QED BY <1>1, <1>8, <1>9, <1>10, <1>13, <1>14, StepOfOne
=============================================================================
