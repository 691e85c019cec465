------------------------ MODULE ContactHistoryProofs ------------------------
(***************************************************************************)
(* Every step of Contact keeps the invariant of the two nodes, for any     *)
(* values of the constants; with it, the properties that relate one node   *)
(* to the other, the refinement of SharedHistory, and what the pool gains  *)
(* and loses by trading.                                                   *)
(***************************************************************************)
EXTENDS ContactPairProofs

Letters == [n \in Node |-> Mail(net[n])]

(* An adjustment that a node remembers as applied is in its history.       *)
AppliedInOps(c) ==
    \A a \in c.applied : \E i \in 1..Len(c.ops) : c.ops[i][1] = "adjust" /\ c.ops[i][2] = a

HInv == IInv /\ PInv /\ \A n \in Node : AppliedInOps(contact[n])

(* A step of n appends at most one operation, and only to n's history.     *)
Extends(c, d) ==
    \/ d.ops = c.ops /\ d.applied = c.applied
    \/ \E e \in Op : /\ d.ops = Append(c.ops, e)
                     /\ \A a \in d.applied : a \in c.applied \/ (e[1] = "adjust" /\ e[2] = a)

Moves(n) == contact'[Peer(n)] = contact[Peer(n)] /\ Extends(contact[n], contact'[n])

-----------------------------------------------------------------------------
(* Envelopes as sets.                                                      *)
LEMMA View ==
    ASSUME HInv, NEW n \in Node
    PROVE  LET p == Peer(n)
           IN  /\ PairTypes(contact, xfer, Letters) /\ PairInv(contact, xfer, Letters, used)
               /\ contact[n] \in ContactRecord /\ xfer[n] \in [TransferId -> TransferRecord]
               /\ LockHeld(contact[n], xfer[n]) /\ Idle(contact[n])
               /\ LockHeld(contact[p], xfer[p]) /\ Idle(contact[p])
               /\ Local(n, contact[n], xfer[n], used)
<1>1. ASSUME NEW k \in Node PROVE Letters[k] \subseteq Message
  BY DEF Letters, Mail, HInv, IInv, TypeOK
<1>2. PairTypes(contact, xfer, Letters)
  BY <1>1 DEF PairTypes, HInv, IInv, TypeOK
<1>3. PairInv(contact, xfer, Letters, used)
  BY DEF HInv, PInv, Letters
<1>4. NodeInv(contact[n], xfer[n], bal[n]) /\ NodeInv(contact[Peer(n)], xfer[Peer(n)], bal[Peer(n)])
  BY PeerType DEF HInv, IInv
<1>5. contact[n] \in ContactRecord /\ xfer[n] \in [TransferId -> TransferRecord]
  BY DEF HInv, IInv, TypeOK
<1>6. Local(n, contact[n], xfer[n], used)
  BY <1>3 DEF PairInv
<1> QED BY <1>2, <1>3, <1>4, <1>5, <1>6 DEF NodeInv

LEMMA SendMail ==
    ASSUME TypeOK, NEW n \in Node, NEW m, Send(n, m)
    PROVE  Letters'[n] \subseteq Letters[n] /\ Letters'[Peer(n)] \subseteq Letters[Peer(n)] \cup {m}
<1> DEFINE p == Peer(n)
<1>1. p \in Node /\ p # n
  BY TwoNodes
<1>2. net'[n] = net[n] /\ net'[p] = Append(net[p], m) /\ net[p] \in Seq(Message)
  BY <1>1 DEF Send, TypeOK
<1>3. Mail(Append(net[p], m)) \subseteq Mail(net[p]) \cup {m}
  <2>1. /\ Len(Append(net[p], m)) = Len(net[p]) + 1 /\ Len(net[p]) \in Nat
        /\ \A i \in 1..Len(net[p]) : Append(net[p], m)[i] = net[p][i]
        /\ Append(net[p], m)[Len(net[p]) + 1] = m
    BY <1>2
  <2> QED BY <2>1 DEF Mail
<1> QED BY <1>1, <1>2, <1>3 DEF Letters

LEMMA ReplyMail ==
    ASSUME TypeOK, NEW n \in Node, net[n] # <<>>, NEW replies \in Seq(Message),
           Reply(n, replies)
    PROVE  /\ Letters'[n] \subseteq Letters[n]
           /\ Letters'[Peer(n)] \subseteq Letters[Peer(n)] \cup Mail(replies)
<1> DEFINE p == Peer(n)
<1>1. p \in Node /\ p # n
  BY TwoNodes
<1>2. /\ net'[n] = Tail(net[n]) /\ net'[p] = net[p] \o replies
      /\ net[p] \in Seq(Message) /\ net[n] \in Seq(Message)
  BY <1>1 DEF Reply, TypeOK
<1>3. Mail(net[p] \o replies) \subseteq Mail(net[p]) \cup Mail(replies)
  <2> DEFINE s == net[p]
             q == s \o replies
  <2> SUFFICES ASSUME NEW i \in 1..Len(q) PROVE q[i] \in Mail(s) \cup Mail(replies)
    BY DEF Mail
  <2>1. s \in Seq(Message) /\ Len(q) = Len(s) + Len(replies) /\ Len(s) \in Nat /\ Len(replies) \in Nat
    BY <1>2
  <2>2. CASE i <= Len(s)
    <3>1. i \in 1..Len(s) /\ q[i] = s[i]
      BY <2>1, <2>2
    <3> QED BY <3>1 DEF Mail
  <2>3. CASE i > Len(s)
    <3>1. i - Len(s) \in 1..Len(replies) /\ q[i] = replies[i - Len(s)]
      BY <2>1, <2>3
    <3> QED BY <3>1 DEF Mail
  <2> QED BY <2>1, <2>2, <2>3
<1>4. Mail(Tail(net[n])) \subseteq Mail(net[n])
  <2> DEFINE q == net[n]
  <2> SUFFICES ASSUME NEW i \in 1..Len(Tail(q)) PROVE Tail(q)[i] \in Mail(q)
    BY DEF Mail
  <2>1. i + 1 \in 1..Len(q) /\ Tail(q)[i] = q[i + 1]
    BY <1>2
  <2> QED BY <2>1 DEF Mail
<1> QED BY <1>1, <1>2, <1>3, <1>4 DEF Letters

(* No reply, or one.                                                       *)
LEMMA OneReply ==
    /\ Mail(<<>>) = {} /\ <<>> \in Seq(Message)
    /\ \A m \in Message : Mail(<<m>>) = {m} /\ <<m>> \in Seq(Message)
<1>1. Mail(<<>>) = {}
  BY DEF Mail
<1>2. ASSUME NEW m \in Message PROVE Mail(<<m>>) = {m}
  BY DEF Mail
<1> QED BY <1>1, <1>2

LEMMA HeadMail ==
    ASSUME TypeOK, NEW n \in Node, NEW type, Incoming(n, type)
    PROVE  Head(net[n]) \in Letters[n] /\ Head(net[n]).type = type /\ net[n] # <<>>
<1>1. net[n] # <<>> /\ net[n] \in Seq(Message) /\ Head(net[n]).type = type
  BY DEF Incoming, TypeOK
<1>2. Head(net[n]) = net[n][1] /\ 1 \in 1..Len(net[n])
  BY <1>1
<1> QED BY <1>1, <1>2 DEF Letters, Mail

-----------------------------------------------------------------------------
(***************************************************************************)
(* Steps of n that leave its history and reserves alone.                   *)
(***************************************************************************)
Still(c, d) == SameCore(c, d) /\ d.applied = c.applied

Fades(n, y) == \A t \in TransferId : Fade(xfer[n][t], y[t], xfer[Peer(n)][t])

Quiet(n) ==
    LET p == Peer(n)
    IN  /\ contact'[p] = contact[p] /\ Still(contact[n], contact'[n])
        /\ xfer'[p] = xfer[p] /\ Fades(n, xfer'[n])
        /\ used' = used
        /\ Letters'[n] \subseteq Letters[n]
        /\ \A m \in Letters'[p] :
              m \in Letters[p]
              \/ (m.type # "transfer.accept" /\ TrueOf(p, m, contact', xfer', used'))

(* The envelopes S under way to k are new and say the truth.               *)
Truthful(k, S, c, x, u) ==
    \A m \in S : m.type # "transfer.accept" /\ TrueOf(k, m, c, x, u)

LEMMA StillUpdates ==
    ASSUME NEW c \in ContactRecord, NEW t, NEW D, NEW op, NEW b
    PROVE  /\ Still(c, c) /\ Still(c, Release(c, t)) /\ Still(c, ExpireLock(c, D))
           /\ Still(c, Lock(c, op))
           /\ Still(c, [c EXCEPT !.closed = b]) /\ Still(c, [c EXCEPT !.diverged = b])
<1>1. Still(c, c)
  BY DEF Still, SameCore
<1>2. Still(c, [c EXCEPT !.busy = None]) /\ Still(c, [c EXCEPT !.busy = op])
  BY Zenon DEF Still, SameCore, ContactRecord
<1>3. Still(c, [c EXCEPT !.closed = b]) /\ Still(c, [c EXCEPT !.diverged = b])
  BY Zenon DEF Still, SameCore, ContactRecord
<1>4. Still(c, Release(c, t)) /\ Still(c, ExpireLock(c, D)) /\ Still(c, Lock(c, op))
  BY <1>1, <1>2, Zenon DEF Release, ExpireLock, Lock
<1> QED BY <1>1, <1>3, <1>4

(* What changes nothing fades, and so does what expires.                   *)
LEMMA FadeUpdates ==
    ASSUME HInv, NEW n \in Node
    PROVE  /\ Fades(n, xfer[n])
           /\ \A D : D \subseteq Due(n) => Fades(n, ExpireTransfers(xfer[n], D))
<1>1. Fades(n, xfer[n])
  BY DEF Fades, Fade
<1>2. ASSUME NEW D, D \subseteq Due(n) PROVE Fades(n, ExpireTransfers(xfer[n], D))
  <2> SUFFICES ASSUME NEW t \in TransferId
               PROVE  Fade(xfer[n][t], ExpireTransfers(xfer[n], D)[t], xfer[Peer(n)][t])
    BY DEF Fades
  <2>1. xfer[n][t] \in TransferRecord
    BY View
  <2>2. CASE t \in D
    <3>1. xfer[n][t].st \in {"PROPOSED", "ACCEPTED"}
      BY <1>2, <2>2, TransitionTable DEF Due
    <3>2. ExpireTransfers(xfer[n], D)[t] = [xfer[n][t] EXCEPT !.st = "EXPIRED"]
      BY <2>2 DEF ExpireTransfers
    <3> QED BY <2>1, <3>1, <3>2 DEF Fade, TransferRecord
  <2>3. CASE t \notin D
    <3>1. ExpireTransfers(xfer[n], D)[t] = xfer[n][t]
      BY <2>3 DEF ExpireTransfers
    <3> QED BY <3>1 DEF Fade
  <2> QED BY <2>2, <2>3
<1> QED BY <1>1, <1>2

LEMMA QuietMove ==
    ASSUME HInv, TypeOK', NEW n \in Node, Quiet(n)
    PROVE  PInv' /\ Moves(n)
<1> DEFINE p == Peer(n)
           d == contact'
           y == xfer'
           L == Letters'
<1>1. p \in Node /\ p # n /\ Peer(p) = n /\ (\A k \in Node : k = n \/ k = p)
  BY TwoNodes
<1>2. PairInv(contact, xfer, Letters, used)
  BY View
<1>3. \A k \in Node : SameCore(contact[k], d[k])
  BY <1>1 DEF Quiet, Still, SameCore
<1>4. ASSUME NEW k \in Node, NEW t \in TransferId
      PROVE  Fade(xfer[k][t], y[k][t], xfer[Peer(k)][t])
  BY <1>1 DEF Quiet, Fades, Fade
<1>5. ASSUME NEW k \in Node PROVE L[k] \subseteq Message
  BY DEF Letters, Mail, TypeOK
<1>6. ASSUME NEW k \in Node, NEW m \in L[k]
      PROVE  m \in Letters[k] \/ (m.type # "transfer.accept" /\ TrueOf(k, m, d, y, used'))
  BY <1>1 DEF Quiet
<1>7. used \subseteq used'
  BY DEF Quiet
<1>8. PairInv(d, y, L, used')
  <2> HIDE DEF d, y, L
  <2> QED BY <1>2, <1>3, <1>4, <1>5, <1>6, <1>7, QuietStep
<1>9. PInv'
  BY <1>8 DEF PInv, Letters
<1>10. Moves(n)
  BY DEF Quiet, Moves, Still, SameCore, Extends
<1> QED BY <1>9, <1>10

(* The node after expireIfDueLocked.                                       *)
LEMMA ExpirePair ==
    ASSUME HInv, NEW n \in Node, NEW D, D \subseteq Due(n),
           NEW c, c = [contact EXCEPT ![n] = ExpireLock(contact[n], D)],
           NEW x, x = [xfer EXCEPT ![n] = ExpireTransfers(xfer[n], D)]
    PROVE  LET p == Peer(n)
           IN  /\ PairTypes(c, x, Letters) /\ PairInv(c, x, Letters, used)
               /\ LockHeld(c[n], x[n]) /\ Idle(c[n]) /\ LockHeld(c[p], x[p]) /\ Idle(c[p])
               /\ c[n] = ExpireLock(contact[n], D) /\ x[n] = ExpireTransfers(xfer[n], D)
               /\ c[p] = contact[p] /\ x[p] = xfer[p]
               /\ Still(contact[n], c[n]) /\ c[n] \in ContactRecord
               /\ x[n] \in [TransferId -> TransferRecord]
<1> DEFINE p == Peer(n)
<1>1. p \in Node /\ p # n /\ Peer(p) = n /\ (\A k \in Node : k = n \/ k = p)
  BY TwoNodes
<1>2. IInv /\ TypeOK
  BY DEF HInv, IInv
<1>3. /\ c[n] = ExpireLock(contact[n], D) /\ x[n] = ExpireTransfers(xfer[n], D)
      /\ c[p] = contact[p] /\ x[p] = xfer[p]
  BY <1>1, <1>2 DEF TypeOK
<1>4. /\ c[n] \in ContactRecord /\ x[n] \in [TransferId -> TransferRecord]
      /\ LockHeld(c[n], x[n]) /\ Idle(c[n])
  BY <1>2, <1>3, AfterExpiry DEF NodeInv
<1>5. Still(contact[n], c[n])
  <2>1. contact[n] \in ContactRecord
    BY View
  <2>2. Still(contact[n], ExpireLock(contact[n], D))
    BY <2>1, StillUpdates
  <2> QED BY <1>3, <2>2
<1>6. PairTypes(c, x, Letters)
  <2>1. c \in [Node -> ContactRecord]
    BY <1>2, <1>3, <1>4 DEF TypeOK
  <2>2. x \in [Node -> [TransferId -> TransferRecord]]
    BY <1>2, <1>3, <1>4 DEF TypeOK
  <2>3. PairTypes(contact, xfer, Letters)
    BY View
  <2> QED BY <2>1, <2>2, <2>3 DEF PairTypes
<1>7. PairInv(c, x, Letters, used)
  <2>1. PairInv(contact, xfer, Letters, used) /\ (\A k \in Node : Letters[k] \subseteq Message)
    BY View DEF PairTypes
  <2>2. \A k \in Node : SameCore(contact[k], c[k])
    BY <1>1, <1>3, <1>5 DEF Still, SameCore
  <2>3. Fades(n, x[n])
    BY <1>3, FadeUpdates
  <2>4. ASSUME NEW k \in Node, NEW t \in TransferId
        PROVE  Fade(xfer[k][t], x[k][t], xfer[Peer(k)][t])
    BY <1>1, <1>3, <2>3 DEF Fades, Fade
  <2> QED BY <2>1, <2>2, <2>4, QuietStep
<1> QED BY <1>3, <1>4, <1>5, <1>6, <1>7, View

-----------------------------------------------------------------------------
(***************************************************************************)
(* The operator's calls.                                                   *)
(***************************************************************************)

(* A step that changes neither the contact, the transfers nor the queues.  *)
LEMMA QuietLedger ==
    ASSUME HInv, TypeOK', NEW n \in Node, UNCHANGED <<contact, xfer, net, used>>
    PROVE  PInv' /\ Moves(n)
<1>1. contact[n] \in ContactRecord
  BY View
<1>2. Still(contact[n], contact[n])
  BY <1>1, StillUpdates
<1>3. Fades(n, xfer[n])
  BY FadeUpdates
<1>4. Letters' = Letters
  BY DEF Letters
<1> QED BY <1>2, <1>3, <1>4, QuietMove DEF Quiet

(* n hands an envelope to the outbox that says nothing but the truth.      *)
LEMMA QuietSend ==
    ASSUME HInv, TypeOK', NEW n \in Node, NEW m, Send(n, m),
           NEW c, contact' = [contact EXCEPT ![n] = c], Still(contact[n], c),
           NEW x, xfer' = [xfer EXCEPT ![n] = x], Fades(n, x), used' = used,
           m.type # "transfer.accept", TrueOf(Peer(n), m, contact', xfer', used')
    PROVE  PInv' /\ Moves(n)
<1>1. Peer(n) \in Node /\ Peer(n) # n
  BY TwoNodes
<1>2. TypeOK
  BY DEF HInv, IInv
<1>3. Letters'[n] \subseteq Letters[n] /\ Letters'[Peer(n)] \subseteq Letters[Peer(n)] \cup {m}
  BY <1>2, SendMail
<1>4. /\ contact'[n] = c /\ contact'[Peer(n)] = contact[Peer(n)]
      /\ xfer'[n] = x /\ xfer'[Peer(n)] = xfer[Peer(n)]
  BY <1>1, <1>2 DEF TypeOK
<1>5. Quiet(n)
  BY <1>3, <1>4 DEF Quiet
<1> QED BY <1>5, QuietMove

(* n answers the envelope at the head of its queue, or does not.           *)
LEMMA QuietReply ==
    ASSUME HInv, TypeOK', NEW n \in Node, net[n] # <<>>,
           NEW replies \in Seq(Message), Reply(n, replies),
           NEW c, contact' = [contact EXCEPT ![n] = c], Still(contact[n], c),
           NEW x, xfer' = [xfer EXCEPT ![n] = x], Fades(n, x), used' = used,
           Truthful(Peer(n), Mail(replies), contact', xfer', used')
    PROVE  PInv' /\ Moves(n)
<1>1. Peer(n) \in Node /\ Peer(n) # n
  BY TwoNodes
<1>2. TypeOK
  BY DEF HInv, IInv
<1>3. /\ Letters'[n] \subseteq Letters[n]
      /\ Letters'[Peer(n)] \subseteq Letters[Peer(n)] \cup Mail(replies)
  BY <1>2, ReplyMail
<1>4. /\ contact'[n] = c /\ contact'[Peer(n)] = contact[Peer(n)]
      /\ xfer'[n] = x /\ xfer'[Peer(n)] = xfer[Peer(n)]
  BY <1>1, <1>2 DEF TypeOK
<1>5. Quiet(n)
  BY <1>3, <1>4 DEF Quiet, Truthful
<1> QED BY <1>5, QuietMove

(* Replies that say nothing.                                               *)
LEMMA SaysNothing ==
    ASSUME NEW k, NEW c, NEW x, NEW u
    PROVE  /\ Truthful(k, Mail(<<>>), c, x, u)
           /\ Truthful(k, Mail(<<Error>>), c, x, u)
           /\ \A t \in TransferId :
                 Truthful(k, Mail(<<TransferMsg("transfer.reject", t)>>), c, x, u)
<1>1. Mail(<<>>) = {} /\ Mail(<<Error>>) = {Error}
  BY OneReply, MessageTypes
<1>2. Truthful(k, {Error}, c, x, u)
  BY DEF Truthful, TrueOf, Error
<1>3. ASSUME NEW t \in TransferId
      PROVE  Truthful(k, Mail(<<TransferMsg("transfer.reject", t)>>), c, x, u)
  <2> DEFINE m == TransferMsg("transfer.reject", t)
  <2>1. Mail(<<m>>) = {m}
    BY OneReply, MessageTypes
  <2>2. m.type = "transfer.reject"
    BY DEF TransferMsg
  <2> HIDE DEF m
  <2>3. Truthful(k, {m}, c, x, u)
    BY <2>2 DEF Truthful, TrueOf
  <2> QED BY <2>1, <2>3 DEF m
<1> QED BY <1>1, <1>2, <1>3 DEF Truthful

LEMMA MoveOpenContact ==
    ASSUME HInv, TypeOK', NEW n \in Node, NEW seed \in Seeds, OpenContact(n, seed)
    PROVE  PInv' /\ Moves(n)
<1> DEFINE p == Peer(n)
           e == [NoContact EXCEPT !.status = "pending", !.id = n, !.seed = seed]
           m == [type |-> "contact.propose", id |-> n, seed |-> seed]
<1>1. p \in Node /\ p # n /\ TypeOK
  BY TwoNodes DEF HInv, IInv
<1>2. /\ contact[n].status = "none" /\ contact' = [contact EXCEPT ![n] = e]
      /\ Send(n, m) /\ xfer' = xfer /\ used' = used
  BY DEF OpenContact
<1>3. contact'[n] = e /\ contact'[p] = contact[p]
  BY <1>1, <1>2 DEF TypeOK
<1>4. /\ e.status = "pending" /\ e.id = n /\ e.seed = seed /\ e.ops = <<>>
      /\ e.mine = 0 /\ e.theirs = 0 /\ e.pend = None /\ e.applied = {}
  BY DEF NoContact
<1>5. Letters'[n] \subseteq Letters[n] /\ Letters'[p] \subseteq Letters[p] \cup {m}
  BY <1>1, <1>2, SendMail
<1>6. PairInv(contact', xfer, Letters', used)
  <2> DEFINE d == contact'
             L == Letters'
  <2>1. /\ d[n].status = "pending" /\ d[n].id = n /\ d[n].seed = seed /\ d[n].ops = <<>>
        /\ d[n].mine = 0 /\ d[n].theirs = 0 /\ d[n].pend = None
    BY <1>3, <1>4
  <2>2. d[Peer(n)] = contact[Peer(n)]
    BY <1>3
  <2>3. /\ L[n] \subseteq Letters[n]
        /\ L[Peer(n)] \subseteq Letters[Peer(n)] \cup
              {[type |-> "contact.propose", id |-> n, seed |-> seed]}
    BY <1>5
  <2>4. /\ PairTypes(contact, xfer, Letters) /\ PairInv(contact, xfer, Letters, used)
        /\ LockHeld(contact[n], xfer[n]) /\ Idle(contact[n])
    BY View
  <2>5. PairInv(d, xfer, L, used)
    <3> HIDE DEF d, L
    <3> QED BY <1>2, <2>1, <2>2, <2>3, <2>4, OpenPair
  <2> QED BY <2>5
<1>7. PInv'
  BY <1>2, <1>6 DEF PInv, Letters
<1>8. contact[n].ops = <<>> /\ contact[n].applied = {}
  <2>1. contact[n].ops = <<>>
    BY <1>2, View DEF Local
  <2> QED BY <2>1 DEF HInv, AppliedInOps
<1> QED BY <1>3, <1>4, <1>7, <1>8 DEF Moves, Extends

LEMMA MoveStartTransfer ==
    ASSUME HInv, TypeOK', NEW n \in Node, NEW t \in TransferId, NEW src \in SrcAmounts,
           StartTransfer(n, t, src)
    PROVE  PInv' /\ Moves(n)
<1> DEFINE p == Peer(n)
           D == BusyDue(n)
           c1 == [contact EXCEPT ![n] = ExpireLock(contact[n], D)]
           x1 == [xfer EXCEPT ![n] = ExpireTransfers(xfer[n], D)]
           e == ExpireLock(contact[n], D)
           dst == PoolPrice(e.mine, e.theirs, src)
           r == [st |-> "PROPOSED", out |-> TRUE, src |-> src, dst |-> dst]
           m == [type |-> "transfer.propose", id |-> t, seq |-> OpSeq(e),
                 src |-> src, dst |-> dst]
           d == contact'
           y == xfer'
           L == Letters'
<1>1. p \in Node /\ p # n /\ TypeOK
  BY TwoNodes DEF HInv, IInv
<1>2. /\ t \notin used /\ Open(contact[n]) /\ Send(n, m) /\ used' = used \cup {t}
      /\ xfer' = [xfer EXCEPT ![n] = [ExpireTransfers(xfer[n], D) EXCEPT ![t] = r]]
      /\ contact' = [contact EXCEPT ![n] = Lock(e, t)]
  BY DEF StartTransfer
<1>3. D \subseteq Due(n)
  BY DEF BusyDue
<1>4. /\ PairTypes(c1, x1, Letters) /\ PairInv(c1, x1, Letters, used)
      /\ c1[n] = e /\ x1[n] = ExpireTransfers(xfer[n], D)
      /\ c1[p] = contact[p] /\ x1[p] = xfer[p]
      /\ Still(contact[n], c1[n]) /\ c1[n] \in ContactRecord
      /\ x1[n] \in [TransferId -> TransferRecord]
  <2> HIDE DEF D
  <2> QED BY <1>3, ExpirePair
<1>5. /\ d[n] = Lock(e, t) /\ d[p] = c1[p] /\ y[p] = x1[p]
      /\ y[n] = [x1[n] EXCEPT ![t] = r]
  <2> HIDE DEF D, e, r, c1, x1
  <2> QED BY <1>1, <1>2, <1>4 DEF TypeOK
<1>6. Still(c1[n], d[n])
  <2>1. Still(c1[n], Lock(c1[n], t))
    <3> HIDE DEF c1
    <3> QED BY <1>4, StillUpdates
  <2> QED BY <1>4, <1>5, <2>1
<1>7. Adds(x1[n], y[n], t, r)
  <2> HIDE DEF x1, y, r
  <2> QED BY <1>4, <1>5 DEF Adds
<1>8. L[n] \subseteq Letters[n] /\ L[p] \subseteq Letters[p] \cup {m}
  <2> HIDE DEF m
  <2> QED BY <1>1, <1>2, SendMail
<1>9. r.st = "PROPOSED" /\ r.out /\ r.src = src /\ r.dst = dst
  OBVIOUS
<1>10. c1[n].status = "active" /\ dst = PoolPrice(c1[n].mine, c1[n].theirs, src)
  BY <1>2, <1>4 DEF Still, SameCore, Open
<1>11. L[p] \subseteq Letters[p] \cup
          {[type |-> "transfer.propose", id |-> t, seq |-> OpSeq(c1[n]),
            src |-> src, dst |-> dst]}
  BY <1>4, <1>8
<1>12. PairInv(d, y, L, used \cup {t})
  <2> HIDE DEF D, e, m, c1, x1, d, y, L, dst, r
  <2>1. SameCore(c1[n], d[n]) /\ d[Peer(n)] = c1[Peer(n)] /\ y[Peer(n)] = x1[Peer(n)]
    BY <1>5, <1>6 DEF Still
  <2>2. t \notin used /\ PairTypes(c1, x1, Letters) /\ PairInv(c1, x1, Letters, used)
    BY <1>2, <1>4
  <2>3. L[n] \subseteq Letters[n]
    BY <1>8
  <2> QED BY <1>7, <1>9, <1>10, <1>11, <2>1, <2>2, <2>3, ProposePair
<1>13. PInv'
  BY <1>2, <1>12 DEF PInv, Letters
<1>14. Still(contact[n], d[n])
  BY <1>4, <1>6 DEF Still, SameCore
<1> QED BY <1>4, <1>5, <1>13, <1>14 DEF Moves, Extends, Still, SameCore

LEMMA MoveAdjustReserve ==
    ASSUME HInv, TypeOK', NEW n \in Node, NEW a \in AdjustId, NEW delta \in Deltas,
           AdjustReserve(n, a, delta)
    PROVE  PInv' /\ Moves(n)
<1> DEFINE p == Peer(n)
           D == BusyDue(n)
           c1 == [contact EXCEPT ![n] = ExpireLock(contact[n], D)]
           x1 == [xfer EXCEPT ![n] = ExpireTransfers(xfer[n], D)]
           e == ExpireLock(contact[n], D)
           m == [type |-> "reserve.adjust", id |-> a, seq |-> OpSeq(e), delta |-> delta]
           d == contact'
           y == xfer'
           L == Letters'
<1>1. p \in Node /\ p # n /\ TypeOK
  BY TwoNodes DEF HInv, IInv
<1>2. /\ a \notin used /\ Open(contact[n]) /\ Free(e) /\ Send(n, m)
      /\ used' = used \cup {a} /\ xfer' = x1
      /\ contact' = [contact EXCEPT ![n] = [Lock(e, a) EXCEPT !.pend = a, !.delta = delta]]
  BY DEF AdjustReserve
<1>3. D \subseteq Due(n)
  BY DEF BusyDue
<1>4. /\ PairTypes(c1, x1, Letters) /\ PairInv(c1, x1, Letters, used)
      /\ LockHeld(c1[n], x1[n]) /\ Idle(c1[n])
      /\ c1[n] = e /\ c1[p] = contact[p] /\ x1[p] = xfer[p]
      /\ Still(contact[n], c1[n]) /\ c1[n] \in ContactRecord
  <2> HIDE DEF D
  <2> QED BY <1>3, ExpirePair
<1>5. d[n] = [Lock(e, a) EXCEPT !.pend = a, !.delta = delta] /\ d[p] = c1[p] /\ y = x1
  <2> HIDE DEF D, e, c1, x1
  <2> QED BY <1>1, <1>2, <1>4 DEF TypeOK
<1>6. /\ d[n].status = c1[n].status /\ d[n].id = c1[n].id /\ d[n].seed = c1[n].seed
      /\ d[n].ops = c1[n].ops /\ d[n].mine = c1[n].mine /\ d[n].theirs = c1[n].theirs
      /\ d[n].pend = a /\ d[n].delta = delta /\ d[n].applied = c1[n].applied
  <2> HIDE DEF c1, e, d
  <2> QED BY <1>4, <1>5, Zenon DEF Lock, ContactRecord
<1>7. L[n] \subseteq Letters[n] /\ L[p] \subseteq Letters[p] \cup {m}
  <2> HIDE DEF m
  <2> QED BY <1>1, <1>2, SendMail
<1>8. c1[n].pend = None /\ c1[n].status = "active"
  <2>1. c1[n].status = "active"
    BY <1>2, <1>4 DEF Still, SameCore, Open
  <2> HIDE DEF c1, x1, e
  <2> QED BY <1>2, <1>4, <2>1, Locked
<1>9. L[p] \subseteq Letters[p] \cup
          {[type |-> "reserve.adjust", id |-> a, seq |-> OpSeq(c1[n]), delta |-> delta]}
  BY <1>4, <1>7
<1>10. PairInv(d, x1, L, used \cup {a})
  <2> HIDE DEF c1, x1, d, L
  <2> QED BY <1>2, <1>4, <1>5, <1>6, <1>7, <1>8, <1>9, AdjustBeginPair
<1>11. PInv'
  BY <1>2, <1>5, <1>10 DEF PInv, Letters
<1> QED BY <1>4, <1>5, <1>6, <1>11 DEF Moves, Extends, Still, SameCore

(* Transfer t of n ends, is settled or expires.                            *)
LEMMA StateFades ==
    ASSUME HInv, NEW n \in Node, NEW t \in TransferId, NEW st,
           LET a == xfer[n][t].st
               z == xfer[Peer(n)][t].st
           IN  \/ a = "PROPOSED" /\ st \in {"EXPIRED", "ABORTED", "REJECTED"}
               \/ a = "ACCEPTED" /\ st = "EXPIRED"
               \/ a = "ACCEPTED" /\ st = "ABORTED" /\ z \in {"ABORTED", "EXPIRED"}
               \/ a = "ACCEPTED" /\ st = "COMMITTED" /\ z \in Paid
               \/ a = "COMMITTED" /\ xfer[n][t].out /\ st = "SETTLED" /\ z = "SETTLED"
    PROVE  Fades(n, [xfer[n] EXCEPT ![t].st = st]) /\ [xfer[n] EXCEPT ![t].st = st][t].st = st
           /\ [xfer[n] EXCEPT ![t].st = st][t].out = xfer[n][t].out
<1> DEFINE y == [xfer[n] EXCEPT ![t].st = st]
<1>1. Becomes(xfer[n], y, t, st)
  BY View, StateFields
<1> HIDE DEF y
<1>2. ASSUME NEW w \in TransferId PROVE Fade(xfer[n][w], y[w], xfer[Peer(n)][w])
  BY <1>1 DEF Becomes, SameTransfer, Fade
<1>3. y[t].st = st /\ y[t].out = xfer[n][t].out
  BY <1>1 DEF Becomes, SameTransfer
<1>4. Fades(n, y) /\ y[t].st = st /\ y[t].out = xfer[n][t].out
  BY <1>2, <1>3 DEF Fades
<1> QED BY <1>4 DEF y

LEMMA MoveAbortTransfer ==
    ASSUME HInv, TypeOK', NEW n \in Node, NEW t \in TransferId, AbortTransfer(n, t)
    PROVE  PInv' /\ Moves(n)
<1> DEFINE p == Peer(n)
           y == [xfer[n] EXCEPT ![t].st = "ABORTED"]
           m == TransferMsg("transfer.abort", t)
<1>1. p \in Node /\ p # n /\ Peer(p) = n /\ TypeOK
  BY TwoNodes DEF HInv, IInv
<1>2. /\ xfer[n][t].out /\ Can(xfer[n][t].st, "abort") /\ Send(n, m) /\ used' = used
      /\ contact' = [contact EXCEPT ![n] = Release(contact[n], t)]
      /\ xfer' = [xfer EXCEPT ![n][t].st = "ABORTED"]
  BY DEF AbortTransfer
<1>3. xfer[n][t].st = "PROPOSED"
  <2>1. xfer[n][t].st \in {"PROPOSED", "ACCEPTED"}
    BY <1>2, TransitionTable
  <2> QED BY <1>2, <2>1, View DEF Local
<1>4. Fades(n, y) /\ y[t].st = "ABORTED" /\ y[t].out
  BY <1>2, <1>3, StateFades
<1>5. xfer' = [xfer EXCEPT ![n] = y]
  BY <1>1, <1>2, StateType DEF TransferStates
<1>6. xfer'[n] = y
  BY <1>1, <1>5 DEF TypeOK
<1>7. Still(contact[n], Release(contact[n], t))
  <2>1. contact[n] \in ContactRecord
    BY View
  <2> QED BY <2>1, StillUpdates
<1>8. m.type = "transfer.abort" /\ m.id = t
  BY DEF TransferMsg
<1>9. m.type # "transfer.accept" /\ TrueOf(p, m, contact', xfer', used')
  <2> HIDE DEF m, y
  <2> QED BY <1>1, <1>4, <1>6, <1>8 DEF TrueOf
<1> HIDE DEF m, y
<1> QED BY <1>2, <1>4, <1>5, <1>7, <1>9, QuietSend

LEMMA MoveCloseContact ==
    ASSUME HInv, TypeOK', NEW n \in Node, CloseContact(n)
    PROVE  PInv' /\ Moves(n)
<1> DEFINE m == [type |-> "contact.close"]
           c == [contact[n] EXCEPT !.closed = TRUE]
<1>1. contact[n] \in ContactRecord /\ TypeOK
  BY View DEF HInv, IInv
<1>2. Send(n, m) /\ used' = used /\ contact' = [contact EXCEPT ![n] = c]
      /\ xfer' = [xfer EXCEPT ![n] = xfer[n]]
  BY <1>1, NoUpdate DEF CloseContact
<1>3. Still(contact[n], c)
  BY <1>1, StillUpdates
<1>4. Fades(n, xfer[n])
  BY FadeUpdates
<1>5. m.type # "transfer.accept" /\ TrueOf(Peer(n), m, contact', xfer', used')
  BY DEF TrueOf
<1> HIDE DEF m, c
<1> QED BY <1>2, <1>3, <1>4, <1>5, QuietSend

LEMMA MoveOperator ==
    ASSUME HInv, TypeOK', NEW n \in Node, Operator(n)
    PROVE  PInv' /\ Moves(n)
<1>1. CASE RetireReserve(n) \/ \E amount \in PayAmounts : Pay(n, amount)
  BY <1>1, QuietLedger DEF RetireReserve, Pay
<1> QED BY <1>1, MoveOpenContact, MoveStartTransfer, MoveAbortTransfer,
           MoveAdjustReserve, MoveCloseContact DEF Operator

-----------------------------------------------------------------------------
(***************************************************************************)
(* The handlers of contact and error envelopes.                            *)
(***************************************************************************)

(* n answers with nothing or an error, and changes at most what is Still.  *)
LEMMA Refuses ==
    ASSUME HInv, TypeOK', NEW n \in Node, net[n] # <<>>,
           Reply(n, <<>>) \/ Reply(n, <<Error>>),
           NEW c, contact' = [contact EXCEPT ![n] = c], Still(contact[n], c),
           NEW x, xfer' = [xfer EXCEPT ![n] = x], Fades(n, x), used' = used
    PROVE  PInv' /\ Moves(n)
<1> DEFINE good(q) == q \in Seq(Message)
                      /\ Truthful(Peer(n), Mail(q), contact', xfer', used')
<1>1. good(<<>>) /\ good(<<Error>>)
  BY MessageTypes, SaysNothing
<1>2. CASE Reply(n, <<>>)
  BY <1>1, <1>2, QuietReply
<1>3. CASE Reply(n, <<Error>>)
  BY <1>1, <1>3, QuietReply
<1> QED BY <1>2, <1>3

LEMMA Ignores ==
    ASSUME HInv, TypeOK', NEW n \in Node, net[n] # <<>>,
           Reply(n, <<>>) \/ Reply(n, <<Error>>), UNCHANGED <<contact, xfer, used>>
    PROVE  PInv' /\ Moves(n)
<1>1. contact[n] \in ContactRecord /\ TypeOK
  BY View DEF HInv, IInv
<1>2. Still(contact[n], contact[n]) /\ Fades(n, xfer[n])
  BY <1>1, StillUpdates, FadeUpdates
<1>3. contact' = [contact EXCEPT ![n] = contact[n]] /\ xfer' = [xfer EXCEPT ![n] = xfer[n]]
  BY <1>1, NoUpdate
<1> QED BY <1>2, <1>3, Refuses

LEMMA SeedActiveFields ==
    ASSUME NEW c \in ContactRecord, NEW id, NEW p, NEW r, NEW mine, NEW theirs
    PROVE  LET d == SeedActive(c, id, p, r, mine, theirs)
           IN  /\ d.status = "active" /\ d.pend = c.pend /\ d.ops = <<SeedOp(id, p, r)>>
               /\ d.mine = mine /\ d.theirs = theirs /\ d.applied = c.applied
BY Zenon DEF SeedActive, ContactRecord

LEMMA MoveContactPropose ==
    ASSUME HInv, TypeOK', NEW n \in Node, HandleContactPropose(n)
    PROVE  PInv' /\ Moves(n)
<1> DEFINE p == Peer(n)
           m == Head(net[n])
           r == AutoAcceptSeed[n]
           e == SeedActive(NoContact, m.id, m.seed, r, r, m.seed)
           a == [type |-> "contact.accept", id |-> m.id, seed |-> r]
           d == contact'
           L == Letters'
<1>1. /\ p \in Node /\ p # n /\ TypeOK /\ Incoming(n, "contact.propose")
      /\ m \in Letters[n] /\ m.type = "contact.propose" /\ net[n] # <<>>
      /\ UNCHANGED <<xfer, used>>
  BY TwoNodes, HeadMail DEF HInv, IInv, HandleContactPropose
<1>2. m.id \in Node /\ m.seed \in Nat /\ r \in Nat
  BY <1>1, HeadType, Constants DEF TypeOK
<1>3. CASE Reply(n, <<Error>>) /\ UNCHANGED contact
  BY <1>1, <1>3, Ignores
<1>4. CASE /\ contact[n].status = "none"
           /\ contact' = [contact EXCEPT ![n] = e]
           /\ Reply(n, <<a>>)
  <2>1. d[n] = e /\ d[Peer(n)] = contact[Peer(n)]
    <3> HIDE DEF e
    <3> QED BY <1>1, <1>4 DEF TypeOK
  <2>2. a \in Message
    BY <1>2 DEF Message
  <2>3. L[n] \subseteq Letters[n] /\ L[Peer(n)] \subseteq Letters[Peer(n)] \cup {a}
    <3>1. <<a>> \in Seq(Message) /\ Mail(<<a>>) = {a}
      BY <2>2, OneReply
    <3> HIDE DEF a
    <3> QED BY <1>1, <1>4, <3>1, ReplyMail
  <2>4. /\ d[n].status = "active" /\ d[n].pend = None
        /\ d[n].ops = <<SeedOp(m.id, m.seed, r)>> /\ d[n].mine = r /\ d[n].theirs = m.seed
        /\ d[n].applied = {}
    <3>1. NoContact \in ContactRecord /\ NoContact.pend = None /\ NoContact.applied = {}
      BY DEF NoContact, ContactRecord
    <3> HIDE DEF m, r, d
    <3> QED BY <2>1, <3>1, SeedActiveFields
  <2>5. PairInv(d, xfer, L, used)
    <3>1. /\ PairTypes(contact, xfer, Letters) /\ PairInv(contact, xfer, Letters, used)
          /\ LockHeld(contact[n], xfer[n]) /\ Idle(contact[n])
          /\ LockHeld(contact[Peer(n)], xfer[Peer(n)]) /\ Idle(contact[Peer(n)])
      BY View
    <3>2. L[Peer(n)] \subseteq Letters[Peer(n)] \cup
             {[type |-> "contact.accept", id |-> m.id, seed |-> r]}
      BY <2>3
    <3> HIDE DEF m, r, d, L, a, e
    <3> QED BY <1>1, <1>4, <2>1, <2>3, <2>4, <3>1, <3>2, SeedLeadPair
  <2>6. PInv'
    BY <1>1, <2>5 DEF PInv, Letters
  <2>7. contact[n].ops = <<>>
    BY <1>4, View DEF Local
  <2>8. SeedOp(m.id, m.seed, r) \in Op
    BY <1>2, OpTypes
  <2>9. Extends(contact[n], d[n])
    <3>1. d[n].ops = Append(contact[n].ops, SeedOp(m.id, m.seed, r))
      BY <2>4, <2>7
    <3> HIDE DEF d, m, r
    <3> QED BY <2>4, <2>8, <3>1 DEF Extends
  <2> QED BY <2>1, <2>6, <2>9 DEF Moves
<1> QED BY <1>3, <1>4 DEF HandleContactPropose

LEMMA MoveContactAccept ==
    ASSUME HInv, TypeOK', NEW n \in Node, HandleContactAccept(n)
    PROVE  PInv' /\ Moves(n)
<1> DEFINE p == Peer(n)
           m == Head(net[n])
           c == contact[n]
           e == SeedActive(c, n, c.seed, m.seed, c.seed, m.seed)
           d == contact'
           L == Letters'
<1>1. /\ p \in Node /\ p # n /\ TypeOK /\ Incoming(n, "contact.accept")
      /\ m \in Letters[n] /\ m.type = "contact.accept" /\ net[n] # <<>>
      /\ UNCHANGED <<xfer, used>>
  BY TwoNodes, HeadMail DEF HInv, IInv, HandleContactAccept
<1>2. m.seed \in Nat /\ c \in ContactRecord /\ c.seed \in Nat
  BY <1>1, HeadType, View DEF TypeOK, ContactRecord
<1>3. CASE (Reply(n, <<Error>>) \/ Reply(n, <<>>)) /\ UNCHANGED contact
  BY <1>1, <1>3, Ignores
<1>4. CASE /\ c.id = n /\ c.status # "active" /\ Reply(n, <<>>)
           /\ contact' = [contact EXCEPT ![n] = e]
  <2>1. d[n] = e /\ d[Peer(n)] = contact[Peer(n)]
    <3> HIDE DEF e
    <3> QED BY <1>1, <1>4 DEF TypeOK
  <2>2. L[n] \subseteq Letters[n] /\ L[Peer(n)] \subseteq Letters[Peer(n)]
    BY <1>1, <1>4, ReplyMail, OneReply
  <2>3. /\ PairTypes(contact, xfer, Letters) /\ PairInv(contact, xfer, Letters, used)
        /\ LockHeld(contact[n], xfer[n]) /\ Idle(contact[n])
        /\ Local(n, contact[n], xfer[n], used)
    BY View
  <2>4. c.pend = None
    BY <1>2, <1>4, <2>3, Locked
  <2>5. /\ d[n].status = "active" /\ d[n].pend = None
        /\ d[n].ops = <<SeedOp(n, c.seed, m.seed)>>
        /\ d[n].mine = c.seed /\ d[n].theirs = m.seed /\ d[n].applied = c.applied
    <3> HIDE DEF m, d, c
    <3> QED BY <1>2, <2>1, <2>4, SeedActiveFields DEF e
  <2>6. PairInv(d, xfer, L, used)
    <3> HIDE DEF m, d, L, e
    <3> QED BY <1>1, <1>4, <2>1, <2>2, <2>3, <2>5, SeedFollowPair
  <2>7. PInv'
    BY <1>1, <2>6 DEF PInv, Letters
  <2>8. c.ops = <<>>
    BY <1>4, <2>3 DEF Local
  <2>9. SeedOp(n, c.seed, m.seed) \in Op
    BY <1>2, OpTypes
  <2>10. Extends(contact[n], d[n])
    <3>1. d[n].ops = Append(contact[n].ops, SeedOp(n, c.seed, m.seed))
      BY <2>5, <2>8
    <3> HIDE DEF d, m
    <3> QED BY <2>5, <2>9, <3>1 DEF Extends
  <2> QED BY <2>1, <2>7, <2>10 DEF Moves
<1>5. \/ (Reply(n, <<Error>>) \/ Reply(n, <<>>)) /\ UNCHANGED contact
      \/ /\ c.id = n /\ c.status # "active" /\ Reply(n, <<>>)
         /\ contact' = [contact EXCEPT ![n] = e]
  BY DEF HandleContactAccept
<1> QED BY <1>3, <1>4, <1>5

LEMMA MoveContactHandlers ==
    ASSUME HInv, TypeOK', NEW n \in Node,
           \/ HandleContactPropose(n) \/ HandleContactAccept(n)
           \/ HandleContactClose(n) \/ HandleError(n)
    PROVE  PInv' /\ Moves(n)
<1>1. CASE HandleContactClose(n)
  <2> DEFINE c == [contact[n] EXCEPT !.closed = TRUE]
  <2>1. net[n] # <<>> /\ Reply(n, <<>>) /\ UNCHANGED <<xfer, used>>
        /\ (contact' = contact \/ contact' = [contact EXCEPT ![n] = c])
    BY <1>1 DEF HandleContactClose, Incoming
  <2>2. TypeOK /\ contact[n] \in ContactRecord
    BY View DEF HInv, IInv
  <2>3. Still(contact[n], c) /\ Fades(n, xfer[n]) /\ xfer' = [xfer EXCEPT ![n] = xfer[n]]
    BY <2>1, <2>2, StillUpdates, FadeUpdates, NoUpdate
  <2> HIDE DEF c
  <2> QED BY <2>1, <2>3, Ignores, Refuses
<1>2. CASE HandleError(n)
  BY <1>2, Ignores DEF HandleError, Incoming
<1> QED BY <1>1, <1>2, MoveContactPropose, MoveContactAccept

-----------------------------------------------------------------------------
(***************************************************************************)
(* The handlers of transfers.                                              *)
(***************************************************************************)
LEMMA MoveTransferPropose ==
    ASSUME HInv, TypeOK', NEW n \in Node, HandleTransferPropose(n)
    PROVE  PInv' /\ Moves(n)
<1> DEFINE p == Peer(n)
           m == Head(net[n])
           usable == Open(contact[n]) /\ ~contact[n].diverged
           D == IF usable THEN BusyDue(n) ELSE {}
           e == ExpireLock(contact[n], D)
           z == ExpireTransfers(xfer[n], D)
           c1 == [contact EXCEPT ![n] = e]
           x1 == [xfer EXCEPT ![n] = z]
           r == [st |-> "ACCEPTED", out |-> FALSE, src |-> m.src, dst |-> m.dst]
           no == TransferMsg("transfer.reject", m.id)
           yes == TransferMsg("transfer.accept", m.id)
           d == contact'
           y == xfer'
           L == Letters'
<1>1. /\ p \in Node /\ p # n /\ TypeOK /\ Incoming(n, "transfer.propose")
      /\ m \in Letters[n] /\ m.type = "transfer.propose" /\ net[n] # <<>>
      /\ used' = used
  BY TwoNodes, HeadMail DEF HInv, IInv, HandleTransferPropose
<1>2. m.id \in TransferId /\ m.seq \in Nat /\ m.src \in Nat /\ m.dst \in Nat
  BY <1>1, HeadType DEF TypeOK
<1>3. D \subseteq Due(n)
  BY DEF BusyDue
<1>4. /\ PairTypes(c1, x1, Letters) /\ PairInv(c1, x1, Letters, used)
      /\ LockHeld(c1[n], x1[n]) /\ Idle(c1[n])
      /\ c1[n] = e /\ x1[n] = z /\ c1[p] = contact[p] /\ x1[p] = xfer[p]
      /\ Still(contact[n], c1[n]) /\ c1[n] \in ContactRecord
      /\ x1[n] \in [TransferId -> TransferRecord]
  <2> HIDE DEF D
  <2> QED BY <1>3, ExpirePair
<1>5. CASE /\ xfer' = [xfer EXCEPT ![n] = z] /\ contact' = [contact EXCEPT ![n] = e]
           /\ Reply(n, <<no>>)
  <2>1. Fades(n, z) /\ Still(contact[n], e)
    BY <1>3, <1>4, FadeUpdates
  <2>2. no \in Message /\ <<no>> \in Seq(Message)
    BY <1>2, MessageTypes, OneReply
  <2>3. Truthful(Peer(n), Mail(<<no>>), contact', xfer', used')
    BY <1>2, SaysNothing
  <2> HIDE DEF e, z, no
  <2> QED BY <1>1, <1>5, <2>1, <2>2, <2>3, QuietReply
<1>6. CASE /\ usable /\ Acceptable(e, m)
           /\ xfer' = [xfer EXCEPT ![n] = [z EXCEPT ![m.id] = r]]
           /\ contact' = [contact EXCEPT ![n] = Lock(e, m.id)]
           /\ Reply(n, <<yes>>)
  <2>1. /\ d[n] = Lock(e, m.id) /\ d[p] = c1[p] /\ y[p] = x1[p]
        /\ y[n] = [x1[n] EXCEPT ![m.id] = r]
    <3> HIDE DEF e, z, r, c1, x1, m
    <3> QED BY <1>1, <1>4, <1>6 DEF TypeOK
  <2>2. Still(c1[n], d[n])
    <3>1. Still(c1[n], Lock(c1[n], m.id))
      <4> HIDE DEF c1, m
      <4> QED BY <1>4, StillUpdates
    <3> QED BY <1>4, <2>1, <3>1
  <2>3. Adds(x1[n], y[n], m.id, r)
    <3> HIDE DEF x1, y, r, m
    <3> QED BY <1>2, <1>4, <2>1 DEF Adds
  <2>4. L[n] \subseteq Letters[n] /\ L[p] \subseteq Letters[p] \cup {yes}
    <3>1. yes \in Message
      BY <1>2, MessageTypes
    <3>2. <<yes>> \in Seq(Message) /\ Mail(<<yes>>) = {yes}
      BY <3>1, OneReply
    <3> HIDE DEF yes
    <3> QED BY <1>1, <1>6, <3>2, ReplyMail
  <2>5. r.st = "ACCEPTED" /\ ~r.out /\ r.src = m.src /\ r.dst = m.dst
    OBVIOUS
  <2>6. /\ Free(c1[n]) /\ c1[n].status = "active" /\ m.seq = OpSeq(c1[n])
    BY <1>4, <1>6 DEF Acceptable, Still, SameCore, Open
  <2>7. PairInv(d, y, L, used)
    <3> HIDE DEF usable, D, e, z, c1, x1, r, d, y, L, m
    <3>1. SameCore(c1[n], d[n]) /\ d[Peer(n)] = c1[Peer(n)] /\ y[Peer(n)] = x1[Peer(n)]
      BY <2>1, <2>2 DEF Still
    <3>2. /\ PairTypes(c1, x1, Letters) /\ PairInv(c1, x1, Letters, used)
          /\ LockHeld(c1[n], x1[n]) /\ Idle(c1[n])
      BY <1>4
    <3>3. m \in Letters[n] /\ m.type = "transfer.propose"
      BY <1>1
    <3> QED BY <2>3, <2>4, <2>5, <2>6, <3>1, <3>2, <3>3, AcceptPair
  <2>8. PInv'
    BY <1>1, <2>7 DEF PInv, Letters
  <2>9. Still(contact[n], d[n])
    BY <1>4, <2>2 DEF Still, SameCore
  <2> QED BY <1>4, <2>1, <2>8, <2>9 DEF Moves, Extends, Still, SameCore
<1>7. \/ /\ xfer' = [xfer EXCEPT ![n] = z] /\ contact' = [contact EXCEPT ![n] = e]
         /\ Reply(n, <<no>>)
      \/ /\ usable /\ Acceptable(e, m)
         /\ xfer' = [xfer EXCEPT ![n] = [z EXCEPT ![m.id] = r]]
         /\ contact' = [contact EXCEPT ![n] = Lock(e, m.id)]
         /\ Reply(n, <<yes>>)
  BY Zenon DEF HandleTransferPropose
<1> QED BY <1>5, <1>6, <1>7

LEMMA MoveTransferAccept ==
    ASSUME HInv, TypeOK', NEW n \in Node, HandleTransferAccept(n)
    PROVE  PInv' /\ Moves(n)
<1> DEFINE p == Peer(n)
           m == Head(net[n])
           t == m.id
           x == xfer[n][t]
           e == PaidOut(contact[n], t, x.src, x.dst)
           z == [xfer[n] EXCEPT ![t].st = "COMMITTED"]
           late1 == [xfer[n] EXCEPT ![t].st = "EXPIRED"]
           done == TransferMsg("transfer.commit", t)
           no == TransferMsg("transfer.abort", t)
           d == contact'
           y == xfer'
           L == Letters'
<1>1. /\ p \in Node /\ p # n /\ Peer(p) = n /\ TypeOK /\ Incoming(n, "transfer.accept")
      /\ m \in Letters[n] /\ m.type = "transfer.accept" /\ net[n] # <<>>
      /\ used' = used
  BY TwoNodes, HeadMail DEF HInv, IInv, HandleTransferAccept
<1>2. /\ t \in TransferId /\ contact[n] \in ContactRecord
      /\ xfer[n] \in [TransferId -> TransferRecord] /\ x.src \in Nat /\ x.dst \in Nat
  BY <1>1, HeadType, View DEF TypeOK, TransferRecord
<1>3. CASE /\ MayCommit(n, t)
           /\ contact' = [contact EXCEPT ![n] = e]
           /\ xfer' = [xfer EXCEPT ![n][t].st = Transition(Transition(x.st, "accept"), "commit")]
           /\ Reply(n, <<done>>)
  <2>1. x.st = "PROPOSED"
    BY <1>3, TransitionTable DEF MayCommit
  <2>2. xfer' = [xfer EXCEPT ![n] = z]
    <3>1. xfer' = [xfer EXCEPT ![n][t].st = "COMMITTED"]
      BY <1>3, <2>1, TransitionTable
    <3> QED BY <1>1, <1>2, <3>1, StateType DEF TransferStates
  <2>3. d[n] = e /\ d[p] = contact[p] /\ y[n] = z /\ y[p] = xfer[p]
    <3> HIDE DEF e, z
    <3> QED BY <1>1, <1>3, <2>2 DEF TypeOK
  <2>4. Becomes(xfer[n], y[n], t, "COMMITTED")
    <3> HIDE DEF t
    <3> QED BY <1>2, <2>3, StateFields
  <2>5. L[n] \subseteq Letters[n] /\ L[p] \subseteq Letters[p] \cup {done}
    <3>1. done \in Message
      BY <1>2, MessageTypes
    <3>2. <<done>> \in Seq(Message) /\ Mail(<<done>>) = {done}
      BY <3>1, OneReply
    <3> HIDE DEF done
    <3> QED BY <1>1, <1>3, <3>2, ReplyMail
  <2>6. PairInv(d, y, L, used)
    <3>1. /\ PairTypes(contact, xfer, Letters) /\ PairInv(contact, xfer, Letters, used)
          /\ LockHeld(contact[n], xfer[n]) /\ Idle(contact[n])
      BY View
    <3>2. m \in Letters[n] /\ m.type = "transfer.accept" /\ m.id = t
      BY <1>1
    <3>3. /\ d[n] = PaidOut(contact[n], t, xfer[n][t].src, xfer[n][t].dst)
          /\ d[Peer(n)] = contact[Peer(n)] /\ y[Peer(n)] = xfer[Peer(n)]
          /\ xfer[n][t].st = "PROPOSED"
      BY <2>1, <2>3
    <3> HIDE DEF d, y, L, m, t
    <3> QED BY <1>2, <2>4, <2>5, <3>1, <3>2, <3>3, CommitOutPair
  <2>7. PInv'
    BY <1>1, <2>6 DEF PInv, Letters
  <2>8. d[n].ops = Append(contact[n].ops, TransferOp(t, x.src, x.dst))
        /\ d[n].applied = contact[n].applied
    <3> HIDE DEF t, x, d
    <3> QED BY <1>2, <2>3, Zenon DEF PaidOut, ContactRecord
  <2>9. TransferOp(t, x.src, x.dst) \in Op
    BY <1>2, OpTypes
  <2> HIDE DEF t, x
  <2> QED BY <2>3, <2>7, <2>8, <2>9 DEF Moves, Extends
<1>4. CASE /\ x.out /\ t \in Due(n)
           /\ xfer' = [xfer EXCEPT ![n][t].st = "EXPIRED"]
           /\ contact' = [contact EXCEPT ![n] = Release(contact[n], t)]
           /\ Reply(n, <<no>>)
  <2>1. x.st = "PROPOSED" \/ x.st = "ACCEPTED"
    BY <1>4, TransitionTable DEF Due
  <2>2. Fades(n, late1) /\ late1[t].st = "EXPIRED" /\ late1[t].out = x.out
    <3> HIDE DEF t
    <3> QED BY <1>2, <2>1, StateFades
  <2>3. xfer' = [xfer EXCEPT ![n] = late1]
    BY <1>1, <1>2, <1>4, StateType DEF TransferStates
  <2>4. xfer'[n] = late1
    <3> HIDE DEF late1
    <3> QED BY <1>1, <2>3 DEF TypeOK
  <2>5. Still(contact[n], Release(contact[n], t))
    BY <1>2, StillUpdates
  <2>6. no.type = "transfer.abort" /\ no.id = t
    BY DEF TransferMsg
  <2>7. no \in Message /\ <<no>> \in Seq(Message) /\ Mail(<<no>>) = {no}
    BY <1>2, MessageTypes, OneReply
  <2>8. Truthful(p, {no}, contact', xfer', used')
    <3> HIDE DEF no, late1, t
    <3> QED BY <1>1, <1>4, <2>2, <2>4, <2>6 DEF Truthful, TrueOf
  <2> HIDE DEF no, late1, t
  <2> QED BY <1>1, <1>4, <2>2, <2>3, <2>5, <2>7, <2>8, QuietReply
<1>5. CASE (Reply(n, <<>>) \/ Reply(n, <<Error>>)) /\ UNCHANGED <<contact, xfer>>
  BY <1>1, <1>5, Ignores
<1>6. \/ /\ MayCommit(n, t)
         /\ contact' = [contact EXCEPT ![n] = e]
         /\ xfer' = [xfer EXCEPT ![n][t].st = Transition(Transition(x.st, "accept"), "commit")]
         /\ Reply(n, <<done>>)
      \/ /\ x.out /\ t \in Due(n)
         /\ xfer' = [xfer EXCEPT ![n][t].st = "EXPIRED"]
         /\ contact' = [contact EXCEPT ![n] = Release(contact[n], t)]
         /\ Reply(n, <<no>>)
      \/ (Reply(n, <<>>) \/ Reply(n, <<Error>>)) /\ UNCHANGED <<contact, xfer>>
  BY Zenon DEF HandleTransferAccept
<1> QED BY <1>3, <1>4, <1>5, <1>6

LEMMA MoveTransferCommit ==
    ASSUME HInv, TypeOK', NEW n \in Node, HandleTransferCommit(n)
    PROVE  PInv' /\ Moves(n)
<1> DEFINE p == Peer(n)
           m == Head(net[n])
           t == m.id
           x == xfer[n][t]
           e == PaidIn(contact[n], t, x.src, x.dst)
           z == [xfer[n] EXCEPT ![t].st = "SETTLED"]
           stuck == [xfer[n] EXCEPT ![t].st = "COMMITTED"]
           done == TransferMsg("transfer.receipt", t)
           d == contact'
           y == xfer'
           L == Letters'
<1>1. /\ p \in Node /\ p # n /\ Peer(p) = n /\ TypeOK /\ Incoming(n, "transfer.commit")
      /\ m \in Letters[n] /\ m.type = "transfer.commit" /\ net[n] # <<>>
      /\ used' = used
  BY TwoNodes, HeadMail DEF HInv, IInv, HandleTransferCommit
<1>2. /\ t \in TransferId /\ contact[n] \in ContactRecord
      /\ xfer[n] \in [TransferId -> TransferRecord] /\ x.src \in Nat /\ x.dst \in Nat
  BY <1>1, HeadType, View DEF TypeOK, TransferRecord
<1>3. done \in Message /\ <<done>> \in Seq(Message) /\ Mail(<<done>>) = {done}
  BY <1>2, MessageTypes, OneReply
<1>4. TrueOf(n, m, contact, xfer, used)
  BY <1>1, View DEF PairInv, Honest
<1>5. CASE (Reply(n, <<>>) \/ Reply(n, <<Error>>)) /\ UNCHANGED <<contact, xfer>>
  BY <1>1, <1>5, Ignores
<1>6. CASE ~x.out /\ x.st = "SETTLED" /\ Reply(n, <<done>>) /\ UNCHANGED <<contact, xfer>>
  <2>1. /\ contact' = [contact EXCEPT ![n] = contact[n]] /\ xfer' = [xfer EXCEPT ![n] = xfer[n]]
        /\ Still(contact[n], contact[n]) /\ Fades(n, xfer[n])
    BY <1>1, <1>2, <1>6, NoUpdate, StillUpdates, FadeUpdates
  <2>2. done.type = "transfer.receipt" /\ done.id = t
    BY DEF TransferMsg
  <2>3. Truthful(p, {done}, contact', xfer', used')
    <3> HIDE DEF done, t
    <3> QED BY <1>1, <1>6, <2>2 DEF Truthful, TrueOf
  <2> HIDE DEF done, t
  <2> QED BY <1>1, <1>3, <1>6, <2>1, <2>3, QuietReply
<1>7. CASE /\ x.st = "ACCEPTED" /\ Reply(n, <<Error>>) /\ UNCHANGED contact
           /\ xfer' = [xfer EXCEPT ![n][t].st = Transition(x.st, "commit")]
  <2>1. xfer[p][t].st \in Paid
    BY <1>1, <1>4 DEF TrueOf
  <2>2. Fades(n, stuck)
    <3> HIDE DEF t
    <3> QED BY <1>2, <1>7, <2>1, StateFades
  <2>3. xfer' = [xfer EXCEPT ![n] = stuck]
    <3>1. xfer' = [xfer EXCEPT ![n][t].st = "COMMITTED"]
      BY <1>7, TransitionTable
    <3> QED BY <1>1, <1>2, <3>1, StateType DEF TransferStates
  <2>4. contact' = [contact EXCEPT ![n] = contact[n]] /\ Still(contact[n], contact[n])
    BY <1>1, <1>2, <1>7, NoUpdate, StillUpdates
  <2> HIDE DEF stuck
  <2> QED BY <1>1, <1>7, <2>2, <2>3, <2>4, Refuses
<1>8. CASE /\ x.st = "ACCEPTED" /\ Reply(n, <<done>>)
           /\ contact' = [contact EXCEPT ![n] = e]
           /\ xfer' = [xfer EXCEPT ![n][t].st = Transition(Transition(x.st, "commit"), "receipt")]
  <2>1. xfer' = [xfer EXCEPT ![n] = z]
    <3>1. xfer' = [xfer EXCEPT ![n][t].st = "SETTLED"]
      BY <1>8, TransitionTable
    <3> QED BY <1>1, <1>2, <3>1, StateType DEF TransferStates
  <2>2. d[n] = e /\ d[p] = contact[p] /\ y[n] = z /\ y[p] = xfer[p]
    <3> HIDE DEF e, z
    <3> QED BY <1>1, <1>8, <2>1 DEF TypeOK
  <2>3. Becomes(xfer[n], y[n], t, "SETTLED")
    <3> HIDE DEF t
    <3> QED BY <1>2, <2>2, StateFields
  <2>4. L[n] \subseteq Letters[n] /\ L[p] \subseteq Letters[p] \cup {done}
    <3> HIDE DEF done
    <3> QED BY <1>1, <1>3, <1>8, ReplyMail
  <2>5. PairInv(d, y, L, used)
    <3>1. /\ PairTypes(contact, xfer, Letters) /\ PairInv(contact, xfer, Letters, used)
          /\ LockHeld(contact[n], xfer[n]) /\ Idle(contact[n])
      BY View
    <3>2. m \in Letters[n] /\ m.type = "transfer.commit" /\ m.id = t
      BY <1>1
    <3>3. /\ d[n] = PaidIn(contact[n], t, xfer[n][t].src, xfer[n][t].dst)
          /\ d[Peer(n)] = contact[Peer(n)] /\ y[Peer(n)] = xfer[Peer(n)]
          /\ xfer[n][t].st = "ACCEPTED"
      BY <1>8, <2>2
    <3> HIDE DEF d, y, L, m, t
    <3> QED BY <1>2, <2>3, <2>4, <3>1, <3>2, <3>3, CommitInPair
  <2>6. PInv'
    BY <1>1, <2>5 DEF PInv, Letters
  <2>7. d[n].ops = Append(contact[n].ops, TransferOp(t, x.src, x.dst))
        /\ d[n].applied = contact[n].applied
    <3> HIDE DEF t, x, d
    <3> QED BY <1>2, <2>2, Zenon DEF PaidIn, ContactRecord
  <2>8. TransferOp(t, x.src, x.dst) \in Op
    BY <1>2, OpTypes
  <2> HIDE DEF t, x
  <2> QED BY <2>2, <2>6, <2>7, <2>8 DEF Moves, Extends
<1>9. ~x.out /\ Can(x.st, "commit") /\ x.st \notin {"COMMITTED", "SETTLED"} => x.st = "ACCEPTED"
  BY TransitionTable
<1>10. \/ (Reply(n, <<>>) \/ Reply(n, <<Error>>)) /\ UNCHANGED <<contact, xfer>>
       \/ ~x.out /\ x.st = "SETTLED" /\ Reply(n, <<done>>) /\ UNCHANGED <<contact, xfer>>
       \/ /\ x.st = "ACCEPTED" /\ Reply(n, <<Error>>) /\ UNCHANGED contact
          /\ xfer' = [xfer EXCEPT ![n][t].st = Transition(x.st, "commit")]
       \/ /\ x.st = "ACCEPTED" /\ Reply(n, <<done>>)
          /\ contact' = [contact EXCEPT ![n] = e]
          /\ xfer' = [xfer EXCEPT ![n][t].st = Transition(Transition(x.st, "commit"), "receipt")]
  <2> DEFINE applicable == /\ ~x.out /\ Can(x.st, "commit")
                           /\ x.st \notin {"COMMITTED", "SETTLED"}
             answer == CASE ~x.out /\ x.st = "SETTLED" -> <<done>>
                         [] ~x.out /\ x.st = "COMMITTED" -> <<>>
                         [] OTHER -> <<Error>>
  <2>1. \/ ~applicable /\ Reply(n, answer) /\ UNCHANGED <<contact, xfer>>
        \/ /\ applicable /\ Reply(n, <<Error>>) /\ UNCHANGED contact
           /\ xfer' = [xfer EXCEPT ![n][t].st = Transition(@, "commit")]
        \/ /\ applicable /\ Reply(n, <<done>>)
           /\ contact' = [contact EXCEPT ![n] = e]
           /\ xfer' = [xfer EXCEPT ![n][t].st = Transition(Transition(@, "commit"), "receipt")]
    BY Zenon DEF HandleTransferCommit
  <2>2. answer = <<>> \/ answer = <<Error>> \/ (~x.out /\ x.st = "SETTLED" /\ answer = <<done>>)
    <3> HIDE DEF done
    <3>1. CASE ~x.out /\ x.st = "SETTLED"
      <4>1. answer = <<done>>
        BY <3>1
      <4> QED BY <3>1, <4>1
    <3>2. CASE ~x.out /\ x.st = "COMMITTED"
      <4>1. answer = <<>>
        BY <3>2
      <4> QED BY <4>1
    <3>3. CASE x.out \/ (x.st # "SETTLED" /\ x.st # "COMMITTED")
      <4>1. answer = <<Error>>
        BY <3>3
      <4> QED BY <4>1
    <3> QED BY <3>1, <3>2, <3>3
  <2>3. applicable => x.st = "ACCEPTED"
    BY <1>9
  <2> HIDE DEF answer, applicable
  <2>4. CASE ~applicable /\ Reply(n, answer) /\ UNCHANGED <<contact, xfer>>
    BY <2>2, <2>4, Zenon
  <2> QED BY <2>1, <2>3, <2>4, Zenon
<1> QED BY <1>5, <1>6, <1>7, <1>8, <1>10

(* Transfer t ends at n: whatever it is answered with says nothing.        *)
LEMMA Ends ==
    ASSUME HInv, TypeOK', NEW n \in Node, net[n] # <<>>, NEW t \in TransferId,
           NEW event \in {"receipt", "reject", "abort"}, End(n, t, event),
           LET a == xfer[n][t].st
               z == xfer[Peer(n)][t].st
           IN  \/ a = "PROPOSED" /\ event = "reject"
               \/ a = "COMMITTED" /\ event = "receipt" /\ xfer[n][t].out /\ z = "SETTLED"
               \/ a = "ACCEPTED" /\ event = "abort" /\ z \in {"ABORTED", "EXPIRED"},
           Reply(n, <<>>), used' = used
    PROVE  PInv' /\ Moves(n)
<1> DEFINE st == Transition(xfer[n][t].st, event)
           z == [xfer[n] EXCEPT ![t].st = st]
<1>1. /\ xfer[n][t].st = "PROPOSED" => st = "REJECTED"
      /\ xfer[n][t].st = "COMMITTED" => st = "SETTLED"
      /\ xfer[n][t].st = "ACCEPTED" => st = "ABORTED"
  BY TransitionTable
<1>2. TypeOK /\ contact[n] \in ContactRecord
  BY View DEF HInv, IInv
<1>3. /\ xfer' = [xfer EXCEPT ![n][t].st = st]
      /\ contact' = [contact EXCEPT ![n] = Release(contact[n], t)]
  BY DEF End
<1> HIDE DEF st
<1>4. Fades(n, z)
  BY <1>1, StateFades
<1>5. xfer' = [xfer EXCEPT ![n] = z]
  <2>1. st \in TransferStates
    BY <1>1 DEF TransferStates
  <2> QED BY <1>2, <1>3, <2>1, StateType
<1>6. Still(contact[n], Release(contact[n], t))
  BY <1>2, StillUpdates
<1> HIDE DEF z
<1> QED BY <1>3, <1>4, <1>5, <1>6, Refuses

LEMMA MoveTransferEnds ==
    ASSUME HInv, TypeOK', NEW n \in Node,
           HandleTransferReceipt(n) \/ HandleTransferReject(n) \/ HandleTransferAbort(n)
    PROVE  PInv' /\ Moves(n)
<1> DEFINE p == Peer(n)
           m == Head(net[n])
           t == m.id
           x == xfer[n][t]
<1>1. /\ p \in Node /\ p # n /\ Peer(p) = n /\ TypeOK /\ used' = used
      /\ \A k \in Node : \A q \in Letters[k] : TrueOf(k, q, contact, xfer, used)
      /\ Local(n, contact[n], xfer[n], used)
  BY TwoNodes, View DEF HInv, IInv, HandleTransferReceipt, HandleTransferReject,
                       HandleTransferAbort, PairInv, Honest
<1>2. ASSUME NEW type \in {"transfer.receipt", "transfer.reject", "transfer.abort"},
             Incoming(n, type)
      PROVE  /\ t \in TransferId /\ m.type = type /\ net[n] # <<>>
             /\ TrueOf(n, m, contact, xfer, used)
  BY <1>1, <1>2, HeadType, HeadMail DEF HInv, IInv, TypeOK
<1>3. CASE HandleTransferReceipt(n)
  <2>1. /\ t \in TransferId /\ m.type = "transfer.receipt" /\ net[n] # <<>>
        /\ TrueOf(n, m, contact, xfer, used)
    BY <1>2, <1>3 DEF HandleTransferReceipt
  <2>2. CASE (Reply(n, <<>>) \/ Reply(n, <<Error>>)) /\ UNCHANGED <<contact, xfer>>
    BY <1>1, <2>1, <2>2, Ignores
  <2>3. CASE x.out /\ Can(x.st, "receipt") /\ End(n, t, "receipt") /\ Reply(n, <<>>)
    <3>1. x.st = "COMMITTED"
      BY <2>3, TransitionTable
    <3>2. xfer[p][t].st = "SETTLED"
      BY <2>1 DEF TrueOf
    <3> HIDE DEF t
    <3> QED BY <1>1, <2>1, <2>3, <3>1, <3>2, Ends
  <2> QED BY <1>3, <2>2, <2>3 DEF HandleTransferReceipt
<1>4. CASE HandleTransferReject(n)
  <2>1. t \in TransferId /\ net[n] # <<>> /\ Reply(n, <<>>)
    BY <1>2, <1>4 DEF HandleTransferReject
  <2>2. CASE UNCHANGED <<contact, xfer>>
    BY <1>1, <2>1, <2>2, Ignores
  <2>3. CASE Can(x.st, "reject") /\ End(n, t, "reject")
    <3>1. x.st = "PROPOSED"
      BY <2>3, TransitionTable
    <3> HIDE DEF t
    <3> QED BY <1>1, <2>1, <2>3, <3>1, Ends
  <2> QED BY <1>4, <2>2, <2>3 DEF HandleTransferReject
<1>5. CASE HandleTransferAbort(n)
  <2>1. /\ t \in TransferId /\ net[n] # <<>> /\ Reply(n, <<>>)
        /\ m.type = "transfer.abort" /\ TrueOf(n, m, contact, xfer, used)
    BY <1>2, <1>5 DEF HandleTransferAbort
  <2>2. CASE UNCHANGED <<contact, xfer>>
    BY <1>1, <2>1, <2>2, Ignores
  <2>3. CASE ~x.out /\ Can(x.st, "abort") /\ End(n, t, "abort")
    <3>1. x.st = "PROPOSED" \/ x.st = "ACCEPTED"
      BY <2>3, TransitionTable
    <3>2. x.st = "ACCEPTED"
      BY <1>1, <2>1, <2>3, <3>1 DEF Local
    <3>3. xfer[p][t].st \in {"ABORTED", "EXPIRED"}
      BY <2>1 DEF TrueOf
    <3> HIDE DEF t
    <3> QED BY <1>1, <2>1, <2>3, <3>2, <3>3, Ends
  <2> QED BY <1>5, <2>2, <2>3 DEF HandleTransferAbort
<1> QED BY <1>3, <1>4, <1>5

-----------------------------------------------------------------------------
(***************************************************************************)
(* The handlers of reserve adjustments.                                    *)
(***************************************************************************)

(* A node that has mirrored an adjustment never meets it again at its own  *)
(* op_seq: the answer to a repeated reserve.adjust is never sent.          *)
LEMMA NeverAgain ==
    ASSUME NEW c, NEW x, NEW M, NEW u, PairTypes(c, x, M), PairInv(c, x, M, u),
           NEW n \in Node, c[n].status = "active", AppliedInOps(c[n]),
           NEW m \in M[n], m.type = "reserve.adjust", m.seq = OpSeq(c[n])
    PROVE  m.id \notin c[n].applied
<1> DEFINE p == Peer(n)
<1>1. p \in Node /\ m \in Message /\ m.id \in AdjustId
  BY TwoNodes, MessageId DEF PairTypes
<1>2. TrueOf(n, m, c, x, u) /\ Local(n, c[n], x[n], u) /\ Local(p, c[p], x[p], u)
  BY <1>1 DEF PairInv, Honest
<1>3. c[n].ops # <<>> /\ OpSeq(c[n]) \in Int
  BY <1>2, PairFields DEF Local
<1>4. c[p].ops # <<>> /\ c[p].pend = m.id /\ OpSeq(c[p]) = OpSeq(c[n])
  BY <1>2, <1>3 DEF TrueOf, TrueOfAdjust
<1>5. c[n].ops = c[p].ops
  <2>1. Mirror(c)
    BY <1>3, <1>4, Shape
  <2> QED BY <2>1, MirrorView
<1>6. Recorded(c[p], x[p], u)
  BY <1>2 DEF Local
<1> SUFFICES ASSUME m.id \in c[n].applied PROVE FALSE
  OBVIOUS
<1>7. PICK i \in 1..Len(c[n].ops) : c[n].ops[i][1] = "adjust" /\ c[n].ops[i][2] = m.id
  BY DEF AppliedInOps
<1>8. Over(c[p].ops[i], x[p], c[p].pend, u)
  BY <1>5, <1>6, <1>7 DEF Recorded
<1> QED BY <1>1, <1>4, <1>5, <1>7, <1>8 DEF Over

LEMMA MoveReserveAdjust ==
    ASSUME HInv, TypeOK', NEW n \in Node, HandleReserveAdjust(n)
    PROVE  PInv' /\ Moves(n)
<1> DEFINE p == Peer(n)
           m == Head(net[n])
           usable == Open(contact[n]) /\ ~contact[n].diverged
           D == IF usable THEN BusyDue(n) ELSE {}
           e == ExpireLock(contact[n], D)
           z == ExpireTransfers(xfer[n], D)
           c1 == [contact EXCEPT ![n] = e]
           x1 == [xfer EXCEPT ![n] = z]
           again == Free(e) /\ m.seq = OpSeq(e) /\ m.id \in e.applied
           f == AdjustMirrored(e, m.id, m.delta)
           yes == [type |-> "reserve.accept", id |-> m.id]
           d == contact'
           y == xfer'
           L == Letters'
<1>1. /\ p \in Node /\ p # n /\ TypeOK /\ Incoming(n, "reserve.adjust")
      /\ m \in Letters[n] /\ m.type = "reserve.adjust" /\ net[n] # <<>>
      /\ used' = used /\ xfer' = [xfer EXCEPT ![n] = z]
  BY TwoNodes, HeadMail DEF HInv, IInv, HandleReserveAdjust
<1>2. m.id \in AdjustId /\ m.seq \in Nat /\ m.delta \in Int
  BY <1>1, HeadType DEF TypeOK
<1>3. D \subseteq Due(n)
  BY DEF BusyDue
<1>4. /\ PairTypes(c1, x1, Letters) /\ PairInv(c1, x1, Letters, used)
      /\ LockHeld(c1[n], x1[n]) /\ Idle(c1[n]) /\ LockHeld(c1[p], x1[p]) /\ Idle(c1[p])
      /\ c1[n] = e /\ x1[n] = z /\ c1[p] = contact[p] /\ x1[p] = xfer[p]
      /\ Still(contact[n], c1[n]) /\ c1[n] \in ContactRecord
  <2> HIDE DEF D
  <2> QED BY <1>3, ExpirePair
<1>5. usable => c1[n].status = "active"
  BY <1>4 DEF Open, Still, SameCore
<1>6. ~(usable /\ again)
  <2>1. AppliedInOps(c1[n])
    <3>1. AppliedInOps(contact[n])
      BY DEF HInv
    <3> HIDE DEF c1
    <3> QED BY <1>4, <3>1, SMTT(30) DEF AppliedInOps, Still, SameCore
  <2>2. again => m.seq = OpSeq(c1[n]) /\ m.id \in c1[n].applied
    BY <1>4
  <2> HIDE DEF c1, x1, usable, again, m
  <2> QED BY <1>1, <1>4, <1>5, <2>1, <2>2, NeverAgain
<1>7. CASE contact' = [contact EXCEPT ![n] = e] /\ Reply(n, <<Error>>)
  <2>1. Fades(n, z) /\ Still(contact[n], e)
    BY <1>3, <1>4, FadeUpdates
  <2> HIDE DEF e, z
  <2> QED BY <1>1, <1>7, <2>1, Refuses
<1>8. CASE /\ usable /\ Mirrorable(e, m)
           /\ contact' = [contact EXCEPT ![n] = f]
           /\ Reply(n, <<yes>>)
  <2>1. d[n] = f /\ d[p] = c1[p] /\ y = x1
    <3> HIDE DEF e, z, c1, f
    <3> QED BY <1>1, <1>4, <1>8 DEF TypeOK
  <2>2. L[n] \subseteq Letters[n] /\ L[p] \subseteq Letters[p] \cup {yes}
    <3>1. yes \in Message
      BY <1>2 DEF Message
    <3>2. <<yes>> \in Seq(Message) /\ Mail(<<yes>>) = {yes}
      BY <3>1, OneReply
    <3> HIDE DEF yes
    <3> QED BY <1>1, <1>8, <3>2, ReplyMail
  <2>3. /\ Free(c1[n]) /\ c1[n].status = "active" /\ m.seq = OpSeq(c1[n])
        /\ d[n] = AdjustMirrored(c1[n], m.id, m.delta) /\ d[Peer(n)] = c1[Peer(n)]
        /\ m \in Letters[n] /\ m.type = "reserve.adjust"
    BY <1>1, <1>4, <1>5, <1>8, <2>1 DEF Mirrorable
  <2>4. PairInv(d, x1, L, used)
    <3> HIDE DEF usable, D, e, z, c1, x1, f, d, y, L, m
    <3> QED BY <1>4, <2>2, <2>3, MirrorPair
  <2>5. PInv'
    BY <1>1, <2>1, <2>4 DEF PInv, Letters
  <2>6. /\ d[n].ops = Append(c1[n].ops, AdjustOp(m.id, m.delta))
        /\ d[n].applied = c1[n].applied \cup {m.id}
    <3> HIDE DEF c1, d, m
    <3> QED BY <1>4, <2>3, Zenon DEF AdjustMirrored, ContactRecord
  <2>7. AdjustOp(m.id, m.delta) \in Op
    BY <1>2, OpTypes
  <2>8. AdjustOp(m.id, m.delta)[1] = "adjust" /\ AdjustOp(m.id, m.delta)[2] = m.id
    BY DEF AdjustOp
  <2>9. Extends(contact[n], d[n])
    <3> DEFINE o == AdjustOp(m.id, m.delta)
    <3> HIDE DEF o
    <3>1. /\ o \in Op /\ o[1] = "adjust" /\ o[2] = m.id /\ d[n].ops = Append(contact[n].ops, o)
          /\ d[n].applied = contact[n].applied \cup {m.id}
      <4> HIDE DEF c1, d, m
      <4> QED BY <1>4, <2>6, <2>7, <2>8 DEF o, Still, SameCore
    <3> HIDE DEF d, m
    <3> QED BY <3>1 DEF Extends
  <2> QED BY <1>4, <2>1, <2>5, <2>9 DEF Moves
<1>9. \/ contact' = [contact EXCEPT ![n] = e] /\ Reply(n, <<Error>>)
      \/ usable /\ again
      \/ /\ usable /\ Mirrorable(e, m)
         /\ contact' = [contact EXCEPT ![n] = f]
         /\ Reply(n, <<yes>>)
  <2>1. IF usable /\ ~again /\ Mirrorable(e, m)
        THEN contact' = [contact EXCEPT ![n] = f] /\ Reply(n, <<yes>>)
        ELSE contact' = [contact EXCEPT ![n] = e]
             /\ Reply(n, IF usable /\ again THEN <<yes>> ELSE <<Error>>)
    BY Zenon DEF HandleReserveAdjust
  <2> HIDE DEF usable, again, e, f, yes, m
  <2> QED BY <2>1
<1> HIDE DEF usable, again
<1> QED BY <1>6, <1>7, <1>8, <1>9

LEMMA MoveReserveAccept ==
    ASSUME HInv, TypeOK', NEW n \in Node, HandleReserveAccept(n)
    PROVE  PInv' /\ Moves(n)
<1> DEFINE p == Peer(n)
           m == Head(net[n])
           c == contact[n]
           e == Adjusted(c)
           d == contact'
           L == Letters'
<1>1. /\ p \in Node /\ p # n /\ TypeOK /\ Incoming(n, "reserve.accept")
      /\ m \in Letters[n] /\ m.type = "reserve.accept" /\ net[n] # <<>>
      /\ UNCHANGED <<xfer, used>>
  BY TwoNodes, HeadMail DEF HInv, IInv, HandleReserveAccept
<1>2. m.id \in AdjustId /\ c \in ContactRecord /\ c.delta \in Int
  BY <1>1, HeadType, View DEF TypeOK, ContactRecord
<1>3. CASE (Reply(n, <<Error>>) \/ Reply(n, <<>>)) /\ UNCHANGED contact
  BY <1>1, <1>3, Ignores
<1>4. CASE c.pend = m.id /\ contact' = [contact EXCEPT ![n] = e] /\ Reply(n, <<>>)
  <2>1. d[n] = e /\ d[Peer(n)] = contact[Peer(n)]
    <3> HIDE DEF e
    <3> QED BY <1>1, <1>4 DEF TypeOK
  <2>2. L[n] \subseteq Letters[n] /\ L[Peer(n)] \subseteq Letters[Peer(n)]
    BY <1>1, <1>4, ReplyMail, OneReply
  <2>3. /\ PairTypes(contact, xfer, Letters) /\ PairInv(contact, xfer, Letters, used)
        /\ LockHeld(contact[n], xfer[n]) /\ Idle(contact[n])
    BY View
  <2>4. PairInv(d, xfer, L, used)
    <3> HIDE DEF d, L, m
    <3> QED BY <1>1, <1>4, <2>1, <2>2, <2>3, AdjustEndPair
  <2>5. PInv'
    BY <1>1, <2>4 DEF PInv, Letters
  <2>6. d[n].ops = Append(c.ops, AdjustOp(c.pend, c.delta)) /\ d[n].applied = c.applied
    <3> HIDE DEF c, d
    <3> QED BY <1>2, <2>1, Zenon DEF e, Adjusted, ContactRecord
  <2>7. AdjustOp(c.pend, c.delta) \in Op
    BY <1>2, <1>4, OpTypes
  <2> QED BY <2>1, <2>5, <2>6, <2>7 DEF Moves, Extends
<1>5. \/ (Reply(n, <<Error>>) \/ Reply(n, <<>>)) /\ UNCHANGED contact
      \/ c.pend = m.id /\ contact' = [contact EXCEPT ![n] = e] /\ Reply(n, <<>>)
  BY DEF HandleReserveAccept
<1> QED BY <1>3, <1>4, <1>5

-----------------------------------------------------------------------------
(***************************************************************************)
(* Timers and losses.                                                      *)
(***************************************************************************)
LEMMA MoveTimer ==
    ASSUME HInv, TypeOK', NEW n \in Node, Timer(n) \/ Lose(n)
    PROVE  PInv' /\ Moves(n)
<1>1. /\ Peer(n) \in Node /\ Peer(n) # n /\ TypeOK
      /\ contact[n] \in ContactRecord /\ xfer[n] \in [TransferId -> TransferRecord]
  BY TwoNodes, View DEF HInv, IInv
<1>2. net' = net => Letters' = Letters
  BY DEF Letters
<1>3. CASE \E t \in TransferId : ClockPasses(n, t)
  BY <1>3, QuietLedger DEF ClockPasses
<1>4. CASE SweepExpired(n)
  <2> DEFINE D == Due(n)
             c == ExpireLock(contact[n], D)
             x == ExpireTransfers(xfer[n], D)
  <2>1. /\ contact' = [contact EXCEPT ![n] = c] /\ xfer' = [xfer EXCEPT ![n] = x]
        /\ net' = net /\ used' = used
    BY <1>4 DEF SweepExpired
  <2>2. Still(contact[n], c) /\ Fades(n, x)
    BY <1>1, StillUpdates, FadeUpdates
  <2> HIDE DEF c, x
  <2>3. /\ contact'[n] = c /\ contact'[Peer(n)] = contact[Peer(n)]
        /\ xfer'[n] = x /\ xfer'[Peer(n)] = xfer[Peer(n)]
    BY <1>1, <2>1 DEF TypeOK
  <2>4. Quiet(n)
    BY <1>2, <2>1, <2>2, <2>3 DEF Quiet
  <2> QED BY <2>4, QuietMove
<1>5. CASE ReconcilePeer(n)
  <2>1. PICK b : /\ contact' = [contact EXCEPT ![n] = [contact[n] EXCEPT !.diverged = b]]
                 /\ xfer' = xfer /\ net' = net /\ used' = used
    BY <1>5 DEF ReconcilePeer
  <2> DEFINE c == [contact[n] EXCEPT !.diverged = b]
  <2>2. Still(contact[n], c) /\ Fades(n, xfer[n])
    BY <1>1, StillUpdates, FadeUpdates
  <2>3. contact' = [contact EXCEPT ![n] = c]
    BY <2>1
  <2> HIDE DEF c
  <2>4. contact'[n] = c /\ contact'[Peer(n)] = contact[Peer(n)]
    BY <1>1, <2>3 DEF TypeOK
  <2>5. Quiet(n)
    BY <1>2, <2>1, <2>2, <2>4 DEF Quiet
  <2> QED BY <2>5, QuietMove
<1>6. CASE Lose(n)
  BY <1>6, Ignores DEF Lose
<1> QED BY <1>3, <1>4, <1>5, <1>6 DEF Timer

-----------------------------------------------------------------------------
(***************************************************************************)
(* The invariant of the two nodes.                                         *)
(***************************************************************************)
LEMMA PairInit == Init => HInv
<1> SUFFICES ASSUME Init PROVE HInv
  OBVIOUS
<1>1. IInv
  BY InvInit
<1>2. /\ \A n \in Node : contact[n] = NoContact
      /\ \A n \in Node, t \in TransferId : xfer[n][t] = NoTransfer
      /\ \A n \in Node : Letters[n] = {}
  BY DEF Init, Letters, Mail
<1>3. /\ NoContact.status = "none" /\ NoContact.id = None /\ NoContact.ops = <<>>
      /\ NoContact.mine = 0 /\ NoContact.theirs = 0 /\ NoContact.pend = None
      /\ NoContact.applied = {}
      /\ NoTransfer.st = "NONE" /\ ~NoTransfer.out
  BY DEF NoContact, NoTransfer
<1> HIDE DEF NoContact, NoTransfer
<1>4. ASSUME NEW n \in Node PROVE Local(n, contact[n], xfer[n], used)
  <2>1. Len(<<>>) = 0
    OBVIOUS
  <2>2. NoRepeat(<<>>) /\ Recorded(contact[n], xfer[n], used)
    BY <1>2, <1>3, <2>1 DEF NoRepeat, Recorded
  <2> QED BY <1>2, <1>3, <2>2 DEF Local
<1>5. ASSUME NEW n \in Node PROVE Agree(n, contact, xfer)
  BY <1>2, <1>3, TwoNodes DEF Agree, Owed
<1>6. Together(contact, xfer)
  BY <1>2, <1>3 DEF Together, Mirror, Node
<1>7. Honest(contact, xfer, Letters, used) /\ ~Live(A, xfer, Letters)
  BY <1>2 DEF Honest, Live, Node
<1>8. PInv
  BY <1>4, <1>5, <1>6, <1>7 DEF PInv, PairInv, Letters
<1>9. \A n \in Node : AppliedInOps(contact[n])
  BY <1>2, <1>3 DEF AppliedInOps
<1> QED BY <1>1, <1>8, <1>9 DEF HInv

LEMMA StepMoves ==
    ASSUME HInv, Next
    PROVE  PInv' /\ IInv' /\ \E n \in Node : Moves(n)
<1>1. IInv'
  BY InvStep DEF HInv
<1>2. TypeOK'
  BY <1>1 DEF IInv
<1>3. PICK n \in Node : Operator(n) \/ Handle(n) \/ Timer(n) \/ Lose(n)
  BY DEF Next
<1>4. PInv' /\ Moves(n)
  BY <1>2, <1>3, MoveOperator, MoveContactHandlers, MoveTransferPropose, MoveTransferAccept,
     MoveTransferCommit, MoveTransferEnds, MoveReserveAdjust, MoveReserveAccept, MoveTimer
     DEF Handle
<1> QED BY <1>1, <1>4

LEMMA AppliedKept ==
    ASSUME NEW c, c.ops \in Seq(Op), AppliedInOps(c), NEW d, Extends(c, d)
    PROVE  AppliedInOps(d)
<1> SUFFICES ASSUME NEW a \in d.applied
             PROVE  \E i \in 1..Len(d.ops) : d.ops[i][1] = "adjust" /\ d.ops[i][2] = a
  BY DEF AppliedInOps
<1>1. CASE d.ops = c.ops /\ d.applied = c.applied
  BY <1>1 DEF AppliedInOps
<1>2. ASSUME NEW e \in Op, d.ops = Append(c.ops, e),
             \A b \in d.applied : b \in c.applied \/ (e[1] = "adjust" /\ e[2] = b)
      PROVE  \E i \in 1..Len(d.ops) : d.ops[i][1] = "adjust" /\ d.ops[i][2] = a
  <2>1. /\ Len(d.ops) = Len(c.ops) + 1 /\ Len(c.ops) \in Nat /\ d.ops[Len(c.ops) + 1] = e
        /\ \A i \in 1..Len(c.ops) : d.ops[i] = c.ops[i]
    BY <1>2
  <2>2. CASE a \in c.applied
    <3>1. PICK i \in 1..Len(c.ops) : c.ops[i][1] = "adjust" /\ c.ops[i][2] = a
      BY <2>2 DEF AppliedInOps
    <3>2. i \in 1..Len(d.ops) /\ d.ops[i] = c.ops[i]
      BY <2>1
    <3> QED BY <3>1, <3>2
  <2>3. CASE e[1] = "adjust" /\ e[2] = a
    <3>1. Len(c.ops) + 1 \in 1..Len(d.ops)
      BY <2>1
    <3> QED BY <2>1, <2>3, <3>1
  <2> QED BY <1>2, <2>2, <2>3
<1> QED BY <1>1, <1>2 DEF Extends

LEMMA PairStep == HInv /\ [Next]_vars => HInv'
<1> SUFFICES ASSUME HInv, [Next]_vars PROVE HInv'
  OBVIOUS
<1>1. CASE Next
  <2>1. PICK n \in Node : Moves(n)
    BY <1>1, StepMoves
  <2>2. PInv' /\ IInv'
    BY <1>1, StepMoves
  <2>3. ASSUME NEW k \in Node PROVE AppliedInOps(contact'[k])
    <3>1. contact[k].ops \in Seq(Op) /\ AppliedInOps(contact[k])
      BY View DEF HInv, ContactRecord
    <3>2. CASE k = n
      BY <2>1, <3>1, <3>2, AppliedKept DEF Moves
    <3>3. CASE k # n
      <4>1. contact'[k] = contact[k]
        BY <2>1, <3>3, TwoNodes DEF Moves
      <4> QED BY <3>1, <4>1
    <3> QED BY <3>2, <3>3
  <2> QED BY <2>2, <2>3 DEF HInv
<1>2. CASE UNCHANGED vars
  <2>1. UNCHANGED <<contact, xfer, bal, net, late, used, lost>>
    BY <1>2 DEF vars
  <2>2. IInv'
    BY <2>1, InvStep DEF HInv
  <2>3. PInv'
    BY <2>1 DEF HInv, PInv
  <2>4. \A n \in Node : AppliedInOps(contact'[n])
    BY <2>1 DEF HInv
  <2> QED BY <2>2, <2>3, <2>4 DEF HInv
<1> QED BY <1>1, <1>2

LEMMA PairInvariant == Spec => []HInv
<1>1. Init => HInv
  BY PairInit
<1>2. HInv /\ [Next]_vars => HInv'
  BY PairStep
<1> QED BY <1>1, <1>2, PTL DEF Spec

-----------------------------------------------------------------------------
(***************************************************************************)
(* What the invariant says of two states, now and after a step.            *)
(***************************************************************************)
LEMMA NextView ==
    ASSUME HInv'
    PROVE  /\ PairTypes(contact', xfer', Letters')
           /\ PairInv(contact', xfer', Letters', used')
<1>1. TypeOK'
  BY DEF HInv, IInv
<1>2. ASSUME NEW k \in Node PROVE Letters'[k] \subseteq Message
  BY <1>1 DEF Letters, Mail, TypeOK
<1>3. PairTypes(contact', xfer', Letters')
  BY <1>1, <1>2 DEF PairTypes, TypeOK
<1>4. PairInv(contact', xfer', Letters', used')
  BY DEF HInv, PInv, Letters
<1> QED BY <1>3, <1>4

(* As far as both nodes have got, they have applied the same operations.   *)
LEMMA SamePrefix ==
    ASSUME NEW c, NEW x, NEW M, NEW u, PairTypes(c, x, M), PairInv(c, x, M, u),
           NEW n \in Node, NEW i \in Nat,
           i <= Len(c[n].ops), i <= Len(c[Peer(n)].ops)
    PROVE  SubSeq(c[n].ops, 1, i) = SubSeq(c[Peer(n)].ops, 1, i)
<1> DEFINE p == Peer(n)
           s == c[n].ops
           r == c[p].ops
<1>1. p \in Node /\ Peer(p) = n
  BY TwoNodes
<1>2. /\ s \in Seq(Op) /\ r \in Seq(Op) /\ Len(s) \in Nat /\ Len(r) \in Nat
      /\ (s = <<>> <=> Len(s) = 0) /\ (r = <<>> <=> Len(r) = 0)
  BY <1>1, PairFields
<1>3. \/ s = r \/ (\E e \in Op : s = Append(r, e)) \/ (\E e \in Op : r = Append(s, e))
      \/ s = <<>> \/ r = <<>>
  <2>1. Mirror(c) \/ Ahead(n, c, x) \/ Ahead(p, c, x)
    BY Shape
  <2>2. CASE Mirror(c)
    BY <2>2, MirrorView
  <2>3. CASE Ahead(n, c, x)
    BY <2>3, AheadByOne
  <2>4. CASE Ahead(p, c, x)
    BY <1>1, <2>4, AheadByOne
  <2> QED BY <2>1, <2>2, <2>3, <2>4
<1> HIDE DEF s, r
<1>4. \A j \in 1..i : s[j] = r[j]
  <2>1. CASE s = r
    BY <2>1
  <2>2. ASSUME NEW e \in Op, s = Append(r, e) PROVE \A j \in 1..Len(r) : s[j] = r[j]
    BY <1>2, <2>2
  <2>3. ASSUME NEW e \in Op, r = Append(s, e) PROVE \A j \in 1..Len(s) : s[j] = r[j]
    BY <1>2, <2>3
  <2>4. i <= Len(s) /\ i <= Len(r)
    BY DEF s, r
  <2>5. CASE s = <<>> \/ r = <<>>
    BY <1>2, <2>4, <2>5
  <2> QED BY <1>2, <1>3, <2>1, <2>2, <2>3, <2>4, <2>5
<1>5. SubSeq(s, 1, i) = SubSeq(r, 1, i)
  <2>1. i <= Len(s) /\ i <= Len(r)
    BY DEF s, r
  <2>2. /\ SubSeq(s, 1, i) \in Seq(Op) /\ Len(SubSeq(s, 1, i)) = i
        /\ SubSeq(r, 1, i) \in Seq(Op) /\ Len(SubSeq(r, 1, i)) = i
        /\ \A j \in 1..i : SubSeq(s, 1, i)[j] = s[j] /\ SubSeq(r, 1, i)[j] = r[j]
    BY <1>2, <2>1
  <2> QED BY <1>4, <2>2
<1> QED BY <1>5 DEF s, r

-----------------------------------------------------------------------------
(* Two nodes with the same history mirror each other's reserves.           *)
THEOREM ReservesMirror == Spec => []MirroredReserves
<1>1. HInv => MirroredReserves
  <2> SUFFICES ASSUME HInv, contact[A].ops = contact[B].ops
               PROVE  /\ contact[A].mine = contact[B].theirs
                      /\ contact[A].theirs = contact[B].mine
    BY DEF MirroredReserves
  <2>1. A \in Node /\ Peer(A) = B
    BY Constants DEF Node, Peer
  <2>2. Mirror(contact)
    BY <2>1, Shape, View
  <2> QED BY <2>2 DEF Mirror
<1> QED BY <1>1, PairInvariant, PTL

(* A proposal at the payee's own op_seq has the payee's own price.         *)
THEOREM PriceIsDecided == Spec => []SeqDecidesPrice
<1>1. HInv => SeqDecidesPrice
  <2> DEFINE m(n) == Head(net[n])
  <2> SUFFICES ASSUME HInv, NEW n \in Node, Incoming(n, "transfer.propose"),
                      Open(contact[n]), m(n).seq = OpSeq(contact[n])
               PROVE  PoolPrice(contact[n].theirs, contact[n].mine, m(n).src) = m(n).dst
    BY DEF SeqDecidesPrice
  <2>1. m(n) \in Letters[n] /\ m(n).type = "transfer.propose"
    BY HeadMail DEF HInv, IInv
  <2>2. TrueOfProposal(n, m(n), contact, xfer)
    BY <2>1, View DEF PairInv, Honest, TrueOf
  <2>3. contact[n].ops # <<>>
    BY View DEF Open, Local
  <2> QED BY <2>2, <2>3 DEF TrueOfProposal, Priced
<1> QED BY <1>1, PairInvariant, PTL

(* Nothing is paid out that has not been paid in.                          *)
THEOREM PayoutIsPaid == Spec => []NoPayoutWithoutPayment
<1>1. HInv => NoPayoutWithoutPayment
  <2> SUFFICES ASSUME HInv, NEW n \in Node, NEW t \in TransferId,
                      xfer[n][t].st = "SETTLED", ~xfer[n][t].out
               PROVE  LET p == xfer[Peer(n)][t]
                      IN  p.out /\ p.st \in {"COMMITTED", "SETTLED"}
                          /\ p.src = xfer[n][t].src /\ p.dst = xfer[n][t].dst
    BY DEF NoPayoutWithoutPayment
  <2>1. Agree(n, contact, xfer)
    BY View DEF PairInv
  <2> QED BY <2>1 DEF Agree, Paid
<1> QED BY <1>1, PairInvariant, PTL

(* Only the checkpoint of a contact without a seed looks like a fork.      *)
THEOREM NothingElseLooksForked == Spec => []OnlySeedlessLooksForked
<1>1. HInv => OnlySeedlessLooksForked
  <2> SUFFICES ASSUME HInv, NEW n \in Node, NEW k \in CheckpointsOf(Peer(n)),
                      Contradicts(contact[n], k)
               PROVE  k.root = <<>>
    BY DEF OnlySeedlessLooksForked
  <2> DEFINE p == Peer(n)
             s == contact[p].ops
             r == contact[n].ops
  <2>1. p \in Node /\ s \in Seq(Op) /\ r \in Seq(Op) /\ Len(r) \in Nat /\ Len(s) \in Nat
    BY TwoNodes, View, PairFields
  <2>2. PICK i \in 0..Len(s) : /\ k.root = SubSeq(s, 1, i)
                               /\ k.seq = (IF i = 0 THEN 0 ELSE i - 1)
    BY DEF CheckpointsOf
  <2>3. CASE i = 0
    BY <2>1, <2>2, <2>3
  <2>4. CASE i # 0
    <3>1. i \in Nat /\ i <= Len(s) /\ k.seq = i - 1 /\ k.seq + 1 = i
      BY <2>1, <2>2, <2>4
    <3>2. k.seq < Len(r) /\ k.root # SubSeq(r, 1, i)
      BY <3>1 DEF Contradicts
    <3>3. i <= Len(r)
      BY <2>1, <3>1, <3>2
    <3>4. SubSeq(r, 1, i) = SubSeq(s, 1, i)
      BY <3>1, <3>3, View, SamePrefix
    <3> QED BY <2>2, <3>2, <3>4
  <2> QED BY <2>3, <2>4
<1> QED BY <1>1, PairInvariant, PTL

-----------------------------------------------------------------------------
(***************************************************************************)
(* The two nodes implement SharedHistory.                                  *)
(***************************************************************************)
Hist(c) == IF Len(c[A].ops) > Len(c[B].ops) THEN c[A].ops ELSE c[B].ops

At(c) == [n \in Node |-> Len(c[n].ops)]

LEMMA HistView ==
    ASSUME NEW c, NEW n \in Node, Len(c[n].ops) \in Nat, Len(c[Peer(n)].ops) \in Nat
    PROVE  /\ Len(c[n].ops) > Len(c[Peer(n)].ops) => Hist(c) = c[n].ops
           /\ Len(c[n].ops) < Len(c[Peer(n)].ops) => Hist(c) = c[Peer(n)].ops
           /\ c[n].ops = c[Peer(n)].ops => Hist(c) = c[n].ops
<1>1. (n = A /\ Peer(n) = B) \/ (n = B /\ Peer(n) = A)
  BY Constants DEF Peer, Node
<1> QED BY <1>1 DEF Hist

(* The first i elements of a sequence that has been appended to.           *)
LEMMA AppendPrefix ==
    ASSUME NEW s \in Seq(Op), NEW e \in Op
    PROVE  SubSeq(Append(s, e), 1, Len(s)) = s
<1>1. Len(s) \in Nat /\ Append(s, e) \in Seq(Op) /\ Len(Append(s, e)) = Len(s) + 1
  OBVIOUS
<1>2. \A i \in 1..Len(s) : Append(s, e)[i] = s[i]
  OBVIOUS
<1>3. /\ SubSeq(Append(s, e), 1, Len(s)) \in Seq(Op)
      /\ Len(SubSeq(Append(s, e), 1, Len(s))) = Len(s)
      /\ \A i \in 1..Len(s) : SubSeq(Append(s, e), 1, Len(s))[i] = Append(s, e)[i]
  BY <1>1
<1> QED BY <1>1, <1>2, <1>3

(* A step that appends an operation at n leads or follows.                 *)
LEMMA AppendImplements ==
    ASSUME NEW c, NEW x, NEW M, NEW u, PairTypes(c, x, M), PairInv(c, x, M, u),
           NEW d, NEW y, NEW L, NEW v, PairTypes(d, y, L), PairInv(d, y, L, v),
           NEW n \in Node, d[Peer(n)] = c[Peer(n)],
           NEW e \in Op, d[n].ops = Append(c[n].ops, e)
    PROVE  LET p == Peer(n)
           IN  /\ At(d) = [At(c) EXCEPT ![n] = @ + 1]
               /\ \/ /\ \A q \in Node : At(c)[q] = Len(Hist(c))
                     /\ Len(Hist(d)) = Len(Hist(c)) + 1
                     /\ SubSeq(Hist(d), 1, Len(Hist(c))) = Hist(c)
                     /\ \A i \in 1..Len(Hist(c)) : Hist(d)[i] # Hist(d)[Len(Hist(d))]
                  \/ At(c)[n] < Len(Hist(c)) /\ Hist(d) = Hist(c)
<1> DEFINE p == Peer(n)
           s == c[n].ops
           r == c[p].ops
<1>1. p \in Node /\ p # n /\ Peer(p) = n /\ (\A q \in Node : q = n \/ q = p)
  BY TwoNodes
<1>2. /\ s \in Seq(Op) /\ r \in Seq(Op) /\ Len(s) \in Nat /\ Len(r) \in Nat
      /\ d[n].ops = Append(s, e) /\ d[p].ops = r /\ Len(d[n].ops) = Len(s) + 1
      /\ At(c)[n] = Len(s) /\ At(c)[p] = Len(r)
  BY <1>1, PairFields DEF At
<1>3. At(d) = [At(c) EXCEPT ![n] = @ + 1]
  BY <1>1, <1>2 DEF At
<1>4. /\ Ahead(n, c, x) => Len(s) = Len(r) + 1
      /\ Ahead(p, c, x) => Len(r) = Len(s) + 1
      /\ Ahead(n, d, y) => Len(s) + 1 = Len(r) + 1
      /\ Ahead(p, d, y) => Len(r) = Len(s) + 2
  <2>1. /\ Ahead(n, c, x) => Len(s) = Len(r) + 1
        /\ Ahead(p, c, x) => Len(r) = Len(s) + 1
    BY <1>1, AheadByOne
  <2>2. /\ Ahead(n, d, y) => Len(d[n].ops) = Len(d[p].ops) + 1
        /\ Ahead(p, d, y) => Len(d[p].ops) = Len(d[n].ops) + 1
    BY <1>1, AheadByOne
  <2> QED BY <1>2, <2>1, <2>2
<1>5. /\ Mirror(c) \/ Ahead(n, c, x) \/ Ahead(p, c, x)
      /\ Mirror(d) \/ Ahead(n, d, y) \/ Ahead(p, d, y)
  BY Shape
<1>6. (Mirror(c) => s = r) /\ (Mirror(d) => d[n].ops = r)
  BY <1>2, MirrorView
<1> HIDE DEF s, r
<1>7. CASE s = r
  <2>1. Hist(c) = s /\ Hist(d) = Append(s, e)
    BY <1>2, <1>7, HistView, SMTT(30) DEF s, r
  <2>2. SubSeq(Hist(d), 1, Len(Hist(c))) = Hist(c)
    BY <1>2, <2>1, AppendPrefix
  <2>3. NoRepeat(d[n].ops)
    BY DEF PairInv, Local
  <2>4. \A i \in 1..Len(s) : Hist(d)[i] # Hist(d)[Len(Hist(d))]
    BY <1>2, <2>1, <2>3 DEF NoRepeat
  <2>5. \A q \in Node : At(c)[q] = Len(Hist(c))
    BY <1>1, <1>2, <1>7, <2>1
  <2> QED BY <1>2, <1>3, <2>1, <2>2, <2>4, <2>5
<1>8. CASE s # r
  <2>1. Len(r) = Len(s) + 1 /\ d[n].ops = r
    BY <1>2, <1>4, <1>5, <1>6, <1>8
  <2>2. Hist(c) = r /\ Hist(d) = r
    <3>1. Hist(c) = r
      BY <1>2, <2>1, HistView DEF s, r
    <3>2. Hist(d) = r
      BY <1>2, <2>1, HistView
    <3> QED BY <3>1, <3>2
  <2> QED BY <1>2, <1>3, <2>1, <2>2
<1> QED BY <1>7, <1>8

(* Every step of Contact is a step of SharedHistory or none: a node that   *)
(* appends an operation leads when the other has applied all of its own,   *)
(* and otherwise follows with the very operation the other is ahead by.    *)
THEOREM HistoryIsShared == Spec => OneHistory
<1> DEFINE hist == Hist(contact)
           at == At(contact)
<1>1. Init => History!Init
  <2> SUFFICES ASSUME Init PROVE History!Init
    OBVIOUS
  <2>1. \A n \in Node : contact[n].ops = <<>>
    BY DEF Init, NoContact
  <2>2. A \in Node /\ B \in Node /\ Len(<<>>) = 0
    BY DEF Node
  <2> QED BY <2>1, <2>2 DEF History!Init
<1>2. HInv /\ HInv' /\ [Next]_vars => [History!Next]_<<hist, at>>
  <2> SUFFICES ASSUME HInv, HInv', [Next]_vars
               PROVE  History!Next \/ UNCHANGED <<hist, at>>
    OBVIOUS
  <2>1. CASE UNCHANGED vars
    BY <2>1 DEF vars, Hist, At
  <2>2. CASE Next
    <3>1. PICK n \in Node : Moves(n)
      BY <2>2, StepMoves
    <3>2. Peer(n) \in Node /\ Peer(n) # n /\ (\A k \in Node : k = n \/ k = Peer(n))
      BY TwoNodes
    <3>3. CASE contact'[n].ops = contact[n].ops
      <4>1. \A k \in Node : contact'[k].ops = contact[k].ops
        BY <3>1, <3>2, <3>3 DEF Moves
      <4> QED BY <4>1 DEF Hist, At, Node
    <3>4. ASSUME NEW e \in Op, contact'[n].ops = Append(contact[n].ops, e)
          PROVE  History!Next
      <4> DEFINE hist1 == Hist(contact')
                 at1 == At(contact')
      <4>1. /\ at1 = [at EXCEPT ![n] = @ + 1]
            /\ \/ /\ \A q \in Node : at[q] = Len(hist)
                  /\ Len(hist1) = Len(hist) + 1
                  /\ SubSeq(hist1, 1, Len(hist)) = hist
                  /\ \A i \in 1..Len(hist) : hist1[i] # hist1[Len(hist1)]
               \/ at[n] < Len(hist) /\ hist1 = hist
        <5> DEFINE d == contact'
                   y == xfer'
                   L == Letters'
                   v == used'
        <5>1. PairTypes(d, y, L) /\ PairInv(d, y, L, v)
          BY NextView
        <5>2. d[Peer(n)] = contact[Peer(n)] /\ d[n].ops = Append(contact[n].ops, e)
          BY <3>1, <3>4 DEF Moves
        <5> HIDE DEF d, y, L, v
        <5>3. PairTypes(contact, xfer, Letters) /\ PairInv(contact, xfer, Letters, used)
          BY View
        <5>4. /\ At(d) = [At(contact) EXCEPT ![n] = @ + 1]
              /\ \/ /\ \A q \in Node : At(contact)[q] = Len(Hist(contact))
                    /\ Len(Hist(d)) = Len(Hist(contact)) + 1
                    /\ SubSeq(Hist(d), 1, Len(Hist(contact))) = Hist(contact)
                    /\ \A i \in 1..Len(Hist(contact)) : Hist(d)[i] # Hist(d)[Len(Hist(d))]
                 \/ At(contact)[n] < Len(Hist(contact)) /\ Hist(d) = Hist(contact)
          BY <5>1, <5>2, <5>3, AppendImplements
        <5> QED BY <5>4 DEF d
      <4>2. CASE at1 = [at EXCEPT ![n] = @ + 1] /\ at[n] < Len(hist) /\ hist1 = hist
        <5>1. History!Follow(n)
          BY <4>2 DEF History!Follow, Hist, At
        <5> QED BY <5>1 DEF History!Next
      <4>3. CASE /\ at1 = [at EXCEPT ![n] = @ + 1]
                 /\ \A q \in Node : at[q] = Len(hist)
                 /\ Len(hist1) = Len(hist) + 1
                 /\ SubSeq(hist1, 1, Len(hist)) = hist
                 /\ \A i \in 1..Len(hist) : hist1[i] # hist1[Len(hist1)]
        <5>1. History!Lead(n)
          BY <4>3 DEF History!Lead, Hist, At
        <5> QED BY <5>1 DEF History!Next
      <4> QED BY <4>1, <4>2, <4>3
    <3> QED BY <3>1, <3>3, <3>4 DEF Moves, Extends
  <2> QED BY <2>1, <2>2
<1> QED BY <1>1, <1>2, PairInvariant, PTL DEF Spec, OneHistory, History!Spec, Hist, At

-----------------------------------------------------------------------------
(***************************************************************************)
(* What the pool of one node gains and loses by trading, for any values of *)
(* the constants: a trade never makes it worse, and what is paid in is     *)
(* paid out.                                                               *)
(***************************************************************************)

(* A transfer is priced by the reserves that are still there when it is    *)
(* committed, and only the ledger of a closed contact refuses a payout.    *)
Traded(c, x) ==
    /\ \A t \in TransferId :
          /\ x[t].st = "PROPOSED" =>
                /\ x[t].dst > 0 /\ x[t].dst = PoolPrice(c.mine, c.theirs, x[t].src)
          /\ x[t].st = "ACCEPTED" =>
                x[t].dst > 0 /\ x[t].dst = PoolPrice(c.theirs, c.mine, x[t].src)
          /\ x[t].st = "COMMITTED" /\ ~x[t].out => c.closed
    /\ c.pend # None => c.delta # 0

TInv == HInv /\ \A n \in Node : Traded(contact[n], xfer[n])

(* The product of the reserves only shrinks by a reserve adjustment.       *)
Keeps(c, d) ==
    c.delta = d.delta /\ c.applied = d.applied => d.mine * d.theirs >= c.mine * c.theirs

-----------------------------------------------------------------------------
(***************************************************************************)
(* Steps of one node.                                                      *)
(***************************************************************************)

(* Rounding down leaves the difference in the pool.                        *)
LEMMA TradeKeepsProduct ==
    ASSUME NEW rSrc \in Int, NEW rDst \in Int, NEW src \in Int,
           PoolPrice(rSrc, rDst, src) > 0
    PROVE  (rSrc + src) * (rDst - PoolPrice(rSrc, rDst, src)) >= rSrc * rDst
<1>1. src > 0 /\ rSrc > 0 /\ rDst > 0
  BY DEF PoolPrice
<1> DEFINE p == rDst * src
           q == rSrc + src
           d == p \div q
<1>2. p \in Nat /\ q \in Nat \ {0} /\ d \in Nat /\ d = PoolPrice(rSrc, rDst, src)
  BY <1>1, PriceType DEF PoolPrice
<1>3. q * d <= p
  <2> HIDE DEF p, q
  <2> QED BY <1>2
<1>4. q * (rDst - d) = q * rDst - q * d
  <2> HIDE DEF p, q, d
  <2> QED BY <1>2
<1>5. q * rDst = rSrc * rDst + p
  OBVIOUS
<1>6. rSrc * rDst \in Int /\ q * rDst \in Int /\ q * d \in Int
  <2> HIDE DEF p, q, d
  <2> QED BY <1>2
<1> HIDE DEF p, q, d
<1>7. q * (rDst - d) >= rSrc * rDst
  BY <1>2, <1>3, <1>4, <1>5, <1>6
<1> QED BY <1>2, <1>7 DEF q

(* Transfers end, but none is proposed, accepted or committed.             *)
Settles(x, y) ==
    \A t \in TransferId :
       /\ SameTransfer(x[t], y[t])
       /\ y[t].st = x[t].st \/ y[t].st \notin {"PROPOSED", "ACCEPTED", "COMMITTED"}

LEMMA StillTrade ==
    ASSUME NEW c \in ContactRecord, NEW x, Traded(c, x),
           NEW d, Still(c, d), c.closed => d.closed,
           NEW y, Settles(x, y)
    PROVE  Traded(d, y) /\ Keeps(c, d)
<1>1. c.mine * c.theirs \in Int
  BY DEF ContactRecord
<1>2. /\ d.mine = c.mine /\ d.theirs = c.theirs /\ d.pend = c.pend /\ d.delta = c.delta
  BY DEF Still, SameCore
<1>3. \A t \in TransferId :
         /\ y[t].st = "PROPOSED" =>
               /\ y[t].dst > 0 /\ y[t].dst = PoolPrice(d.mine, d.theirs, y[t].src)
         /\ y[t].st = "ACCEPTED" =>
               y[t].dst > 0 /\ y[t].dst = PoolPrice(d.theirs, d.mine, y[t].src)
         /\ y[t].st = "COMMITTED" /\ ~y[t].out => d.closed
  BY <1>2 DEF Traded, Settles, SameTransfer
<1>4. d.pend # None => d.delta # 0
  BY <1>2 DEF Traded
<1>5. Traded(d, y)
  BY <1>3, <1>4 DEF Traded
<1> QED BY <1>1, <1>2, <1>5 DEF Keeps

(* A transfer is proposed or accepted.                                     *)
LEMMA BeginTrade ==
    ASSUME NEW c \in ContactRecord, NEW x, Traded(c, x),
           NEW d, Still(c, d), d.closed = c.closed,
           NEW t \in TransferId, NEW r, NEW y, Adds(x, y, t, r),
           \/ r.st = "PROPOSED" /\ r.dst > 0 /\ r.dst = PoolPrice(c.mine, c.theirs, r.src)
           \/ r.st = "ACCEPTED" /\ r.dst > 0 /\ r.dst = PoolPrice(c.theirs, c.mine, r.src)
    PROVE  Traded(d, y) /\ Keeps(c, d)
<1>1. c.mine * c.theirs \in Int
  BY DEF ContactRecord
<1>2. d.mine = c.mine /\ d.theirs = c.theirs /\ d.pend = c.pend /\ d.delta = c.delta
  BY DEF Still, SameCore
<1>3. Traded(d, y)
  BY <1>2 DEF Traded, Adds
<1> QED BY <1>1, <1>2, <1>3 DEF Keeps

(* The payer commits.                                                      *)
LEMMA CommitOutTrade ==
    ASSUME NEW c \in ContactRecord, NEW x \in [TransferId -> TransferRecord],
           Traded(c, x), LockHeld(c, x), Idle(c),
           NEW t \in TransferId, x[t].st = "PROPOSED", x[t].out,
           NEW d, d = PaidOut(c, t, x[t].src, x[t].dst), NEW y, Becomes(x, y, t, "COMMITTED")
    PROVE  Traded(d, y) /\ Keeps(c, d)
<1> DEFINE src == x[t].src
           dst == x[t].dst
<1>1. /\ d.mine = c.mine + src /\ d.theirs = c.theirs - dst
      /\ d.pend = c.pend /\ d.delta = c.delta
  BY PaidOutFields
<1>2. d.closed = c.closed
  BY PoolFields
<1>3. /\ src \in Nat /\ dst \in Nat /\ c.mine \in Int /\ c.theirs \in Int
  BY DEF ContactRecord, TransferRecord
<1>4. dst > 0 /\ dst = PoolPrice(c.mine, c.theirs, src)
  BY DEF Traded
<1>5. \A w \in TransferId : x[w].st \in {"PROPOSED", "ACCEPTED"} => w = t
  BY Locked DEF InFlight
<1>6. \A w \in TransferId : /\ y[w].st \notin {"PROPOSED", "ACCEPTED"}
                            /\ y[w].st = "COMMITTED" /\ ~y[w].out => c.closed
  BY <1>5 DEF Becomes, SameTransfer, Traded
<1>7. c.pend # None => c.delta # 0
  BY DEF Traded
<1>8. Traded(d, y)
  BY <1>1, <1>2, <1>6, <1>7 DEF Traded
<1>9. d.mine * d.theirs >= c.mine * c.theirs
  <2> HIDE DEF src, dst
  <2> QED BY <1>1, <1>3, <1>4, TradeKeepsProduct
<1> QED BY <1>8, <1>9 DEF Keeps

(* The payee commits.                                                      *)
LEMMA CommitInTrade ==
    ASSUME NEW c \in ContactRecord, NEW x \in [TransferId -> TransferRecord],
           Traded(c, x), LockHeld(c, x), Idle(c),
           NEW t \in TransferId, x[t].st = "ACCEPTED",
           NEW d, d = PaidIn(c, t, x[t].src, x[t].dst), NEW y, Becomes(x, y, t, "SETTLED")
    PROVE  Traded(d, y) /\ Keeps(c, d)
<1> DEFINE src == x[t].src
           dst == x[t].dst
<1>1. /\ d.mine = c.mine - dst /\ d.theirs = c.theirs + src
      /\ d.pend = c.pend /\ d.delta = c.delta
  BY PaidInFields
<1>2. d.closed = c.closed
  BY Zenon DEF PaidIn, ContactRecord
<1>3. /\ src \in Nat /\ dst \in Nat /\ c.mine \in Int /\ c.theirs \in Int
  BY DEF ContactRecord, TransferRecord
<1>4. dst > 0 /\ dst = PoolPrice(c.theirs, c.mine, src)
  BY DEF Traded
<1>5. \A w \in TransferId : x[w].st \in {"PROPOSED", "ACCEPTED"} => w = t
  BY Locked DEF InFlight
<1>6. \A w \in TransferId : /\ y[w].st \notin {"PROPOSED", "ACCEPTED"}
                            /\ y[w].st = "COMMITTED" /\ ~y[w].out => c.closed
  BY <1>5 DEF Becomes, SameTransfer, Traded
<1>7. c.pend # None => c.delta # 0
  BY DEF Traded
<1>8. Traded(d, y)
  BY <1>1, <1>2, <1>6, <1>7 DEF Traded
<1>9. d.mine * d.theirs >= c.mine * c.theirs
  <2> HIDE DEF src, dst
  <2>1. (c.theirs + src) * (c.mine - dst) >= c.theirs * c.mine
    BY <1>3, <1>4, TradeKeepsProduct
  <2>2. /\ (c.theirs + src) * (c.mine - dst) = (c.mine - dst) * (c.theirs + src)
        /\ c.theirs * c.mine = c.mine * c.theirs
    BY <1>3
  <2> QED BY <1>1, <2>1, <2>2
<1> QED BY <1>8, <1>9 DEF Keeps

(* A step of an idle contact that is no trade: nothing is in flight before *)
(* or after it.                                                            *)
LEMMA IdleTrade ==
    ASSUME NEW c \in ContactRecord, NEW x, Traded(c, x),
           \A t \in TransferId : x[t].st \notin InFlight,
           NEW d, d.pend # None => d.delta # 0
    PROVE  Traded(d, x)
BY DEF Traded, InFlight

-----------------------------------------------------------------------------
(***************************************************************************)
(* Steps of the system: n's records change, the peer's do not.             *)
(***************************************************************************)
TradeStep(n) ==
    LET p == Peer(n)
    IN  /\ contact'[p] = contact[p] /\ xfer'[p] = xfer[p] /\ bal'[p] = bal[p]
        /\ Traded(contact'[n], xfer'[n]) /\ Keeps(contact[n], contact'[n])

LEMMA TradeView ==
    ASSUME TInv, NEW n \in Node
    PROVE  /\ HInv /\ IInv /\ TypeOK
           /\ contact[n] \in ContactRecord /\ contact = [contact EXCEPT ![n] = contact[n]]
           /\ xfer[n] \in [TransferId -> TransferRecord]
           /\ xfer = [xfer EXCEPT ![n] = xfer[n]]
           /\ bal[n] \in [Account -> Int] /\ bal = [bal EXCEPT ![n] = bal[n]]
           /\ Traded(contact[n], xfer[n])
           /\ LockHeld(contact[n], xfer[n]) /\ Idle(contact[n])
           /\ Local(n, contact[n], xfer[n], used)
BY InvView, View DEF TInv, HInv, IInv

LEMMA OneTrade ==
    ASSUME TInv, NEW n \in Node,
           NEW d, contact' = [contact EXCEPT ![n] = d],
           NEW y, xfer' = [xfer EXCEPT ![n] = y],
           NEW e, bal' = [bal EXCEPT ![n] = e],
           Traded(d, y), Keeps(contact[n], d)
    PROVE  TradeStep(n)
<1>1. Peer(n) \in Node /\ Peer(n) # n /\ TypeOK
  BY TwoNodes, TradeView
<1>2. /\ contact'[n] = d /\ contact'[Peer(n)] = contact[Peer(n)]
      /\ xfer'[n] = y /\ xfer'[Peer(n)] = xfer[Peer(n)]
      /\ bal'[n] = e /\ bal'[Peer(n)] = bal[Peer(n)]
  BY <1>1 DEF TypeOK
<1> QED BY <1>2 DEF TradeStep

(* A node's own books stay as they are, but for locks and ended transfers. *)
LEMMA StillStep ==
    ASSUME TInv, NEW n \in Node,
           NEW d, contact' = [contact EXCEPT ![n] = d], Still(contact[n], d),
           contact[n].closed => d.closed,
           NEW y, xfer' = [xfer EXCEPT ![n] = y], Settles(xfer[n], y), bal' = bal
    PROVE  TradeStep(n)
<1>1. Traded(d, y) /\ Keeps(contact[n], d)
  BY TradeView, StillTrade
<1>2. bal' = [bal EXCEPT ![n] = bal[n]]
  BY TradeView
<1> QED BY <1>1, <1>2, OneTrade

LEMMA SettleUpdates ==
    ASSUME NEW x \in [TransferId -> TransferRecord]
    PROVE  /\ Settles(x, x)
           /\ \A D : Settles(x, ExpireTransfers(x, D))
           /\ \A t \in TransferId :
                 \A st \in TransferStates \ {"PROPOSED", "ACCEPTED", "COMMITTED"} :
                    Settles(x, [x EXCEPT ![t].st = st])
<1>1. Settles(x, x)
  BY DEF Settles, SameTransfer
<1>2. ASSUME NEW D PROVE Settles(x, ExpireTransfers(x, D))
  <2> SUFFICES ASSUME NEW t \in TransferId
               PROVE  /\ SameTransfer(x[t], ExpireTransfers(x, D)[t])
                      /\ \/ ExpireTransfers(x, D)[t].st = x[t].st
                         \/ ExpireTransfers(x, D)[t].st
                               \notin {"PROPOSED", "ACCEPTED", "COMMITTED"}
    BY DEF Settles
  <2>1. ExpireTransfers(x, D)[t] = x[t] \/ ExpireTransfers(x, D)[t] = [x[t] EXCEPT !.st = "EXPIRED"]
    BY DEF ExpireTransfers
  <2> QED BY <2>1 DEF SameTransfer, TransferRecord
<1>3. ASSUME NEW t \in TransferId,
             NEW st \in TransferStates \ {"PROPOSED", "ACCEPTED", "COMMITTED"}
      PROVE  Settles(x, [x EXCEPT ![t].st = st])
  <2> DEFINE y == [x EXCEPT ![t].st = st]
  <2>1. Becomes(x, y, t, st)
    BY StateFields
  <2> HIDE DEF y
  <2>2. Settles(x, y)
    BY <2>1 DEF Becomes, Settles
  <2> QED BY <2>2 DEF y
<1> QED BY <1>1, <1>2, <1>3

(* A contact stays closed.                                                 *)
LEMMA ClosedFields ==
    ASSUME NEW c \in ContactRecord, NEW t, NEW D, NEW op, NEW b
    PROVE  /\ Release(c, t).closed = c.closed /\ ExpireLock(c, D).closed = c.closed
           /\ Lock(c, op).closed = c.closed /\ [c EXCEPT !.diverged = b].closed = c.closed
           /\ [c EXCEPT !.closed = TRUE].closed = TRUE
BY Zenon DEF Release, ExpireLock, Lock, ContactRecord

LEMMA ExpireTrade ==
    ASSUME TInv, NEW n \in Node, NEW D, D \subseteq Due(n),
           NEW c, c = ExpireLock(contact[n], D), NEW x, x = ExpireTransfers(xfer[n], D)
    PROVE  /\ c \in ContactRecord /\ x \in [TransferId -> TransferRecord]
           /\ Traded(c, x) /\ LockHeld(c, x) /\ Idle(c)
           /\ Still(contact[n], c) /\ c.closed = contact[n].closed
           /\ Settles(xfer[n], x)
<1>1. c \in ContactRecord /\ x \in [TransferId -> TransferRecord] /\ LockHeld(c, x) /\ Idle(c)
  BY TradeView, AfterExpiry DEF NodeInv
<1>2. /\ contact[n] \in ContactRecord /\ xfer[n] \in [TransferId -> TransferRecord]
      /\ Traded(contact[n], xfer[n])
  BY TradeView
<1>3. Still(contact[n], c)
  BY <1>2, StillUpdates
<1>4. c.closed = contact[n].closed
  BY <1>2, ClosedFields
<1>5. Settles(xfer[n], x)
  BY <1>2, SettleUpdates
<1> QED BY <1>1, <1>2, <1>3, <1>4, <1>5, StillTrade

-----------------------------------------------------------------------------
(***************************************************************************)
(* The operator's calls.                                                   *)
(***************************************************************************)
LEMMA TradeOpenContact ==
    ASSUME TInv, NEW n \in Node, NEW seed \in Seeds, OpenContact(n, seed)
    PROVE  TradeStep(n)
<1> DEFINE d == [NoContact EXCEPT !.status = "pending", !.id = n, !.seed = seed]
<1>1. /\ contact[n].status = "none" /\ contact' = [contact EXCEPT ![n] = d]
      /\ xfer' = [xfer EXCEPT ![n] = xfer[n]] /\ bal' = [bal EXCEPT ![n] = bal[n]]
  BY TradeView DEF OpenContact
<1>2. d.pend = None /\ d.mine = 0 /\ d.theirs = 0
  BY DEF NoContact
<1>3. /\ contact[n].mine = 0 /\ contact[n].theirs = 0
      /\ \A t \in TransferId : xfer[n][t].st \notin InFlight
  BY <1>1, TradeView, Locked DEF Local
<1> HIDE DEF d
<1>4. Traded(d, xfer[n])
  BY <1>2, <1>3, TradeView, IdleTrade
<1>5. Keeps(contact[n], d)
  BY <1>2, <1>3 DEF Keeps
<1> QED BY <1>1, <1>4, <1>5, OneTrade

LEMMA TradeStartTransfer ==
    ASSUME TInv, NEW n \in Node, NEW t \in TransferId, NEW src \in SrcAmounts,
           StartTransfer(n, t, src)
    PROVE  TradeStep(n)
<1> DEFINE D == BusyDue(n)
           c == ExpireLock(contact[n], D)
           x == ExpireTransfers(xfer[n], D)
           d == Lock(c, t)
           dst == PoolPrice(c.mine, c.theirs, src)
           r == [st |-> "PROPOSED", out |-> TRUE, src |-> src, dst |-> dst]
           y == [x EXCEPT ![t] = r]
<1>1. /\ contact' = [contact EXCEPT ![n] = d] /\ xfer' = [xfer EXCEPT ![n] = y]
      /\ bal' = [bal EXCEPT ![n] = bal[n]] /\ dst > 0
  BY TradeView DEF StartTransfer
<1>2. D \subseteq Due(n)
  BY DEF BusyDue
<1>3. r.st = "PROPOSED" /\ r.src = src /\ r.dst = dst
  OBVIOUS
<1> HIDE DEF D, r
<1>4. /\ c \in ContactRecord /\ x \in [TransferId -> TransferRecord]
      /\ Traded(c, x) /\ Still(contact[n], c)
  BY <1>2, ExpireTrade
<1>5. Still(c, d) /\ d.closed = c.closed
  <2> HIDE DEF c
  <2> QED BY <1>4, StillUpdates, ClosedFields
<1>6. Adds(x, y, t, r)
  <2> HIDE DEF x
  <2> QED BY <1>4 DEF Adds
<1>7. Traded(d, y) /\ Keeps(c, d)
  <2> HIDE DEF c, x, d, y
  <2> QED BY <1>1, <1>3, <1>4, <1>5, <1>6, BeginTrade
<1>8. Keeps(contact[n], d)
  <2> HIDE DEF c, d
  <2> QED BY <1>4, <1>7 DEF Keeps, Still, SameCore
<1> HIDE DEF d, y
<1> QED BY <1>1, <1>7, <1>8, OneTrade

LEMMA TradeAdjustReserve ==
    ASSUME TInv, NEW n \in Node, NEW a \in AdjustId, NEW delta \in Deltas,
           AdjustReserve(n, a, delta)
    PROVE  TradeStep(n)
<1> DEFINE D == BusyDue(n)
           c == ExpireLock(contact[n], D)
           x == ExpireTransfers(xfer[n], D)
           d == [Lock(c, a) EXCEPT !.pend = a, !.delta = delta]
<1>1. /\ contact' = [contact EXCEPT ![n] = d] /\ xfer' = [xfer EXCEPT ![n] = x]
      /\ bal' = [bal EXCEPT ![n] = bal[n]] /\ Free(c)
  BY TradeView DEF AdjustReserve
<1>2. D \subseteq Due(n)
  BY DEF BusyDue
<1> HIDE DEF D
<1>3. /\ c \in ContactRecord /\ x \in [TransferId -> TransferRecord] /\ LockHeld(c, x) /\ Idle(c)
      /\ Traded(c, x) /\ Still(contact[n], c)
  BY <1>2, ExpireTrade
<1>4. d.delta = delta /\ d.mine = c.mine /\ d.theirs = c.theirs
  <2> HIDE DEF c
  <2> QED BY <1>3, Zenon DEF Lock, ContactRecord
<1>5. delta # 0
  BY AmountAssumption
<1>6. contact[n].mine * contact[n].theirs \in Int
  BY TradeView DEF ContactRecord
<1> HIDE DEF c, x, d
<1>7. \A t \in TransferId : x[t].st \notin InFlight
  BY <1>1, <1>3, Locked
<1>8. Traded(d, x)
  BY <1>3, <1>4, <1>5, <1>7, IdleTrade
<1>9. Keeps(contact[n], d)
  BY <1>3, <1>4, <1>6 DEF Keeps, Still, SameCore
<1> QED BY <1>1, <1>8, <1>9, OneTrade

LEMMA TradeAbortTransfer ==
    ASSUME TInv, NEW n \in Node, NEW t \in TransferId, AbortTransfer(n, t)
    PROVE  TradeStep(n)
<1> DEFINE d == Release(contact[n], t)
           y == [xfer[n] EXCEPT ![t].st = "ABORTED"]
<1>1. /\ contact' = [contact EXCEPT ![n] = d] /\ bal' = bal
      /\ xfer' = [xfer EXCEPT ![n] = y]
  BY TradeView, StateType DEF AbortTransfer, TransferStates
<1>2. contact[n] \in ContactRecord /\ xfer[n] \in [TransferId -> TransferRecord]
  BY TradeView
<1>3. Still(contact[n], d) /\ d.closed = contact[n].closed
  BY <1>2, StillUpdates, ClosedFields
<1>4. Settles(xfer[n], y)
  <2>1. "ABORTED" \in TransferStates \ {"PROPOSED", "ACCEPTED", "COMMITTED"}
    BY DEF TransferStates
  <2> QED BY <1>2, <2>1, SettleUpdates
<1> HIDE DEF d, y
<1> QED BY <1>1, <1>3, <1>4, StillStep

LEMMA TradeCloseContact ==
    ASSUME TInv, NEW n \in Node, CloseContact(n)
    PROVE  TradeStep(n)
<1> DEFINE d == [contact[n] EXCEPT !.closed = TRUE]
<1>1. /\ contact' = [contact EXCEPT ![n] = d] /\ bal' = bal
      /\ xfer' = [xfer EXCEPT ![n] = xfer[n]]
  BY TradeView DEF CloseContact
<1>2. contact[n] \in ContactRecord /\ xfer[n] \in [TransferId -> TransferRecord]
  BY TradeView
<1>3. Still(contact[n], d) /\ d.closed /\ Settles(xfer[n], xfer[n])
  BY <1>2, StillUpdates, ClosedFields, SettleUpdates
<1> HIDE DEF d
<1> QED BY <1>1, <1>3, StillStep

(* A payment or a retired reserve moves money, and no contact.             *)
LEMMA TradeLedger ==
    ASSUME TInv, NEW n \in Node,
           RetireReserve(n) \/ \E amount \in PayAmounts : Pay(n, amount)
    PROVE  TradeStep(n)
<1>1. /\ contact[n] \in ContactRecord /\ Still(contact[n], contact[n])
      /\ Settles(xfer[n], xfer[n])
      /\ contact' = [contact EXCEPT ![n] = contact[n]] /\ xfer' = [xfer EXCEPT ![n] = xfer[n]]
  BY TradeView, StillUpdates, SettleUpdates DEF RetireReserve, Pay
<1>2. Traded(contact[n], xfer[n]) /\ Keeps(contact[n], contact[n])
  BY <1>1, TradeView, StillTrade
<1>3. PICK e : bal' = [bal EXCEPT ![n] = e]
  BY DEF RetireReserve, Pay
<1> QED BY <1>1, <1>2, <1>3, OneTrade

LEMMA TradeOperator ==
    ASSUME TInv, NEW n \in Node, Operator(n)
    PROVE  TradeStep(n)
BY TradeOpenContact, TradeStartTransfer, TradeAbortTransfer, TradeAdjustReserve,
   TradeCloseContact, TradeLedger DEF Operator

-----------------------------------------------------------------------------
(***************************************************************************)
(* The handlers of contact and error envelopes.                            *)
(***************************************************************************)
LEMMA TradeNothing ==
    ASSUME TInv, NEW n \in Node, UNCHANGED <<contact, xfer, bal>>
    PROVE  TradeStep(n)
<1>1. /\ contact[n] \in ContactRecord /\ xfer[n] \in [TransferId -> TransferRecord]
      /\ contact' = [contact EXCEPT ![n] = contact[n]] /\ xfer' = [xfer EXCEPT ![n] = xfer[n]]
  BY TradeView
<1>2. Still(contact[n], contact[n]) /\ Settles(xfer[n], xfer[n])
  BY <1>1, StillUpdates, SettleUpdates
<1> QED BY <1>1, <1>2, StillStep

(* A contact becomes active.                                               *)
LEMMA SeedTrade ==
    ASSUME TInv, NEW n \in Node, contact[n].status # "active",
           NEW c \in ContactRecord, c.pend = None \/ c = contact[n],
           NEW id, NEW q, NEW r, NEW mine \in Nat, NEW theirs \in Nat,
           contact' = [contact EXCEPT ![n] = SeedActive(c, id, q, r, mine, theirs)],
           bal' = [bal EXCEPT ![n] = Moved(bal[n], "issuance", "wallet", mine)],
           xfer' = xfer
    PROVE  TradeStep(n)
<1> DEFINE d == SeedActive(c, id, q, r, mine, theirs)
           e == Moved(bal[n], "issuance", "wallet", mine)
<1>1. d.pend = c.pend /\ d.mine = mine /\ d.theirs = theirs /\ d.delta = c.delta
  BY Zenon DEF SeedActive, ContactRecord
<1>2. /\ contact[n].mine = 0 /\ contact[n].theirs = 0
      /\ \A t \in TransferId : xfer[n][t].st \notin InFlight
  BY TradeView, Locked DEF Local
<1>3. d.pend # None => d.delta # 0
  BY <1>1, TradeView DEF Traded
<1>4. mine * theirs >= 0
  OBVIOUS
<1>5. xfer' = [xfer EXCEPT ![n] = xfer[n]]
  BY TradeView
<1> HIDE DEF d, e
<1>6. Traded(d, xfer[n])
  BY <1>2, <1>3, TradeView, IdleTrade
<1>7. Keeps(contact[n], d)
  BY <1>1, <1>2, <1>4 DEF Keeps
<1> QED BY <1>5, <1>6, <1>7, OneTrade DEF d, e

LEMMA TradeContactPropose ==
    ASSUME TInv, NEW n \in Node, HandleContactPropose(n)
    PROVE  TradeStep(n)
<1> DEFINE m == Head(net[n])
           r == AutoAcceptSeed[n]
<1>1. TypeOK /\ Incoming(n, "contact.propose") /\ xfer' = xfer
  BY TradeView DEF HandleContactPropose
<1>2. m.id \in Node /\ m.seed \in Nat /\ r \in Nat
  BY <1>1, HeadType, Constants DEF TypeOK
<1>3. CASE UNCHANGED <<contact, bal>>
  BY <1>1, <1>3, TradeNothing
<1>4. CASE /\ contact[n].status = "none"
           /\ bal' = [bal EXCEPT ![n] = Moved(@, "issuance", "wallet", r)]
           /\ contact' = [contact EXCEPT ![n] = SeedActive(NoContact, m.id, m.seed, r, r, m.seed)]
  <2>1. contact[n].pend = None
    BY <1>4, TradeView, Locked
  <2>2. NoContact \in ContactRecord /\ NoContact.pend = None /\ NoContact.delta = 0
    BY DEF NoContact, ContactRecord
  <2> HIDE DEF m, r
  <2> QED BY <1>1, <1>2, <1>4, <2>1, <2>2, SeedTrade
<1> QED BY <1>3, <1>4 DEF HandleContactPropose

LEMMA TradeContactAccept ==
    ASSUME TInv, NEW n \in Node, HandleContactAccept(n)
    PROVE  TradeStep(n)
<1> DEFINE m == Head(net[n])
           c == contact[n]
<1>1. TypeOK /\ Incoming(n, "contact.accept") /\ xfer' = xfer
  BY TradeView DEF HandleContactAccept
<1>2. m.seed \in Nat /\ c \in ContactRecord /\ c.seed \in Nat
  BY <1>1, HeadType, TradeView DEF TypeOK, ContactRecord
<1>3. CASE UNCHANGED <<contact, bal>>
  BY <1>1, <1>3, TradeNothing
<1>4. CASE /\ c.status # "active"
           /\ bal' = [bal EXCEPT ![n] = Moved(@, "issuance", "wallet", c.seed)]
           /\ contact' = [contact EXCEPT ![n] =
                            SeedActive(c, n, c.seed, m.seed, c.seed, m.seed)]
  <2> HIDE DEF m
  <2> QED BY <1>1, <1>2, <1>4, SeedTrade
<1>5. \/ UNCHANGED <<contact, bal>>
      \/ /\ c.status # "active"
         /\ bal' = [bal EXCEPT ![n] = Moved(@, "issuance", "wallet", c.seed)]
         /\ contact' = [contact EXCEPT ![n] =
                          SeedActive(c, n, c.seed, m.seed, c.seed, m.seed)]
  BY Zenon DEF HandleContactAccept
<1> QED BY <1>3, <1>4, <1>5

LEMMA TradeContactHandlers ==
    ASSUME TInv, NEW n \in Node,
           \/ HandleContactPropose(n) \/ HandleContactAccept(n)
           \/ HandleContactClose(n) \/ HandleError(n)
    PROVE  TradeStep(n)
<1>1. CASE HandleContactClose(n)
  <2> DEFINE d == [contact[n] EXCEPT !.closed = TRUE]
  <2>1. /\ contact' = contact \/ contact' = [contact EXCEPT ![n] = d]
        /\ bal' = bal /\ xfer' = [xfer EXCEPT ![n] = xfer[n]] /\ xfer' = xfer
    BY <1>1, TradeView DEF HandleContactClose
  <2>2. contact[n] \in ContactRecord /\ xfer[n] \in [TransferId -> TransferRecord]
    BY TradeView
  <2>3. Still(contact[n], d) /\ d.closed /\ Settles(xfer[n], xfer[n])
    BY <2>2, StillUpdates, ClosedFields, SettleUpdates
  <2> HIDE DEF d
  <2> QED BY <2>1, <2>3, StillStep, TradeNothing
<1>2. CASE HandleError(n)
  BY <1>2, TradeNothing DEF HandleError
<1> QED BY <1>1, <1>2, TradeContactPropose, TradeContactAccept

-----------------------------------------------------------------------------
(***************************************************************************)
(* The handlers of transfers.                                              *)
(***************************************************************************)

(* n refuses an envelope after it expired what was due.                    *)
LEMMA ExpireStep ==
    ASSUME TInv, NEW n \in Node, NEW D, D \subseteq Due(n),
           contact' = [contact EXCEPT ![n] = ExpireLock(contact[n], D)],
           xfer' = [xfer EXCEPT ![n] = ExpireTransfers(xfer[n], D)], bal' = bal
    PROVE  TradeStep(n)
<1> DEFINE c == ExpireLock(contact[n], D)
           x == ExpireTransfers(xfer[n], D)
<1>1. Still(contact[n], c) /\ c.closed = contact[n].closed /\ Settles(xfer[n], x)
  BY ExpireTrade
<1>2. contact' = [contact EXCEPT ![n] = c] /\ xfer' = [xfer EXCEPT ![n] = x]
  OBVIOUS
<1> HIDE DEF c, x
<1> QED BY <1>1, <1>2, StillStep

LEMMA TradeTransferPropose ==
    ASSUME TInv, NEW n \in Node, HandleTransferPropose(n)
    PROVE  TradeStep(n)
<1> DEFINE m == Head(net[n])
           usable == Open(contact[n]) /\ ~contact[n].diverged
           D == IF usable THEN BusyDue(n) ELSE {}
           c == ExpireLock(contact[n], D)
           x == ExpireTransfers(xfer[n], D)
           r == [st |-> "ACCEPTED", out |-> FALSE, src |-> m.src, dst |-> m.dst]
           d == Lock(c, m.id)
           y == [x EXCEPT ![m.id] = r]
<1>1. /\ TypeOK /\ Incoming(n, "transfer.propose") /\ bal' = bal
      /\ bal' = [bal EXCEPT ![n] = bal[n]]
  BY TradeView DEF HandleTransferPropose
<1>2. m.id \in TransferId
  BY <1>1, HeadType DEF TypeOK
<1>3. D \subseteq Due(n)
  BY DEF BusyDue
<1>4. CASE xfer' = [xfer EXCEPT ![n] = x] /\ contact' = [contact EXCEPT ![n] = c]
  <2> HIDE DEF D
  <2> QED BY <1>1, <1>3, <1>4, ExpireStep
<1>5. CASE /\ Acceptable(c, m)
           /\ xfer' = [xfer EXCEPT ![n] = y] /\ contact' = [contact EXCEPT ![n] = d]
  <2>1. r.st = "ACCEPTED" /\ r.src = m.src /\ r.dst = m.dst
    OBVIOUS
  <2> HIDE DEF D, r, m
  <2>2. /\ c \in ContactRecord /\ x \in [TransferId -> TransferRecord]
        /\ Traded(c, x) /\ Still(contact[n], c)
    BY <1>3, ExpireTrade
  <2>3. Still(c, d) /\ d.closed = c.closed
    <3> HIDE DEF c
    <3> QED BY <2>2, StillUpdates, ClosedFields
  <2>4. Adds(x, y, m.id, r)
    <3> HIDE DEF x
    <3> QED BY <1>2, <2>2 DEF Adds
  <2>5. r.dst > 0 /\ r.dst = PoolPrice(c.theirs, c.mine, r.src)
    <3> HIDE DEF c
    <3> QED BY <1>5, <2>1 DEF Acceptable
  <2>6. Traded(d, y) /\ Keeps(c, d)
    <3> HIDE DEF c, x, d, y
    <3> QED BY <1>2, <2>1, <2>2, <2>3, <2>4, <2>5, BeginTrade
  <2>7. Keeps(contact[n], d)
    <3> HIDE DEF c, d
    <3> QED BY <2>2, <2>6 DEF Keeps, Still, SameCore
  <2> HIDE DEF d, y
  <2> QED BY <1>1, <1>5, <2>6, <2>7, OneTrade
<1>6. \/ xfer' = [xfer EXCEPT ![n] = x] /\ contact' = [contact EXCEPT ![n] = c]
      \/ /\ Acceptable(c, m)
         /\ xfer' = [xfer EXCEPT ![n] = y] /\ contact' = [contact EXCEPT ![n] = d]
  BY Zenon DEF HandleTransferPropose
<1> QED BY <1>4, <1>5, <1>6

LEMMA TradeTransferAccept ==
    ASSUME TInv, NEW n \in Node, HandleTransferAccept(n)
    PROVE  TradeStep(n)
<1> DEFINE t == Head(net[n]).id
           x == xfer[n][t]
           d == PaidOut(contact[n], t, x.src, x.dst)
           y == [xfer[n] EXCEPT ![t].st = "COMMITTED"]
           e == Moved(bal[n], "member", "wallet", x.src)
           gone == [xfer[n] EXCEPT ![t].st = "EXPIRED"]
<1>1. /\ TypeOK /\ Incoming(n, "transfer.accept") /\ contact[n] \in ContactRecord
      /\ xfer[n] \in [TransferId -> TransferRecord] /\ bal[n] \in [Account -> Int]
  BY TradeView DEF HandleTransferAccept
<1>2. t \in TransferId /\ x.src \in Nat /\ x.dst \in Nat
  BY <1>1, HeadType DEF TypeOK, TransferRecord
<1>3. CASE /\ MayCommit(n, t) /\ bal' = [bal EXCEPT ![n] = e]
           /\ contact' = [contact EXCEPT ![n] = d]
           /\ xfer' = [xfer EXCEPT ![n][t].st = Transition(Transition(x.st, "accept"), "commit")]
  <2>1. x.st = "PROPOSED" /\ x.out
    BY <1>3, TransitionTable DEF MayCommit
  <2>2. xfer' = [xfer EXCEPT ![n] = y]
    <3>1. xfer' = [xfer EXCEPT ![n][t].st = "COMMITTED"]
      BY <1>3, <2>1, TransitionTable
    <3> QED BY <1>1, <1>2, <3>1, StateType DEF TransferStates
  <2>3. Becomes(xfer[n], y, t, "COMMITTED")
    <3> HIDE DEF t
    <3> QED BY <1>1, <1>2, StateFields
  <2>4. Traded(d, y) /\ Keeps(contact[n], d)
    <3>1. d = PaidOut(contact[n], t, xfer[n][t].src, xfer[n][t].dst)
      OBVIOUS
    <3> HIDE DEF d, y, e, t
    <3> QED BY <1>1, <1>2, <2>1, <2>3, <3>1, TradeView, CommitOutTrade
  <2> HIDE DEF d, y, e
  <2> QED BY <1>3, <2>2, <2>4, OneTrade
<1>4. CASE /\ xfer' = [xfer EXCEPT ![n][t].st = "EXPIRED"]
           /\ contact' = [contact EXCEPT ![n] = Release(contact[n], t)] /\ bal' = bal
  <2>1. xfer' = [xfer EXCEPT ![n] = gone]
    BY <1>1, <1>2, <1>4, StateType DEF TransferStates
  <2>2. Settles(xfer[n], gone)
    <3>1. "EXPIRED" \in TransferStates \ {"PROPOSED", "ACCEPTED", "COMMITTED"}
      BY DEF TransferStates
    <3> HIDE DEF t
    <3> QED BY <1>1, <1>2, <3>1, SettleUpdates
  <2>3. /\ Still(contact[n], Release(contact[n], t))
        /\ Release(contact[n], t).closed = contact[n].closed
    BY <1>1, StillUpdates, ClosedFields
  <2> DEFINE c == Release(contact[n], t)
  <2> HIDE DEF gone, t
  <2>4. contact' = [contact EXCEPT ![n] = c] /\ Still(contact[n], c) /\ c.closed = contact[n].closed
    BY <1>4, <2>3
  <2> HIDE DEF c
  <2> QED BY <1>4, <2>1, <2>2, <2>4, StillStep
<1>5. CASE UNCHANGED <<contact, xfer, bal>>
  BY <1>5, TradeNothing
<1>6. \/ /\ MayCommit(n, t) /\ bal' = [bal EXCEPT ![n] = e]
         /\ contact' = [contact EXCEPT ![n] = d]
         /\ xfer' = [xfer EXCEPT ![n][t].st = Transition(Transition(x.st, "accept"), "commit")]
      \/ /\ xfer' = [xfer EXCEPT ![n][t].st = "EXPIRED"]
         /\ contact' = [contact EXCEPT ![n] = Release(contact[n], t)] /\ bal' = bal
      \/ UNCHANGED <<contact, xfer, bal>>
  BY Zenon DEF HandleTransferAccept
<1> QED BY <1>3, <1>4, <1>5, <1>6

LEMMA TradeTransferCommit ==
    ASSUME TInv, NEW n \in Node, HandleTransferCommit(n)
    PROVE  TradeStep(n)
<1> DEFINE t == Head(net[n]).id
           x == xfer[n][t]
           d == PaidIn(contact[n], t, x.src, x.dst)
           y == [xfer[n] EXCEPT ![t].st = "SETTLED"]
           e == Moved(bal[n], "wallet", "member", x.dst)
           stuck == [xfer[n] EXCEPT ![t].st = "COMMITTED"]
<1>1. /\ TypeOK /\ Incoming(n, "transfer.commit") /\ contact[n] \in ContactRecord
      /\ xfer[n] \in [TransferId -> TransferRecord] /\ bal[n] \in [Account -> Int]
  BY TradeView DEF HandleTransferCommit
<1>2. t \in TransferId /\ x.src \in Nat /\ x.dst \in Nat
  BY <1>1, HeadType DEF TypeOK, TransferRecord
<1>3. CASE UNCHANGED <<contact, xfer, bal>>
  BY <1>3, TradeNothing
<1>4. CASE /\ x.st = "ACCEPTED" /\ ~AppendOK(bal[n], "wallet", "member", x.dst)
           /\ xfer' = [xfer EXCEPT ![n][t].st = Transition(x.st, "commit")]
           /\ UNCHANGED <<contact, bal>>
  <2>1. contact[n].closed
    BY <1>2, <1>4, TradeView, OpenCommit DEF CommitNotRefused
  <2>2. xfer' = [xfer EXCEPT ![n] = stuck]
    <3>1. xfer' = [xfer EXCEPT ![n][t].st = "COMMITTED"]
      BY <1>4, TransitionTable
    <3> QED BY <1>1, <1>2, <3>1, StateType DEF TransferStates
  <2>3. Becomes(xfer[n], stuck, t, "COMMITTED")
    <3> HIDE DEF t
    <3> QED BY <1>1, <1>2, StateFields
  <2>4. /\ contact' = [contact EXCEPT ![n] = contact[n]] /\ bal' = [bal EXCEPT ![n] = bal[n]]
        /\ Traded(contact[n], xfer[n])
    BY <1>4, TradeView
  <2> HIDE DEF stuck
  <2>5. Traded(contact[n], stuck)
    BY <2>1, <2>3, <2>4 DEF Traded, Becomes, SameTransfer
  <2>6. Keeps(contact[n], contact[n])
    BY <1>1 DEF Keeps, ContactRecord
  <2> QED BY <2>2, <2>4, <2>5, <2>6, OneTrade
<1>5. CASE /\ x.st = "ACCEPTED" /\ bal' = [bal EXCEPT ![n] = e]
           /\ contact' = [contact EXCEPT ![n] = d]
           /\ xfer' = [xfer EXCEPT ![n][t].st = Transition(Transition(x.st, "commit"), "receipt")]
  <2>1. xfer' = [xfer EXCEPT ![n] = y]
    <3>1. xfer' = [xfer EXCEPT ![n][t].st = "SETTLED"]
      BY <1>5, TransitionTable
    <3> QED BY <1>1, <1>2, <3>1, StateType DEF TransferStates
  <2>2. Becomes(xfer[n], y, t, "SETTLED")
    <3> HIDE DEF t
    <3> QED BY <1>1, <1>2, StateFields
  <2>3. Traded(d, y) /\ Keeps(contact[n], d)
    <3>1. d = PaidIn(contact[n], t, xfer[n][t].src, xfer[n][t].dst) /\ xfer[n][t].st = "ACCEPTED"
      BY <1>5
    <3> HIDE DEF d, y, e, t
    <3> QED BY <1>1, <1>2, <2>2, <3>1, TradeView, CommitInTrade
  <2> HIDE DEF d, y, e
  <2> QED BY <1>5, <2>1, <2>3, OneTrade
<1>6. ~x.out /\ Can(x.st, "commit") /\ x.st \notin {"COMMITTED", "SETTLED"} => x.st = "ACCEPTED"
  BY TransitionTable
<1>7. \/ UNCHANGED <<contact, xfer, bal>>
      \/ /\ x.st = "ACCEPTED" /\ ~AppendOK(bal[n], "wallet", "member", x.dst)
         /\ xfer' = [xfer EXCEPT ![n][t].st = Transition(x.st, "commit")]
         /\ UNCHANGED <<contact, bal>>
      \/ /\ x.st = "ACCEPTED" /\ bal' = [bal EXCEPT ![n] = e]
         /\ contact' = [contact EXCEPT ![n] = d]
         /\ xfer' = [xfer EXCEPT ![n][t].st = Transition(Transition(x.st, "commit"), "receipt")]
  <2> DEFINE applicable == /\ ~x.out /\ Can(x.st, "commit")
                           /\ x.st \notin {"COMMITTED", "SETTLED"}
  <2>1. \/ UNCHANGED <<contact, xfer, bal>>
        \/ /\ applicable /\ ~AppendOK(bal[n], "wallet", "member", x.dst)
           /\ xfer' = [xfer EXCEPT ![n][t].st = Transition(@, "commit")]
           /\ UNCHANGED <<contact, bal>>
        \/ /\ applicable /\ bal' = [bal EXCEPT ![n] = e]
           /\ contact' = [contact EXCEPT ![n] = d]
           /\ xfer' = [xfer EXCEPT ![n][t].st = Transition(Transition(@, "commit"), "receipt")]
    BY Zenon DEF HandleTransferCommit
  <2>2. applicable => x.st = "ACCEPTED"
    BY <1>6
  <2> HIDE DEF applicable
  <2> QED BY <2>1, <2>2, Zenon
<1> QED BY <1>3, <1>4, <1>5, <1>7

LEMMA TradeTransferEnds ==
    ASSUME TInv, NEW n \in Node,
           HandleTransferReceipt(n) \/ HandleTransferReject(n) \/ HandleTransferAbort(n)
    PROVE  TradeStep(n)
<1> DEFINE t == Head(net[n]).id
           x == xfer[n][t]
<1>1. TypeOK /\ contact[n] \in ContactRecord /\ xfer[n] \in [TransferId -> TransferRecord]
  BY TradeView
<1>2. t \in TransferId /\ bal' = bal
  BY <1>1, HeadType DEF HandleTransferReceipt, HandleTransferReject, HandleTransferAbort, TypeOK
<1>3. CASE UNCHANGED <<contact, xfer, bal>>
  BY <1>3, TradeNothing
<1>4. ASSUME NEW event \in {"receipt", "reject", "abort"}, Can(x.st, event), End(n, t, event)
      PROVE  TradeStep(n)
  <2> DEFINE st == Transition(x.st, event)
             y == [xfer[n] EXCEPT ![t].st = st]
             c == Release(contact[n], t)
  <2>1. st \in {"SETTLED", "REJECTED", "ABORTED"}
    BY <1>4, TransitionTable
  <2>2. st \in TransferStates \ {"PROPOSED", "ACCEPTED", "COMMITTED"}
    BY <2>1 DEF TransferStates
  <2>3. xfer' = [xfer EXCEPT ![n][t].st = st] /\ contact' = [contact EXCEPT ![n] = c]
    BY <1>4 DEF End
  <2> HIDE DEF st, t
  <2>4. xfer' = [xfer EXCEPT ![n] = y]
    BY <1>1, <1>2, <2>2, <2>3, StateType
  <2>5. Settles(xfer[n], y)
    BY <1>1, <1>2, <2>2, SettleUpdates
  <2>6. Still(contact[n], c) /\ c.closed = contact[n].closed
    BY <1>1, StillUpdates, ClosedFields
  <2> HIDE DEF y, c
  <2> QED BY <1>2, <2>3, <2>4, <2>5, <2>6, StillStep
<1> QED BY <1>2, <1>3, <1>4 DEF HandleTransferReceipt, HandleTransferReject, HandleTransferAbort

-----------------------------------------------------------------------------
(***************************************************************************)
(* The handlers of reserve adjustments, timers and losses.                 *)
(***************************************************************************)
LEMMA TradeReserveAdjust ==
    ASSUME TInv, NEW n \in Node, HandleReserveAdjust(n)
    PROVE  TradeStep(n)
<1> DEFINE m == Head(net[n])
           usable == Open(contact[n]) /\ ~contact[n].diverged
           D == IF usable THEN BusyDue(n) ELSE {}
           c == ExpireLock(contact[n], D)
           x == ExpireTransfers(xfer[n], D)
           d == AdjustMirrored(c, m.id, m.delta)
           again == Free(c) /\ m.seq = OpSeq(c) /\ m.id \in c.applied
<1>1. /\ xfer' = [xfer EXCEPT ![n] = x] /\ bal' = bal
      /\ bal' = [bal EXCEPT ![n] = bal[n]]
  BY TradeView DEF HandleReserveAdjust
<1>2. D \subseteq Due(n)
  BY DEF BusyDue
<1>3. CASE contact' = [contact EXCEPT ![n] = c]
  <2> HIDE DEF D
  <2> QED BY <1>1, <1>2, <1>3, ExpireStep
<1>4. CASE ~again /\ Mirrorable(c, m) /\ contact' = [contact EXCEPT ![n] = d]
  <2> HIDE DEF D, m
  <2>1. /\ c \in ContactRecord /\ x \in [TransferId -> TransferRecord] /\ LockHeld(c, x) /\ Idle(c)
        /\ Traded(c, x) /\ Still(contact[n], c)
    BY <1>2, ExpireTrade
  <2>2. d.pend = c.pend /\ d.delta = c.delta /\ d.applied = c.applied \cup {m.id}
    <3> HIDE DEF c
    <3> QED BY <2>1, Zenon DEF AdjustMirrored, ContactRecord
  <2>3. Free(c) /\ m.id \notin c.applied
    <3> HIDE DEF c
    <3> QED BY <1>4 DEF Mirrorable
  <2> HIDE DEF c, x, d
  <2>4. c.pend = None /\ \A t \in TransferId : x[t].st \notin InFlight
    BY <2>1, <2>3, Locked
  <2>5. Traded(d, x)
    BY <2>1, <2>2, <2>4, IdleTrade
  <2>6. Keeps(contact[n], d)
    BY <2>1, <2>2, <2>3 DEF Keeps, Still
  <2> QED BY <1>1, <1>4, <2>5, <2>6, OneTrade
<1>5. \/ contact' = [contact EXCEPT ![n] = c]
      \/ ~again /\ Mirrorable(c, m) /\ contact' = [contact EXCEPT ![n] = d]
  <2>1. IF usable /\ ~again /\ Mirrorable(c, m)
        THEN contact' = [contact EXCEPT ![n] = d]
        ELSE contact' = [contact EXCEPT ![n] = c]
    BY Zenon DEF HandleReserveAdjust
  <2> HIDE DEF usable, again, c, d, m
  <2> QED BY <2>1
<1> QED BY <1>3, <1>4, <1>5

LEMMA TradeReserveAccept ==
    ASSUME TInv, NEW n \in Node, HandleReserveAccept(n)
    PROVE  TradeStep(n)
<1> DEFINE a == Head(net[n]).id
           c == contact[n]
           d == Adjusted(c)
           e == Moved(bal[n], "treasury", "wallet", c.delta)
<1>1. /\ TypeOK /\ Incoming(n, "reserve.accept") /\ xfer' = xfer
      /\ xfer' = [xfer EXCEPT ![n] = xfer[n]]
      /\ c \in ContactRecord /\ bal[n] \in [Account -> Int]
  BY TradeView DEF HandleReserveAccept
<1>2. a \in AdjustId /\ c.delta \in Int
  BY <1>1, HeadType DEF TypeOK, ContactRecord
<1>3. CASE UNCHANGED <<contact, bal>>
  BY <1>1, <1>3, TradeNothing
<1>4. CASE /\ c.pend = a /\ bal' = [bal EXCEPT ![n] = e]
           /\ contact' = [contact EXCEPT ![n] = d]
  <2>1. c.pend # None
    BY <1>2, <1>4, Constants DEF OpId
  <2>2. d.pend = None /\ d.delta = 0
    <3> HIDE DEF c
    <3> QED BY <1>1, Zenon DEF Adjusted, ContactRecord
  <2>3. c.delta # 0 /\ \A t \in TransferId : xfer[n][t].st \notin InFlight
    BY <2>1, TradeView, Locked DEF Traded
  <2>4. Keeps(c, d)
    <3> HIDE DEF c, d
    <3> QED BY <2>2, <2>3 DEF Keeps
  <2> HIDE DEF d, e
  <2>5. Traded(d, xfer[n])
    BY <2>2, <2>3, TradeView, IdleTrade
  <2> QED BY <1>1, <1>4, <2>4, <2>5, OneTrade
<1>5. \/ UNCHANGED <<contact, bal>>
      \/ /\ c.pend = a /\ bal' = [bal EXCEPT ![n] = e]
         /\ contact' = [contact EXCEPT ![n] = d]
  BY Zenon DEF HandleReserveAccept
<1> QED BY <1>3, <1>4, <1>5

LEMMA TradeTimer ==
    ASSUME TInv, NEW n \in Node, Timer(n) \/ Lose(n)
    PROVE  TradeStep(n)
<1>1. CASE Lose(n) \/ \E t \in TransferId : ClockPasses(n, t)
  BY <1>1, TradeNothing DEF Lose, ClockPasses
<1>2. CASE SweepExpired(n)
  <2> DEFINE D == Due(n)
  <2>1. /\ contact' = [contact EXCEPT ![n] = ExpireLock(contact[n], D)]
        /\ xfer' = [xfer EXCEPT ![n] = ExpireTransfers(xfer[n], D)] /\ bal' = bal
    BY <1>2 DEF SweepExpired
  <2> QED BY <2>1, ExpireStep
<1>3. CASE ReconcilePeer(n)
  <2>1. PICK b : /\ contact' = [contact EXCEPT ![n] = [contact[n] EXCEPT !.diverged = b]]
                 /\ xfer' = xfer /\ bal' = bal
    BY <1>3 DEF ReconcilePeer
  <2> DEFINE d == [contact[n] EXCEPT !.diverged = b]
  <2>2. contact[n] \in ContactRecord /\ xfer[n] \in [TransferId -> TransferRecord]
        /\ xfer' = [xfer EXCEPT ![n] = xfer[n]] /\ contact' = [contact EXCEPT ![n] = d]
    BY <2>1, TradeView
  <2>3. Still(contact[n], d) /\ d.closed = contact[n].closed /\ Settles(xfer[n], xfer[n])
    BY <2>2, StillUpdates, ClosedFields, SettleUpdates
  <2> HIDE DEF d
  <2> QED BY <2>1, <2>2, <2>3, StillStep
<1> QED BY <1>1, <1>2, <1>3 DEF Timer

-----------------------------------------------------------------------------
(***************************************************************************)
(* The invariant, and what it shows.                                       *)
(***************************************************************************)
LEMMA TradeInit == Init => TInv
<1> SUFFICES ASSUME Init PROVE TInv
  OBVIOUS
<1> SUFFICES ASSUME NEW n \in Node PROVE Traded(contact[n], xfer[n])
  BY PairInit DEF TInv
<1>1. contact[n].pend = None /\ \A t \in TransferId : xfer[n][t].st = "NONE"
  BY DEF Init, NoContact, NoTransfer
<1> QED BY <1>1 DEF Traded

LEMMA StepTrades ==
    ASSUME TInv, Next
    PROVE  \E n \in Node : TradeStep(n)
<1>1. PICK n \in Node : Operator(n) \/ Handle(n) \/ Timer(n) \/ Lose(n)
  BY DEF Next
<1>2. TradeStep(n)
  BY <1>1, TradeOperator, TradeContactHandlers, TradeTransferPropose, TradeTransferAccept,
     TradeTransferCommit, TradeTransferEnds, TradeReserveAdjust, TradeReserveAccept, TradeTimer
     DEF Handle
<1> QED BY <1>2

LEMMA TradeNext == TInv /\ [Next]_vars => TInv'
<1> SUFFICES ASSUME TInv, [Next]_vars PROVE TInv'
  OBVIOUS
<1>1. HInv'
  BY PairStep DEF TInv
<1>2. CASE UNCHANGED vars
  BY <1>1, <1>2 DEF TInv, vars
<1>3. CASE Next
  <2>1. PICK n \in Node : TradeStep(n)
    BY <1>3, StepTrades
  <2>2. \A k \in Node : k = n \/ k = Peer(n)
    BY TwoNodes
  <2>3. ASSUME NEW k \in Node PROVE Traded(contact'[k], xfer'[k])
    BY <2>1, <2>2 DEF TInv, TradeStep
  <2> QED BY <1>1, <2>3 DEF TInv
<1> QED BY <1>2, <1>3

LEMMA TradeInvariant == Spec => []TInv
<1>1. Init => TInv
  BY TradeInit
<1>2. TInv /\ [Next]_vars => TInv'
  BY TradeNext
<1> QED BY <1>1, <1>2, PTL DEF Spec

(* What the payer has paid in, the payee has promised, paid out or left to *)
(* expire; or it has closed the contact.                                   *)
THEOREM PaymentIsPromised == Spec => []CommitIsAccepted
<1>1. TInv => CommitIsAccepted
  <2> SUFFICES ASSUME TInv, NEW n \in Node, NEW t \in TransferId,
                      xfer[n][t].st = "COMMITTED", xfer[n][t].out
               PROVE  LET p == Peer(n)
                      IN  \/ xfer[p][t].st \in {"ACCEPTED", "SETTLED", "EXPIRED"}
                          \/ xfer[p][t].st = "COMMITTED" /\ contact[p].closed
    BY DEF CommitIsAccepted
  <2>1. Agree(n, contact, xfer)
    BY TradeView, View DEF PairInv
  <2>2. xfer[Peer(n)][t].st \in {"ACCEPTED", "EXPIRED"} \cup Paid /\ ~xfer[Peer(n)][t].out
    BY <2>1 DEF Agree
  <2>3. Peer(n) \in Node
    BY TwoNodes
  <2>4. Traded(contact[Peer(n)], xfer[Peer(n)])
    BY <2>3 DEF TInv
  <2> QED BY <2>2, <2>4 DEF Traded, Paid
<1> QED BY <1>1, TradeInvariant, PTL

(* No trade makes the pool of a node worse: whatever is proposed, accepted *)
(* or committed, the product of its reserves shrinks by nothing but a      *)
(* reserve adjustment.                                                     *)
THEOREM TradesKeepTheProduct == Spec => TradeKeepsK
<1> DEFINE Step == \A n \in Node : Keeps(contact[n], contact'[n])
<1>1. TInv /\ [Next]_vars => [Step]_vars
  <2> SUFFICES ASSUME TInv, Next PROVE Step
    OBVIOUS
  <2>1. PICK n \in Node : TradeStep(n)
    BY StepTrades
  <2>2. \A k \in Node : k = n \/ k = Peer(n)
    BY TwoNodes
  <2>3. contact[Peer(n)].mine * contact[Peer(n)].theirs \in Int
    BY TwoNodes, TradeView DEF ContactRecord
  <2> QED BY <2>1, <2>2, <2>3 DEF TradeStep, Keeps
<1>2. Step <=> \A n \in Node :
                  contact[n].delta = contact'[n].delta /\ contact[n].applied = contact'[n].applied
                     => contact'[n].mine * contact'[n].theirs >= contact[n].mine * contact[n].theirs
  BY DEF Keeps
<1> HIDE DEF Step
<1> QED BY <1>1, <1>2, TradeInvariant, PTL DEF Spec, TradeKeepsK
=============================================================================
