---------------------------- MODULE ChannelProofs ----------------------------
(***************************************************************************)
(* Theorems about the channel, for any values of the constants: its types, *)
(* what an acknowledgement and a pruned outbox stand for, which envelopes  *)
(* can be overtaken, and that it is the queue module Contact assumes.      *)
(***************************************************************************)
EXTENDS ChannelProperties, SequenceTheorems, WellFoundedInduction, TLAPS

(* The sequence numbers go up along q.                                     *)
Increasing(q) == \A i, j \in 1..Len(q) : i < j => q[i].seq < q[j].seq

Numbered(s) ==
    /\ Increasing(s.outbox)
    /\ \A e \in Envelopes(s.outbox) : e.seq <= s.outSeq

(* TypeOK is inductive together with the order of the outboxes.            *)
TInv ==
    /\ TypeOK
    /\ \A n \in Node :
          /\ Numbered(node[n]) /\ Numbered(saved[n])
          /\ post[n] # None => post[n].env.seq <= node[n].outSeq

-----------------------------------------------------------------------------
(* In what follows s is the state of the sender of a direction, r that of  *)
(* its receiver.  An envelope e under way has a number of its own, and is  *)
(* still in the outbox unless the receiver's numbers have passed it.       *)
Intact(s, r, e) ==
    /\ e.seq <= s.outSeq
    /\ e.seq <= r.last \/ e \in Envelopes(s.outbox)
    /\ \A f \in Envelopes(s.outbox) : f.seq = e.seq => f = e

(* Everything before e has been processed.                                 *)
InTurn(s, r, e) == \A f \in Envelopes(s.outbox) : f.seq < e.seq => f.id \in r.seen

(* po is the sender's post, q the requests it no longer waits for, pl the  *)
(* receiver's pull, pu the sender's cursor, pr the sender's pull.          *)
Posted(s, r, po) ==
    po # None => /\ Intact(s, r, po.env) /\ InTurn(s, r, po.env)
                 /\ po.answer = "accepted" => po.env.id \in r.seen

Resent(s, e) == \E a \in s.replies : a[2] = e

Loosened(s, r, q) ==
    \A e \in Envelopes(q) : Intact(s, r, e) /\ (Resent(s, e) \/ InTurn(s, r, e))

Cached(s, r) == \A a \in s.replies : Intact(s, r, a[2])

(* f is taken, passed, too old (up to o), or one of those in w.            *)
Past(r, f, o, w) == f.seq <= r.last \/ f.id \in r.seen \/ f.id <= o \/ f.id \in w

Pulled(s, r, pl, o, w) ==
    pl # None =>
        /\ Increasing(pl.todo)
        /\ \A e \in Envelopes(pl.todo) :
              /\ Intact(s, r, e)
              /\ \A f \in Envelopes(s.outbox) :
                    f.seq < e.seq => f \in Envelopes(pl.todo) \/ Past(r, f, o, w)

Delivered(s, r, pu) == \A f \in Envelopes(s.outbox) : f.seq <= pu => f.id \in r.seen

Acked(r, pr) == pr # None => (pr.acked # None => pr.acked <= r.last)

(* One direction of the channel, while every Save succeeds.                *)
Direction(n) ==
    LET s == node[Peer(n)]
        r == node[n]
    IN  /\ r.last <= s.outSeq
        /\ Posted(s, r, post[Peer(n)])
        /\ Loosened(s, r, loose[n])
        /\ Cached(s, r)
        /\ Pulled(s, r, pull[n], old, refused[n])
        /\ Delivered(s, r, pushed[Peer(n)])
        /\ Acked(r, pull[Peer(n)])

DInv == failed = 0 => saved = node /\ \A n \in Node : Direction(n)

(* Without answers nothing is resent, and what is passed is processed.     *)
Unanswered ==
    \A n \in Node :
        /\ node[n].replies = {} /\ saved[n].replies = {}
        /\ \A e \in Outbox(n) \cup Envelopes(saved[n].outbox) \cup Envelopes(loose[n]) : e.hops = 0
        /\ post[n] # None => post[n].env.hops = 0
        /\ pull[n] # None => \A e \in Envelopes(pull[n].todo) : e.hops = 0
-----------------------------------------------------------------------------
(***************************************************************************)
(* The loop of After.                                                      *)
(***************************************************************************)

(* Induction over the natural numbers, for a set.                          *)
LEMMA SetInduction ==
    ASSUME NEW T, 0 \in T, \A k \in Nat : k \in T => k + 1 \in T
    PROVE  Nat \subseteq T
<1> SUFFICES ASSUME Nat \ T # {} PROVE FALSE
  OBVIOUS
<1>1. IsWellFoundedOn(OpToRel(<, Nat), Nat)
  BY NatLessThanWellFounded
<1>2. PICK x \in Nat \ T : \A y \in Nat \ T : ~ (<<y, x>> \in OpToRel(<, Nat))
  BY <1>1, WFMin
<1>3. \A y \in Nat \ T : ~(y < x)
  BY <1>2, Zenon DEF OpToRel
<1>4. x \in Nat /\ x \notin T
  OBVIOUS
<1>5. x # 0 => x - 1 \in Nat /\ x - 1 < x /\ (x - 1) + 1 = x
  BY <1>4
<1> QED BY <1>3, <1>4, <1>5

(* f[i] is what the loop has kept of the first i envelopes of s.           *)
Keeps(f, s, k, n) ==
    /\ f[0] = <<>>
    /\ \A i \in 1..n : f[i] = IF s[i].seq > k THEN Append(f[i - 1], s[i]) ELSE f[i - 1]

LEMMA KeepsExists ==
    ASSUME NEW s, NEW k
    PROVE  \A n \in Nat : \E f : f = [i \in 0..n |-> f[i]] /\ Keeps(f, s, k, n)
<1> DEFINE T == {n \in Nat : \E f : f = [i \in 0..n |-> f[i]] /\ Keeps(f, s, k, n)}
<1>1. 0 \in T
  <2> DEFINE g == [i \in 0..0 |-> <<>>]
  <2>1. g = [i \in 0..0 |-> g[i]] /\ Keeps(g, s, k, 0)
    BY DEF Keeps
  <2> QED BY <2>1
<1>2. ASSUME NEW n \in Nat, n \in T PROVE n + 1 \in T
  <2>1. PICK f : f = [i \in 0..n |-> f[i]] /\ Keeps(f, s, k, n)
    BY <1>2
  <2> DEFINE new == IF s[n + 1].seq > k THEN Append(f[n], s[n + 1]) ELSE f[n]
             g == [i \in 0..(n + 1) |-> IF i = n + 1 THEN new ELSE f[i]]
  <2>2. g = [i \in 0..(n + 1) |-> g[i]]
    OBVIOUS
  <2>3. g[0] = <<>>
    BY <2>1 DEF Keeps
  <2>4. g[n + 1] = new /\ \A i \in 0..n : g[i] = f[i]
    OBVIOUS
  <2>5. \A i \in 1..n : g[i] = IF s[i].seq > k THEN Append(g[i - 1], s[i]) ELSE g[i - 1]
    <3> SUFFICES ASSUME NEW i \in 1..n
                 PROVE g[i] = IF s[i].seq > k THEN Append(g[i - 1], s[i]) ELSE g[i - 1]
      OBVIOUS
    <3>1. i \in 0..n /\ i - 1 \in 0..n
      OBVIOUS
    <3>2. g[i] = f[i] /\ g[i - 1] = f[i - 1]
      BY <2>4, <3>1
    <3> QED BY <2>1, <3>2, Zenon DEF Keeps
  <2>6. Keeps(g, s, k, n + 1)
    <3> HIDE DEF g
    <3>1. \A i \in 1..(n + 1) : i \in 1..n \/ i = n + 1
      OBVIOUS
    <3>2. (n + 1) - 1 = n /\ n \in 0..n
      OBVIOUS
    <3> QED BY <2>3, <2>4, <2>5, <3>1, <3>2, Zenon DEF Keeps
  <2> QED BY <2>2, <2>6
<1> QED BY <1>1, <1>2, SetInduction

LEMMA AfterKeeps ==
    ASSUME NEW s, Len(s) \in Nat, NEW k
    PROVE  \E f : Keeps(f, s, k, Len(s)) /\ After(s, k) = f[Len(s)]
<1> DEFINE n == Len(s)
           Loop(f) == [i \in 0..n |-> IF i = 0 THEN <<>>
                                      ELSE IF s[i].seq > k THEN Append(f[i - 1], s[i])
                                      ELSE f[i - 1]]
           f0 == CHOOSE f : f = Loop(f)
<1>1. PICK f : f = [i \in 0..n |-> f[i]] /\ Keeps(f, s, k, n)
  BY KeepsExists
<1>2. f = Loop(f)
  <2>1. \A i \in 0..n : f[i] = Loop(f)[i]
    <3>1. ASSUME NEW i \in 0..n, i # 0
          PROVE  f[i] = IF s[i].seq > k THEN Append(f[i - 1], s[i]) ELSE f[i - 1]
      <4>1. i \in 1..n
        BY <3>1
      <4> QED BY <1>1, <4>1, Zenon DEF Keeps
    <3>2. f[0] = <<>>
      BY <1>1 DEF Keeps
    <3> QED BY <3>1, <3>2
  <2> HIDE DEF n
  <2>2. [i \in 0..n |-> f[i]] = Loop(f)
    BY <2>1
  <2> QED BY <1>1, <2>2
<1>3. f0 = Loop(f0)
  <2> HIDE DEF Loop
  <2> QED BY <1>2
<1>4. After(s, k) = f0[n]
  BY Zenon DEF After
<1>5. Keeps(f0, s, k, n)
  <2> HIDE DEF f0
  <2>1. \A i \in 0..n : f0[i] = Loop(f0)[i]
    BY <1>3
  <2>2. \A i \in 1..n : i \in 0..n /\ i # 0
    OBVIOUS
  <2>3. \A i \in 1..n : f0[i] = IF s[i].seq > k THEN Append(f0[i - 1], s[i]) ELSE f0[i - 1]
    BY <2>1, <2>2
  <2>4. f0[0] = <<>>
    BY <2>1
  <2> QED BY <2>3, <2>4, Zenon DEF Keeps
<1> QED BY <1>4, <1>5

LEMMA EnvelopeFields ==
    \A e \in Envelope : e.id \in Nat \ {0} /\ e.seq \in Nat \ {0} /\ e.hops \in Nat
BY DEF Envelope

LEMMA InEnvelopes ==
    ASSUME NEW q \in Seq(Envelope)
    PROVE  /\ Len(q) \in Nat
           /\ \A i \in 1..Len(q) : q[i] \in Envelope /\ q[i].seq \in Nat /\ q[i] \in Envelopes(q)
           /\ \A e \in Envelopes(q) : e \in Envelope /\ e.id \in Nat /\ e.seq \in Nat
BY EnvelopeFields DEF Envelopes

LEMMA TailOf ==
    ASSUME NEW q \in Seq(Envelope), NEW m \in 0..Len(q)
    PROVE  LET t == SubSeq(q, m + 1, Len(q))
           IN  /\ t \in Seq(Envelope) /\ Len(t) = Len(q) - m
               /\ \A i \in 1..Len(t) : t[i] = q[m + i]
OBVIOUS

(* A function to which the value it has is assigned.                       *)
LEMMA SameExcept ==
    ASSUME NEW D, NEW f, f = [x \in D |-> f[x]], NEW d \in D
    PROVE  [f EXCEPT ![d] = f[d]] = f
OBVIOUS

(* Of a sequence in order the loop keeps all that follows some envelope.   *)
Cut(s, k, m) ==
    /\ \A i \in 1..m : s[i].seq <= k
    /\ \A i \in (m + 1)..Len(s) : s[i].seq > k

LEMMA AfterSuffix ==
    ASSUME NEW s \in Seq(Envelope), Increasing(s), NEW k \in Nat
    PROVE  \E m \in 0..Len(s) : Cut(s, k, m) /\ After(s, k) = SubSeq(s, m + 1, Len(s))
<1> DEFINE n == Len(s)
<1>1. n \in Nat /\ \A i \in 1..n : s[i] \in Envelope /\ s[i].seq \in Nat
  BY InEnvelopes
<1>2. PICK f : Keeps(f, s, k, n) /\ After(s, k) = f[n]
  BY <1>1, AfterKeeps
<1> DEFINE Is(i, m) == /\ m \in 0..i /\ f[i] = SubSeq(s, m + 1, i)
                       /\ \A j \in 1..m : s[j].seq <= k
                       /\ \A j \in (m + 1)..i : s[j].seq > k
           T == {i \in Nat : i <= n => \E m \in 0..i : Is(i, m)}
<1>3. 0 \in T
  <2>1. f[0] = <<>> /\ SubSeq(s, 1, 0) = <<>>
    BY <1>2 DEF Keeps
  <2>2. Is(0, 0)
    BY <2>1
  <2> HIDE DEF Is
  <2> QED BY <2>2
<1>4. ASSUME NEW i \in Nat, i \in T PROVE i + 1 \in T
  <2> SUFFICES ASSUME i + 1 <= n PROVE \E m \in 0..(i + 1) : Is(i + 1, m)
    <3> HIDE DEF Is
    <3> QED OBVIOUS
  <2>1. PICK m \in 0..i : Is(i, m)
    BY <1>1, <1>4
  <2>2. i + 1 \in 1..n /\ (i + 1) - 1 = i
    BY <1>1
  <2>3. f[i + 1] = IF s[i + 1].seq > k THEN Append(f[i], s[i + 1]) ELSE f[i]
    BY <1>2, <2>2, Zenon DEF Keeps
  <2>4. s[i + 1] \in Envelope /\ s[i + 1].seq \in Nat
    BY <1>1, <2>2
  <2>5. CASE s[i + 1].seq > k
    <3>1. f[i + 1] = Append(SubSeq(s, m + 1, i), s[i + 1])
      BY <2>1, <2>3, <2>5
    <3>2. Append(SubSeq(s, m + 1, i), s[i + 1]) = SubSeq(s, m + 1, i + 1)
      BY <1>1, <2>2
    <3>3. \A j \in (m + 1)..(i + 1) : s[j].seq > k
      BY <2>1, <2>5
    <3>4. Is(i + 1, m)
      BY <2>1, <3>1, <3>2, <3>3
    <3> QED BY <3>4
  <2>6. CASE ~(s[i + 1].seq > k)
    <3>1. \A j \in 1..i : s[j].seq < s[i + 1].seq
      BY <1>1, <2>2 DEF Increasing
    <3>2. \A j \in 1..i : s[j].seq <= k
      BY <1>1, <2>2, <2>4, <2>6, <3>1
    <3>3. m = i
      <4> SUFFICES ASSUME m < i PROVE FALSE
        OBVIOUS
      <4>1. i \in (m + 1)..i /\ i \in 1..i /\ i \in 1..n
        BY <1>1
      <4>2. s[i].seq > k /\ s[i].seq <= k /\ s[i].seq \in Nat
        BY <1>1, <2>1, <3>2, <4>1
      <4> QED BY <4>2
    <3>4. f[i + 1] = <<>> /\ SubSeq(s, (i + 1) + 1, i + 1) = <<>>
      BY <1>1, <2>1, <2>3, <2>6, <3>3
    <3>5. \A j \in 1..(i + 1) : s[j].seq <= k
      BY <2>4, <2>6, <3>2
    <3>6. Is(i + 1, i + 1)
      BY <3>4, <3>5
    <3> QED BY <3>6
  <2> QED BY <2>5, <2>6
<1>5. n \in T
  <2> HIDE DEF T
  <2> QED BY <1>1, <1>3, <1>4, SetInduction
<1>6. PICK m \in 0..n : Is(n, m)
  BY <1>1, <1>5
<1> QED BY <1>2, <1>6 DEF Cut

(* What is kept are the envelopes with higher numbers, in their order.     *)
LEMMA AfterFacts ==
    ASSUME NEW s \in Seq(Envelope), Increasing(s), NEW k \in Nat
    PROVE  /\ After(s, k) \in Seq(Envelope) /\ Increasing(After(s, k))
           /\ Envelopes(After(s, k)) = {e \in Envelopes(s) : e.seq > k}
<1> DEFINE u == After(s, k)
<1>1. PICK m \in 0..Len(s) : Cut(s, k, m) /\ u = SubSeq(s, m + 1, Len(s))
  BY AfterSuffix
<1>2. /\ Len(s) \in Nat /\ u \in Seq(Envelope) /\ Len(u) = Len(s) - m
      /\ \A i \in 1..Len(u) : u[i] = s[m + i]
  <2> HIDE DEF u
  <2> QED BY <1>1
<1> HIDE DEF u
<1>3. \A i \in 1..Len(s) : s[i].seq \in Nat
  BY InEnvelopes
<1>4. Increasing(u)
  <2> SUFFICES ASSUME NEW i \in 1..Len(u), NEW j \in 1..Len(u), i < j
               PROVE  u[i].seq < u[j].seq
    BY DEF Increasing
  <2>1. m + i \in 1..Len(s) /\ m + j \in 1..Len(s) /\ m + i < m + j
    BY <1>1, <1>2
  <2> QED BY <1>2, <2>1 DEF Increasing
<1>5. ASSUME NEW e \in Envelopes(u) PROVE e \in Envelopes(s) /\ e.seq > k
  <2>1. PICK i \in 1..Len(u) : e = u[i]
    BY DEF Envelopes
  <2>2. m + i \in (m + 1)..Len(s) /\ m + i \in 1..Len(s) /\ e = s[m + i]
    BY <1>1, <1>2, <2>1
  <2> QED BY <1>1, <2>2 DEF Envelopes, Cut
<1>6. ASSUME NEW e \in Envelopes(s), e.seq > k PROVE e \in Envelopes(u)
  <2>1. PICK i \in 1..Len(s) : e = s[i]
    BY DEF Envelopes
  <2>2. i > m
    BY <1>1, <1>2, <1>3, <1>6, <2>1 DEF Cut
  <2>3. i - m \in 1..Len(u) /\ u[i - m] = e
    BY <1>1, <1>2, <2>1, <2>2
  <2> QED BY <2>3 DEF Envelopes
<1> QED BY <1>2, <1>4, <1>5, <1>6 DEF u

(* The first one kept has all smaller numbers behind it.                   *)
LEMMA AfterHead ==
    ASSUME NEW s \in Seq(Envelope), Increasing(s), NEW k \in Nat, After(s, k) # <<>>
    PROVE  LET e == Head(After(s, k))
           IN  /\ e \in Envelopes(s) /\ e \in Envelope /\ e.seq > k
               /\ \A f \in Envelopes(s) : f.seq < e.seq => f.seq <= k
<1> DEFINE u == After(s, k)
           e == Head(u)
<1>1. u \in Seq(Envelope) /\ Increasing(u) /\ Envelopes(u) = {f \in Envelopes(s) : f.seq > k}
  BY AfterFacts
<1> HIDE DEF u
<1>2. Len(u) \in Nat /\ Len(u) > 0 /\ e = u[1] /\ e \in Envelope
  BY <1>1 DEF u
<1>3. e \in Envelopes(u)
  BY <1>2 DEF Envelopes
<1>4. \A f \in Envelopes(s) : f.seq \in Nat
  BY InEnvelopes
<1>5. e.seq \in Nat
  BY <1>2, EnvelopeFields
<1>6. ASSUME NEW f \in Envelopes(s), f.seq < e.seq PROVE f.seq <= k
  <2> SUFFICES ASSUME f.seq > k PROVE FALSE
    BY <1>4
  <2>1. PICK i \in 1..Len(u) : f = u[i]
    BY <1>1 DEF Envelopes
  <2>2. u[1].seq <= u[i].seq
    <3>1. CASE i = 1
      BY <1>2, <1>5, <3>1
    <3>2. CASE i # 1
      <4>1. 1 \in 1..Len(u) /\ 1 < i
        BY <1>2, <3>2
      <4>2. u[1].seq < u[i].seq
        BY <1>1, <4>1 DEF Increasing
      <4> QED BY <1>2, <1>4, <1>5, <2>1, <4>2
    <3> QED BY <3>1, <3>2
  <2> QED BY <1>2, <1>4, <1>5, <1>6, <2>1, <2>2
<1> QED BY <1>1, <1>2, <1>3, <1>6 DEF u

-----------------------------------------------------------------------------
(***************************************************************************)
(* Outboxes and queues of requests as sequences.                           *)
(***************************************************************************)
LEMMA AppendFacts ==
    ASSUME NEW q \in Seq(Envelope), NEW e \in Envelope
    PROVE  /\ Append(q, e) \in Seq(Envelope) /\ Len(Append(q, e)) = Len(q) + 1
           /\ Envelopes(Append(q, e)) = Envelopes(q) \cup {e}
           /\ Increasing(q) /\ (\A f \in Envelopes(q) : f.seq < e.seq)
                 => Increasing(Append(q, e))
<1> DEFINE u == Append(q, e)
<1>1. /\ u \in Seq(Envelope) /\ Len(q) \in Nat /\ Len(u) = Len(q) + 1
      /\ u[Len(q) + 1] = e /\ \A i \in 1..Len(q) : u[i] = q[i]
  OBVIOUS
<1> HIDE DEF u
<1>2. Envelopes(u) = Envelopes(q) \cup {e}
  <2>1. \A i \in 1..Len(u) : i \in 1..Len(q) \/ i = Len(q) + 1
    BY <1>1
  <2>2. Len(q) + 1 \in 1..Len(u) /\ \A i \in 1..Len(q) : i \in 1..Len(u)
    BY <1>1
  <2> QED BY <1>1, <2>1, <2>2 DEF Envelopes
<1>3. ASSUME Increasing(q), \A f \in Envelopes(q) : f.seq < e.seq
      PROVE  Increasing(u)
  <2> SUFFICES ASSUME NEW i \in 1..Len(u), NEW j \in 1..Len(u), i < j
               PROVE  u[i].seq < u[j].seq
    BY DEF Increasing
  <2>1. i \in 1..Len(q) /\ (j \in 1..Len(q) \/ j = Len(q) + 1)
    BY <1>1
  <2> QED BY <1>1, <1>3, <2>1 DEF Increasing, Envelopes
<1> QED BY <1>1, <1>2, <1>3 DEF u

LEMMA RemoveFacts ==
    ASSUME NEW q \in Seq(Envelope), NEW i \in 1..Len(q)
    PROVE  /\ RemoveAt(q, i) \in Seq(Envelope) /\ Len(RemoveAt(q, i)) <= Len(q)
           /\ Envelopes(RemoveAt(q, i)) \subseteq Envelopes(q)
<1> DEFINE a == SubSeq(q, 1, i - 1)
           b == SubSeq(q, i + 1, Len(q))
           u == a \o b
<1>1. u = RemoveAt(q, i)
  BY Zenon DEF RemoveAt
<1>2. Len(q) \in Nat /\ i \in Nat /\ i >= 1 /\ i <= Len(q)
  OBVIOUS
<1>3. a \in Seq(Envelope) /\ Len(a) = i - 1 /\ \A j \in 1..(i - 1) : a[j] = q[j]
  BY <1>2
<1>4. b \in Seq(Envelope) /\ Len(b) = Len(q) - i /\ \A j \in 1..(Len(q) - i) : b[j] = q[i + j]
  BY <1>2
<1> HIDE DEF a, b
<1>5. /\ u \in Seq(Envelope) /\ Len(u) = Len(a) + Len(b)
      /\ \A j \in 1..Len(u) : u[j] = IF j <= Len(a) THEN a[j] ELSE b[j - Len(a)]
  <2>1. /\ u \in Seq(Envelope) /\ Len(u) = Len(a) + Len(b)
        /\ \A j \in 1..Len(a) + Len(b) : u[j] = IF j <= Len(a) THEN a[j] ELSE b[j - Len(a)]
    BY <1>3, <1>4, ConcatProperties, Zenon
  <2> HIDE DEF u
  <2> QED BY <2>1
<1> HIDE DEF u
<1>6. ASSUME NEW e \in Envelopes(u) PROVE e \in Envelopes(q)
  <2>1. PICK j \in 1..Len(u) : e = u[j]
    BY DEF Envelopes
  <2>2. CASE j <= Len(a)
    <3>1. j \in 1..(i - 1) /\ j \in 1..Len(q) /\ e = a[j]
      BY <1>2, <1>3, <1>5, <2>1, <2>2
    <3> QED BY <1>3, <3>1 DEF Envelopes
  <2>3. CASE ~(j <= Len(a))
    <3> DEFINE l == j - Len(a)
    <3>1. l \in 1..(Len(q) - i) /\ i + l \in 1..Len(q) /\ e = b[l]
      BY <1>2, <1>3, <1>4, <1>5, <2>1, <2>3
    <3> HIDE DEF l
    <3> QED BY <1>4, <3>1 DEF Envelopes
  <2> QED BY <2>2, <2>3
<1>7. Len(u) <= Len(q)
  BY <1>2, <1>3, <1>4, <1>5
<1> QED BY <1>1, <1>5, <1>6, <1>7

LEMMA TailFacts ==
    ASSUME NEW q \in Seq(Envelope), q # <<>>
    PROVE  /\ Tail(q) \in Seq(Envelope)
           /\ Head(q) \in Envelopes(q) /\ Head(q) \in Envelope
           /\ Envelopes(Tail(q)) \subseteq Envelopes(q)
           /\ \A e \in Envelopes(q) : e = Head(q) \/ e \in Envelopes(Tail(q))
           /\ Increasing(q) => /\ Increasing(Tail(q))
                               /\ \A e \in Envelopes(Tail(q)) : Head(q).seq < e.seq
<1> DEFINE u == Tail(q)
           h == Head(q)
<1>1. /\ u \in Seq(Envelope) /\ Len(q) \in Nat /\ Len(q) > 0 /\ Len(u) = Len(q) - 1
      /\ h = q[1] /\ \A i \in 1..Len(u) : u[i] = q[i + 1]
  OBVIOUS
<1>2. h \in Envelope /\ 1 \in 1..Len(q)
  BY <1>1
<1> HIDE DEF u, h
<1>3. \A i \in 1..Len(u) : i + 1 \in 1..Len(q) /\ 1 < i + 1
  BY <1>1
<1>4. \A i \in 1..Len(q) : i = 1 \/ (i - 1 \in 1..Len(u) /\ (i - 1) + 1 = i)
  BY <1>1
<1>5. h \in Envelopes(q) /\ Envelopes(u) \subseteq Envelopes(q)
  BY <1>1, <1>2, <1>3 DEF Envelopes
<1>6. ASSUME NEW e \in Envelopes(q) PROVE e = h \/ e \in Envelopes(u)
  <2>1. PICK i \in 1..Len(q) : e = q[i]
    BY DEF Envelopes
  <2>2. i = 1 \/ (e = u[i - 1] /\ i - 1 \in 1..Len(u))
    BY <1>1, <1>4, <2>1
  <2> QED BY <1>1, <2>1, <2>2 DEF Envelopes
<1>7. ASSUME Increasing(q) PROVE Increasing(u) /\ \A e \in Envelopes(u) : h.seq < e.seq
  <2>1. ASSUME NEW i \in 1..Len(u), NEW j \in 1..Len(u), i < j PROVE u[i].seq < u[j].seq
    <3>1. i + 1 < j + 1
      BY <2>1, <1>1
    <3> QED BY <1>1, <1>3, <1>7, <3>1 DEF Increasing
  <2>2. \A i \in 1..Len(u) : h.seq < u[i].seq
    BY <1>1, <1>2, <1>3, <1>7 DEF Increasing
  <2> QED BY <2>1, <2>2 DEF Increasing, Envelopes
<1> QED BY <1>1, <1>2, <1>5, <1>6, <1>7 DEF u, h

LEMMA PeerType == \A n \in Node : /\ Peer(n) \in Node /\ Peer(n) # n /\ Peer(Peer(n)) = n
                                  /\ \A k \in Node : k = n \/ k = Peer(n)
BY NodeAssumption DEF Peer, Node

-----------------------------------------------------------------------------
(***************************************************************************)
(* Types.  Only Restart gives a node fewer envelopes than it had.          *)
(***************************************************************************)
StoreOK ==
    /\ node \in [Node -> NodeState] /\ saved \in [Node -> NodeState]
    /\ \A n \in Node : Numbered(node[n]) /\ Numbered(saved[n])
    /\ failed \in 0..MaxFailedSaves

Grown == \A n \in Node : node[n].outSeq <= node'[n].outSeq

LooseOK(q) == q \in [Node -> Seq(Envelope)] /\ \A n \in Node : Len(q[n]) <= MaxLoose

LEMMA TInvStore == TInv => StoreOK /\ LooseOK(loose)
BY DEF TInv, TypeOK, StoreOK, LooseOK

LEMMA StateFields ==
    ASSUME NEW s \in NodeState
    PROVE  /\ s.outSeq \in Nat /\ s.outbox \in Seq(Envelope) /\ s.seen \subseteq Nat
           /\ s.last \in Nat /\ s.replies \subseteq Nat \X Envelope
BY Zenon DEF NodeState

LEMMA PersistType ==
    ASSUME StoreOK, NEW n \in Node, NEW s \in NodeState, Numbered(s),
           node[n].outSeq <= s.outSeq, Persist(n, s)
    PROVE  StoreOK' /\ Grown
<1>1. node' = [node EXCEPT ![n] = s] /\ (saved' = [saved EXCEPT ![n] = s] \/ saved' = saved)
  BY DEF Persist
<1>2. failed' \in 0..MaxFailedSaves
  BY BoundAssumption DEF Persist, StoreOK
<1>3. node' \in [Node -> NodeState] /\ saved' \in [Node -> NodeState]
  BY <1>1 DEF StoreOK
<1>4. \A k \in Node : (node'[k] = s \/ node'[k] = node[k]) /\ (saved'[k] = s \/ saved'[k] = saved[k])
  BY <1>1 DEF StoreOK
<1>5. \A k \in Node : Numbered(node'[k]) /\ Numbered(saved'[k])
  BY <1>4, Zenon DEF StoreOK
<1>6. \A k \in Node : node[k].outSeq \in Nat
  BY StateFields DEF StoreOK
<1>7. Grown
  <2> SUFFICES ASSUME NEW k \in Node PROVE node[k].outSeq <= node'[k].outSeq
    BY DEF Grown
  <2>1. CASE k = n
    BY <1>1, <2>1 DEF StoreOK
  <2>2. CASE k # n
    <3>1. node'[k] = node[k]
      BY <1>1, <2>2 DEF StoreOK
    <3> QED BY <1>6, <3>1
  <2> QED BY <2>1, <2>2
<1> QED BY <1>2, <1>3, <1>5, <1>7 DEF StoreOK

LEMMA RecordedType ==
    ASSUME NEW s \in NodeState, Numbered(s), NEW e \in Envelope, e.seq = s.outSeq + 1
    PROVE  Recorded(s, e) \in NodeState /\ Numbered(Recorded(s, e))
<1> DEFINE d == Recorded(s, e)
<1>1. d = [s EXCEPT !.outSeq = e.seq, !.outbox = Append(s.outbox, e)]
  BY DEF Recorded
<1>2. s.outbox \in Seq(Envelope) /\ s.outSeq \in Nat /\ e.seq \in Nat
  BY StateFields, EnvelopeFields
<1>3. Append(s.outbox, e) \in Seq(Envelope)
  BY <1>2, AppendFacts
<1>4. d \in NodeState
  BY <1>1, <1>2, <1>3, Zenon DEF NodeState
<1>5. d.outSeq = e.seq /\ d.outbox = Append(s.outbox, e)
  BY <1>1, Zenon DEF NodeState
<1> HIDE DEF d
<1>6. \A f \in Envelopes(s.outbox) : f.seq <= s.outSeq /\ f.seq \in Nat
  BY <1>2, InEnvelopes DEF Numbered
<1>7. \A f \in Envelopes(s.outbox) : f.seq < e.seq
  BY <1>2, <1>6
<1>8. Increasing(d.outbox) /\ Envelopes(d.outbox) = Envelopes(s.outbox) \cup {e}
  BY <1>2, <1>5, <1>7, AppendFacts DEF Numbered
<1>9. \A f \in Envelopes(d.outbox) : f.seq <= d.outSeq
  BY <1>2, <1>5, <1>6, <1>7, <1>8
<1>10. d \in NodeState /\ Numbered(d)
  BY <1>4, <1>8, <1>9 DEF Numbered
<1> QED BY <1>10 DEF d

-----------------------------------------------------------------------------
(***************************************************************************)
(* What processing an envelope does.                                       *)
(***************************************************************************)
Takes(s, d, e) == d.seen = s.seen \cup {e.id} /\ d.last = e.seq

Silent(s, d) == d.outSeq = s.outSeq /\ d.outbox = s.outbox /\ d.replies = s.replies

Sends(s, d, m) ==
    /\ m.seq = s.outSeq + 1 /\ d.outSeq = m.seq /\ d.outbox = Append(s.outbox, m)
    /\ s.replies \subseteq d.replies /\ \A a \in d.replies : a \in s.replies \/ a[2] = m

(* n takes e and is in state d after it, with or without an answer.        *)
Accepts(n, e, d) ==
    /\ e.id \notin node[n].seen /\ e.seq > node[n].last
    /\ Persist(n, d) /\ Takes(node[n], d, e)
    /\ \/ Silent(node[n], d) /\ made' = made
       \/ /\ e.hops > 0 /\ made' = made + 1
          /\ \E m \in Envelope : m.id = made + 1 /\ Sends(node[n], d, m)

(* n takes nothing, and may send a cached reply again.                     *)
Declines(n, e, rest) ==
    /\ UNCHANGED <<node, saved, made, failed>>
    /\ loose' = rest \/ DirectDeliver(n, e, rest)

(* Why n takes nothing: e is past, or due and in trouble.                  *)
Excused(n, e, verdict) == Past(node[n], e, old, {}) \/ (Due(n, e) /\ verdict # "ok")

LEMMA BuiltType ==
    ASSUME TypeOK, NEW s \in NodeState, NEW h \in Nat
    PROVE  Built(s, h) \in Envelope /\ Built(s, h).id = made + 1 /\ Built(s, h).seq = s.outSeq + 1
           /\ Built(s, h).hops = h
<1>1. s.outSeq \in Nat /\ made \in Nat
  BY StateFields DEF TypeOK
<1>2. made + 1 \in Nat \ {0} /\ s.outSeq + 1 \in Nat \ {0}
  BY <1>1
<1> QED BY <1>2, Zenon DEF Built, Envelope

LEMMA RouteEffect ==
    ASSUME TInv, NEW n \in Node, NEW e \in Envelope, Route(n, e),
           e.id \notin node[n].seen, e.seq > node[n].last
    PROVE  \E d \in NodeState : Numbered(d) /\ node[n].outSeq <= d.outSeq /\ Accepts(n, e, d)
<1> DEFINE s == node[n]
           p == Processed(s, e)
<1>1. s \in NodeState /\ Numbered(s)
  BY TInvStore DEF StoreOK
<1>2. /\ s.outSeq \in Nat /\ s.last \in Nat /\ s.seen \subseteq Nat
      /\ s.outbox \in Seq(Envelope) /\ s.replies \subseteq Nat \X Envelope
  BY <1>1, StateFields
<1>3. e.seq \in Nat /\ e.id \in Nat /\ e.hops \in Nat
  BY EnvelopeFields
<1>4. p = [s EXCEPT !.seen = s.seen \cup {e.id}, !.last = e.seq]
  BY <1>1, Zenon DEF Processed
<1> HIDE DEF s, p
<1>5. s.seen \cup {e.id} \in SUBSET Nat
  BY <1>2, <1>3
<1>6. p \in NodeState
  BY <1>1, <1>3, <1>4, <1>5, Zenon DEF NodeState
<1>7. Takes(s, p, e) /\ Silent(s, p)
  BY <1>1, <1>4, Zenon DEF NodeState, Takes, Silent
<1>8. Numbered(p)
  BY <1>1, <1>7, Zenon DEF Silent, Numbered
<1>9. s.outSeq <= s.outSeq
  BY <1>2
<1>10. CASE e.hops = 0
  <2>1. Persist(n, p) /\ made' = made
    BY <1>10, Zenon DEF Route, s, p
  <2>2. s.outSeq <= p.outSeq
    BY <1>7, <1>9, Zenon DEF Silent
  <2>3. Accepts(n, e, p)
    BY <1>7, <2>1, Zenon DEF Accepts, s
  <2> QED BY <1>6, <1>8, <2>2, <2>3 DEF s
<1>11. CASE e.hops # 0
  <2> DEFINE m == Built(s, e.hops - 1)
             q == Recorded(p, m)
             d == [q EXCEPT !.replies = q.replies \cup {<<e.id, m>>}]
  <2>1. e.hops - 1 \in Nat /\ e.hops > 0
    BY <1>3, <1>11
  <2>2. m \in Envelope /\ m.id = made + 1 /\ m.seq = s.outSeq + 1
    <3> HIDE DEF m
    <3> QED BY <1>1, <2>1, BuiltType DEF m, TInv
  <2>3. Persist(n, d) /\ made' = made + 1
    BY <1>11, Zenon DEF Route, s, p
  <2> HIDE DEF m
  <2>4. m.seq = p.outSeq + 1
    BY <1>7, <2>2 DEF Silent
  <2>5. q \in NodeState /\ Numbered(q)
    BY <1>6, <1>8, <2>2, <2>4, RecordedType
  <2>6. /\ q.outSeq = m.seq /\ q.outbox = Append(p.outbox, m) /\ q.replies = p.replies
        /\ q.seen = p.seen /\ q.last = p.last
    BY <1>6, Zenon DEF Recorded, NodeState
  <2> HIDE DEF q
  <2>7. q.replies \cup {<<e.id, m>>} \in SUBSET (Nat \X Envelope)
    BY <1>2, <1>3, <1>7, <2>2, <2>6 DEF Silent
  <2>8. d \in NodeState
    BY <2>5, <2>7, Zenon DEF NodeState
  <2>9. /\ d.outSeq = q.outSeq /\ d.outbox = q.outbox /\ d.seen = q.seen /\ d.last = q.last
        /\ d.replies = q.replies \cup {<<e.id, m>>}
    BY <2>5, Zenon DEF NodeState
  <2> HIDE DEF d
  <2>10. Numbered(d)
    BY <2>5, <2>9, Zenon DEF Numbered
  <2>11. Takes(s, d, e)
    BY <1>7, <2>6, <2>9, Zenon DEF Takes
  <2>12. Sends(s, d, m)
    <3>1. d.replies = s.replies \cup {<<e.id, m>>} /\ d.outbox = Append(s.outbox, m) /\ d.outSeq = m.seq
      BY <1>7, <2>6, <2>9 DEF Silent
    <3>2. \A a \in d.replies : a \in s.replies \/ a[2] = m
      BY <3>1
    <3> QED BY <2>2, <3>1, <3>2 DEF Sends
  <2>13. Accepts(n, e, d)
    BY <2>1, <2>2, <2>3, <2>11, <2>12, Zenon DEF Accepts, s
  <2>14. s.outSeq <= d.outSeq
    BY <1>2, <2>2, <2>6, <2>9
  <2> QED BY <2>8, <2>10, <2>13, <2>14 DEF s
<1> QED BY <1>10, <1>11

LEMMA VerdictCases ==
    ASSUME NEW n \in Node, NEW e, node[n].last \in Nat, e.seq \in Nat, NEW trouble
    PROVE  LET v == Verdict(n, e, trouble)
           IN  /\ v = "ok" => e.id \notin node[n].seen /\ e.seq > node[n].last
               /\ Accepted(v) /\ v # "ok" => v = "duplicate" /\ e.id \in node[n].seen
               /\ v # "ok" => Excused(n, e, v)
<1>1. e.seq <= node[n].last <=> ~(e.seq > node[n].last)
  OBVIOUS
<1>2. CASE e.id \in node[n].seen
  <2>1. Past(node[n], e, old, {})
    BY <1>2 DEF Past
  <2>2. Verdict(n, e, trouble) \in {"unknown-key", "duplicate"}
    BY <1>2 DEF Verdict
  <2> QED BY <1>2, <2>1, <2>2 DEF Accepted, Excused
<1>3. CASE e.id \notin node[n].seen /\ e.seq <= node[n].last
  <2>1. Past(node[n], e, old, {})
    BY <1>3 DEF Past
  <2>2. Verdict(n, e, trouble) \in {"unknown-key", "stale-seq"}
    BY <1>1, <1>3 DEF Verdict
  <2> QED BY <2>1, <2>2 DEF Accepted, Excused
<1>4. CASE e.id \notin node[n].seen /\ e.seq > node[n].last /\ e.id <= old
  <2>1. Past(node[n], e, old, {})
    BY <1>4 DEF Past
  <2>2. Verdict(n, e, trouble) \in {"unknown-key", "too-old"}
    BY <1>1, <1>4 DEF Verdict
  <2> QED BY <2>1, <2>2 DEF Accepted, Excused
<1>5. CASE e.id \notin node[n].seen /\ e.seq > node[n].last /\ ~(e.id <= old)
  <2>1. Due(n, e)
    BY <1>1, <1>5 DEF Verdict, Due
  <2>2. Verdict(n, e, trouble) \in {"unknown-key", "future", "ok"}
    BY <1>1, <1>5 DEF Verdict
  <2> QED BY <1>5, <2>1, <2>2 DEF Accepted, Excused
<1> QED BY <1>1, <1>2, <1>3, <1>4, <1>5

LEMMA InboundEffect ==
    ASSUME TInv, NEW n \in Node, NEW e \in Envelope, NEW rest, NEW trouble,
           ProcessInbound(n, e, Verdict(n, e, trouble), rest)
    PROVE  \/ /\ loose' = rest /\ Accepted(Verdict(n, e, trouble))
              /\ \E d \in NodeState :
                    Numbered(d) /\ node[n].outSeq <= d.outSeq /\ Accepts(n, e, d)
           \/ /\ Declines(n, e, rest) /\ (Accepted(Verdict(n, e, trouble)) => e.id \in node[n].seen)
              /\ Excused(n, e, Verdict(n, e, trouble))
<1> DEFINE v == Verdict(n, e, trouble)
<1>1. node[n].last \in Nat /\ e.seq \in Nat
  BY TInvStore, StateFields, EnvelopeFields DEF StoreOK
<1>2. /\ v = "ok" => e.id \notin node[n].seen /\ e.seq > node[n].last
      /\ Accepted(v) /\ v # "ok" => v = "duplicate" /\ e.id \in node[n].seen
      /\ v # "ok" => Excused(n, e, v)
  BY <1>1, VerdictCases
<1> HIDE DEF v
<1>3. ProcessInbound(n, e, v, rest)
  BY DEF v
<1>4. CASE v = "ok"
  <2>1. Route(n, e) /\ loose' = rest /\ Accepted(v)
    BY <1>3, <1>4 DEF ProcessInbound, Accepted
  <2> QED BY <1>2, <1>4, <2>1, RouteEffect DEF v
<1>5. CASE v # "ok"
  <2>1. Declines(n, e, rest)
    BY <1>3, <1>5 DEF ProcessInbound, Declines
  <2> QED BY <1>2, <1>5, <2>1 DEF v
<1> QED BY <1>4, <1>5

-----------------------------------------------------------------------------
(***************************************************************************)
(* TInv is inductive.                                                      *)
(***************************************************************************)
PushedOK == pushed \in [Node -> Nat] /\ \A n \in Node : pushed[n] <= node[n].outSeq

PostOK ==
    /\ post \in [Node -> Posting \cup {None}]
    /\ \A n \in Node : post[n] # None => post[n].env.seq <= node[n].outSeq

PullOK == pull \in [Node -> Pulling \cup {None}]

CountOK ==
    /\ made \in Nat /\ old \in 0..made /\ restarts \in 0..MaxRestarts
    /\ refused \in [Node -> SUBSET Nat]

LEMMA TInvParts == TInv <=> StoreOK /\ LooseOK(loose) /\ PushedOK /\ PostOK /\ PullOK /\ CountOK
BY DEF TInv, TypeOK, StoreOK, LooseOK, PushedOK, PostOK, PullOK, CountOK

LEMMA TInvNext ==
    ASSUME StoreOK', LooseOK(loose)', PushedOK', PostOK', PullOK', CountOK'
    PROVE  TInv'
BY DEF TInv, TypeOK, StoreOK, LooseOK, PushedOK, PostOK, PullOK, CountOK

LEMMA PostFields ==
    ASSUME PostOK, NEW n \in Node, post[n] # None
    PROVE  /\ post[n].env \in Envelope /\ post[n].answer \in {"none", "accepted", "refused"}
           /\ post[n].env.seq \in Nat /\ post[n].env.seq <= node[n].outSeq
<1>1. post[n] \in Posting
  BY DEF PostOK
<1>2. post[n].env \in Envelope /\ post[n].answer \in {"none", "accepted", "refused"}
  BY <1>1, Zenon DEF Posting
<1> QED BY <1>2, EnvelopeFields DEF PostOK

LEMMA PullFields ==
    ASSUME PullOK, NEW n \in Node, pull[n] # None
    PROVE  pull[n] \in Pulling /\ pull[n].todo \in Seq(Envelope) /\ pull[n].acked \in Nat \cup {None}
<1>1. pull[n] \in Pulling
  BY DEF PullOK
<1> QED BY <1>1, Zenon DEF Pulling

LEMMA GrownKeeps ==
    ASSUME TInv, StoreOK', Grown
    PROVE  (pushed' = pushed => PushedOK') /\ (post' = post => PostOK')
<1>1. StoreOK /\ PushedOK /\ PostOK
  BY TInvParts
<1>2. \A n \in Node : /\ node[n].outSeq \in Nat /\ node'[n].outSeq \in Nat
                      /\ node[n].outSeq <= node'[n].outSeq
  BY <1>1, StateFields DEF StoreOK, Grown
<1>3. ASSUME pushed' = pushed PROVE PushedOK'
  BY <1>1, <1>2, <1>3 DEF PushedOK
<1>4. ASSUME post' = post PROVE PostOK'
  <2>1. \A n \in Node : post[n] # None => post[n].env.seq \in Nat /\ post[n].env.seq <= node[n].outSeq
    BY <1>1, PostFields
  <2>2. \A n \in Node : post[n] # None => post[n].env.seq <= node'[n].outSeq
    BY <1>2, <2>1
  <2> QED BY <1>1, <1>4, <2>2 DEF PostOK
<1> QED BY <1>3, <1>4

LEMMA SameStore ==
    ASSUME TInv, UNCHANGED <<node, saved, failed>>
    PROVE  StoreOK' /\ Grown
<1>1. StoreOK
  BY TInvParts
<1>2. \A n \in Node : node[n].outSeq \in Nat
  BY <1>1, StateFields DEF StoreOK
<1> QED BY <1>1, <1>2 DEF StoreOK, Grown

LEMMA AppendLoose ==
    ASSUME NEW q, LooseOK(q), NEW n \in Node, NEW e \in Envelope, Len(q[n]) < MaxLoose
    PROVE  LooseOK([q EXCEPT ![n] = Append(q[n], e)])
<1>1. q[n] \in Seq(Envelope) /\ Len(q[n]) \in Nat
  BY DEF LooseOK
<1>2. Append(q[n], e) \in Seq(Envelope) /\ Len(Append(q[n], e)) = Len(q[n]) + 1
  BY <1>1, AppendFacts
<1>3. Len(q[n]) + 1 <= MaxLoose
  BY <1>1, BoundAssumption
<1> DEFINE u == [q EXCEPT ![n] = Append(q[n], e)]
<1>4. u \in [Node -> Seq(Envelope)] /\ u[n] = Append(q[n], e) /\ \A k \in Node : k # n => u[k] = q[k]
  BY <1>2 DEF LooseOK
<1> HIDE DEF u
<1>5. \A k \in Node : Len(u[k]) <= MaxLoose
  BY <1>2, <1>3, <1>4 DEF LooseOK
<1>6. LooseOK(u)
  BY <1>4, <1>5 DEF LooseOK
<1> QED BY <1>6 DEF u

LEMMA InboundType ==
    ASSUME TInv, NEW n \in Node, NEW e \in Envelope, NEW rest, LooseOK(rest), NEW trouble,
           ProcessInbound(n, e, Verdict(n, e, trouble), rest)
    PROVE  /\ StoreOK' /\ Grown /\ LooseOK(loose')
           /\ made' \in Nat /\ made <= made'
<1>1. StoreOK /\ made \in Nat
  BY TInvParts DEF CountOK
<1>2. CASE loose' = rest /\ \E d \in NodeState :
              Numbered(d) /\ node[n].outSeq <= d.outSeq /\ Accepts(n, e, d)
  <2>1. PICK d \in NodeState : Numbered(d) /\ node[n].outSeq <= d.outSeq /\ Accepts(n, e, d)
    BY <1>2
  <2>2. StoreOK' /\ Grown
    BY <1>1, <2>1, PersistType DEF Accepts
  <2> QED BY <1>1, <1>2, <2>1, <2>2 DEF Accepts
<1>3. CASE Declines(n, e, rest)
  <2>1. StoreOK' /\ Grown /\ made' = made
    BY <1>3, SameStore DEF Declines
  <2>2. CASE loose' = rest
    BY <1>1, <2>1, <2>2
  <2>3. CASE loose' # rest
    <3>1. DirectDeliver(n, e, rest)
      BY <1>3, <2>3 DEF Declines
    <3>2. PICK r \in node[n].replies :
             /\ Len(rest[Peer(n)]) < MaxLoose
             /\ loose' = [rest EXCEPT ![Peer(n)] = Append(@, r[2])]
      BY <2>3, <3>1 DEF DirectDeliver
    <3>3. r[2] \in Envelope
      BY <1>1, StateFields DEF StoreOK
    <3>4. LooseOK(loose')
      BY <3>2, <3>3, AppendLoose, PeerType
    <3> QED BY <1>1, <2>1, <3>4
  <2> QED BY <2>2, <2>3
<1> QED BY <1>2, <1>3, InboundEffect

LEMMA GiveUpType ==
    ASSUME TInv, NEW n \in Node, post[n] # None, GiveUp(n)
    PROVE  LooseOK(loose')
<1>1. LooseOK(loose) /\ post[n].env \in Envelope
  BY TInvParts, PostFields
<1> QED BY <1>1, AppendLoose, PeerType DEF GiveUp

LEMMA TypeCall ==
    ASSUME TInv, NEW n \in Node, NEW hops \in Hops, Call(n, hops)
    PROVE  TInv'
<1>1. node[n] \in NodeState /\ Numbered(node[n]) /\ hops \in Nat /\ TypeOK /\ StoreOK
  BY TInvParts, CallAssumption DEF StoreOK, TInv
<1> DEFINE m == Built(node[n], hops)
           d == Recorded(node[n], m)
<1>2. m \in Envelope /\ m.seq = node[n].outSeq + 1
  BY <1>1, BuiltType
<1> HIDE DEF m
<1>3. d \in NodeState /\ Numbered(d)
  BY <1>1, <1>2, RecordedType
<1>4. d.outSeq = m.seq
  BY <1>1, Zenon DEF Recorded, NodeState
<1>5. node[n].outSeq \in Nat
  BY <1>1, StateFields
<1>6. node[n].outSeq <= d.outSeq /\ Persist(n, d)
  BY <1>2, <1>4, <1>5 DEF Call, m
<1>7. StoreOK' /\ Grown
  BY <1>1, <1>3, <1>6, PersistType
<1>8. UNCHANGED <<pushed, post, pull, loose, old, refused, restarts>> /\ made' = made + 1
  BY DEF Call
<1>9. CountOK'
  BY <1>8, TInvParts DEF CountOK
<1>10. LooseOK(loose)' /\ PullOK'
  BY <1>8, TInvParts DEF LooseOK, PullOK
<1>11. PushedOK' /\ PostOK'
  BY <1>7, <1>8, GrownKeeps
<1> QED BY <1>7, <1>9, <1>10, <1>11, TInvNext

LEMMA TypePushStart ==
    ASSUME TInv, NEW n \in Node, PushStart(n)
    PROVE  TInv'
<1>1. UNCHANGED <<node, saved, pushed, pull, loose, made, old, refused, restarts, failed>>
  BY DEF PushStart
<1>2. StoreOK' /\ Grown
  BY <1>1, SameStore
<1>3. node[n] \in NodeState /\ Numbered(node[n]) /\ pushed[n] \in Nat /\ PostOK
  BY TInvParts DEF StoreOK, PushedOK
<1> DEFINE e == Head(Unpushed(n))
<1>4. e \in Envelope /\ e \in Envelopes(node[n].outbox)
  <2>1. Unpushed(n) # <<>>
    BY DEF PushStart
  <2> QED BY <1>3, <2>1, StateFields, AfterHead DEF Unpushed, Numbered
<1>5. post' = [post EXCEPT ![n] = [env |-> e, answer |-> "none"]]
  BY DEF PushStart
<1> HIDE DEF e
<1>6. e.seq <= node[n].outSeq
  BY <1>3, <1>4 DEF Numbered
<1>7. [env |-> e, answer |-> "none"] \in Posting
  BY <1>4, Zenon DEF Posting
<1>8. post' \in [Node -> Posting \cup {None}]
  BY <1>3, <1>5, <1>7 DEF PostOK
<1>9. post'[n].env = e /\ \A k \in Node : k # n => post'[k] = post[k]
  BY <1>3, <1>5 DEF PostOK
<1>10. PostOK'
  BY <1>1, <1>3, <1>6, <1>8, <1>9 DEF PostOK
<1>11. PushedOK'
  BY <1>1, <1>2, GrownKeeps
<1>12. LooseOK(loose)' /\ PullOK' /\ CountOK'
  BY <1>1, TInvParts DEF LooseOK, PullOK, CountOK
<1> QED BY <1>2, <1>10, <1>11, <1>12, TInvNext

LEMMA TypePushArrives ==
    ASSUME TInv, NEW n \in Node, PushArrives(n)
    PROVE  TInv'
<1> DEFINE p == Peer(n)
           e == post[p].env
<1>0. PICK trouble \in Troubles : ArrivesWith(n, trouble)
  BY DEF PushArrives
<1>1. p \in Node /\ post[p] # None /\ ProcessInbound(n, e, Verdict(n, e, trouble), loose)
  BY <1>0, PeerType DEF ArrivesWith
<1>2. PostOK /\ LooseOK(loose) /\ e \in Envelope /\ post[p] \in Posting
  BY <1>1, TInvParts, PostFields DEF PostOK
<1>3. StoreOK' /\ Grown /\ LooseOK(loose)' /\ made' \in Nat /\ made <= made'
  <2>1. StoreOK' /\ Grown /\ LooseOK(loose') /\ made' \in Nat /\ made <= made'
    BY <1>1, <1>2, InboundType
  <2> QED BY <2>1 DEF LooseOK
<1>4. PICK a \in {"accepted", "refused"} : post' = [post EXCEPT ![p].answer = a]
  BY <1>0, Zenon DEF ArrivesWith
<1> HIDE DEF e
<1>5. [post[p] EXCEPT !.answer = a] \in Posting
  BY <1>2, <1>4, Zenon DEF Posting
<1>6. post' = [post EXCEPT ![p] = [post[p] EXCEPT !.answer = a]]
  BY <1>4
<1>7. post' \in [Node -> Posting \cup {None}]
  BY <1>1, <1>2, <1>5, <1>6 DEF PostOK
<1>8. post'[p] = [post[p] EXCEPT !.answer = a] /\ \A k \in Node : k # p => post'[k] = post[k]
  BY <1>1, <1>2, <1>6 DEF PostOK
<1>9. post'[p].env = post[p].env
  BY <1>2, <1>8, Zenon DEF Posting
<1>10. \A k \in Node : post[k] # None => post[k].env.seq \in Nat /\ post[k].env.seq <= node[k].outSeq
  BY <1>2, PostFields
<1>11. \A k \in Node : node[k].outSeq \in Nat /\ node'[k].outSeq \in Nat /\ node[k].outSeq <= node'[k].outSeq
  BY <1>3, TInvParts, StateFields DEF StoreOK, Grown
<1>12. \A k \in Node : post'[k] # None => post'[k].env.seq <= node'[k].outSeq
  <2> SUFFICES ASSUME NEW k \in Node, post'[k] # None
               PROVE  post'[k].env.seq <= node'[k].outSeq
    OBVIOUS
  <2>1. post[k] # None /\ post'[k].env = post[k].env
    BY <1>1, <1>8, <1>9
  <2> QED BY <1>10, <1>11, <2>1
<1>13. PostOK'
  BY <1>7, <1>12 DEF PostOK
<1>14. UNCHANGED <<pushed, pull, old, refused, restarts>>
  BY <1>0 DEF ArrivesWith
<1>15. PushedOK' /\ PullOK' /\ CountOK'
  BY <1>3, <1>14, GrownKeeps, TInvParts DEF PullOK, CountOK
<1> QED BY <1>3, <1>13, <1>15, TInvNext

LEMMA TypePushReturns ==
    ASSUME TInv, NEW n \in Node, PushReturns(n)
    PROVE  TInv'
<1>1. UNCHANGED <<node, saved, pull, loose, made, old, refused, restarts, failed>> /\ post[n] # None
  BY DEF PushReturns
<1>2. StoreOK' /\ Grown /\ PostOK /\ PushedOK
  BY <1>1, SameStore, TInvParts
<1> DEFINE c == CursorAfter(pushed[n], post[n].answer, post[n].env.seq)
<1>3. c \in Nat /\ c <= node[n].outSeq
  BY <1>1, <1>2, PostFields DEF PushedOK, CursorAfter
<1>4. pushed' = [pushed EXCEPT ![n] = c] /\ post' = [post EXCEPT ![n] = None]
  BY DEF PushReturns
<1> HIDE DEF c
<1>5. PushedOK'
  BY <1>1, <1>2, <1>3, <1>4 DEF PushedOK
<1>6. post' \in [Node -> Posting \cup {None}] /\ \A k \in Node : post'[k] = None \/ post'[k] = post[k]
  BY <1>2, <1>4 DEF PostOK
<1>7. PostOK'
  BY <1>1, <1>2, <1>6 DEF PostOK
<1>8. LooseOK(loose)' /\ PullOK' /\ CountOK'
  BY <1>1, TInvParts DEF LooseOK, PullOK, CountOK
<1> QED BY <1>2, <1>5, <1>7, <1>8, TInvNext

LEMMA TypeLose ==
    ASSUME TInv, NEW n \in Node, LoseRequest(n) \/ LoseAnswer(n)
    PROVE  TInv'
<1>1. /\ UNCHANGED <<node, saved, pushed, pull, made, old, refused, restarts, failed>>
      /\ post[n] # None /\ post' = [post EXCEPT ![n] = None]
      /\ GiveUp(n) \/ UNCHANGED loose
  BY DEF LoseRequest, LoseAnswer
<1>2. StoreOK' /\ Grown /\ PostOK /\ LooseOK(loose)
  BY <1>1, SameStore, TInvParts
<1>3. LooseOK(loose)'
  <2>1. LooseOK(loose')
    BY <1>1, <1>2, GiveUpType
  <2> QED BY <2>1 DEF LooseOK
<1>4. post' \in [Node -> Posting \cup {None}] /\ \A k \in Node : post'[k] = None \/ post'[k] = post[k]
  BY <1>1, <1>2 DEF PostOK
<1>5. PostOK'
  BY <1>1, <1>2, <1>4 DEF PostOK
<1>6. PushedOK' /\ PullOK' /\ CountOK'
  BY <1>1, <1>2, GrownKeeps, TInvParts DEF PullOK, CountOK
<1> QED BY <1>2, <1>3, <1>5, <1>6, TInvNext

LEMMA TypeLooseArrives ==
    ASSUME TInv, NEW n \in Node, LooseArrives(n)
    PROVE  TInv'
<1>1. PICK i \in 1..Len(loose[n]), trouble \in Troubles :
         ProcessInbound(n, loose[n][i], Verdict(n, loose[n][i], trouble),
                        [loose EXCEPT ![n] = RemoveAt(@, i)])
  BY DEF LooseArrives
<1> DEFINE rest == [loose EXCEPT ![n] = RemoveAt(loose[n], i)]
<1>2. LooseOK(loose) /\ loose[n] \in Seq(Envelope) /\ loose[n][i] \in Envelope
  BY TInvParts, InEnvelopes DEF LooseOK
<1>3. RemoveAt(loose[n], i) \in Seq(Envelope) /\ Len(RemoveAt(loose[n], i)) <= Len(loose[n])
  BY <1>2, RemoveFacts
<1>4. LooseOK(rest)
  <2>1. rest \in [Node -> Seq(Envelope)] /\ \A k \in Node : k # n => rest[k] = loose[k]
    BY <1>2, <1>3 DEF LooseOK
  <2>2. rest[n] = RemoveAt(loose[n], i)
    BY <1>2 DEF LooseOK
  <2> HIDE DEF rest
  <2>3. Len(rest[n]) \in Nat /\ Len(loose[n]) \in Nat /\ Len(loose[n]) <= MaxLoose
    BY <1>2, <2>1 DEF LooseOK
  <2>4. Len(rest[n]) <= MaxLoose
    BY <1>3, <2>2, <2>3, BoundAssumption
  <2> QED BY <1>2, <2>1, <2>4 DEF LooseOK
<1>5. StoreOK' /\ Grown /\ LooseOK(loose') /\ made' \in Nat /\ made <= made'
  BY <1>1, <1>2, <1>4, InboundType
<1>6. UNCHANGED <<pushed, post, pull, old, refused, restarts>>
  BY DEF LooseArrives
<1>7. PushedOK' /\ PostOK' /\ PullOK' /\ CountOK' /\ LooseOK(loose)'
  BY <1>5, <1>6, GrownKeeps, TInvParts DEF PullOK, CountOK, LooseOK
<1> QED BY <1>5, <1>7, TInvNext

LEMMA TypePoll ==
    ASSUME TInv, NEW n \in Node, PollNext(n)
    PROVE  TInv'
<1>0. PICK trouble \in Troubles : PollWith(n, trouble)
  BY DEF PollNext
<1> DEFINE e == Head(pull[n].todo)
<1>1. pull[n] # None /\ pull[n].todo # <<>> /\ ProcessInbound(n, e, Verdict(n, e, trouble), loose)
  BY <1>0 DEF PollWith
<1>2. PullOK /\ LooseOK(loose) /\ pull[n] \in Pulling /\ pull[n].todo \in Seq(Envelope)
  BY <1>1, TInvParts, PullFields
<1>3. Head(pull[n].todo) \in Envelope /\ Tail(pull[n].todo) \in Seq(Envelope)
  BY <1>1, <1>2, TailFacts
<1>4. StoreOK' /\ Grown /\ LooseOK(loose') /\ made' \in Nat /\ made <= made'
  BY <1>1, <1>2, <1>3, InboundType
<1>5. pull' = [pull EXCEPT ![n] = [pull[n] EXCEPT !.todo = Tail(pull[n].todo)]]
  BY <1>0, <1>2 DEF PollWith, PolledAfter, PullOK
<1>6. [pull[n] EXCEPT !.todo = Tail(pull[n].todo)] \in Pulling
  BY <1>2, <1>3, Zenon DEF Pulling
<1>7. PullOK'
  BY <1>2, <1>5, <1>6 DEF PullOK
<1>8. UNCHANGED <<pushed, post, old, restarts>> /\ refused' \in [Node -> SUBSET Nat]
  <2>1. refused \in [Node -> SUBSET Nat] /\ Head(pull[n].todo).id \in Nat
    BY <1>3, TInvParts, EnvelopeFields DEF CountOK
  <2>2. PICK w \in SUBSET Nat : refused' = [refused EXCEPT ![n] = w]
    <3>1. \/ refused' = [refused EXCEPT ![n] = refused[n] \cup {Head(pull[n].todo).id}]
          \/ refused' = [refused EXCEPT ![n] = refused[n]]
      BY <1>0 DEF PollWith
    <3>2. refused[n] \cup {Head(pull[n].todo).id} \in SUBSET Nat /\ refused[n] \in SUBSET Nat
      BY <2>1
    <3> QED BY <3>1, <3>2
  <2> QED BY <1>0, <2>1, <2>2 DEF PollWith
<1>9. PushedOK' /\ PostOK' /\ CountOK' /\ LooseOK(loose)'
  BY <1>4, <1>8, GrownKeeps, TInvParts DEF CountOK, LooseOK
<1> QED BY <1>4, <1>7, <1>9, TInvNext

LEMMA TypeFetch ==
    ASSUME TInv, NEW n \in Node, FetchOutbox(n) \/ FetchCheckpoint(n)
    PROVE  TInv'
<1>1. UNCHANGED <<node, saved, pushed, post, loose, made, old, refused, restarts, failed>>
  BY DEF FetchOutbox, FetchCheckpoint
<1>2. StoreOK' /\ Grown /\ PullOK /\ node[Peer(n)] \in NodeState
  BY <1>1, SameStore, TInvParts, PeerType DEF StoreOK
<1>3. node[Peer(n)].outbox \in Seq(Envelope) /\ node[Peer(n)].last \in Nat
  BY <1>2, StateFields
<1>4. PullOK'
  <2>1. CASE FetchOutbox(n)
    <3>1. PICK envs \in Fetched(node[Peer(n)].outbox, <<>>) :
             pull' = [pull EXCEPT ![n] = [todo |-> envs, acked |-> None]]
      BY <2>1 DEF FetchOutbox
    <3>2. envs = node[Peer(n)].outbox \/ envs = <<>>
      BY <3>1 DEF Fetched
    <3>3. [todo |-> envs, acked |-> None] \in Pulling
      BY <1>3, <3>2, EmptySeq DEF Pulling
    <3> QED BY <1>2, <3>1, <3>3 DEF PullOK
  <2>2. CASE FetchCheckpoint(n)
    <3>1. PICK upto \in Fetched(node[Peer(n)].last, 0) : pull' = [pull EXCEPT ![n].acked = upto]
      BY <2>2 DEF FetchCheckpoint
    <3>2. upto \in Nat \cup {None} /\ pull[n] \in Pulling
      BY <1>2, <1>3, <2>2, <3>1, PullFields DEF Fetched, FetchCheckpoint
    <3>3. [pull[n] EXCEPT !.acked = upto] \in Pulling
      BY <3>2, Zenon DEF Pulling
    <3>4. pull' = [pull EXCEPT ![n] = [pull[n] EXCEPT !.acked = upto]]
      BY <3>1
    <3> QED BY <1>2, <3>3, <3>4 DEF PullOK
  <2> QED BY <2>1, <2>2
<1>5. PushedOK' /\ PostOK' /\ CountOK' /\ LooseOK(loose)'
  BY <1>1, <1>2, GrownKeeps, TInvParts DEF CountOK, LooseOK
<1> QED BY <1>2, <1>4, <1>5, TInvNext

LEMMA PrunedType ==
    ASSUME NEW s \in NodeState, Numbered(s), NEW k \in Nat
    PROVE  /\ Pruned(s, k) \in NodeState /\ Numbered(Pruned(s, k))
           /\ Pruned(s, k).outbox = After(s.outbox, k) /\ Pruned(s, k).outSeq = s.outSeq
           /\ Pruned(s, k).seen = s.seen /\ Pruned(s, k).last = s.last
           /\ Pruned(s, k).replies = s.replies
           /\ Envelopes(Pruned(s, k).outbox) = {e \in Envelopes(s.outbox) : e.seq > k}
<1> DEFINE u == After(s.outbox, k)
           d == Pruned(s, k)
<1>1. u \in Seq(Envelope) /\ Increasing(u) /\ Envelopes(u) = {e \in Envelopes(s.outbox) : e.seq > k}
  BY StateFields, AfterFacts DEF Numbered
<1>2. d = [s EXCEPT !.outbox = u]
  BY Zenon DEF Pruned, NodeState
<1> HIDE DEF u, d
<1>3. d \in NodeState
  BY <1>1, <1>2, Zenon DEF NodeState
<1>4. d.outbox = u /\ d.outSeq = s.outSeq /\ d.seen = s.seen /\ d.last = s.last /\ d.replies = s.replies
  BY <1>2, Zenon DEF NodeState
<1>5. Numbered(d)
  BY <1>1, <1>4 DEF Numbered
<1> QED BY <1>1, <1>3, <1>4, <1>5 DEF u, d

LEMMA TypePrune ==
    ASSUME TInv, NEW n \in Node, Prune(n)
    PROVE  TInv'
<1> DEFINE d == Pruned(node[n], pull[n].acked)
<1>1. /\ pull[n] # None /\ pull[n].acked # None /\ pull' = [pull EXCEPT ![n] = None]
      /\ UNCHANGED <<pushed, post, loose, made, old, refused, restarts>>
      /\ UNCHANGED <<node, saved, failed>> \/ Persist(n, d)
  BY DEF Prune
<1>2. StoreOK /\ PullOK /\ node[n] \in NodeState /\ Numbered(node[n])
  BY TInvParts DEF StoreOK
<1>3. pull[n].acked \in Nat
  BY <1>1, <1>2, PullFields
<1>4. d \in NodeState /\ Numbered(d) /\ d.outSeq = node[n].outSeq /\ node[n].outSeq \in Nat
  BY <1>2, <1>3, PrunedType, StateFields
<1> HIDE DEF d
<1>5. StoreOK' /\ Grown
  <2>1. CASE Persist(n, d)
    <3>1. node[n].outSeq <= d.outSeq
      BY <1>4
    <3> QED BY <1>2, <1>4, <2>1, <3>1, PersistType
  <2>2. CASE UNCHANGED <<node, saved, failed>>
    BY <2>2, SameStore
  <2> QED BY <1>1, <2>1, <2>2
<1>6. PullOK'
  BY <1>1, <1>2 DEF PullOK
<1>7. PushedOK' /\ PostOK' /\ CountOK' /\ LooseOK(loose)'
  BY <1>1, <1>5, GrownKeeps, TInvParts DEF CountOK, LooseOK
<1> QED BY <1>5, <1>6, <1>7, TInvNext

LEMMA TypeRestart ==
    ASSUME TInv, NEW n \in Node, Restart(n)
    PROVE  TInv'
<1>1. /\ node' = [node EXCEPT ![n] = saved[n]] /\ pushed' = [pushed EXCEPT ![n] = 0]
      /\ pull' = [pull EXCEPT ![n] = None] /\ post' = [post EXCEPT ![n] = None]
      /\ UNCHANGED loose \/ (post[n] # None /\ GiveUp(n))
      /\ UNCHANGED <<saved, made, old, refused, failed>>
  BY DEF Restart, CursorAfterRestart
<1>2. StoreOK /\ PushedOK /\ PostOK /\ PullOK /\ LooseOK(loose)
  BY TInvParts
<1>3. StoreOK'
  BY <1>1, <1>2 DEF StoreOK
<1>4. LooseOK(loose)'
  <2>1. LooseOK(loose')
    BY <1>1, <1>2, GiveUpType
  <2> QED BY <2>1 DEF LooseOK
<1>5. \A k \in Node : k # n => node'[k] = node[k] /\ pushed'[k] = pushed[k] /\ post'[k] = post[k]
  BY <1>1, <1>2 DEF StoreOK, PushedOK, PostOK
<1>6. pushed'[n] = 0 /\ post'[n] = None /\ node'[n].outSeq \in Nat
  BY <1>1, <1>2, StateFields DEF StoreOK, PushedOK, PostOK
<1>7. PushedOK'
  <2>1. \A k \in Node : pushed'[k] <= node'[k].outSeq
    BY <1>2, <1>5, <1>6 DEF PushedOK
  <2> QED BY <1>1, <1>2, <2>1 DEF PushedOK
<1>8. PostOK'
  BY <1>1, <1>2, <1>5, <1>6 DEF PostOK
<1>9. PullOK'
  BY <1>1, <1>2 DEF PullOK
<1>10. CountOK'
  BY <1>1, TInvParts, BoundAssumption DEF CountOK, Restart
<1> QED BY <1>3, <1>4, <1>7, <1>8, <1>9, <1>10, TInvNext

LEMMA TypeAge == TInv /\ (Age \/ UNCHANGED vars) => TInv'
<1> SUFFICES ASSUME TInv, Age \/ UNCHANGED vars PROVE TInv'
  OBVIOUS
<1>1. UNCHANGED <<node, saved, pushed, post, pull, loose, made, refused, restarts, failed>>
  BY DEF Age, vars
<1>2. StoreOK' /\ Grown
  BY <1>1, SameStore
<1>3. CountOK'
  BY <1>1, TInvParts DEF Age, vars, CountOK
<1>4. LooseOK(loose)' /\ PullOK'
  BY <1>1, TInvParts DEF LooseOK, PullOK
<1>5. PushedOK' /\ PostOK'
  BY <1>1, <1>2, GrownKeeps
<1> QED BY <1>2, <1>3, <1>4, <1>5, TInvNext

LEMMA TypeInit == Init => TInv
<1> SUFFICES ASSUME Init PROVE TInv
  OBVIOUS
<1>1. Fresh \in NodeState
  BY Zenon, EmptySeq DEF Fresh, NodeState
<1>2. Fresh.outbox = <<>> /\ Fresh.outSeq = 0
  BY DEF Fresh
<1>3. Numbered(Fresh)
  BY <1>2 DEF Numbered, Increasing, Envelopes
<1>4. \A n \in Node : node[n] = Fresh /\ saved[n] = Fresh
  BY DEF Init
<1>5. StoreOK
  BY <1>1, <1>3, <1>4, BoundAssumption DEF Init, StoreOK
<1>6. LooseOK(loose) /\ PullOK /\ CountOK
  BY BoundAssumption DEF Init, LooseOK, PullOK, CountOK
<1>7. PushedOK /\ PostOK
  BY <1>2, <1>4 DEF Init, PushedOK, PostOK
<1> QED BY <1>5, <1>6, <1>7, TInvParts

LEMMA TypeNext == TInv /\ [Next]_vars => TInv'
<1> SUFFICES ASSUME TInv, Next PROVE TInv'
  BY TypeAge
<1>1. CASE Age
  BY <1>1, TypeAge
<1>2. ASSUME NEW n \in Node, NEW hops \in Hops, Call(n, hops) PROVE TInv'
  BY <1>2, TypeCall
<1>3. ASSUME NEW n \in Node, Push(n) PROVE TInv'
  BY <1>3, TypePushStart, TypePushArrives, TypePushReturns DEF Push
<1>4. ASSUME NEW n \in Node, LoseRequest(n) \/ LoseAnswer(n) \/ LooseArrives(n) PROVE TInv'
  BY <1>4, TypeLose, TypeLooseArrives
<1>5. ASSUME NEW n \in Node, Pull(n) PROVE TInv'
  BY <1>5, TypeFetch, TypePoll, TypePrune DEF Pull
<1>6. ASSUME NEW n \in Node, Restart(n) PROVE TInv'
  BY <1>6, TypeRestart
<1> QED BY <1>1, <1>2, <1>3, <1>4, <1>5, <1>6, Zenon DEF Next

LEMMA TypeInvariant == Spec => []TInv
BY TypeInit, TypeNext, PTL DEF Spec

(* Every variable keeps its type.  The push cursor stays within the        *)
(* envelopes there are because a restart, which may forget envelopes, also *)
(* forgets the cursor; late requests are never more than the bound.        *)
THEOREM TypesKept == Spec => []TypeOK
<1>1. TInv => TypeOK
  BY DEF TInv
<1> QED BY <1>1, TypeInvariant, PTL

-----------------------------------------------------------------------------
(***************************************************************************)
(* One direction, while the sender goes from s to d and the receiver from  *)
(* r to c: the sender adds and prunes envelopes, the receiver takes them.  *)
(***************************************************************************)
Receives(r, c) == r.seen \subseteq c.seen /\ r.last <= c.last

Feeds(s, d, c) ==
    /\ s.outSeq <= d.outSeq /\ s.replies \subseteq d.replies
    /\ \A f \in Envelopes(s.outbox) : f \in Envelopes(d.outbox) \/ f.seq <= c.last
    /\ \A f \in Envelopes(d.outbox) : f \in Envelopes(s.outbox) \/ f.seq > s.outSeq

Follows(s, r, d, c) == Receives(r, c) /\ Feeds(s, d, c)

(* The numbers of what is compared.                                        *)
LEMMA Numbers ==
    ASSUME NEW s \in NodeState
    PROVE  /\ s.outSeq \in Nat /\ s.last \in Nat
           /\ \A f \in Envelopes(s.outbox) : f \in Envelope /\ f.seq \in Nat /\ f.id \in Nat
           /\ \A a \in s.replies : a[2] \in Envelope /\ a[2].seq \in Nat /\ a[2].id \in Nat
<1>1. s.outSeq \in Nat /\ s.last \in Nat /\ s.outbox \in Seq(Envelope) /\ s.replies \subseteq Nat \X Envelope
  BY StateFields
<1>2. \A a \in s.replies : a[2] \in Envelope
  BY <1>1
<1> QED BY <1>1, <1>2, InEnvelopes, EnvelopeFields

LEMMA StillIntact ==
    ASSUME NEW s \in NodeState, NEW r \in NodeState, NEW d \in NodeState, NEW c \in NodeState,
           Follows(s, r, d, c), NEW e \in Envelope, Intact(s, r, e)
    PROVE  Intact(d, c, e) /\ (InTurn(s, r, e) => InTurn(d, c, e))
<1>1. e.seq \in Nat /\ s.outSeq \in Nat /\ d.outSeq \in Nat /\ r.last \in Nat /\ c.last \in Nat
  BY EnvelopeFields, Numbers
<1>2. s.outSeq <= d.outSeq /\ r.last <= c.last /\ r.seen \subseteq c.seen /\ e.seq <= s.outSeq
  BY DEF Follows, Receives, Feeds, Intact
<1>3. \A f \in Envelopes(d.outbox) : f.seq <= e.seq => f \in Envelopes(s.outbox)
  <2> SUFFICES ASSUME NEW f \in Envelopes(d.outbox), f.seq <= e.seq, f.seq > s.outSeq PROVE FALSE
    BY DEF Follows, Feeds
  <2>1. f.seq \in Nat
    BY Numbers
  <2> QED BY <1>1, <1>2, <2>1
<1>4. \A f \in Envelopes(d.outbox) : f.seq \in Nat
  BY Numbers
<1>5. e.seq <= d.outSeq
  BY <1>1, <1>2
<1>6. e.seq <= c.last \/ e \in Envelopes(d.outbox)
  <2>1. CASE e.seq <= r.last
    BY <1>1, <1>2, <2>1
  <2>2. CASE e \in Envelopes(s.outbox)
    BY <2>2 DEF Follows, Feeds
  <2> QED BY <2>1, <2>2 DEF Intact
<1>7. \A f \in Envelopes(d.outbox) : f.seq = e.seq => f = e
  BY <1>1, <1>3 DEF Intact
<1>8. ASSUME InTurn(s, r, e) PROVE InTurn(d, c, e)
  BY <1>1, <1>2, <1>3, <1>4, <1>8 DEF InTurn
<1> QED BY <1>5, <1>6, <1>7, <1>8 DEF Intact

LEMMA Still ==
    ASSUME NEW s \in NodeState, NEW r \in NodeState, NEW d \in NodeState, NEW c \in NodeState,
           Follows(s, r, d, c)
    PROVE  /\ \A po \in Posting \cup {None} : Posted(s, r, po) => Posted(d, c, po)
           /\ \A q \in Seq(Envelope) : Loosened(s, r, q) => Loosened(d, c, q)
           /\ Cached(s, r) => \A a \in s.replies : Intact(d, c, a[2])
           /\ \A pl \in Pulling \cup {None}, o \in Nat, w \in SUBSET Nat : Pulled(s, r, pl, o, w) => Pulled(d, c, pl, o, w)
           /\ \A pu \in Nat : pu <= s.outSeq /\ Delivered(s, r, pu) => Delivered(d, c, pu)
           /\ \A pr \in Pulling \cup {None} : Acked(r, pr) => Acked(c, pr)
<1>1. \A e \in Envelope : Intact(s, r, e) => Intact(d, c, e) /\ (InTurn(s, r, e) => InTurn(d, c, e))
  BY StillIntact
<1>2. s.outSeq \in Nat /\ r.last \in Nat /\ c.last \in Nat
  BY Numbers
<1>3. r.seen \subseteq c.seen /\ r.last <= c.last /\ s.replies \subseteq d.replies
  BY DEF Follows, Receives, Feeds
<1>4. ASSUME NEW po \in Posting \cup {None}, Posted(s, r, po) PROVE Posted(d, c, po)
  <2> SUFFICES ASSUME po # None PROVE Posted(d, c, po)
    BY DEF Posted
  <2>1. po.env \in Envelope
    BY Zenon DEF Posting
  <2> QED BY <1>1, <1>3, <1>4, <2>1 DEF Posted
<1>5. ASSUME NEW q \in Seq(Envelope), Loosened(s, r, q) PROVE Loosened(d, c, q)
  <2>1. \A e \in Envelopes(q) : e \in Envelope
    BY InEnvelopes
  <2>2. \A e \in Envelopes(q) : Resent(s, e) => Resent(d, e)
    BY <1>3 DEF Resent
  <2> QED BY <1>1, <1>5, <2>1, <2>2 DEF Loosened
<1>6. ASSUME Cached(s, r), NEW a \in s.replies PROVE Intact(d, c, a[2])
  BY <1>1, <1>6, Numbers DEF Cached
<1>7. ASSUME NEW pl \in Pulling \cup {None}, NEW o \in Nat, NEW w \in SUBSET Nat, Pulled(s, r, pl, o, w)
      PROVE  Pulled(d, c, pl, o, w)
  <2> SUFFICES ASSUME pl # None PROVE Pulled(d, c, pl, o, w)
    BY DEF Pulled
  <2>1. pl.todo \in Seq(Envelope)
    BY Zenon DEF Pulling
  <2>2. ASSUME NEW e \in Envelopes(pl.todo), NEW f \in Envelopes(d.outbox), f.seq < e.seq
        PROVE  f \in Envelopes(pl.todo) \/ Past(c, f, o, w)
    <3>1. e.seq \in Nat /\ f.seq \in Nat /\ e.seq <= s.outSeq
      BY <1>7, <2>1, InEnvelopes, Numbers DEF Pulled, Intact
    <3>2. ~(f.seq > s.outSeq)
      BY <1>2, <2>2, <3>1
    <3>3. f \in Envelopes(s.outbox)
      BY <3>2 DEF Follows, Feeds
    <3>4. f \in Envelopes(pl.todo) \/ Past(r, f, o, w)
      BY <1>7, <2>2, <3>3 DEF Pulled
    <3>5. Past(r, f, o, w) => Past(c, f, o, w)
      BY <1>2, <1>3, <3>1 DEF Past
    <3> QED BY <3>4, <3>5
  <2>3. \A e \in Envelopes(pl.todo) : Intact(d, c, e)
    BY <1>1, <1>7, <2>1, InEnvelopes DEF Pulled
  <2> QED BY <1>7, <2>2, <2>3 DEF Pulled
<1>8. ASSUME NEW pu \in Nat, pu <= s.outSeq, Delivered(s, r, pu) PROVE Delivered(d, c, pu)
  <2> SUFFICES ASSUME NEW f \in Envelopes(d.outbox), f.seq <= pu PROVE f.id \in c.seen
    BY DEF Delivered
  <2>1. f.seq \in Nat
    BY Numbers
  <2>2. ~(f.seq > s.outSeq)
    BY <1>2, <1>8, <2>1
  <2>3. f \in Envelopes(s.outbox)
    BY <2>2 DEF Follows, Feeds
  <2> QED BY <1>3, <1>8, <2>3 DEF Delivered
<1>9. ASSUME NEW pr \in Pulling \cup {None}, Acked(r, pr) PROVE Acked(c, pr)
  <2> SUFFICES ASSUME pr # None, pr.acked # None PROVE pr.acked <= c.last
    BY DEF Acked
  <2>1. pr.acked \in Nat \cup {None}
    BY Zenon DEF Pulling
  <2>2. pr.acked \in Nat /\ pr.acked <= r.last
    BY <1>9, <2>1 DEF Acked
  <2> QED BY <1>2, <1>3, <2>2
<1> QED BY <1>4, <1>5, <1>6, <1>7, <1>8, <1>9

-----------------------------------------------------------------------------
(* What a node may do to its own state.                                    *)
LEMMA FeedSilent ==
    ASSUME NEW s \in NodeState, NEW d \in NodeState, Silent(s, d), NEW c
    PROVE  Feeds(s, d, c)
<1>1. s.outSeq <= d.outSeq
  BY Numbers DEF Silent
<1> QED BY <1>1 DEF Feeds, Silent

LEMMA FeedSends ==
    ASSUME NEW s \in NodeState, Numbered(s), NEW d \in NodeState, NEW m \in Envelope,
           Sends(s, d, m), NEW c
    PROVE  Feeds(s, d, c) /\ Intact(d, c, m)
<1>1. s.outSeq \in Nat /\ m.seq = s.outSeq + 1 /\ d.outSeq = m.seq /\ m.seq \in Nat
  BY Numbers, EnvelopeFields DEF Sends
<1>2. Envelopes(d.outbox) = Envelopes(s.outbox) \cup {m}
  BY StateFields, AppendFacts DEF Sends
<1>3. \A f \in Envelopes(s.outbox) : f.seq # m.seq
  BY <1>1, Numbers DEF Numbered
<1>4. m.seq > s.outSeq /\ s.outSeq <= d.outSeq /\ m.seq <= d.outSeq
  BY <1>1
<1>5. Feeds(s, d, c)
  BY <1>2, <1>4 DEF Feeds, Sends
<1>6. Intact(d, c, m)
  BY <1>2, <1>3, <1>4 DEF Intact
<1> QED BY <1>5, <1>6

LEMMA FeedPrune ==
    ASSUME NEW s \in NodeState, Numbered(s), NEW k \in Nat, NEW c \in NodeState, k <= c.last
    PROVE  Feeds(s, Pruned(s, k), c)
<1> DEFINE d == Pruned(s, k)
<1>1. /\ d.outSeq = s.outSeq /\ d.replies = s.replies
      /\ Envelopes(d.outbox) = {e \in Envelopes(s.outbox) : e.seq > k}
  BY PrunedType
<1>2. c.last \in Nat /\ s.outSeq \in Nat /\ \A f \in Envelopes(s.outbox) : f.seq \in Nat
  BY Numbers
<1> HIDE DEF d
<1>3. \A f \in Envelopes(s.outbox) : f \in Envelopes(d.outbox) \/ f.seq <= c.last
  BY <1>1, <1>2
<1>4. Feeds(s, d, c)
  BY <1>1, <1>2, <1>3 DEF Feeds
<1> QED BY <1>4 DEF d

-----------------------------------------------------------------------------
(***************************************************************************)
(* A step of one node: Carried is Direction with the new states of the     *)
(* nodes, but what is under way as it was before the step.                 *)
(***************************************************************************)
Carried(n) ==
    LET s == node'[Peer(n)]
        r == node'[n]
    IN  /\ r.last <= s.outSeq
        /\ Posted(s, r, post[Peer(n)])
        /\ Loosened(s, r, loose[n])
        /\ Cached(s, r)
        /\ Pulled(s, r, pull[n], old, refused[n])
        /\ Delivered(s, r, pushed[Peer(n)])
        /\ Acked(r, pull[Peer(n)])

Sound == TInv /\ saved = node /\ \A n \in Node : Direction(n)

LEMMA SoundTypes ==
    ASSUME Sound, NEW n \in Node
    PROVE  /\ node[n] \in NodeState /\ Numbered(node[n]) /\ StoreOK
           /\ post[n] \in Posting \cup {None} /\ pull[n] \in Pulling \cup {None}
           /\ loose[n] \in Seq(Envelope) /\ old \in Nat
           /\ pushed[n] \in Nat /\ pushed[n] <= node[n].outSeq /\ refused[n] \in SUBSET Nat
<1>1. TInv
  BY DEF Sound
<1>2. StoreOK /\ LooseOK(loose) /\ PushedOK /\ PostOK /\ PullOK /\ CountOK
  BY <1>1, TInvParts
<1>3. old \in Nat /\ refused[n] \in SUBSET Nat
  BY <1>2 DEF CountOK
<1> QED BY <1>2, <1>3 DEF StoreOK, LooseOK, PushedOK, PostOK, PullOK

LEMMA CarriedSame ==
    ASSUME Sound, node' = node, NEW n \in Node
    PROVE  Carried(n)
<1>1. Direction(n)
  BY DEF Sound
<1> QED BY <1>1 DEF Direction, Carried

LEMMA CarriedMoves ==
    ASSUME Sound, NEW k \in Node, NEW d \in NodeState, node' = [node EXCEPT ![k] = d],
           Receives(node[k], d), Feeds(node[k], d, node[Peer(k)]),
           d.last <= node[Peer(k)].outSeq, Cached(d, node[Peer(k)]),
           NEW n \in Node
    PROVE  Carried(n)
<1> DEFINE p == Peer(n)
           s == node[p]
           r == node[n]
           s2 == node'[p]
           r2 == node'[n]
<1>1. p \in Node /\ p # n /\ Peer(p) = n /\ (k = n \/ k = p)
  BY PeerType
<1>2. s \in NodeState /\ r \in NodeState /\ node \in [Node -> NodeState]
  BY <1>1, SoundTypes DEF StoreOK
<1>3. (k = n => r2 = d /\ s2 = s) /\ (k = p => s2 = d /\ r2 = r)
  BY <1>1, <1>2
<1>4. s2 \in NodeState /\ r2 \in NodeState
  BY <1>1, <1>2, <1>3
<1>5. /\ r.last <= s.outSeq /\ Posted(s, r, post[p]) /\ Loosened(s, r, loose[n]) /\ Cached(s, r)
      /\ Pulled(s, r, pull[n], old, refused[n]) /\ Delivered(s, r, pushed[p]) /\ Acked(r, pull[p])
  <2>1. Direction(n)
    BY DEF Sound
  <2> QED BY <2>1 DEF Direction
<1>6. Follows(s, r, s2, r2) /\ r2.last <= s2.outSeq
  <2>1. CASE k = n
    <3>1. Receives(r, r2) /\ r2.last <= s2.outSeq
      BY <1>1, <1>3, <2>1
    <3>2. Silent(s, s2)
      BY <1>3, <2>1 DEF Silent
    <3>3. Feeds(s, s2, r2)
      BY <1>2, <1>4, <3>2, FeedSilent
    <3> QED BY <3>1, <3>3 DEF Follows
  <2>2. CASE k = p
    <3>1. Feeds(s, s2, r2)
      BY <1>1, <1>3, <2>2
    <3>2. Receives(r, r2)
      BY <1>2, <1>3, <2>2, Numbers DEF Receives
    <3>3. r.last \in Nat /\ s.outSeq \in Nat /\ s2.outSeq \in Nat
      BY <1>2, <1>4, Numbers
    <3>4. r2.last <= s2.outSeq
      BY <1>3, <1>5, <2>2, <3>1, <3>3 DEF Feeds
    <3> QED BY <3>1, <3>2, <3>4 DEF Follows
  <2> QED BY <1>1, <2>1, <2>2
<1>7. Cached(s2, r2)
  <2>1. CASE k = n
    <3>1. \A a \in s.replies : Intact(s2, r2, a[2])
      BY <1>2, <1>4, <1>5, <1>6, Still
    <3> QED BY <1>3, <2>1, <3>1 DEF Cached
  <2>2. CASE k = p
    BY <1>1, <1>3, <2>2
  <2> QED BY <1>1, <2>1, <2>2
<1>8. /\ post[p] \in Posting \cup {None} /\ pull[n] \in Pulling \cup {None}
      /\ pull[p] \in Pulling \cup {None} /\ loose[n] \in Seq(Envelope) /\ old \in Nat
      /\ pushed[p] \in Nat /\ pushed[p] <= s.outSeq /\ refused[n] \in SUBSET Nat
  BY <1>1, SoundTypes
<1> HIDE DEF p, s, r, s2, r2
<1>9. /\ Posted(s2, r2, post[p]) /\ Loosened(s2, r2, loose[n])
      /\ Pulled(s2, r2, pull[n], old, refused[n]) /\ Delivered(s2, r2, pushed[p]) /\ Acked(r2, pull[p])
  BY <1>2, <1>4, <1>5, <1>6, <1>8, Still
<1> QED BY <1>6, <1>7, <1>9 DEF Carried, p, s, r, s2, r2

LEMMA PersistSound ==
    ASSUME Sound, NEW n \in Node, NEW d, Persist(n, d), failed = 0, failed' = 0
    PROVE  node' = [node EXCEPT ![n] = d] /\ saved' = node'
<1>1. saved' = [saved EXCEPT ![n] = d] /\ node' = [node EXCEPT ![n] = d]
  BY DEF Persist
<1> QED BY <1>1 DEF Sound

(* n processes an envelope e that is intact.                               *)
LEMMA InboundCarried ==
    ASSUME Sound, failed = 0, failed' = 0, NEW n \in Node, NEW e \in Envelope,
           Intact(node[Peer(n)], node[n], e), NEW rest, NEW trouble,
           ProcessInbound(n, e, Verdict(n, e, trouble), rest)
    PROVE  /\ saved' = node' /\ \A k \in Node : Carried(k)
           /\ Accepted(Verdict(n, e, trouble)) => e.id \in node'[n].seen
           /\ Excused(n, e, Verdict(n, e, trouble)) \/ e.id \in node'[n].seen
           /\ \/ loose' = rest
              \/ \E a \in node'[n].replies :
                    loose' = [rest EXCEPT ![Peer(n)] = Append(rest[Peer(n)], a[2])]
<1> DEFINE p == Peer(n)
           s == node[n]
           c == node[p]
<1>1. p \in Node /\ Peer(p) = n
  BY PeerType
<1>2. TInv /\ s \in NodeState /\ c \in NodeState /\ Numbered(s) /\ node \in [Node -> NodeState]
  BY <1>1, SoundTypes DEF StoreOK, Sound
<1>3. CASE loose' = rest /\ \E d \in NodeState :
              Numbered(d) /\ node[n].outSeq <= d.outSeq /\ Accepts(n, e, d)
  <2>1. PICK d \in NodeState : Numbered(d) /\ Accepts(n, e, d)
    BY <1>3
  <2>2. node' = [node EXCEPT ![n] = d] /\ saved' = node'
    BY <2>1, PersistSound DEF Accepts
  <2>3. Takes(s, d, e) /\ e.id \notin s.seen /\ e.seq > s.last
    BY <2>1 DEF Accepts
  <2>4. Receives(s, d)
    BY <1>2, <2>3, Numbers, EnvelopeFields DEF Takes, Receives
  <2>5. d.last <= c.outSeq
    BY <2>3 DEF Takes, Intact
  <2>6. Cached(s, c)
    <3>1. Direction(p)
      BY <1>1 DEF Sound
    <3> QED BY <1>1, <3>1 DEF Direction
  <2>7. Receives(c, c)
    BY <1>2, Numbers DEF Receives
  <2>8. Feeds(s, d, c) /\ Cached(d, c)
    <3>1. CASE Silent(s, d)
      <4>1. Feeds(s, d, c)
        BY <1>2, <3>1, FeedSilent
      <4>2. \A a \in s.replies : Intact(d, c, a[2])
        BY <1>2, <2>6, <2>7, <4>1, Still DEF Follows
      <4> QED BY <3>1, <4>1, <4>2 DEF Silent, Cached
    <3>2. ASSUME NEW m \in Envelope, Sends(s, d, m) PROVE Feeds(s, d, c) /\ Cached(d, c)
      <4>1. Feeds(s, d, c) /\ Intact(d, c, m)
        BY <1>2, <3>2, FeedSends
      <4>2. \A a \in s.replies : Intact(d, c, a[2])
        BY <1>2, <2>6, <2>7, <4>1, Still DEF Follows
      <4>3. \A a \in d.replies : a \in s.replies \/ a[2] = m
        BY <3>2 DEF Sends
      <4> QED BY <4>1, <4>2, <4>3 DEF Cached
    <3> QED BY <2>1, <3>1, <3>2 DEF Accepts
  <2>9. \A k \in Node : Carried(k)
    BY <2>2, <2>4, <2>5, <2>8, CarriedMoves
  <2>10. e.id \in node'[n].seen
    BY <1>2, <2>2, <2>3 DEF Takes
  <2> QED BY <1>3, <2>2, <2>9, <2>10
<1>4. CASE /\ Declines(n, e, rest) /\ (Accepted(Verdict(n, e, trouble)) => e.id \in node[n].seen)
           /\ Excused(n, e, Verdict(n, e, trouble))
  <2>1. node' = node /\ saved' = node'
    BY <1>4 DEF Declines, Sound
  <2>2. \A k \in Node : Carried(k)
    BY <2>1, CarriedSame
  <2>4. \/ loose' = rest
        \/ \E a \in node'[n].replies :
              loose' = [rest EXCEPT ![p] = Append(rest[p], a[2])]
    BY <1>4, <2>1 DEF Declines, DirectDeliver
  <2> QED BY <1>4, <2>1, <2>2, <2>4
<1> QED BY <1>2, <1>3, <1>4, InboundEffect

-----------------------------------------------------------------------------
(* From Carried to Direction after the step.                               *)
LEMMA CarriedOn ==
    ASSUME NEW n \in Node, Carried(n), UNCHANGED <<post, pull, pushed, loose, old, refused>>
    PROVE  Direction(n)'
BY DEF Carried, Direction

Floating(q) == \A k \in Node : Loosened(node'[Peer(k)], node'[k], q[k])

LEMMA FloatingMore ==
    ASSUME NEW q, LooseOK(q), Floating(q), NEW k \in Node, NEW e \in Envelope,
           Intact(node'[Peer(k)], node'[k], e),
           Resent(node'[Peer(k)], e) \/ InTurn(node'[Peer(k)], node'[k], e)
    PROVE  Floating([q EXCEPT ![k] = Append(q[k], e)])
<1> DEFINE u == [q EXCEPT ![k] = Append(q[k], e)]
<1>1. u[k] = Append(q[k], e) /\ q[k] \in Seq(Envelope) /\ \A j \in Node : j # k => u[j] = q[j]
  BY DEF LooseOK
<1> HIDE DEF u
<1>2. Envelopes(u[k]) = Envelopes(q[k]) \cup {e}
  BY <1>1, AppendFacts
<1>3. \A j \in Node : Loosened(node'[Peer(j)], node'[j], u[j])
  BY <1>1, <1>2 DEF Floating, Loosened
<1>4. Floating(u)
  BY <1>3 DEF Floating
<1> QED BY <1>4 DEF u

LEMMA FloatingCarried == (\A k \in Node : Carried(k)) => Floating(loose)
BY DEF Carried, Floating

LEMMA FloatingDirect ==
    ASSUME \A k \in Node : Carried(k), TInv', NEW n \in Node, NEW rest, LooseOK(rest), Floating(rest),
           \/ loose' = rest
           \/ \E a \in node'[n].replies :
                 loose' = [rest EXCEPT ![Peer(n)] = Append(rest[Peer(n)], a[2])]
    PROVE  Floating(loose')
<1>1. CASE loose' = rest
  BY <1>1
<1>2. ASSUME NEW a \in node'[n].replies,
             loose' = [rest EXCEPT ![Peer(n)] = Append(rest[Peer(n)], a[2])]
      PROVE  Floating(loose')
  <2> DEFINE p == Peer(n)
             e == a[2]
  <2>1. p \in Node /\ Peer(p) = n
    BY PeerType
  <2>2. node'[n] \in NodeState
    BY DEF TInv, TypeOK
  <2>3. e \in Envelope
    BY <2>2, Numbers
  <2>4. Intact(node'[n], node'[p], e)
    <3>1. Carried(p)
      BY <2>1
    <3>2. Cached(node'[n], node'[p])
      BY <2>1, <3>1 DEF Carried
    <3> QED BY <3>2 DEF Cached
  <2>5. Resent(node'[n], e)
    BY DEF Resent
  <2> HIDE DEF e
  <2>6. Floating([rest EXCEPT ![p] = Append(rest[p], e)])
    BY <2>1, <2>3, <2>4, <2>5, FloatingMore
  <2> QED BY <1>2, <2>6 DEF e
<1> QED BY <1>1, <1>2

LEMMA FloatingGivenUp ==
    ASSUME Sound, node' = node, NEW n \in Node,
           UNCHANGED loose \/ (post[n] # None /\ GiveUp(n))
    PROVE  Floating(loose')
<1> DEFINE p == Peer(n)
           e == post[n].env
<1>1. p \in Node /\ Peer(p) = n /\ LooseOK(loose) /\ PostOK
  BY PeerType, TInvParts DEF Sound
<1>2. \A k \in Node : Carried(k)
  BY CarriedSame
<1>3. Floating(loose)
  BY <1>2, FloatingCarried
<1>4. CASE loose' = loose
  BY <1>3, <1>4
<1>5. CASE post[n] # None /\ loose' = [loose EXCEPT ![p] = Append(loose[p], e)]
  <2>1. e \in Envelope
    BY <1>1, <1>5, PostFields
  <2>2. Posted(node'[n], node'[p], post[n])
    BY <1>1, <1>2 DEF Carried
  <2>3. Intact(node'[n], node'[p], e) /\ InTurn(node'[n], node'[p], e)
    BY <1>5, <2>2 DEF Posted
  <2> HIDE DEF e
  <2>4. Floating([loose EXCEPT ![p] = Append(loose[p], e)])
    BY <1>1, <1>3, <2>1, <2>3, FloatingMore
  <2> QED BY <1>5, <2>4
<1> QED BY <1>4, <1>5 DEF GiveUp

LEMMA UniqueNumbers ==
    ASSUME NEW s \in NodeState, Numbered(s),
           NEW e \in Envelopes(s.outbox), NEW f \in Envelopes(s.outbox), f.seq = e.seq
    PROVE  f = e
<1>1. PICK i \in 1..Len(s.outbox) : e = s.outbox[i]
  BY DEF Envelopes
<1>2. PICK j \in 1..Len(s.outbox) : f = s.outbox[j]
  BY DEF Envelopes
<1>3. e.seq \in Nat
  BY Numbers
<1>4. ~(i < j) /\ ~(j < i)
  BY <1>1, <1>2, <1>3 DEF Numbered, Increasing
<1>5. i = j
  BY <1>4
<1> QED BY <1>1, <1>2, <1>5

LEMMA OutboxIntact ==
    ASSUME NEW s \in NodeState, Numbered(s), NEW e \in Envelopes(s.outbox), NEW r
    PROVE  Intact(s, r, e)
BY UniqueNumbers DEF Intact, Numbered

-----------------------------------------------------------------------------
(* Every action keeps both directions sound.                               *)
Agreed == saved = node /\ \A n \in Node : Direction(n)

LEMMA DirectionNext ==
    ASSUME NEW k \in Node, Carried(k), Loosened(node'[Peer(k)], node'[k], loose'[k]),
           Posted(node'[Peer(k)], node'[k], post'[Peer(k)]),
           Pulled(node'[Peer(k)], node'[k], pull'[k], old', refused'[k]),
           Delivered(node'[Peer(k)], node'[k], pushed'[Peer(k)]),
           Acked(node'[k], pull'[Peer(k)])
    PROVE  Direction(k)'
BY DEF Carried, Direction

LEMMA SoundCall ==
    ASSUME Sound, failed = 0, failed' = 0, NEW n \in Node, NEW hops \in Hops, Call(n, hops)
    PROVE  Agreed'
<1> DEFINE p == Peer(n)
           s == node[n]
           c == node[p]
           m == Built(s, hops)
           d == Recorded(s, m)
<1>1. p \in Node /\ Peer(p) = n /\ s \in NodeState /\ c \in NodeState /\ Numbered(s) /\ TypeOK
  BY PeerType, SoundTypes DEF Sound, TInv
<1>2. m \in Envelope /\ m.seq = s.outSeq + 1
  BY <1>1, BuiltType, CallAssumption
<1>3. Persist(n, d) /\ UNCHANGED <<pushed, post, pull, loose, old, refused, restarts>>
  BY DEF Call
<1> HIDE DEF m
<1>4. d \in NodeState /\ Numbered(d)
  BY <1>1, <1>2, RecordedType
<1>5. d.outSeq = m.seq /\ d.outbox = Append(s.outbox, m) /\ d.replies = s.replies
      /\ d.seen = s.seen /\ d.last = s.last
  BY <1>1, Zenon DEF Recorded, NodeState
<1> HIDE DEF d
<1>6. node' = [node EXCEPT ![n] = d] /\ saved' = node'
  BY <1>3, PersistSound
<1>7. Receives(s, d) /\ Receives(c, c)
  BY <1>1, <1>5, Numbers DEF Receives
<1>8. Sends(s, d, m)
  BY <1>2, <1>5 DEF Sends
<1>9. Feeds(s, d, c)
  BY <1>1, <1>2, <1>4, <1>8, FeedSends
<1>10. s.last <= c.outSeq /\ Cached(s, c)
  <2>1. Direction(n) /\ Direction(p)
    BY <1>1 DEF Sound
  <2> QED BY <1>1, <2>1 DEF Direction
<1>11. Cached(d, c)
  <2>1. \A a \in s.replies : Intact(d, c, a[2])
    BY <1>1, <1>4, <1>7, <1>9, <1>10, Still DEF Follows
  <2> QED BY <1>5, <2>1 DEF Cached
<1>12. \A k \in Node : Carried(k)
  BY <1>4, <1>5, <1>6, <1>7, <1>9, <1>10, <1>11, CarriedMoves
<1> QED BY <1>3, <1>6, <1>12, CarriedOn DEF Agreed

LEMMA SoundPushStart ==
    ASSUME Sound, NEW n \in Node, PushStart(n)
    PROVE  Agreed'
<1> DEFINE p == Peer(n)
           s == node[n]
           r == node[p]
           e == Head(Unpushed(n))
<1>1. /\ UNCHANGED <<node, saved, pushed, pull, loose, made, old, refused, restarts, failed>>
      /\ Unpushed(n) # <<>> /\ post' = [post EXCEPT ![n] = [env |-> e, answer |-> "none"]]
  BY DEF PushStart
<1>2. p \in Node /\ Peer(p) = n /\ s \in NodeState /\ Numbered(s) /\ pushed[n] \in Nat
  BY PeerType, SoundTypes
<1>3. e \in Envelopes(s.outbox) /\ \A f \in Envelopes(s.outbox) : f.seq < e.seq => f.seq <= pushed[n]
  BY <1>1, <1>2, StateFields, AfterHead DEF Unpushed, Numbered
<1> HIDE DEF e
<1>4. Intact(s, r, e)
  BY <1>2, <1>3, OutboxIntact
<1>5. InTurn(s, r, e)
  <2>1. Direction(p)
    BY <1>2 DEF Sound
  <2>2. Delivered(s, r, pushed[n])
    BY <1>2, <2>1 DEF Direction
  <2> QED BY <1>3, <2>2 DEF Delivered, InTurn
<1>6. post'[n].env = e /\ post'[n].answer = "none" /\ \A k \in Node : k # n => post'[k] = post[k]
  BY <1>1, TInvParts DEF Sound, PostOK
<1>7. \A k \in Node : Carried(k)
  BY <1>1, CarriedSame
<1>8. ASSUME NEW k \in Node PROVE Direction(k)'
  <2>1. Posted(node'[Peer(k)], node'[k], post'[Peer(k)])
    <3>1. CASE k = p
      BY <1>1, <1>2, <1>4, <1>5, <1>6, <3>1 DEF Posted
    <3>2. CASE k # p
      <4>1. Peer(k) # n /\ Peer(k) \in Node
        BY <3>2, PeerType
      <4> QED BY <1>6, <1>7, <4>1 DEF Carried
    <3> QED BY <3>1, <3>2
  <2> QED BY <1>1, <1>7, <2>1, DirectionNext DEF Carried
<1> QED BY <1>1, <1>8 DEF Agreed, Sound

LEMMA SoundPushArrives ==
    ASSUME Sound, failed = 0, failed' = 0, TInv', NEW n \in Node, PushArrives(n)
    PROVE  Agreed'
<1>0. PICK trouble \in Troubles : ArrivesWith(n, trouble)
  BY DEF PushArrives
<1> DEFINE p == Peer(n)
           e == post[p].env
           a == IF Accepted(Verdict(n, e, trouble)) THEN "accepted" ELSE "refused"
<1>1. /\ p \in Node /\ post[p] # None /\ ProcessInbound(n, e, Verdict(n, e, trouble), loose)
      /\ post' = [post EXCEPT ![p].answer = a]
      /\ UNCHANGED <<pushed, pull, old, refused, restarts>>
  BY <1>0, PeerType DEF ArrivesWith
<1>2. PostOK /\ LooseOK(loose) /\ e \in Envelope /\ post[p] \in Posting
  BY <1>1, TInvParts, PostFields DEF PostOK, Sound
<1>3. Direction(n)
  BY DEF Sound
<1>4. Intact(node[p], node[n], e)
  BY <1>1, <1>3 DEF Direction, Posted
<1>5. /\ saved' = node' /\ \A k \in Node : Carried(k)
      /\ Accepted(Verdict(n, e, trouble)) => e.id \in node'[n].seen
      /\ \/ loose' = loose
         \/ \E x \in node'[n].replies :
               loose' = [loose EXCEPT ![p] = Append(loose[p], x[2])]
  BY <1>1, <1>2, <1>4, InboundCarried
<1>6. Floating(loose)
  BY <1>5, FloatingCarried
<1>7. Floating(loose')
  BY <1>2, <1>5, <1>6, FloatingDirect
<1>8. post'[p] = [post[p] EXCEPT !.answer = a] /\ \A k \in Node : k # p => post'[k] = post[k]
  BY <1>1, <1>2 DEF PostOK
<1>9. post'[p].env = e /\ post'[p].answer = a
  BY <1>2, <1>8, Zenon DEF Posting
<1>10. a = "accepted" => e.id \in node'[n].seen
  BY <1>5
<1> HIDE DEF e, a
<1>11. ASSUME NEW k \in Node PROVE Direction(k)'
  <2>1. Posted(node'[Peer(k)], node'[k], post[Peer(k)])
    BY <1>5 DEF Carried
  <2>2. Posted(node'[Peer(k)], node'[k], post'[Peer(k)])
    <3>1. CASE k = n
      BY <1>1, <1>9, <1>10, <2>1, <3>1 DEF Posted, e
    <3>2. CASE k # n
      <4>1. Peer(k) # p /\ Peer(k) \in Node
        BY <3>2, PeerType
      <4> QED BY <1>8, <2>1, <4>1
    <3> QED BY <3>1, <3>2
  <2> QED BY <1>1, <1>5, <1>7, <2>2, DirectionNext DEF Carried, Floating
<1> QED BY <1>5, <1>11 DEF Agreed

LEMMA SoundPushReturns ==
    ASSUME Sound, NEW n \in Node, PushReturns(n)
    PROVE  Agreed'
<1> DEFINE p == Peer(n)
           s == node[n]
           r == node[p]
           e == post[n].env
           c == CursorAfter(pushed[n], post[n].answer, e.seq)
<1>1. /\ UNCHANGED <<node, saved, pull, loose, made, old, refused, restarts, failed>> /\ post[n] # None
      /\ pushed' = [pushed EXCEPT ![n] = c] /\ post' = [post EXCEPT ![n] = None]
  BY DEF PushReturns
<1>2. p \in Node /\ Peer(p) = n /\ s \in NodeState /\ PostOK /\ PushedOK
  BY PeerType, SoundTypes, TInvParts DEF Sound
<1>3. e \in Envelope /\ e.seq \in Nat
  BY <1>1, <1>2, PostFields
<1>4. Posted(s, r, post[n]) /\ Delivered(s, r, pushed[n])
  <2>1. Direction(p)
    BY <1>2 DEF Sound
  <2> QED BY <1>2, <2>1 DEF Direction
<1>5. Delivered(s, r, c)
  <2>1. CASE post[n].answer = "accepted" /\ e.seq > pushed[n]
    <3>1. c = e.seq
      BY <2>1 DEF CursorAfter
    <3>2. ASSUME NEW f \in Envelopes(s.outbox), f.seq <= e.seq PROVE f.id \in r.seen
      <4>1. f.seq \in Nat
        BY <1>2, Numbers
      <4>2. CASE f.seq < e.seq
        BY <1>1, <1>4, <4>2 DEF Posted, InTurn
      <4>3. CASE f.seq = e.seq
        BY <1>1, <1>4, <2>1, <4>3 DEF Posted, Intact
      <4> QED BY <1>3, <3>2, <4>1, <4>2, <4>3
    <3> QED BY <3>1, <3>2 DEF Delivered
  <2>2. CASE ~(post[n].answer = "accepted" /\ e.seq > pushed[n])
    <3>1. c = pushed[n]
      BY <2>2 DEF CursorAfter
    <3> QED BY <1>4, <3>1
  <2> QED BY <2>1, <2>2
<1> HIDE DEF c
<1>6. pushed'[n] = c /\ post'[n] = None
      /\ \A k \in Node : k # n => post'[k] = post[k] /\ pushed'[k] = pushed[k]
  BY <1>1, <1>2 DEF PostOK, PushedOK
<1>7. \A k \in Node : Carried(k)
  BY <1>1, CarriedSame
<1>8. ASSUME NEW k \in Node PROVE Direction(k)'
  <2>1. /\ Posted(node'[Peer(k)], node'[k], post'[Peer(k)])
        /\ Delivered(node'[Peer(k)], node'[k], pushed'[Peer(k)])
    <3>1. CASE k = p
      BY <1>1, <1>2, <1>5, <1>6, <3>1 DEF Posted
    <3>2. CASE k # p
      <4>1. Peer(k) # n /\ Peer(k) \in Node
        BY <3>2, PeerType
      <4> QED BY <1>6, <1>7, <4>1 DEF Carried
    <3> QED BY <3>1, <3>2
  <2> QED BY <1>1, <1>7, <2>1, DirectionNext DEF Carried
<1> QED BY <1>1, <1>8 DEF Agreed, Sound

LEMMA SoundLose ==
    ASSUME Sound, NEW n \in Node, LoseRequest(n) \/ LoseAnswer(n)
    PROVE  Agreed'
<1>1. /\ UNCHANGED <<node, saved, pushed, pull, made, old, refused, restarts, failed>>
      /\ post[n] # None /\ post' = [post EXCEPT ![n] = None]
      /\ UNCHANGED loose \/ (post[n] # None /\ GiveUp(n))
  BY DEF LoseRequest, LoseAnswer
<1>2. Floating(loose') /\ \A k \in Node : Carried(k)
  BY <1>1, FloatingGivenUp, CarriedSame
<1>3. \A k \in Node : post'[k] = None \/ post'[k] = post[k]
  BY <1>1, TInvParts DEF Sound, PostOK
<1>4. ASSUME NEW k \in Node PROVE Direction(k)'
  <2>1. Posted(node'[Peer(k)], node'[k], post'[Peer(k)])
    BY <1>2, <1>3, PeerType DEF Carried, Posted
  <2> QED BY <1>1, <1>2, <2>1, DirectionNext DEF Carried, Floating
<1> QED BY <1>1, <1>4 DEF Agreed, Sound

LEMMA SoundLooseArrives ==
    ASSUME Sound, failed = 0, failed' = 0, TInv', NEW n \in Node, LooseArrives(n)
    PROVE  Agreed'
<1> DEFINE p == Peer(n)
<1>1. PICK i \in 1..Len(loose[n]), trouble \in Troubles :
         ProcessInbound(n, loose[n][i], Verdict(n, loose[n][i], trouble),
                        [loose EXCEPT ![n] = RemoveAt(loose[n], i)])
  BY DEF LooseArrives
<1> DEFINE e == loose[n][i]
           rest == [loose EXCEPT ![n] = RemoveAt(loose[n], i)]
<1>2. LooseOK(loose) /\ loose[n] \in Seq(Envelope) /\ e \in Envelope /\ e \in Envelopes(loose[n])
  BY TInvParts, InEnvelopes DEF LooseOK, Sound
<1>3. /\ RemoveAt(loose[n], i) \in Seq(Envelope) /\ Len(RemoveAt(loose[n], i)) <= Len(loose[n])
      /\ Envelopes(RemoveAt(loose[n], i)) \subseteq Envelopes(loose[n])
  BY <1>2, RemoveFacts
<1>4. rest[n] = RemoveAt(loose[n], i) /\ \A k \in Node : k # n => rest[k] = loose[k]
  BY <1>2 DEF LooseOK
<1>5. LooseOK(rest)
  <2>1. rest \in [Node -> Seq(Envelope)]
    BY <1>2, <1>3 DEF LooseOK
  <2> HIDE DEF rest
  <2>2. Len(rest[n]) \in Nat /\ Len(loose[n]) \in Nat /\ Len(loose[n]) <= MaxLoose
    BY <1>2, <2>1 DEF LooseOK
  <2>3. Len(rest[n]) <= MaxLoose
    BY <1>3, <1>4, <2>2, BoundAssumption
  <2> QED BY <1>2, <1>4, <2>1, <2>3 DEF LooseOK
<1>6. Intact(node[p], node[n], e)
  <2>1. Direction(n)
    BY DEF Sound
  <2> QED BY <1>2, <2>1 DEF Direction, Loosened
<1>7. UNCHANGED <<pushed, post, pull, old, refused, restarts>>
  BY DEF LooseArrives
<1> HIDE DEF rest, e
<1>8. /\ saved' = node' /\ \A k \in Node : Carried(k)
      /\ \/ loose' = rest
         \/ \E x \in node'[n].replies :
               loose' = [rest EXCEPT ![p] = Append(rest[p], x[2])]
  BY <1>1, <1>2, <1>6, InboundCarried DEF e, rest
<1>9. Floating(rest)
  <2>1. \A k \in Node : Envelopes(rest[k]) \subseteq Envelopes(loose[k])
    BY <1>3, <1>4
  <2>2. Floating(loose)
    BY <1>8, FloatingCarried
  <2> QED BY <2>1, <2>2 DEF Floating, Loosened
<1>10. Floating(loose')
  BY <1>5, <1>8, <1>9, FloatingDirect
<1>11. \A k \in Node : Direction(k)'
  BY <1>7, <1>8, <1>10, DirectionNext DEF Carried, Floating
<1> QED BY <1>8, <1>11 DEF Agreed

(* What a node has taken and passed it has for good.                       *)
LEMMA InboundGrows ==
    ASSUME TInv, NEW n \in Node, NEW e \in Envelope, NEW rest, NEW trouble,
           ProcessInbound(n, e, Verdict(n, e, trouble), rest)
    PROVE  /\ node[n].seen \subseteq node'[n].seen
           /\ e.seq <= node[n].last => e.seq <= node'[n].last
<1>1. node \in [Node -> NodeState]
  BY DEF TInv, TypeOK
<1>2. ASSUME NEW d \in NodeState, Accepts(n, e, d)
      PROVE  node[n].seen \subseteq node'[n].seen /\ e.seq <= node'[n].last
  <2>1. node'[n] = d
    BY <1>1, <1>2 DEF Accepts, Persist
  <2>2. e.seq <= e.seq
    BY EnvelopeFields
  <2> QED BY <1>2, <2>1, <2>2 DEF Accepts, Takes
<1> QED BY <1>2, InboundEffect DEF Declines

LEMMA SoundPoll ==
    ASSUME Sound, failed = 0, failed' = 0, TInv', NEW n \in Node, PollNext(n)
    PROVE  Agreed'
<1>0. PICK trouble \in Troubles : PollWith(n, trouble)
  BY DEF PollNext
<1> DEFINE p == Peer(n)
           q == pull[n].todo
           e == Head(q)
<1>1. /\ pull[n] # None /\ q # <<>> /\ ProcessInbound(n, e, Verdict(n, e, trouble), loose)
      /\ UNCHANGED <<pushed, post, old, restarts>>
  BY <1>0 DEF PollWith
<1>2. PullOK /\ LooseOK(loose) /\ pull[n] \in Pulling /\ q \in Seq(Envelope)
  BY <1>1, TInvParts, PullFields DEF Sound
<1>3. /\ e \in Envelope /\ e \in Envelopes(q) /\ Envelopes(Tail(q)) \subseteq Envelopes(q)
      /\ \A f \in Envelopes(q) : f = e \/ f \in Envelopes(Tail(q))
      /\ Increasing(q) => Increasing(Tail(q))
  BY <1>1, <1>2, TailFacts
<1>4. pull' = [pull EXCEPT ![n] = [pull[n] EXCEPT !.todo = Tail(q)]]
  BY <1>0, <1>2 DEF PollWith, PolledAfter, PullOK
<1>5. pull'[n] = [pull[n] EXCEPT !.todo = Tail(q)] /\ \A k \in Node : k # n => pull'[k] = pull[k]
  BY <1>2, <1>4 DEF PullOK
<1>6. pull'[n].todo = Tail(q) /\ pull'[n].acked = pull[n].acked
  BY <1>2, <1>5, Zenon DEF Pulling
<1> HIDE DEF e
<1>7. Intact(node[p], node[n], e)
  <2>1. Direction(n)
    BY DEF Sound
  <2> QED BY <1>1, <1>3, <2>1 DEF Direction, Pulled
<1>8. /\ saved' = node' /\ (\A k \in Node : Carried(k))
      /\ Excused(n, e, Verdict(n, e, trouble)) \/ e.id \in node'[n].seen
      /\ \/ loose' = loose
         \/ \E x \in node'[n].replies :
               loose' = [loose EXCEPT ![p] = Append(loose[p], x[2])]
  BY <1>1, <1>3, <1>7, InboundCarried DEF e
<1>9. Floating(loose)
  BY <1>8, FloatingCarried
<1>10. Floating(loose')
  BY <1>2, <1>8, <1>9, FloatingDirect
<1>a. /\ \A k \in Node : refused[k] \subseteq refused'[k]
      /\ Due(n, e) /\ Verdict(n, e, trouble) # "ok" => e.id \in refused'[n]
      /\ refused' \in [Node -> SUBSET Nat]
  <2>1. refused \in [Node -> SUBSET Nat]
    BY TInvParts DEF CountOK, Sound
  <2>2. refused' \in [Node -> SUBSET Nat]
    BY DEF TInv, TypeOK
  <2>3. refused' = [refused EXCEPT ![n] =
                      IF Due(n, e) /\ Verdict(n, e, trouble) # "ok" THEN refused[n] \cup {e.id}
                      ELSE refused[n]]
    BY <1>0 DEF PollWith, e
  <2> QED BY <2>1, <2>2, <2>3
<1>b. Past(node'[n], e, old, refused'[n])
  <2>1. CASE Past(node[n], e, old, {})
    <3>1. node[n].seen \subseteq node'[n].seen /\ (e.seq <= node[n].last => e.seq <= node'[n].last)
      BY <1>1, <1>2, <1>3, InboundGrows DEF Sound
    <3> QED BY <2>1, <3>1 DEF Past
  <2>2. CASE ~Past(node[n], e, old, {})
    BY <1>8, <1>a, <2>2 DEF Excused, Past
  <2> QED BY <2>1, <2>2
<1>11. Pulled(node'[p], node'[n], pull'[n], old, refused'[n])
  <2>1. Pulled(node'[p], node'[n], pull[n], old, refused[n])
    BY <1>8 DEF Carried
  <2>2. ASSUME NEW g \in Envelopes(Tail(q)), NEW f \in Envelopes(node'[p].outbox), f.seq < g.seq
        PROVE  f \in Envelopes(Tail(q)) \/ Past(node'[n], f, old, refused'[n])
    <3>1. f \in Envelopes(q) \/ Past(node'[n], f, old, refused[n])
      BY <1>1, <1>3, <2>1, <2>2 DEF Pulled
    <3>2. Past(node'[n], f, old, refused[n]) => Past(node'[n], f, old, refused'[n])
      BY <1>a DEF Past
    <3> QED BY <1>3, <1>b, <3>1, <3>2
  <2> QED BY <1>1, <1>3, <1>6, <2>1, <2>2 DEF Pulled
<1>12. ASSUME NEW k \in Node PROVE Direction(k)'
  <2>1. Pulled(node'[Peer(k)], node'[k], pull'[k], old', refused'[k])
    <3>1. CASE k = n
      BY <1>1, <1>11, <3>1
    <3>2. CASE k # n
      <4>1. Pulled(node'[Peer(k)], node'[k], pull[k], old, refused[k]) /\ pull'[k] = pull[k]
        BY <1>5, <1>8, <3>2 DEF Carried
      <4>2. refused'[k] = refused[k]
        <5>1. refused \in [Node -> SUBSET Nat]
          BY TInvParts DEF CountOK, Sound
        <5> QED BY <1>0, <3>2, <5>1 DEF PollWith
      <4> QED BY <1>1, <4>1, <4>2
    <3> QED BY <3>1, <3>2
  <2>2. Acked(node'[k], pull[Peer(k)]) /\ Peer(k) \in Node
    BY <1>8, PeerType DEF Carried
  <2>3. Acked(node'[k], pull'[Peer(k)])
    BY <1>1, <1>5, <1>6, <2>2 DEF Acked
  <2> QED BY <1>1, <1>8, <1>10, <2>1, <2>3, DirectionNext DEF Carried, Floating
<1> QED BY <1>8, <1>12 DEF Agreed

LEMMA SoundFetchOutbox ==
    ASSUME Sound, NEW n \in Node, FetchOutbox(n)
    PROVE  Agreed'
<1> DEFINE p == Peer(n)
           s == node[p]
           r == node[n]
<1>1. /\ UNCHANGED <<node, saved, pushed, post, loose, made, old, refused, restarts, failed>>
      /\ \E q \in Fetched(s.outbox, <<>>) : pull' = [pull EXCEPT ![n] = [todo |-> q, acked |-> None]]
  BY DEF FetchOutbox
<1>2. PICK q : /\ q = s.outbox \/ q = <<>>
               /\ pull' = [pull EXCEPT ![n] = [todo |-> q, acked |-> None]]
  BY <1>1 DEF Fetched
<1>3. p \in Node /\ s \in NodeState /\ Numbered(s) /\ PullOK
  BY PeerType, SoundTypes, TInvParts DEF Sound
<1>4. pull'[n].todo = q /\ pull'[n].acked = None /\ \A k \in Node : k # n => pull'[k] = pull[k]
  BY <1>2, <1>3 DEF PullOK
<1>5. Pulled(s, r, pull'[n], old, refused'[n])
  <2>1. CASE q = s.outbox
    <3>1. \A e \in Envelopes(q) : Intact(s, r, e)
      BY <1>3, <2>1, OutboxIntact
    <3> QED BY <1>3, <1>4, <2>1, <3>1 DEF Pulled, Numbered
  <2>2. CASE q = <<>>
    <3>1. Envelopes(q) = {} /\ Increasing(q)
      BY <2>2 DEF Envelopes, Increasing
    <3> QED BY <1>4, <3>1 DEF Pulled
  <2> QED BY <1>2, <2>1, <2>2
<1>6. \A k \in Node : Carried(k)
  BY <1>1, CarriedSame
<1>7. ASSUME NEW k \in Node PROVE Direction(k)'
  <2>1. Pulled(node'[Peer(k)], node'[k], pull'[k], old', refused'[k])
    BY <1>1, <1>4, <1>5, <1>6 DEF Carried
  <2>2. Acked(node'[k], pull[Peer(k)]) /\ Peer(k) \in Node
    BY <1>6, PeerType DEF Carried
  <2>3. Acked(node'[k], pull'[Peer(k)])
    BY <1>4, <2>2 DEF Acked
  <2> QED BY <1>1, <1>6, <2>1, <2>3, DirectionNext DEF Carried
<1> QED BY <1>1, <1>7 DEF Agreed, Sound

LEMMA SoundFetchCheckpoint ==
    ASSUME Sound, NEW n \in Node, FetchCheckpoint(n)
    PROVE  Agreed'
<1> DEFINE p == Peer(n)
<1>1. /\ UNCHANGED <<node, saved, pushed, post, loose, made, old, refused, restarts, failed>>
      /\ pull[n] # None
      /\ \E v \in Fetched(node[p].last, 0) : pull' = [pull EXCEPT ![n].acked = v]
  BY DEF FetchCheckpoint
<1>2. PICK v : /\ v = node[p].last \/ v = 0
               /\ pull' = [pull EXCEPT ![n].acked = v]
  BY <1>1 DEF Fetched
<1>3. p \in Node /\ Peer(p) = n /\ node[p] \in NodeState /\ PullOK /\ pull[n] \in Pulling
  BY <1>1, PeerType, SoundTypes, TInvParts, PullFields DEF Sound
<1>4. v <= node[p].last
  BY <1>2, <1>3, Numbers
<1>5. pull'[n] = [pull[n] EXCEPT !.acked = v] /\ \A k \in Node : k # n => pull'[k] = pull[k]
  BY <1>2, <1>3 DEF PullOK
<1>6. pull'[n].acked = v /\ pull'[n].todo = pull[n].todo
  BY <1>3, <1>5, Zenon DEF Pulling
<1>7. \A k \in Node : Carried(k)
  BY <1>1, CarriedSame
<1>8. ASSUME NEW k \in Node PROVE Direction(k)'
  <2>1. Pulled(node'[Peer(k)], node'[k], pull[k], old, refused[k])
    BY <1>7 DEF Carried
  <2>2. Pulled(node'[Peer(k)], node'[k], pull'[k], old', refused'[k])
    <3>1. CASE k = n
      BY <1>1, <1>6, <2>1, <3>1 DEF Pulled
    <3>2. CASE k # n
      BY <1>1, <1>5, <2>1, <3>2
    <3> QED BY <3>1, <3>2
  <2>3. Acked(node'[k], pull'[Peer(k)])
    <3>1. CASE k = p
      BY <1>1, <1>3, <1>4, <1>6, <3>1 DEF Acked
    <3>2. CASE k # p
      <4>1. Peer(k) # n /\ Peer(k) \in Node
        BY <3>2, PeerType
      <4> QED BY <1>5, <1>7, <4>1 DEF Carried
    <3> QED BY <3>1, <3>2
  <2> QED BY <1>1, <1>7, <2>2, <2>3, DirectionNext DEF Carried
<1> QED BY <1>1, <1>8 DEF Agreed, Sound

LEMMA SoundPrune ==
    ASSUME Sound, failed = 0, failed' = 0, NEW n \in Node, Prune(n)
    PROVE  Agreed'
<1> DEFINE p == Peer(n)
           s == node[n]
           c == node[p]
           d == Pruned(s, pull[n].acked)
<1>1. /\ pull[n] # None /\ pull[n].acked # None /\ pull' = [pull EXCEPT ![n] = None]
      /\ UNCHANGED <<pushed, post, loose, made, old, refused, restarts>>
      /\ UNCHANGED <<node, saved, failed>> \/ Persist(n, d)
  BY DEF Prune
<1>2. /\ p \in Node /\ Peer(p) = n /\ s \in NodeState /\ c \in NodeState /\ Numbered(s)
      /\ PullOK /\ pull[n].acked \in Nat
  BY <1>1, PeerType, SoundTypes, TInvParts, PullFields DEF Sound
<1>3. pull[n].acked <= c.last /\ Cached(s, c) /\ s.last <= c.outSeq
  <2>1. Direction(p) /\ Direction(n)
    BY <1>2 DEF Sound
  <2> QED BY <1>1, <1>2, <2>1 DEF Direction, Acked
<1>4. saved' = node' /\ \A k \in Node : Carried(k)
  <2>1. CASE Persist(n, d)
    <3>1. node' = [node EXCEPT ![n] = d] /\ saved' = node'
      BY <2>1, PersistSound
    <3>2. d \in NodeState /\ d.seen = s.seen /\ d.last = s.last /\ d.replies = s.replies
      BY <1>2, PrunedType
    <3>3. Feeds(s, d, c)
      BY <1>2, <1>3, FeedPrune
    <3> HIDE DEF d
    <3>4. Receives(s, d) /\ Receives(c, c)
      BY <1>2, <3>2, Numbers DEF Receives
    <3>5. \A a \in s.replies : Intact(d, c, a[2])
      BY <1>2, <1>3, <3>2, <3>3, <3>4, Still DEF Follows
    <3>6. Cached(d, c)
      BY <3>2, <3>5 DEF Cached
    <3> QED BY <1>3, <3>1, <3>2, <3>3, <3>4, <3>6, CarriedMoves
  <2>2. CASE UNCHANGED <<node, saved, failed>>
    BY <2>2, CarriedSame DEF Sound
  <2> QED BY <1>1, <2>1, <2>2
<1>5. \A k \in Node : pull'[k] = None \/ pull'[k] = pull[k]
  BY <1>1, <1>2 DEF PullOK
<1>6. ASSUME NEW k \in Node PROVE Direction(k)'
  <2>1. Pulled(node'[Peer(k)], node'[k], pull'[k], old', refused'[k]) /\ Acked(node'[k], pull'[Peer(k)])
    BY <1>1, <1>4, <1>5, PeerType DEF Carried, Pulled, Acked
  <2> QED BY <1>1, <1>4, <2>1, DirectionNext DEF Carried
<1> QED BY <1>4, <1>6 DEF Agreed

LEMMA SoundRestart ==
    ASSUME Sound, NEW n \in Node, Restart(n)
    PROVE  Agreed'
<1> DEFINE p == Peer(n)
<1>1. /\ node' = [node EXCEPT ![n] = saved[n]] /\ pushed' = [pushed EXCEPT ![n] = 0]
      /\ pull' = [pull EXCEPT ![n] = None] /\ post' = [post EXCEPT ![n] = None]
      /\ UNCHANGED loose \/ (post[n] # None /\ GiveUp(n))
      /\ UNCHANGED <<saved, made, old, refused, failed>>
  BY DEF Restart, CursorAfterRestart
<1>2. StoreOK /\ PushedOK /\ PostOK /\ PullOK
  BY TInvParts DEF Sound
<1>3. node' = node /\ saved' = node'
  BY <1>1, <1>2 DEF Sound, StoreOK
<1>4. Floating(loose') /\ \A k \in Node : Carried(k)
  BY <1>1, <1>3, FloatingGivenUp, CarriedSame
<1>5. \A k \in Node : /\ pull'[k] = None \/ pull'[k] = pull[k]
                      /\ post'[k] = None \/ post'[k] = post[k]
                      /\ pushed'[k] = 0 \/ pushed'[k] = pushed[k]
  BY <1>1, <1>2 DEF PullOK, PostOK, PushedOK
<1>6. ASSUME NEW k \in Node PROVE Direction(k)'
  <2>1. Peer(k) \in Node /\ node'[Peer(k)] \in NodeState
    BY <1>3, PeerType, SoundTypes
  <2>2. /\ Pulled(node'[Peer(k)], node'[k], pull'[k], old', refused'[k]) /\ Acked(node'[k], pull'[Peer(k)])
        /\ Posted(node'[Peer(k)], node'[k], post'[Peer(k)])
    BY <1>1, <1>4, <1>5, <2>1 DEF Carried, Pulled, Acked, Posted
  <2>3. Delivered(node'[Peer(k)], node'[k], pushed'[Peer(k)])
    <3>1. \A f \in Envelopes(node'[Peer(k)].outbox) : ~(f.seq <= 0)
      BY <2>1, Numbers, EnvelopeFields
    <3>2. Delivered(node'[Peer(k)], node'[k], 0)
      BY <3>1 DEF Delivered
    <3> QED BY <1>4, <1>5, <2>1, <3>2 DEF Carried
  <2> QED BY <1>4, <2>2, <2>3, DirectionNext DEF Floating
<1> QED BY <1>3, <1>6 DEF Agreed

LEMMA SoundAge ==
    ASSUME Sound, Age \/ UNCHANGED vars
    PROVE  Agreed'
<1>1. /\ UNCHANGED <<node, saved, pushed, post, pull, loose, made, refused, restarts, failed>>
      /\ old' = old + 1 \/ old' = old
  BY DEF Age, vars
<1>2. \A k \in Node : Carried(k)
  BY <1>1, CarriedSame
<1>3. ASSUME NEW k \in Node PROVE Direction(k)'
  <2>1. Peer(k) \in Node /\ node[Peer(k)] \in NodeState /\ old \in Nat
    BY PeerType, SoundTypes
  <2>2. \A f \in Envelopes(node[Peer(k)].outbox) : Past(node[k], f, old, refused[k]) => Past(node[k], f, old', refused[k])
    BY <1>1, <2>1, Numbers DEF Past
  <2>3. Pulled(node'[Peer(k)], node'[k], pull[k], old, refused[k])
    BY <1>2 DEF Carried
  <2>4. Pulled(node'[Peer(k)], node'[k], pull'[k], old', refused'[k])
    BY <1>1, <2>2, <2>3 DEF Pulled
  <2> QED BY <1>1, <1>2, <2>4, DirectionNext DEF Carried
<1> QED BY <1>1, <1>3 DEF Agreed, Sound

LEMMA SoundInit == Init => DInv
<1> SUFFICES ASSUME Init PROVE saved = node /\ \A n \in Node : Direction(n)
  BY DEF DInv
<1>1. Fresh.outbox = <<>> /\ Fresh.outSeq = 0 /\ Fresh.last = 0 /\ Fresh.replies = {}
  BY DEF Fresh
<1>2. Envelopes(<<>>) = {}
  BY DEF Envelopes
<1>3. ASSUME NEW n \in Node PROVE Direction(n)
  <2>1. Peer(n) \in Node
    BY PeerType
  <2>2. /\ node[n] = Fresh /\ node[Peer(n)] = Fresh /\ post[Peer(n)] = None
        /\ loose[n] = <<>> /\ pull[n] = None /\ pull[Peer(n)] = None
    BY <2>1 DEF Init
  <2>3. Posted(Fresh, Fresh, None) /\ Pulled(Fresh, Fresh, None, old, refused[n]) /\ Acked(Fresh, None)
    BY DEF Posted, Pulled, Acked
  <2>4. /\ Loosened(Fresh, Fresh, <<>>) /\ Cached(Fresh, Fresh)
        /\ Delivered(Fresh, Fresh, pushed[Peer(n)])
    BY <1>1, <1>2 DEF Loosened, Cached, Delivered
  <2>5. Fresh.last <= Fresh.outSeq
    BY <1>1
  <2> HIDE DEF Fresh
  <2> QED BY <2>2, <2>3, <2>4, <2>5 DEF Direction
<1> QED BY <1>3 DEF Init

(* A Save that has failed is not forgotten.                                *)
LEMMA FailedGrows == TInv /\ [Next]_vars /\ failed' = 0 => failed = 0
<1> SUFFICES ASSUME TInv, [Next]_vars, failed' = 0 PROVE failed = 0
  OBVIOUS
<1>1. failed \in Nat
  BY TInvStore, BoundAssumption DEF StoreOK
<1>2. ASSUME NEW n, NEW s, Persist(n, s) PROVE failed' \in {failed, failed + 1}
  BY <1>2 DEF Persist
<1>3. ASSUME NEW n, NEW e, NEW rest, NEW trouble,
           ProcessInbound(n, e, Verdict(n, e, trouble), rest) PROVE failed' \in {failed, failed + 1}
  <2>1. ASSUME Route(n, e) PROVE failed' \in {failed, failed + 1}
    BY <1>2, <2>1 DEF Route
  <2>2. CASE failed' = failed
    BY <2>2
  <2> QED BY <1>3, <2>1, <2>2 DEF ProcessInbound
<1>4. ASSUME NEW n \in Node, NEW hops \in Hops, Call(n, hops) PROVE failed' \in {failed, failed + 1}
  BY <1>2, <1>4 DEF Call
<1>5. ASSUME NEW n \in Node, Push(n) PROVE failed' \in {failed, failed + 1}
  <2>1. CASE PushArrives(n)
    BY <1>3, <2>1 DEF PushArrives, ArrivesWith
  <2> QED BY <1>5, <2>1 DEF Push, PushStart, PushReturns
<1>6. ASSUME NEW n \in Node, Pull(n) PROVE failed' \in {failed, failed + 1}
  <2>1. CASE Prune(n)
    <3>1. failed' = failed \/ Persist(n, Pruned(node[n], pull[n].acked))
      BY <2>1 DEF Prune
    <3> QED BY <1>2, <3>1
  <2>2. CASE PollNext(n)
    BY <1>3, <2>2 DEF PollNext, PollWith
  <2> QED BY <1>6, <2>1, <2>2 DEF Pull, FetchOutbox, FetchCheckpoint
<1>7. ASSUME NEW n \in Node, LoseRequest(n) \/ LoseAnswer(n) \/ LooseArrives(n)
      PROVE  failed' \in {failed, failed + 1}
  <2>1. CASE LooseArrives(n)
    BY <1>3, <2>1 DEF LooseArrives
  <2> QED BY <1>7, <2>1 DEF LoseRequest, LoseAnswer
<1>8. ASSUME Age \/ UNCHANGED vars PROVE failed' \in {failed, failed + 1}
  BY <1>8 DEF Age, vars
<1>9. ASSUME NEW n \in Node, Restart(n) PROVE failed' \in {failed, failed + 1}
  BY <1>9 DEF Restart
<1>10. failed' \in {failed, failed + 1}
  BY <1>4, <1>5, <1>6, <1>7, <1>8, <1>9, Zenon DEF Next
<1> QED BY <1>1, <1>10

LEMMA SoundNext == TInv /\ TInv' /\ DInv /\ [Next]_vars => DInv'
<1> SUFFICES ASSUME TInv, TInv', DInv, [Next]_vars, failed' = 0 PROVE Agreed'
  BY DEF DInv, Agreed
<1>1. failed = 0
  BY FailedGrows
<1>2. Sound
  BY <1>1 DEF DInv, Sound
<1>3. CASE Age \/ UNCHANGED vars
  BY <1>2, <1>3, SoundAge
<1>4. ASSUME NEW n \in Node, NEW hops \in Hops, Call(n, hops) PROVE Agreed'
  BY <1>1, <1>2, <1>4, SoundCall
<1>5. ASSUME NEW n \in Node, Push(n) PROVE Agreed'
  BY <1>1, <1>2, <1>5, SoundPushStart, SoundPushArrives, SoundPushReturns DEF Push
<1>6. ASSUME NEW n \in Node, LoseRequest(n) \/ LoseAnswer(n) \/ LooseArrives(n) PROVE Agreed'
  BY <1>1, <1>2, <1>6, SoundLose, SoundLooseArrives
<1>7. ASSUME NEW n \in Node, Pull(n) PROVE Agreed'
  BY <1>1, <1>2, <1>7, SoundFetchOutbox, SoundPoll, SoundFetchCheckpoint, SoundPrune DEF Pull
<1>8. ASSUME NEW n \in Node, Restart(n) PROVE Agreed'
  BY <1>2, <1>8, SoundRestart
<1> QED BY <1>3, <1>4, <1>5, <1>6, <1>7, <1>8, Zenon DEF Next

LEMMA SoundInvariant == Spec => [](TInv /\ DInv)
<1>1. TInv /\ DInv /\ [Next]_vars => TInv' /\ DInv'
  BY TypeNext, SoundNext
<1> QED BY <1>1, TypeInit, SoundInit, PTL DEF Spec

(* What a node takes as delivered survives a crash of its peer.            *)
THEOREM AcknowledgedIsDurable == Spec => []AckedIsDurable
<1>1. TInv /\ DInv => AckedIsDurable
  <2> SUFFICES ASSUME TInv, DInv, failed = 0, NEW n \in Node
               PROVE  /\ \A e \in Outbox(n) : e.seq <= pushed[n] => e.id \in saved[Peer(n)].seen
                      /\ pull[n] # None /\ pull[n].acked # None =>
                            pull[n].acked <= saved[Peer(n)].last
    BY DEF AckedIsDurable
  <2>1. Peer(n) \in Node /\ Peer(Peer(n)) = n /\ saved = node /\ Direction(Peer(n))
    BY PeerType DEF DInv
  <2>2. Delivered(node[n], node[Peer(n)], pushed[n]) /\ Acked(node[Peer(n)], pull[n])
    BY <2>1 DEF Direction
  <2> QED BY <2>1, <2>2 DEF Delivered, Acked, Outbox
<1> QED BY <1>1, SoundInvariant, PTL

-----------------------------------------------------------------------------
(***************************************************************************)
(* Which envelopes a step passes.                                          *)
(***************************************************************************)

(* n goes to d: it sends an envelope, prunes its outbox, or takes e.       *)
Originates(n, d) ==
    /\ made' = made + 1 /\ d.seen = node[n].seen /\ d.last = node[n].last
    /\ \E m \in Envelope : m.id = made + 1 /\ Sends(node[n], d, m)

Shortens(n, d) ==
    /\ pull[n] # None /\ pull[n].acked # None /\ made' = made
    /\ d = Pruned(node[n], pull[n].acked)

Reaches(n, e) ==
    \/ post[Peer(n)] # None /\ e = post[Peer(n)].env
    \/ e \in Envelopes(loose[n])
    \/ pull[n] # None /\ pull[n].todo # <<>> /\ e = Head(pull[n].todo)

Moves(n, d) ==
    /\ Numbered(d) /\ node' = [node EXCEPT ![n] = d]
    /\ \/ Originates(n, d)
       \/ Shortens(n, d)
       \/ \E e \in Envelope : Reaches(n, e) /\ Accepts(n, e, d)

Unmoved == node' = node /\ made' = made

LEMMA StepKinds ==
    ASSUME TInv, [Next]_vars
    PROVE  \/ Unmoved
           \/ \E n \in Node : made' = made /\ node' = [node EXCEPT ![n] = saved[n]]
           \/ \E n \in Node, d \in NodeState : Moves(n, d)
<1> DEFINE Stored == \E n \in Node : made' = made /\ node' = [node EXCEPT ![n] = saved[n]]
           Moved == \E n \in Node, d \in NodeState : Moves(n, d)
<1>1. StoreOK /\ LooseOK(loose) /\ PostOK /\ PullOK /\ TypeOK
  BY TInvParts DEF TInv
<1>2. ASSUME NEW n \in Node, NEW e \in Envelope, Reaches(n, e), NEW rest, NEW trouble,
           ProcessInbound(n, e, Verdict(n, e, trouble), rest)
      PROVE  Unmoved \/ Moved
  <2>1. CASE \E d \in NodeState : Numbered(d) /\ Accepts(n, e, d)
    <3>1. PICK d \in NodeState : Numbered(d) /\ Accepts(n, e, d)
      BY <2>1
    <3>2. node' = [node EXCEPT ![n] = d]
      BY <3>1 DEF Accepts, Persist
    <3>3. Moves(n, d)
      BY <1>2, <3>1, <3>2 DEF Moves
    <3> QED BY <3>3
  <2>2. CASE Declines(n, e, rest)
    BY <2>2 DEF Declines, Unmoved
  <2> QED BY <1>2, <2>1, <2>2, InboundEffect
<1>3. ASSUME NEW n \in Node, NEW hops \in Hops, Call(n, hops) PROVE Moved
  <2> DEFINE s == node[n]
             m == Built(s, hops)
             d == Recorded(s, m)
  <2>1. s \in NodeState /\ Numbered(s) /\ hops \in Nat
    BY <1>1, CallAssumption DEF StoreOK
  <2>2. m \in Envelope /\ m.id = made + 1 /\ m.seq = s.outSeq + 1
    BY <1>1, <2>1, BuiltType
  <2>3. node' = [node EXCEPT ![n] = d] /\ made' = made + 1
    BY <1>3 DEF Call, Persist
  <2> HIDE DEF m
  <2>4. d \in NodeState /\ Numbered(d)
    BY <2>1, <2>2, RecordedType
  <2>5. d.outSeq = m.seq /\ d.outbox = Append(s.outbox, m) /\ d.replies = s.replies
        /\ d.seen = s.seen /\ d.last = s.last
    BY <2>1, Zenon DEF Recorded, NodeState
  <2> HIDE DEF d
  <2>6. Sends(s, d, m)
    BY <2>2, <2>5 DEF Sends
  <2>7. Originates(n, d)
    BY <2>2, <2>3, <2>5, <2>6 DEF Originates
  <2>8. Moves(n, d)
    BY <2>3, <2>4, <2>7 DEF Moves
  <2> QED BY <2>4, <2>8
<1>4. ASSUME NEW n \in Node, Push(n) PROVE Unmoved \/ Moved
  <2>1. CASE PushArrives(n)
    <3>0. PICK trouble \in Troubles : ArrivesWith(n, trouble)
      BY <2>1 DEF PushArrives
    <3>1. /\ Peer(n) \in Node /\ post[Peer(n)] # None
          /\ ProcessInbound(n, post[Peer(n)].env, Verdict(n, post[Peer(n)].env, trouble), loose)
      BY <3>0, PeerType DEF ArrivesWith
    <3>2. post[Peer(n)].env \in Envelope
      BY <1>1, <3>1, PostFields
    <3>3. Reaches(n, post[Peer(n)].env)
      BY <3>1 DEF Reaches
    <3> QED BY <1>2, <3>1, <3>2, <3>3
  <2> QED BY <1>4, <2>1 DEF Push, PushStart, PushReturns, Unmoved
<1>5. ASSUME NEW n \in Node, LoseRequest(n) \/ LoseAnswer(n) \/ LooseArrives(n)
      PROVE  Unmoved \/ Moved
  <2>1. CASE LooseArrives(n)
    <3>1. PICK i \in 1..Len(loose[n]), trouble \in Troubles :
             ProcessInbound(n, loose[n][i], Verdict(n, loose[n][i], trouble),
                            [loose EXCEPT ![n] = RemoveAt(loose[n], i)])
      BY <2>1 DEF LooseArrives
    <3>2. loose[n][i] \in Envelope /\ loose[n][i] \in Envelopes(loose[n])
      BY <1>1, InEnvelopes DEF LooseOK
    <3>3. Reaches(n, loose[n][i])
      BY <3>2 DEF Reaches
    <3> QED BY <1>2, <3>1, <3>2, <3>3
  <2> QED BY <1>5, <2>1 DEF LoseRequest, LoseAnswer, Unmoved
<1>6. ASSUME NEW n \in Node, Pull(n) PROVE Unmoved \/ Moved
  <2>1. CASE PollNext(n)
    <3>0. PICK trouble \in Troubles : PollWith(n, trouble)
      BY <2>1 DEF PollNext
    <3>1. /\ pull[n] # None /\ pull[n].todo # <<>>
          /\ ProcessInbound(n, Head(pull[n].todo), Verdict(n, Head(pull[n].todo), trouble), loose)
      BY <3>0 DEF PollWith
    <3>2. Head(pull[n].todo) \in Envelope
      BY <1>1, <3>1, PullFields, TailFacts
    <3>3. Reaches(n, Head(pull[n].todo))
      BY <3>1 DEF Reaches
    <3> QED BY <1>2, <3>1, <3>2, <3>3
  <2>2. CASE Prune(n)
    <3> DEFINE d == Pruned(node[n], pull[n].acked)
    <3>1. pull[n] # None /\ pull[n].acked # None /\ made' = made
          /\ (UNCHANGED <<node, saved, failed>> \/ Persist(n, d))
      BY <2>2 DEF Prune
    <3>2. node[n] \in NodeState /\ Numbered(node[n]) /\ pull[n].acked \in Nat
      BY <1>1, <3>1, PullFields DEF StoreOK
    <3>3. d \in NodeState /\ Numbered(d)
      BY <3>2, PrunedType
    <3>4. Shortens(n, d)
      BY <3>1 DEF Shortens
    <3>5. Persist(n, d) => node' = [node EXCEPT ![n] = d]
      BY DEF Persist
    <3> HIDE DEF d
    <3>6. Persist(n, d) => Moves(n, d)
      BY <3>3, <3>4, <3>5 DEF Moves
    <3> QED BY <3>1, <3>3, <3>6 DEF Unmoved
  <2> QED BY <1>6, <2>1, <2>2 DEF Pull, FetchOutbox, FetchCheckpoint, Unmoved
<1>7. ASSUME NEW n \in Node, Restart(n) PROVE Stored
  BY <1>7 DEF Restart
<1>8. CASE Age \/ UNCHANGED vars
  BY <1>8 DEF Age, vars, Unmoved
<1>9. Unmoved \/ Stored \/ Moved
  BY <1>3, <1>4, <1>5, <1>6, <1>7, <1>8, Zenon DEF Next, Unmoved
<1> QED BY <1>9

(* While no Save has failed a restart changes nothing that is stored.      *)
LEMMA SoundKinds ==
    ASSUME Sound, [Next]_vars
    PROVE  Unmoved \/ \E n \in Node, d \in NodeState : Moves(n, d)
<1>1. TInv /\ saved = node /\ node \in [Node -> NodeState]
  BY SoundTypes DEF Sound, TInv, TypeOK
<1>2. \A n \in Node : [node EXCEPT ![n] = saved[n]] = node
  BY <1>1
<1> QED BY <1>1, <1>2, StepKinds DEF Unmoved

(* An envelope leaves the outbox only when the peer has processed it or    *)
(* passed its number: the checkpoint that a node prunes by was true when   *)
(* it was fetched, and numbers are passed for good.                        *)
THEOREM PrunedWasPassed == Spec => PrunedIsPassed
<1> DEFINE Step == failed = 0 => \A n \in Node : \A e \in Outbox(n) :
                                    e \notin Outbox(n)' => e.seq <= node[Peer(n)].last'
<1>1. TInv /\ DInv /\ [Next]_vars => Step
  <2> SUFFICES ASSUME TInv, DInv, [Next]_vars, failed = 0,
                      NEW n \in Node, NEW e \in Outbox(n), e \notin Outbox(n)'
               PROVE  e.seq <= node[Peer(n)].last'
    OBVIOUS
  <2>1. Sound /\ node \in [Node -> NodeState]
    BY DEF DInv, Sound, TInv, TypeOK
  <2>2. e \in Envelopes(node[n].outbox) /\ e \notin Envelopes(node'[n].outbox)
    BY DEF Outbox
  <2>3. PICK k \in Node, d \in NodeState : Moves(k, d)
    BY <2>1, <2>2, SoundKinds DEF Unmoved
  <2>4. node' = [node EXCEPT ![k] = d]
    BY <2>3 DEF Moves
  <2>5. k = n
    BY <2>1, <2>2, <2>4
  <2>6. e \notin Envelopes(d.outbox)
    BY <2>1, <2>2, <2>4, <2>5
  <2>7. node[n] \in NodeState /\ Numbered(node[n]) /\ PullOK
    BY <2>1, SoundTypes, TInvParts DEF Sound
  <2>8. ~Silent(node[n], d) /\ \A m \in Envelope : ~Sends(node[n], d, m)
    <3>1. ~Silent(node[n], d)
      BY <2>2, <2>6 DEF Silent
    <3>2. ASSUME NEW m \in Envelope, Sends(node[n], d, m) PROVE FALSE
      <4>1. Envelopes(d.outbox) = Envelopes(node[n].outbox) \cup {m}
        BY <2>7, <3>2, StateFields, AppendFacts DEF Sends
      <4> QED BY <2>2, <2>6, <4>1
    <3> QED BY <3>1, <3>2
  <2>9. Shortens(n, d)
    BY <2>3, <2>5, <2>8 DEF Moves, Originates, Accepts
  <2>10. pull[n] # None /\ pull[n].acked # None /\ pull[n].acked \in Nat
         /\ Envelopes(d.outbox) = {f \in Envelopes(node[n].outbox) : f.seq > pull[n].acked}
    BY <2>7, <2>9, PullFields, PrunedType DEF Shortens
  <2>11. Peer(n) \in Node /\ Peer(Peer(n)) = n /\ Direction(Peer(n))
    BY <2>1, PeerType DEF Sound
  <2>12. pull[n].acked <= node[Peer(n)].last
    BY <2>10, <2>11 DEF Direction, Acked
  <2>13. e.seq \in Nat /\ node[Peer(n)].last \in Nat /\ ~(e.seq > pull[n].acked)
    BY <2>1, <2>2, <2>6, <2>7, <2>10, <2>11, Numbers
  <2>14. node'[Peer(n)] = node[Peer(n)]
    BY <2>1, <2>4, <2>5, PeerType
  <2> QED BY <2>10, <2>12, <2>13, <2>14
<1>2. PrunedIsPassed <=> [][Step]_vars
  BY DEF PrunedIsPassed
<1> HIDE DEF Step
<1>3. TInv /\ DInv /\ [Next]_vars => [Step]_vars
  BY <1>1
<1> QED BY <1>2, <1>3, SoundInvariant, PTL DEF Spec

(* What a node passes without processing it was too old to be accepted,    *)
(* was overtaken by a cached reply sent again, or was refused in the pull  *)
(* that goes on behind it.                                                 *)
LEMMA Overtaking ==
    ASSUME Sound, [Next]_vars, NEW n \in Node, NEW e \in Outbox(Peer(n)),
           ~Skipped(n, e), Skipped(n, e)'
    PROVE  \/ e.id <= old
           \/ \E r \in node[Peer(n)].replies :
                 r[2] \in Envelopes(loose[n]) /\ r[2].seq = node[n].last'
           \/ /\ e.id \in refused[n]
              /\ pull[n] # None /\ pull[n].todo # <<>>
              /\ Head(pull[n].todo).seq = node[n].last'
<1> DEFINE s == node[Peer(n)]
           r == node[n]
<1>1. Peer(n) \in Node /\ s \in NodeState /\ r \in NodeState /\ node \in [Node -> NodeState]
  BY PeerType, SoundTypes DEF Sound, TInv, TypeOK
<1>2. e \in Envelopes(s.outbox) /\ e \in Envelope /\ e.seq \in Nat /\ e.id \in Nat /\ r.last \in Nat
  BY <1>1, Numbers DEF Outbox
<1>3. (e.seq > r.last \/ e.id \in r.seen) /\ e.seq <= node'[n].last /\ e.id \notin node'[n].seen
  BY <1>2 DEF Skipped
<1>4. PICK k \in Node, d \in NodeState : Moves(k, d)
  BY <1>3, <1>2, SoundKinds DEF Unmoved
<1>5. node' = [node EXCEPT ![k] = d]
  BY <1>4 DEF Moves
<1>6. k = n /\ node'[n] = d
  BY <1>1, <1>2, <1>3, <1>5
<1>7. d.seen # r.seen \/ d.last # r.last
  BY <1>2, <1>3, <1>6
<1>8. ~Shortens(n, d) /\ ~Originates(n, d)
  <2>1. ASSUME Shortens(n, d) PROVE FALSE
    <3>1. Numbered(r) /\ PullOK
      BY SoundTypes, TInvParts DEF Sound
    <3>2. pull[n].acked \in Nat
      BY <2>1, <3>1, PullFields DEF Shortens
    <3> QED BY <1>1, <1>7, <2>1, <3>1, <3>2, PrunedType DEF Shortens
  <2> QED BY <1>7, <2>1 DEF Originates
<1>9. PICK f \in Envelope : Reaches(n, f) /\ Accepts(n, f, d)
  BY <1>4, <1>6, <1>8 DEF Moves
<1>10. /\ d.seen = r.seen \cup {f.id} /\ d.last = f.seq /\ f.seq > r.last
       /\ f.seq \in Nat
  BY <1>9, EnvelopeFields DEF Accepts, Takes
<1>11. e.id \notin r.seen /\ e.id # f.id /\ e.seq > r.last /\ e.seq <= f.seq
  BY <1>3, <1>6, <1>10
<1>12. Direction(n)
  BY DEF Sound
<1>13. f.seq # e.seq /\ f.seq = node[n].last' /\ (f \in Envelopes(loose[n]) \/ Reaches(n, f))
  <2>1. CASE post[Peer(n)] # None /\ f = post[Peer(n)].env
    BY <1>2, <1>6, <1>10, <1>11, <1>12, <1>9, <2>1 DEF Direction, Posted, Intact
  <2>2. CASE f \in Envelopes(loose[n])
    BY <1>2, <1>6, <1>10, <1>11, <1>12, <1>9, <2>2 DEF Direction, Loosened, Intact
  <2>3. CASE pull[n] # None /\ pull[n].todo # <<>> /\ f = Head(pull[n].todo)
    <3>1. pull[n].todo \in Seq(Envelope)
      BY <2>3, TInvParts, PullFields DEF Sound
    <3>2. f \in Envelopes(pull[n].todo)
      BY <2>3, <3>1, TailFacts
    <3> QED BY <1>2, <1>6, <1>10, <1>11, <1>12, <1>9, <2>3, <3>2 DEF Direction, Pulled, Intact
  <2> QED BY <1>9, <2>1, <2>2, <2>3 DEF Reaches
<1>14. e.seq < f.seq
  BY <1>2, <1>10, <1>11, <1>13
<1>15. ~InTurn(s, r, f)
  BY <1>2, <1>11, <1>14 DEF InTurn
<1>16. CASE post[Peer(n)] # None /\ f = post[Peer(n)].env
  BY <1>12, <1>15, <1>16 DEF Direction, Posted
<1>17. CASE f \in Envelopes(loose[n])
  <2>1. Resent(s, f)
    BY <1>12, <1>15, <1>17 DEF Direction, Loosened
  <2> QED BY <1>13, <1>17, <2>1 DEF Resent
<1>18. CASE pull[n] # None /\ pull[n].todo # <<>> /\ f = Head(pull[n].todo)
  <2> DEFINE q == pull[n].todo
  <2>1. q \in Seq(Envelope) /\ q # <<>> /\ f = Head(q)
    BY <1>18, TInvParts, PullFields DEF Sound
  <2>2. Pulled(s, r, pull[n], old, refused[n])
    BY <1>12 DEF Direction
  <2> HIDE DEF q
  <2>3. f \in Envelopes(q) /\ \A g \in Envelopes(q) : g = f \/ g \in Envelopes(Tail(q))
    BY <2>1, TailFacts
  <2>4. \A g \in Envelopes(Tail(q)) : f.seq < g.seq
    BY <1>18, <2>1, <2>2, TailFacts DEF Pulled, q
  <2>5. e \notin Envelopes(q)
    BY <1>2, <1>10, <1>14, <2>3, <2>4
  <2>6. Past(r, e, old, refused[n])
    BY <1>2, <1>14, <1>18, <2>2, <2>3, <2>5 DEF Pulled, q
  <2> QED BY <1>2, <1>11, <1>13, <1>18, <2>6 DEF Past
<1> QED BY <1>9, <1>16, <1>17, <1>18 DEF Reaches

THEOREM OnlyResendsOvertakeOthers == Spec => OnlyResendsOvertake
<1> DEFINE Step == failed = 0 =>
                      \A n \in Node : \A e \in Outbox(Peer(n)) :
                         ~Skipped(n, e) /\ Skipped(n, e)' =>
                             \/ e.id <= old
                             \/ \E r \in node[Peer(n)].replies :
                                   r[2] \in Envelopes(loose[n]) /\ r[2].seq = node[n].last'
                             \/ /\ e.id \in refused[n]
                                /\ pull[n] # None /\ pull[n].todo # <<>>
                                /\ Head(pull[n].todo).seq = node[n].last'
<1>1. TInv /\ DInv /\ [Next]_vars => Step
  BY Overtaking DEF DInv, Sound
<1>2. OnlyResendsOvertake <=> [][Step]_vars
  BY DEF OnlyResendsOvertake
<1> HIDE DEF Step
<1>3. TInv /\ DInv /\ [Next]_vars => [Step]_vars
  BY <1>1
<1> QED BY <1>2, <1>3, SoundInvariant, PTL DEF Spec

-----------------------------------------------------------------------------
(***************************************************************************)
(* Nodes that call without asking for an answer.                           *)
(***************************************************************************)
Plain(s) == s.replies = {} /\ \A e \in Envelopes(s.outbox) : e.hops = 0

LEMMA StorePlain ==
    ASSUME \A k \in Node : Plain(node[k]) /\ Plain(saved[k]), StoreOK,
           NEW n \in Node, NEW d, Plain(d), Persist(n, d)
    PROVE  \A k \in Node : Plain(node'[k]) /\ Plain(saved'[k])
<1>1. node' = [node EXCEPT ![n] = d] /\ (saved' = [saved EXCEPT ![n] = d] \/ saved' = saved)
  BY DEF Persist
<1>2. \A k \in Node : (node'[k] = d \/ node'[k] = node[k]) /\ (saved'[k] = d \/ saved'[k] = saved[k])
  BY <1>1 DEF StoreOK
<1> QED BY <1>2, Zenon

(* A node that takes an envelope sends none.                               *)
LEMMA InboundPlain ==
    ASSUME TInv, \A k \in Node : Plain(node[k]) /\ Plain(saved[k]),
           NEW n \in Node, NEW e \in Envelope, e.hops = 0, NEW rest, NEW trouble,
           ProcessInbound(n, e, Verdict(n, e, trouble), rest)
    PROVE  loose' = rest /\ \A k \in Node : Plain(node'[k]) /\ Plain(saved'[k])
<1>1. StoreOK
  BY TInvStore
<1>2. ASSUME NEW d \in NodeState, Accepts(n, e, d)
      PROVE  \A k \in Node : Plain(node'[k]) /\ Plain(saved'[k])
  <2>1. Silent(node[n], d) /\ Persist(n, d)
    BY <1>2 DEF Accepts
  <2>2. Plain(d)
    BY <2>1 DEF Silent, Plain
  <2> QED BY <1>1, <2>1, <2>2, StorePlain
<1>3. ASSUME Declines(n, e, rest)
      PROVE  loose' = rest /\ \A k \in Node : Plain(node'[k]) /\ Plain(saved'[k])
  <2>1. node[n].replies = {}
    BY DEF Plain
  <2> QED BY <1>3, <2>1 DEF Declines, DirectDeliver
<1> QED BY <1>2, <1>3, InboundEffect

PlainStore == \A n \in Node : Plain(node[n]) /\ Plain(saved[n])

PlainLoose(q) == \A n \in Node : \A e \in Envelopes(q[n]) : e.hops = 0

PlainPost == \A n \in Node : post[n] # None => post[n].env.hops = 0

PlainPull == \A n \in Node : pull[n] # None => \A e \in Envelopes(pull[n].todo) : e.hops = 0

LEMMA UnansweredParts ==
    Unanswered <=> PlainStore /\ PlainLoose(loose) /\ PlainPost /\ PlainPull
BY DEF Unanswered, PlainStore, PlainLoose, PlainPost, PlainPull, Plain, Outbox

LEMMA UnansweredNext ==
    ASSUME PlainStore', PlainLoose(loose)', PlainPost', PlainPull'
    PROVE  Unanswered'
BY DEF Unanswered, PlainStore, PlainLoose, PlainPost, PlainPull, Plain, Outbox

LEMMA PlainSame ==
    ASSUME Unanswered
    PROVE  /\ node' = node /\ saved' = saved => PlainStore'
           /\ loose' = loose => PlainLoose(loose)'
           /\ post' = post => PlainPost'
           /\ pull' = pull => PlainPull'
BY UnansweredParts DEF PlainStore, PlainLoose, PlainPost, PlainPull

LEMMA PlainGiveUp ==
    ASSUME TInv, Unanswered, NEW n \in Node, post[n] # None, GiveUp(n)
    PROVE  PlainLoose(loose)'
<1> DEFINE p == Peer(n)
           e == post[n].env
<1>1. LooseOK(loose) /\ PostOK /\ p \in Node /\ PlainLoose(loose) /\ PlainPost
  BY TInvParts, UnansweredParts, PeerType
<1>2. e \in Envelope /\ e.hops = 0
  BY <1>1, PostFields DEF PlainPost
<1>3. loose' = loose \/ loose' = [loose EXCEPT ![p] = Append(loose[p], e)]
  BY DEF GiveUp
<1> HIDE DEF e
<1>4. Envelopes(Append(loose[p], e)) = Envelopes(loose[p]) \cup {e}
  BY <1>1, <1>2, AppendFacts DEF LooseOK
<1>5. \A k \in Node : loose'[k] = loose[k] \/ (k = p /\ loose'[k] = Append(loose[p], e))
  BY <1>1, <1>3 DEF LooseOK
<1>6. \A k \in Node : Envelopes(loose'[k]) \subseteq Envelopes(loose[k]) \cup {e}
  BY <1>4, <1>5
<1> QED BY <1>1, <1>2, <1>6 DEF PlainLoose

LEMMA UnansweredStep ==
    ASSUME Hops = {0}, TInv, Unanswered, [Next]_vars
    PROVE  Unanswered'
<1>1. /\ StoreOK /\ LooseOK(loose) /\ PostOK /\ PullOK /\ PushedOK /\ TypeOK
      /\ PlainStore /\ PlainLoose(loose) /\ PlainPost /\ PlainPull
  BY TInvParts, UnansweredParts DEF TInv
<1>2. \A k \in Node : node[k] \in NodeState /\ saved[k] \in NodeState
  BY <1>1 DEF StoreOK
<1>3. ASSUME NEW n \in Node, NEW e \in Envelope, e.hops = 0, NEW rest, NEW trouble,
           ProcessInbound(n, e, Verdict(n, e, trouble), rest)
      PROVE  PlainStore' /\ loose' = rest
  BY <1>1, <1>3, InboundPlain DEF PlainStore
<1>4. ASSUME NEW n \in Node, NEW hops \in Hops, Call(n, hops) PROVE Unanswered'
  <2> DEFINE s == node[n]
             m == Built(s, 0)
             d == Recorded(s, m)
  <2>1. Persist(n, d) /\ UNCHANGED <<pushed, post, pull, loose, old, refused, restarts>>
    BY <1>4 DEF Call
  <2>2. s \in NodeState /\ m \in Envelope /\ m.hops = 0
    BY <1>1, <1>2, BuiltType
  <2> HIDE DEF m
  <2>3. d.outbox = Append(s.outbox, m) /\ d.replies = s.replies
    BY <2>2, Zenon DEF Recorded, NodeState
  <2> HIDE DEF d
  <2>4. Envelopes(d.outbox) = Envelopes(s.outbox) \cup {m}
    BY <2>2, <2>3, StateFields, AppendFacts
  <2>5. Plain(d)
    BY <1>1, <2>2, <2>3, <2>4 DEF Plain, PlainStore
  <2>6. PlainStore'
    BY <1>1, <2>1, <2>5, StorePlain DEF PlainStore
  <2> QED BY <2>1, <2>6, PlainSame, UnansweredNext
<1>5. ASSUME NEW n \in Node, Push(n) PROVE Unanswered'
  <2>1. CASE PushStart(n)
    <3> DEFINE e == Head(Unpushed(n))
    <3>1. /\ UNCHANGED <<node, saved, pull, loose>> /\ Unpushed(n) # <<>>
          /\ post' = [post EXCEPT ![n] = [env |-> e, answer |-> "none"]]
      BY <2>1 DEF PushStart
    <3>2. e \in Envelopes(node[n].outbox)
      BY <1>1, <1>2, <3>1, StateFields, AfterHead DEF Unpushed, Numbered, PushedOK, StoreOK
    <3> HIDE DEF e
    <3>3. post'[n].env = e /\ \A k \in Node : k # n => post'[k] = post[k]
      BY <1>1, <3>1 DEF PostOK
    <3>4. PlainPost'
      BY <1>1, <3>2, <3>3 DEF PlainPost, PlainStore, Plain
    <3> QED BY <3>1, <3>4, PlainSame, UnansweredNext
  <2>2. CASE PushArrives(n)
    <3> DEFINE p == Peer(n)
               e == post[p].env
    <3>0. PICK trouble \in Troubles : ArrivesWith(n, trouble)
      BY <2>2 DEF PushArrives
    <3>1. /\ p \in Node /\ post[p] # None /\ ProcessInbound(n, e, Verdict(n, e, trouble), loose)
          /\ pull' = pull /\ \E a : post' = [post EXCEPT ![p].answer = a]
      BY <3>0, PeerType DEF ArrivesWith
    <3>2. e \in Envelope /\ e.hops = 0
      BY <1>1, <3>1, PostFields DEF PlainPost
    <3>3. PICK a : post' = [post EXCEPT ![p].answer = a]
      BY <3>1
    <3>4. post'[p] = [post[p] EXCEPT !.answer = a] /\ post[p] \in Posting
          /\ \A k \in Node : k # p => post'[k] = post[k]
      BY <1>1, <3>1, <3>3 DEF PostOK
    <3>5. post'[p].env = e
      BY <3>4, Zenon DEF Posting
    <3>6. PlainPost'
      BY <1>1, <3>2, <3>4, <3>5 DEF PlainPost
    <3>7. PlainStore' /\ loose' = loose
      BY <1>3, <3>1, <3>2
    <3> QED BY <3>1, <3>6, <3>7, PlainSame, UnansweredNext
  <2>3. CASE PushReturns(n)
    <3>1. UNCHANGED <<node, saved, pull, loose>> /\ post' = [post EXCEPT ![n] = None]
      BY <2>3 DEF PushReturns
    <3>2. PlainPost'
      BY <1>1, <3>1 DEF PlainPost, PostOK
    <3> QED BY <3>1, <3>2, PlainSame, UnansweredNext
  <2> QED BY <1>5, <2>1, <2>2, <2>3 DEF Push
<1>6. ASSUME NEW n \in Node, LoseRequest(n) \/ LoseAnswer(n) PROVE Unanswered'
  <2>1. /\ UNCHANGED <<node, saved, pull>> /\ post[n] # None
        /\ post' = [post EXCEPT ![n] = None] /\ (loose' = loose \/ GiveUp(n))
    BY <1>6 DEF LoseRequest, LoseAnswer
  <2>2. PlainPost'
    BY <1>1, <2>1 DEF PlainPost, PostOK
  <2>3. PlainLoose(loose)'
    BY <2>1, PlainSame, PlainGiveUp
  <2> QED BY <2>1, <2>2, <2>3, PlainSame, UnansweredNext
<1>7. ASSUME NEW n \in Node, LooseArrives(n) PROVE Unanswered'
  <2>1. PICK i \in 1..Len(loose[n]), trouble \in Troubles :
           ProcessInbound(n, loose[n][i], Verdict(n, loose[n][i], trouble),
                          [loose EXCEPT ![n] = RemoveAt(loose[n], i)])
    BY <1>7 DEF LooseArrives
  <2> DEFINE e == loose[n][i]
             rest == [loose EXCEPT ![n] = RemoveAt(loose[n], i)]
  <2>2. loose[n] \in Seq(Envelope) /\ e \in Envelope /\ e \in Envelopes(loose[n])
    BY <1>1, InEnvelopes DEF LooseOK
  <2>3. e.hops = 0
    BY <1>1, <2>2 DEF PlainLoose
  <2>4. rest[n] = RemoveAt(loose[n], i) /\ \A k \in Node : k # n => rest[k] = loose[k]
    BY <1>1 DEF LooseOK
  <2>5. Envelopes(RemoveAt(loose[n], i)) \subseteq Envelopes(loose[n])
    BY <2>2, RemoveFacts
  <2> HIDE DEF e, rest
  <2>6. PlainStore' /\ loose' = rest
    BY <1>3, <2>1, <2>2, <2>3 DEF e, rest
  <2>7. PlainLoose(loose)'
    BY <1>1, <2>4, <2>5, <2>6 DEF PlainLoose
  <2>8. UNCHANGED <<post, pull>>
    BY <1>7 DEF LooseArrives
  <2> QED BY <2>6, <2>7, <2>8, PlainSame, UnansweredNext
<1>8. ASSUME NEW n \in Node, Pull(n) PROVE Unanswered'
  <2>1. CASE FetchOutbox(n)
    <3>1. PICK q \in {node[Peer(n)].outbox, <<>>} :
             pull' = [pull EXCEPT ![n] = [todo |-> q, acked |-> None]]
      BY <2>1 DEF FetchOutbox, Fetched
    <3>2. UNCHANGED <<node, saved, post, loose>>
      BY <2>1 DEF FetchOutbox
    <3>3. \A e \in Envelopes(q) : e.hops = 0
      BY <1>1, PeerType DEF PlainStore, Plain, Envelopes
    <3>4. pull'[n].todo = q /\ \A k \in Node : k # n => pull'[k] = pull[k]
      BY <1>1, <3>1 DEF PullOK
    <3>5. PlainPull'
      BY <1>1, <3>3, <3>4 DEF PlainPull
    <3> QED BY <3>2, <3>5, PlainSame, UnansweredNext
  <2>2. CASE PollNext(n)
    <3> DEFINE q == pull[n].todo
               e == Head(q)
    <3>0. PICK trouble \in Troubles : PollWith(n, trouble)
      BY <2>2 DEF PollNext
    <3>1. /\ pull[n] # None /\ q # <<>> /\ ProcessInbound(n, e, Verdict(n, e, trouble), loose)
          /\ post' = post /\ pull' = [pull EXCEPT ![n] = [pull[n] EXCEPT !.todo = Tail(q)]]
      BY <3>0 DEF PollWith, PolledAfter
    <3>2. pull[n] \in Pulling /\ q \in Seq(Envelope)
      BY <1>1, <3>1, PullFields
    <3>3. pull'[n] = [pull[n] EXCEPT !.todo = Tail(q)] /\ \A k \in Node : k # n => pull'[k] = pull[k]
      BY <1>1, <3>1 DEF PullOK
    <3>4. pull'[n].todo = Tail(q)
      BY <3>2, <3>3, Zenon DEF Pulling
    <3>5. e \in Envelope /\ e \in Envelopes(q) /\ Envelopes(Tail(q)) \subseteq Envelopes(q)
      BY <3>1, <3>2, TailFacts
    <3>6. e.hops = 0
      BY <1>1, <3>1, <3>5 DEF PlainPull
    <3>7. PlainPull'
      BY <1>1, <3>1, <3>3, <3>4, <3>5 DEF PlainPull
    <3> HIDE DEF e
    <3>8. PlainStore' /\ loose' = loose
      BY <1>3, <3>1, <3>5, <3>6
    <3> QED BY <3>1, <3>7, <3>8, PlainSame, UnansweredNext
  <2>3. CASE FetchCheckpoint(n)
    <3>1. /\ pull[n] # None /\ UNCHANGED <<node, saved, post, loose>>
          /\ \E v : pull' = [pull EXCEPT ![n] = [pull[n] EXCEPT !.acked = v]]
      BY <2>3 DEF FetchCheckpoint
    <3>2. PICK v : pull' = [pull EXCEPT ![n] = [pull[n] EXCEPT !.acked = v]]
      BY <3>1
    <3>3. /\ pull[n] \in Pulling /\ pull'[n] = [pull[n] EXCEPT !.acked = v]
          /\ \A k \in Node : k # n => pull'[k] = pull[k]
      BY <1>1, <3>1, <3>2 DEF PullOK
    <3>4. pull'[n].todo = pull[n].todo
      BY <3>3, Zenon DEF Pulling
    <3>5. PlainPull'
      BY <1>1, <3>1, <3>3, <3>4 DEF PlainPull
    <3> QED BY <3>1, <3>5, PlainSame, UnansweredNext
  <2>4. CASE Prune(n)
    <3> DEFINE d == Pruned(node[n], pull[n].acked)
    <3>1. /\ pull[n] # None /\ pull[n].acked # None /\ pull' = [pull EXCEPT ![n] = None]
          /\ UNCHANGED <<post, loose>>
          /\ UNCHANGED <<node, saved, failed>> \/ Persist(n, d)
      BY <2>4 DEF Prune
    <3>2. pull[n].acked \in Nat /\ Numbered(node[n])
      BY <1>1, <3>1, PullFields DEF StoreOK
    <3>3. d.replies = node[n].replies /\ Envelopes(d.outbox) \subseteq Envelopes(node[n].outbox)
      BY <1>2, <3>2, PrunedType
    <3> HIDE DEF d
    <3>4. Plain(d)
      BY <1>1, <3>3 DEF Plain, PlainStore
    <3>5. Persist(n, d) => PlainStore'
      BY <1>1, <3>4, StorePlain DEF PlainStore
    <3>6. PlainPull'
      BY <1>1, <3>1 DEF PlainPull, PullOK
    <3> QED BY <3>1, <3>5, <3>6, PlainSame, UnansweredNext
  <2> QED BY <1>8, <2>1, <2>2, <2>3, <2>4 DEF Pull
<1>9. ASSUME NEW n \in Node, Restart(n) PROVE Unanswered'
  <2>1. /\ node' = [node EXCEPT ![n] = saved[n]] /\ saved' = saved
        /\ pull' = [pull EXCEPT ![n] = None] /\ post' = [post EXCEPT ![n] = None]
        /\ loose' = loose \/ (post[n] # None /\ GiveUp(n))
    BY <1>9 DEF Restart
  <2>2. PlainStore' /\ PlainPost' /\ PlainPull'
    BY <1>1, <2>1 DEF PlainStore, PlainPost, PlainPull, StoreOK, PostOK, PullOK
  <2>3. PlainLoose(loose)'
    BY <2>1, PlainSame, PlainGiveUp
  <2> QED BY <2>2, <2>3, UnansweredNext
<1>10. CASE Age \/ UNCHANGED vars
  BY <1>10, PlainSame, UnansweredNext DEF Age, vars
<1> QED BY <1>4, <1>5, <1>6, <1>7, <1>8, <1>9, <1>10, Zenon DEF Next

(* Envelopes do not get younger.                                           *)
LEMMA OldGrows == TInv /\ [Next]_vars /\ old' = 0 => old = 0
<1> SUFFICES ASSUME TInv, [Next]_vars, old' = 0 PROVE old = 0
  OBVIOUS
<1>1. old \in Nat
  BY TInvParts DEF CountOK
<1>2. ASSUME NEW n \in Node, NEW hops \in Hops, Call(n, hops) PROVE old' \in {old, old + 1}
  BY <1>2 DEF Call
<1>3. ASSUME NEW n \in Node, Push(n) PROVE old' \in {old, old + 1}
  BY <1>3 DEF Push, PushStart, PushArrives, ArrivesWith, PushReturns
<1>4. ASSUME NEW n \in Node, LoseRequest(n) \/ LoseAnswer(n) \/ LooseArrives(n)
      PROVE  old' \in {old, old + 1}
  BY <1>4 DEF LoseRequest, LoseAnswer, LooseArrives
<1>5. ASSUME NEW n \in Node, Pull(n) PROVE old' \in {old, old + 1}
  BY <1>5 DEF Pull, FetchOutbox, PollNext, PollWith, FetchCheckpoint, Prune
<1>6. ASSUME NEW n \in Node, Restart(n) PROVE old' \in {old, old + 1}
  BY <1>6 DEF Restart
<1>7. ASSUME Age \/ UNCHANGED vars PROVE old' \in {old, old + 1}
  BY <1>7 DEF Age, vars
<1>8. old' \in {old, old + 1}
  BY <1>2, <1>3, <1>4, <1>5, <1>6, <1>7, Zenon DEF Next
<1> QED BY <1>1, <1>8

(* A new envelope has a number that its peer has not reached.              *)
LEMMA NewIsAhead ==
    ASSUME Sound, [Next]_vars, NEW n \in Node, NEW e \in Outbox(Peer(n))', e \notin Outbox(Peer(n))
    PROVE  e.seq > node'[n].last
<1> DEFINE p == Peer(n)
           s == node[p]
<1>1. p \in Node /\ p # n /\ s \in NodeState /\ Numbered(s) /\ node \in [Node -> NodeState]
  BY PeerType, SoundTypes DEF Sound, TInv, TypeOK
<1>2. e \in Envelopes(node'[p].outbox) /\ e \notin Envelopes(s.outbox)
  BY DEF Outbox
<1>3. PICK k \in Node, d \in NodeState : Moves(k, d)
  BY <1>2, SoundKinds DEF Unmoved
<1>4. node' = [node EXCEPT ![k] = d]
  BY <1>3 DEF Moves
<1>5. k = p /\ node'[p] = d /\ node'[n] = node[n]
  BY <1>1, <1>2, <1>4
<1>6. ~Silent(s, d)
  BY <1>2, <1>5 DEF Silent
<1>7. ~Shortens(p, d)
  <2> SUFFICES ASSUME Shortens(p, d) PROVE FALSE
    OBVIOUS
  <2>1. pull[p].acked \in Nat
    BY <1>1, PullFields, TInvParts DEF Shortens, Sound
  <2> DEFINE u == Pruned(s, pull[p].acked)
  <2>2. Envelopes(u.outbox) = {f \in Envelopes(s.outbox) : f.seq > pull[p].acked}
    BY <1>1, <2>1, PrunedType
  <2>3. d = u
    BY DEF Shortens
  <2> HIDE DEF u
  <2>4. e \in Envelopes(u.outbox)
    BY <1>2, <1>5, <2>3
  <2>5. e \in Envelopes(s.outbox)
    BY <2>2, <2>4
  <2> QED BY <1>2, <2>5
<1>8. PICK m \in Envelope : Sends(s, d, m)
  BY <1>3, <1>5, <1>6, <1>7 DEF Moves, Originates, Accepts
<1>9. e = m /\ e.seq = s.outSeq + 1
  <2>1. Envelopes(d.outbox) = Envelopes(s.outbox) \cup {m}
    BY <1>1, <1>8, StateFields, AppendFacts DEF Sends
  <2> QED BY <1>2, <1>5, <1>8, <2>1 DEF Sends
<1>10. node[n].last \in Nat /\ s.outSeq \in Nat /\ node[n].last <= s.outSeq
  <2>1. Direction(n)
    BY DEF Sound
  <2> QED BY <1>1, <2>1, Numbers DEF Direction
<1> QED BY <1>5, <1>9, <1>10

(* The numbers of the envelopes that were refused in a pull only grow.     *)
LEMMA RefusedGrows == TInv /\ [Next]_vars => \A n \in Node : refused[n] \subseteq refused'[n]
<1> SUFFICES ASSUME TInv, [Next]_vars, NEW k \in Node PROVE refused[k] \subseteq refused'[k]
  OBVIOUS
<1>1. refused \in [Node -> SUBSET Nat]
  BY TInvParts DEF CountOK
<1>2. ASSUME NEW n \in Node, NEW hops \in Hops, Call(n, hops) PROVE refused' = refused
  BY <1>2 DEF Call
<1>3. ASSUME NEW n \in Node, Push(n) PROVE refused' = refused
  BY <1>3 DEF Push, PushStart, PushArrives, ArrivesWith, PushReturns
<1>4. ASSUME NEW n \in Node, LoseRequest(n) \/ LoseAnswer(n) \/ LooseArrives(n)
      PROVE  refused' = refused
  BY <1>4 DEF LoseRequest, LoseAnswer, LooseArrives
<1>5. ASSUME NEW n \in Node, Pull(n) PROVE refused[k] \subseteq refused'[k]
  <2>1. CASE PollNext(n)
    <3>1. PICK trouble \in Troubles : PollWith(n, trouble)
      BY <2>1 DEF PollNext
    <3>2. \E w : refused' = [refused EXCEPT ![n] = w] /\ refused[n] \subseteq w
      BY <3>1 DEF PollWith
    <3> QED BY <1>1, <3>2
  <2> QED BY <1>5, <2>1 DEF Pull, FetchOutbox, FetchCheckpoint, Prune
<1>6. ASSUME NEW n \in Node, Restart(n) PROVE refused' = refused
  BY <1>6 DEF Restart
<1>7. ASSUME Age \/ UNCHANGED vars PROVE refused' = refused
  BY <1>7 DEF Age, vars
<1> QED BY <1>2, <1>3, <1>4, <1>5, <1>6, <1>7, Zenon DEF Next

(* Without answers there is no cached reply to be resent, and a node       *)
(* passes over nothing but what it refused in a pull.                      *)
THEOREM OnlyRefusedIsSkipped == Hops = {0} => (Spec => []NothingSkipped)
<1> SUFFICES ASSUME Hops = {0} PROVE Spec => []NothingSkipped
  OBVIOUS
<1>1. Init => Unanswered /\ NothingSkipped
  <2> SUFFICES ASSUME Init PROVE Unanswered /\ NothingSkipped
    OBVIOUS
  <2>1. Fresh.outbox = <<>> /\ Fresh.replies = {} /\ Envelopes(<<>>) = {}
    BY DEF Fresh, Envelopes
  <2>2. \A n \in Node : /\ node[n] = Fresh /\ saved[n] = Fresh /\ loose[n] = <<>>
                        /\ post[n] = None /\ pull[n] = None
    BY DEF Init
  <2>3. Unanswered
    BY <2>1, <2>2 DEF Unanswered, Outbox
  <2>4. \A n \in Node : Outbox(Peer(n)) = {}
    BY <2>1, <2>2, PeerType DEF Outbox
  <2> QED BY <2>3, <2>4 DEF NothingSkipped
<1>2. TInv /\ DInv /\ Unanswered /\ NothingSkipped /\ [Next]_vars => NothingSkipped'
  <2> SUFFICES ASSUME TInv, DInv, Unanswered, NothingSkipped, [Next]_vars, old' = 0, failed' = 0,
                      NEW n \in Node, NEW e \in Outbox(Peer(n))'
               PROVE  Skipped(n, e)' => e.id \in refused'[n]
    BY DEF NothingSkipped
  <2>1. old = 0 /\ failed = 0
    BY OldGrows, FailedGrows
  <2>2. Sound
    BY <2>1 DEF DInv, Sound
  <2>3. Peer(n) \in Node /\ node[Peer(n)] \in NodeState /\ node[Peer(n)].replies = {}
    BY <2>2, PeerType, SoundTypes DEF Unanswered
  <2>4. CASE e \in Outbox(Peer(n))
    <3>1. (Skipped(n, e) => e.id \in refused[n]) /\ refused[n] \subseteq refused'[n]
      BY <2>1, <2>4, RefusedGrows DEF NothingSkipped
    <3>2. e.id \in Nat \ {0}
      BY <2>3, <2>4, Numbers, EnvelopeFields DEF Outbox
    <3>3. ~(e.id <= old)
      BY <2>1, <3>2
    <3> QED BY <2>2, <2>3, <2>4, <3>1, <3>3, Overtaking
  <2>5. CASE e \notin Outbox(Peer(n))
    <3>1. e.seq > node'[n].last
      BY <2>2, <2>5, NewIsAhead
    <3>2. TInv'
      BY TypeNext
    <3>3. e.seq \in Nat /\ node'[n].last \in Nat
      <4>1. node'[n] \in NodeState /\ node'[Peer(n)] \in NodeState
        BY <2>3, <3>2 DEF TInv, TypeOK
      <4> QED BY <4>1, Numbers DEF Outbox
    <3> QED BY <3>1, <3>3 DEF Skipped
  <2> QED BY <2>4, <2>5
<1>3. TInv /\ Unanswered /\ [Next]_vars => Unanswered'
  BY UnansweredStep
<1> QED BY <1>1, <1>2, <1>3, SoundInvariant, PTL DEF Spec

-----------------------------------------------------------------------------
(***************************************************************************)
(* The channel is the queue: what After leaves, when the outbox and the    *)
(* last number change.                                                     *)
(***************************************************************************)
LEMMA AfterIsCut ==
    ASSUME NEW s \in Seq(Envelope), Increasing(s), NEW k \in Nat, NEW m \in 0..Len(s), Cut(s, k, m)
    PROVE  After(s, k) = SubSeq(s, m + 1, Len(s))
<1>1. PICK j \in 0..Len(s) : Cut(s, k, j) /\ After(s, k) = SubSeq(s, j + 1, Len(s))
  BY AfterSuffix
<1>2. Len(s) \in Nat /\ \A i \in 1..Len(s) : s[i].seq \in Nat
  BY InEnvelopes
<1>3. \A i, l \in 0..Len(s) : Cut(s, k, i) /\ Cut(s, k, l) => ~(i < l)
  <2> SUFFICES ASSUME NEW i \in 0..Len(s), NEW l \in 0..Len(s), Cut(s, k, i), Cut(s, k, l), i < l
               PROVE  FALSE
    OBVIOUS
  <2>1. i + 1 \in 1..l /\ i + 1 \in (i + 1)..Len(s) /\ i + 1 \in 1..Len(s)
    BY <1>2
  <2>2. s[i + 1].seq <= k /\ s[i + 1].seq > k /\ s[i + 1].seq \in Nat
    BY <1>2, <2>1 DEF Cut
  <2> QED BY <2>2
<1>4. j = m
  BY <1>1, <1>2, <1>3
<1> QED BY <1>1, <1>4

LEMMA AfterAppend ==
    ASSUME NEW s \in Seq(Envelope), Increasing(s), NEW k \in Nat, NEW e \in Envelope,
           e.seq > k, \A f \in Envelopes(s) : f.seq < e.seq
    PROVE  After(Append(s, e), k) = Append(After(s, k), e)
<1> DEFINE u == Append(s, e)
<1>1. PICK m \in 0..Len(s) : Cut(s, k, m) /\ After(s, k) = SubSeq(s, m + 1, Len(s))
  BY AfterSuffix
<1>2. u \in Seq(Envelope) /\ Len(u) = Len(s) + 1 /\ Increasing(u)
  BY AppendFacts
<1>3. Len(s) \in Nat /\ u[Len(s) + 1] = e /\ \A i \in 1..Len(s) : u[i] = s[i]
  OBVIOUS
<1> HIDE DEF u
<1>4. Cut(u, k, m)
  <2>1. ASSUME NEW i \in 1..m PROVE u[i].seq <= k
    BY <1>1, <1>3 DEF Cut
  <2>2. ASSUME NEW i \in (m + 1)..Len(u) PROVE u[i].seq > k
    <3>1. i = Len(s) + 1 \/ (i \in (m + 1)..Len(s) /\ i \in 1..Len(s))
      BY <1>2, <1>3
    <3> QED BY <1>1, <1>3, <3>1 DEF Cut
  <2> QED BY <2>1, <2>2 DEF Cut
<1>5. After(u, k) = SubSeq(u, m + 1, Len(u))
  BY <1>2, <1>3, <1>4, AfterIsCut
<1>6. SubSeq(u, m + 1, Len(u)) = Append(SubSeq(s, m + 1, Len(s)), e)
  <2> DEFINE v == SubSeq(u, m + 1, Len(u))
             t == SubSeq(s, m + 1, Len(s))
             w == Append(t, e)
  <2>1. v \in Seq(Envelope) /\ Len(v) = Len(s) + 1 - m /\ \A i \in 1..Len(v) : v[i] = u[m + i]
    BY <1>2, <1>3
  <2>2. t \in Seq(Envelope) /\ Len(t) = Len(s) - m /\ \A i \in 1..Len(t) : t[i] = s[m + i]
    BY TailOf
  <2> HIDE DEF v, t
  <2>3. w \in Seq(Envelope) /\ Len(w) = Len(t) + 1 /\ w[Len(t) + 1] = e
        /\ \A i \in 1..Len(t) : w[i] = t[i]
    BY <2>2
  <2> HIDE DEF w
  <2>4. \A i \in 1..Len(v) : v[i] = w[i]
    <3> SUFFICES ASSUME NEW i \in 1..Len(v) PROVE v[i] = w[i]
      OBVIOUS
    <3>1. CASE i \in 1..Len(t)
      <4>1. m + i \in 1..Len(s)
        BY <1>3, <2>2, <3>1
      <4> QED BY <1>3, <2>1, <2>2, <2>3, <3>1, <4>1
    <3>2. CASE i = Len(t) + 1
      BY <1>3, <2>1, <2>2, <2>3, <3>2
    <3>3. i \in 1..Len(t) \/ i = Len(t) + 1
      <4>1. Len(v) = Len(t) + 1 /\ Len(t) \in Nat
        BY <1>3, <2>1, <2>2
      <4> QED BY <4>1
    <3> QED BY <3>1, <3>2, <3>3
  <2>5. Len(v) = Len(w)
    BY <1>3, <2>1, <2>2, <2>3
  <2>6. v = w
    BY <2>1, <2>3, <2>4, <2>5, SeqEqual
  <2> QED BY <2>6 DEF v, w, t
<1> QED BY <1>1, <1>5, <1>6 DEF u

(* What is left when a node takes e, and passes what is before it.         *)
LEMMA AfterTake ==
    ASSUME NEW s \in Seq(Envelope), Increasing(s), NEW k \in Nat, NEW e \in Envelopes(s), e.seq > k
    PROVE  \E i \in 1..Len(After(s, k)) :
              /\ After(s, k)[i] = e
              /\ After(s, e.seq) = SubSeq(After(s, k), i + 1, Len(After(s, k)))
<1> DEFINE u == After(s, k)
<1>1. PICK m \in 0..Len(s) : Cut(s, k, m) /\ u = SubSeq(s, m + 1, Len(s))
  BY AfterSuffix
<1>2. Len(s) \in Nat /\ u \in Seq(Envelope) /\ Len(u) = Len(s) - m /\ \A i \in 1..Len(u) : u[i] = s[m + i]
  <2> HIDE DEF u
  <2> QED BY <1>1
<1> HIDE DEF u
<1>3. \A i \in 1..Len(s) : s[i].seq \in Nat
  BY InEnvelopes
<1>4. PICK x \in 1..Len(s) : e = s[x]
  BY DEF Envelopes
<1>5. x > m
  BY <1>1, <1>2, <1>3, <1>4 DEF Cut
<1>6. x - m \in 1..Len(u) /\ u[x - m] = e
  BY <1>2, <1>4, <1>5
<1>7. Cut(s, e.seq, x)
  <2>1. ASSUME NEW i \in 1..x PROVE s[i].seq <= e.seq
    <3>1. i \in 1..Len(s) /\ (i < x \/ i = x)
      BY <1>2
    <3>2. i < x => s[i].seq < s[x].seq
      BY <3>1 DEF Increasing
    <3> QED BY <1>3, <1>4, <3>1, <3>2
  <2>2. ASSUME NEW i \in (x + 1)..Len(s) PROVE s[i].seq > e.seq
    <3>1. i \in 1..Len(s) /\ x < i
      BY <1>2
    <3>2. s[x].seq < s[i].seq
      BY <3>1 DEF Increasing
    <3> QED BY <1>3, <1>4, <3>1, <3>2
  <2> QED BY <2>1, <2>2 DEF Cut
<1>8. After(s, e.seq) = SubSeq(s, x + 1, Len(s))
  <2>1. x \in 0..Len(s) /\ e.seq \in Nat
    BY <1>2, <1>3, <1>4
  <2> QED BY <1>7, <2>1, AfterIsCut
<1>9. SubSeq(s, x + 1, Len(s)) = SubSeq(u, (x - m) + 1, Len(u))
  <2> DEFINE v == SubSeq(s, x + 1, Len(s))
             w == SubSeq(u, (x - m) + 1, Len(u))
  <2>0. x \in 0..Len(s) /\ x - m \in 0..Len(u) /\ u \in Seq(Envelope)
    BY <1>2, <1>6
  <2>1. v \in Seq(Envelope) /\ Len(v) = Len(s) - x /\ \A i \in 1..Len(v) : v[i] = s[x + i]
    BY <2>0, TailOf
  <2>2. w \in Seq(Envelope) /\ Len(w) = Len(u) - (x - m) /\ \A i \in 1..Len(w) : w[i] = u[(x - m) + i]
    BY <2>0, TailOf
  <2> HIDE DEF v, w
  <2>3. \A i \in 1..Len(v) : (x - m) + i \in 1..Len(u) /\ m + ((x - m) + i) = x + i
    BY <1>2, <1>5, <2>1
  <2>4. Len(v) = Len(w)
    BY <1>2, <2>1, <2>2
  <2>5. \A i \in 1..Len(v) : v[i] = w[i]
    BY <1>2, <2>1, <2>2, <2>3, <2>4
  <2>6. v = w
    BY <2>1, <2>2, <2>4, <2>5, SeqEqual
  <2> QED BY <2>6 DEF v, w
<1> QED BY <1>6, <1>8, <1>9 DEF u

(* Pruning what has been passed leaves the same.                           *)
LEMMA AfterPrune ==
    ASSUME NEW s \in Seq(Envelope), Increasing(s), NEW a \in Nat, NEW k \in Nat, a <= k
    PROVE  After(After(s, a), k) = After(s, k)
<1> DEFINE u == After(s, a)
<1>1. PICK l \in 0..Len(s) : Cut(s, a, l) /\ u = SubSeq(s, l + 1, Len(s))
  BY AfterSuffix
<1>2. PICK m \in 0..Len(s) : Cut(s, k, m) /\ After(s, k) = SubSeq(s, m + 1, Len(s))
  BY AfterSuffix
<1>3. Len(s) \in Nat /\ u \in Seq(Envelope) /\ Len(u) = Len(s) - l /\ \A i \in 1..Len(u) : u[i] = s[l + i]
  <2> HIDE DEF u
  <2> QED BY <1>1
<1>4. Increasing(u)
  BY AfterFacts
<1> HIDE DEF u
<1>5. \A i \in 1..Len(s) : s[i].seq \in Nat
  BY InEnvelopes
<1>6. l <= m
  <2> SUFFICES ASSUME m < l PROVE FALSE
    BY <1>3
  <2>1. l \in 1..l /\ l \in (m + 1)..Len(s) /\ l \in 1..Len(s)
    BY <1>3
  <2>2. s[l].seq <= a /\ s[l].seq > k /\ s[l].seq \in Nat
    BY <1>1, <1>2, <1>5, <2>1 DEF Cut
  <2> QED BY <2>2
<1>7. Cut(u, k, m - l)
  <2>1. ASSUME NEW i \in 1..(m - l) PROVE u[i].seq <= k
    <3>1. i \in 1..Len(u) /\ l + i \in 1..m
      BY <1>3, <1>6
    <3> QED BY <1>2, <1>3, <3>1 DEF Cut
  <2>2. ASSUME NEW i \in ((m - l) + 1)..Len(u) PROVE u[i].seq > k
    <3>1. i \in 1..Len(u) /\ l + i \in (m + 1)..Len(s)
      BY <1>3, <1>6
    <3> QED BY <1>2, <1>3, <3>1 DEF Cut
  <2> QED BY <2>1, <2>2 DEF Cut
<1>8. After(u, k) = SubSeq(u, (m - l) + 1, Len(u))
  <2>1. m - l \in 0..Len(u)
    BY <1>3, <1>6
  <2> QED BY <1>3, <1>4, <1>7, <2>1, AfterIsCut
<1>9. SubSeq(u, (m - l) + 1, Len(u)) = SubSeq(s, m + 1, Len(s))
  <2> DEFINE v == SubSeq(u, (m - l) + 1, Len(u))
             w == SubSeq(s, m + 1, Len(s))
  <2>0. m - l \in 0..Len(u) /\ u \in Seq(Envelope)
    BY <1>3, <1>6
  <2>1. v \in Seq(Envelope) /\ Len(v) = Len(u) - (m - l) /\ \A i \in 1..Len(v) : v[i] = u[(m - l) + i]
    BY <2>0, TailOf
  <2>2. w \in Seq(Envelope) /\ Len(w) = Len(s) - m /\ \A i \in 1..Len(w) : w[i] = s[m + i]
    BY TailOf
  <2> HIDE DEF v, w
  <2>3. \A i \in 1..Len(v) : (m - l) + i \in 1..Len(u) /\ l + ((m - l) + i) = m + i
    BY <1>3, <1>6, <2>1
  <2>4. Len(v) = Len(w)
    BY <1>3, <2>1, <2>2
  <2>5. \A i \in 1..Len(v) : v[i] = w[i]
    BY <1>3, <2>1, <2>2, <2>3, <2>4
  <2>6. v = w
    BY <2>1, <2>2, <2>4, <2>5, SeqEqual
  <2> QED BY <2>6 DEF v, w
<1> QED BY <1>2, <1>8, <1>9 DEF u

(* What the queue holds for n are the ids of what n has not passed.        *)
Ids(u) == [i \in DOMAIN u |-> u[i].id]

Untaken(n) == After(node[Peer(n)].outbox, node[n].last)

Waiting == [n \in Node |-> Ids(Untaken(n))]

Taken == [n \in Node |-> node[n].seen]

LEMMA IdsFacts ==
    ASSUME NEW u \in Seq(Envelope)
    PROVE  /\ Ids(u) \in Seq(Nat) /\ Len(Ids(u)) = Len(u) /\ Len(u) \in Nat
           /\ \A i \in 1..Len(u) : Ids(u)[i] = u[i].id
<1>1. DOMAIN u = 1..Len(u) /\ Len(u) \in Nat /\ \A i \in 1..Len(u) : u[i].id \in Nat
  BY InEnvelopes, EnvelopeFields
<1> QED BY <1>1 DEF Ids

LEMMA IdsAppend ==
    ASSUME NEW u \in Seq(Envelope), NEW e \in Envelope
    PROVE  Ids(Append(u, e)) = Append(Ids(u), e.id)
<1> DEFINE v == Ids(Append(u, e))
           w == Append(Ids(u), e.id)
<1>1. Append(u, e) \in Seq(Envelope) /\ e.id \in Nat
  BY EnvelopeFields
<1>2. /\ Len(Append(u, e)) = Len(u) + 1 /\ Append(u, e)[Len(u) + 1] = e /\ Len(u) \in Nat
      /\ \A i \in 1..Len(u) : Append(u, e)[i] = u[i]
  OBVIOUS
<1>3. /\ v \in Seq(Nat) /\ Len(v) = Len(u) + 1
      /\ \A i \in 1..(Len(u) + 1) : v[i] = Append(u, e)[i].id
  BY <1>1, <1>2, IdsFacts
<1>4. Ids(u) \in Seq(Nat) /\ Len(Ids(u)) = Len(u) /\ \A i \in 1..Len(u) : Ids(u)[i] = u[i].id
  BY IdsFacts
<1>5. /\ w \in Seq(Nat) /\ Len(w) = Len(u) + 1 /\ w[Len(u) + 1] = e.id
      /\ \A i \in 1..Len(u) : w[i] = Ids(u)[i]
  BY <1>1, <1>4
<1> HIDE DEF v, w
<1>6. \A i \in 1..Len(v) : v[i] = w[i]
  <2> SUFFICES ASSUME NEW i \in 1..Len(v) PROVE v[i] = w[i]
    OBVIOUS
  <2>1. i \in 1..(Len(u) + 1) /\ (i \in 1..Len(u) \/ i = Len(u) + 1)
    BY <1>2, <1>3
  <2> QED BY <1>2, <1>3, <1>4, <1>5, <2>1
<1>7. v = w
  BY <1>3, <1>5, <1>6, SeqEqual
<1> QED BY <1>7 DEF v, w

LEMMA IdsRest ==
    ASSUME NEW u \in Seq(Envelope), NEW j \in 1..Len(u)
    PROVE  Ids(SubSeq(u, j + 1, Len(u))) = SubSeq(Ids(u), j + 1, Len(Ids(u)))
<1> DEFINE t == SubSeq(u, j + 1, Len(u))
           v == Ids(t)
           q == Ids(u)
           w == SubSeq(q, j + 1, Len(q))
<1>1. t \in Seq(Envelope) /\ Len(t) = Len(u) - j /\ Len(u) \in Nat /\ \A i \in 1..Len(t) : t[i] = u[j + i]
  OBVIOUS
<1> HIDE DEF t
<1>2. v \in Seq(Nat) /\ Len(v) = Len(t) /\ \A i \in 1..Len(t) : v[i] = t[i].id
  BY <1>1, IdsFacts
<1>3. q \in Seq(Nat) /\ Len(q) = Len(u) /\ \A i \in 1..Len(u) : q[i] = u[i].id
  BY IdsFacts
<1> HIDE DEF v, q
<1>4. w \in Seq(Nat) /\ Len(w) = Len(q) - j /\ \A i \in 1..Len(w) : w[i] = q[j + i]
  BY <1>1, <1>3
<1> HIDE DEF w
<1>5. Len(v) = Len(w)
  BY <1>1, <1>2, <1>3, <1>4
<1>6. \A i \in 1..Len(v) : j + i \in 1..Len(u)
  BY <1>1, <1>2
<1>7. \A i \in 1..Len(v) : v[i] = w[i]
  BY <1>1, <1>2, <1>3, <1>4, <1>5, <1>6
<1>8. v = w
  BY <1>2, <1>4, <1>5, <1>7, SeqEqual
<1> QED BY <1>8 DEF v, w, q, t

LEMMA QueueSend ==
    ASSUME NEW p \in Node, made' = made + 1, Taken' = Taken,
           Waiting' = [Waiting EXCEPT ![p] = Append(Waiting[p], made')]
    PROVE  Queue!Send(p)
BY DEF Queue!Send, Waiting, Taken, Ids, Untaken

LEMMA QueueTake ==
    ASSUME NEW p \in Node, NEW i \in 1..Len(Waiting[p]), NEW q \in Node \ {p}, NEW rest,
           rest = [Waiting EXCEPT ![p] = SubSeq(Waiting[p], i + 1, Len(Waiting[p]))],
           Taken' = [Taken EXCEPT ![p] = Taken[p] \cup {Waiting[p][i]}],
           \/ Waiting' = rest /\ made' = made
           \/ made' = made + 1 /\ Waiting' = [rest EXCEPT ![q] = Append(rest[q], made')]
    PROVE  Queue!Take(p, i)
BY DEF Queue!Take, Waiting, Taken, Ids, Untaken

LEMMA TakeIsNext ==
    ASSUME NEW p \in Node, NEW i \in 1..Len(Waiting[p]), Queue!Take(p, i)
    PROVE  Queue!Next
BY DEF Queue!Next, Waiting, Ids, Untaken

LEMMA UntakenFacts ==
    ASSUME Sound, NEW n \in Node
    PROVE  /\ Untaken(n) \in Seq(Envelope) /\ Waiting[n] = Ids(Untaken(n))
           /\ Len(Waiting[n]) = Len(Untaken(n)) /\ Len(Untaken(n)) \in Nat
           /\ \A i \in 1..Len(Untaken(n)) : Waiting[n][i] = Untaken(n)[i].id
<1>1. Peer(n) \in Node
  BY PeerType
<1>2. node[Peer(n)] \in NodeState /\ Numbered(node[Peer(n)]) /\ node[n].last \in Nat
  BY <1>1, SoundTypes, Numbers
<1>3. Untaken(n) \in Seq(Envelope)
  BY <1>2, StateFields, AfterFacts DEF Untaken, Numbered
<1>4. Waiting[n] = Ids(Untaken(n))
  BY DEF Waiting
<1> QED BY <1>3, <1>4, IdsFacts

(* A step of k changes what is waiting for the two nodes.                  *)
LEMMA WaitingNext ==
    ASSUME NEW k \in Node, NEW d, node \in [Node -> NodeState], node' = [node EXCEPT ![k] = d]
    PROVE  /\ Waiting' = [[Waiting EXCEPT ![k] = Ids(After(node[Peer(k)].outbox, d.last))]
                             EXCEPT ![Peer(k)] = Ids(After(d.outbox, node[Peer(k)].last))]
           /\ Taken' = [Taken EXCEPT ![k] = d.seen]
<1> DEFINE p == Peer(k)
           u == After(node[p].outbox, d.last)
           v == After(d.outbox, node[p].last)
<1>1. p \in Node /\ p # k /\ Peer(p) = k /\ \A n \in Node : n = k \/ n = p
  BY PeerType
<1>2. node'[k] = d /\ node'[p] = node[p]
  BY <1>1
<1>3. Untaken(k)' = u /\ Untaken(p)' = v
  BY <1>1, <1>2 DEF Untaken
<1> HIDE DEF u, v
<1>4. Waiting' = [n \in Node |-> Ids(Untaken(n)')]
  BY DEF Waiting
<1>5. Waiting'[k] = Ids(u) /\ Waiting'[p] = Ids(v)
  BY <1>1, <1>3, <1>4
<1>6. Waiting' = [n \in Node |-> Waiting'[n]] /\ DOMAIN Waiting = Node
  BY <1>4 DEF Waiting
<1>7. Taken' = [n \in Node |-> node'[n].seen]
  BY DEF Taken
<1>8. Taken' = [Taken EXCEPT ![k] = d.seen]
  BY <1>1, <1>2, <1>7 DEF Taken
<1>9. Waiting' = [[Waiting EXCEPT ![k] = Ids(u)] EXCEPT ![p] = Ids(v)]
  <2> DEFINE w == [[Waiting EXCEPT ![k] = Ids(u)] EXCEPT ![p] = Ids(v)]
  <2>1. w = [n \in Node |-> w[n]] /\ w[k] = Ids(u) /\ w[p] = Ids(v)
    BY <1>1, <1>6
  <2> HIDE DEF w
  <2>2. \A n \in Node : w[n] = Waiting'[n]
    BY <1>1, <1>5, <2>1
  <2>3. w = Waiting'
    BY <1>6, <2>1, <2>2
  <2> QED BY <2>3 DEF w
<1> QED BY <1>8, <1>9 DEF u, v

LEMMA QueueStep ==
    ASSUME Sound, [Next]_vars
    PROVE  Queue!Next \/ (Waiting' = Waiting /\ made' = made /\ Taken' = Taken)
<1>1. node \in [Node -> NodeState]
  BY DEF Sound, TInv, TypeOK
<1>2. CASE Unmoved
  BY <1>2 DEF Unmoved, Waiting, Untaken, Taken
<1>3. ASSUME NEW k \in Node, NEW d \in NodeState, Moves(k, d)
      PROVE  Queue!Next \/ (Waiting' = Waiting /\ made' = made /\ Taken' = Taken)
  <2> DEFINE p == Peer(k)
             s == node[k]
             c == node[p]
             here == Untaken(k)
             there == Untaken(p)
  <2>1. /\ p \in Node /\ p # k /\ Peer(p) = k /\ s \in NodeState /\ c \in NodeState
        /\ Numbered(s) /\ Numbered(c)
    BY PeerType, SoundTypes
  <2>2. Direction(k) /\ Direction(p)
    BY <2>1 DEF Sound
  <2>3. /\ s.last \in Nat /\ c.last \in Nat /\ s.outSeq \in Nat /\ c.last <= s.outSeq
        /\ s.outbox \in Seq(Envelope) /\ c.outbox \in Seq(Envelope)
    BY <2>1, <2>2, Numbers, StateFields DEF Direction
  <2>4. node' = [node EXCEPT ![k] = d]
    BY <1>3 DEF Moves
  <2>5. here = After(c.outbox, s.last) /\ there = After(s.outbox, c.last)
    BY <2>1 DEF Untaken
  <2>6. /\ here \in Seq(Envelope) /\ Waiting[k] = Ids(here)
        /\ there \in Seq(Envelope) /\ Waiting[p] = Ids(there)
        /\ Len(Waiting[k]) = Len(here) /\ \A i \in 1..Len(here) : Waiting[k][i] = here[i].id
    BY <2>1, UntakenFacts
  <2>7. DOMAIN Waiting = Node /\ DOMAIN Taken = Node /\ Taken[k] = s.seen
    BY DEF Waiting, Taken
  <2> DEFINE u == After(c.outbox, d.last)
             v == After(d.outbox, c.last)
  <2>8. /\ Waiting' = [[Waiting EXCEPT ![k] = Ids(u)] EXCEPT ![p] = Ids(v)]
         /\ Taken' = [Taken EXCEPT ![k] = d.seen]
    BY <1>1, <2>4, WaitingNext
  <2> HIDE DEF here, there
  <2>9. ASSUME NEW m \in Envelope, Sends(s, d, m)
        PROVE  v = Append(there, m)
    <3>1. d.outbox = Append(s.outbox, m) /\ m.seq = s.outSeq + 1
      BY <2>9 DEF Sends
    <3>2. m.seq > c.last
      BY <2>3, <3>1
    <3>3. \A f \in Envelopes(s.outbox) : f.seq < m.seq
      BY <2>1, <2>3, <3>1, Numbers DEF Numbered
    <3> QED BY <2>1, <2>3, <2>5, <3>1, <3>2, <3>3, AfterAppend DEF Numbered
  <2>10. CASE Originates(k, d)
    <3>1. PICK m \in Envelope : m.id = made + 1 /\ Sends(s, d, m)
      BY <2>10 DEF Originates
    <3>2. made' = made + 1 /\ d.seen = s.seen /\ d.last = s.last
      BY <2>10 DEF Originates
    <3>3. u = here /\ v = Append(there, m)
      BY <2>5, <2>9, <3>1, <3>2
    <3> HIDE DEF u, v
    <3>4. Waiting' = [[Waiting EXCEPT ![k] = Ids(here)] EXCEPT ![p] = Ids(Append(there, m))]
      BY <2>8, <3>3
    <3>5. Ids(Append(there, m)) = Append(Waiting[p], made')
      BY <2>6, <3>1, <3>2, IdsAppend
    <3>6. [Waiting EXCEPT ![k] = Ids(here)] = Waiting /\ [Taken EXCEPT ![k] = d.seen] = Taken
      BY <2>6, <2>7, <3>2 DEF Waiting, Taken
    <3>7. Queue!Send(p)
      BY <2>1, <2>8, <3>2, <3>4, <3>5, <3>6, QueueSend
    <3> QED BY <2>1, <3>7 DEF Queue!Next
  <2>11. CASE Shortens(k, d)
    <3> DEFINE a == pull[k].acked
    <3>1. pull[k] # None /\ a # None /\ made' = made /\ d = Pruned(s, a)
      BY <2>11 DEF Shortens
    <3>2. a \in Nat /\ a <= c.last
      <4>1. a \in Nat
        BY <3>1, PullFields, TInvParts DEF Sound
      <4>2. Acked(c, pull[k])
        BY <2>1, <2>2 DEF Direction
      <4> QED BY <3>1, <4>1, <4>2 DEF Acked
    <3>3. d.outbox = After(s.outbox, a) /\ d.seen = s.seen /\ d.last = s.last
      BY <2>1, <3>1, <3>2, PrunedType
    <3>4. v = there
      BY <2>1, <2>3, <2>5, <3>2, <3>3, AfterPrune DEF Numbered
    <3>5. u = here
      BY <2>5, <3>3
    <3> HIDE DEF u, v
    <3>6. Waiting' = [[Waiting EXCEPT ![k] = Ids(here)] EXCEPT ![p] = Ids(there)]
      BY <2>8, <3>4, <3>5
    <3>7. Waiting' = Waiting
      <4>1. [Waiting EXCEPT ![k] = Ids(here)] = Waiting
        BY <2>6, <2>7, SameExcept DEF Waiting
      <4>2. [Waiting EXCEPT ![p] = Ids(there)] = Waiting
        BY <2>6, <2>7, SameExcept DEF Waiting
      <4> QED BY <3>6, <4>1, <4>2
    <3>8. Taken' = Taken
      <4>1. [Taken EXCEPT ![k] = s.seen] = Taken
        BY <2>7, SameExcept DEF Taken
      <4> QED BY <2>8, <3>3, <4>1
    <3> QED BY <3>1, <3>7, <3>8
  <2>12. ASSUME NEW e \in Envelope, Reaches(k, e), Accepts(k, e, d) PROVE Queue!Next
    <3>1. e.seq > s.last /\ e.seq \in Nat /\ d.seen = s.seen \cup {e.id} /\ d.last = e.seq
      BY <2>12, EnvelopeFields DEF Accepts, Takes
    <3>2. Intact(c, s, e)
      <4>1. CASE pull[k] # None /\ pull[k].todo # <<>> /\ e = Head(pull[k].todo)
        <5>1. e \in Envelopes(pull[k].todo)
          BY <4>1, PullFields, TInvParts, TailFacts DEF Sound
        <5> QED BY <2>2, <4>1, <5>1 DEF Direction, Pulled
      <4> QED BY <2>2, <2>12, <4>1 DEF Reaches, Direction, Posted, Loosened
    <3>3. e \in Envelopes(c.outbox)
      BY <2>3, <3>1, <3>2 DEF Intact
    <3>4. PICK i \in 1..Len(here) :
             here[i] = e /\ After(c.outbox, e.seq) = SubSeq(here, i + 1, Len(here))
      <4>1. \E i \in 1..Len(After(c.outbox, s.last)) :
               /\ After(c.outbox, s.last)[i] = e
               /\ After(c.outbox, e.seq) =
                     SubSeq(After(c.outbox, s.last), i + 1, Len(After(c.outbox, s.last)))
        <5>1. Increasing(c.outbox)
          BY <2>1 DEF Numbered
        <5> HIDE DEF c, s
        <5> QED BY <2>3, <3>1, <3>3, <5>1, AfterTake, Zenon
      <4> QED BY <2>5, <4>1
    <3> DEFINE rest == [Waiting EXCEPT ![k] = SubSeq(Waiting[k], i + 1, Len(Waiting[k]))]
    <3>5. /\ i \in 1..Len(Waiting[k]) /\ Waiting[k][i] = e.id
          /\ Ids(SubSeq(here, i + 1, Len(here))) = SubSeq(Waiting[k], i + 1, Len(Waiting[k]))
      BY <2>6, <3>4, IdsRest
    <3>6. /\ Waiting' = [rest EXCEPT ![p] = Ids(v)]
          /\ Taken' = [Taken EXCEPT ![k] = Taken[k] \cup {Waiting[k][i]}]
      <4>1. u = SubSeq(here, i + 1, Len(here))
        BY <3>1, <3>4
      <4> HIDE DEF u, v
      <4> QED BY <2>7, <2>8, <3>1, <3>5, <4>1
    <3>7. rest[p] = Waiting[p] /\ DOMAIN rest = Node
      BY <2>1, <2>7
    <3>8. p \in Node \ {k}
      BY <2>1
    <3>9. rest = [Waiting EXCEPT ![k] = SubSeq(Waiting[k], i + 1, Len(Waiting[k]))]
      OBVIOUS
    <3>10. rest = [n \in Node |-> rest[n]]
      BY <2>7
    <3> HIDE DEF rest
    <3>11. CASE Silent(s, d) /\ made' = made
      <4>1. v = there
        BY <2>5, <3>11 DEF Silent
      <4> HIDE DEF u, v
      <4>2. /\ Waiting' = [rest EXCEPT ![p] = Ids(there)]
            /\ Taken' = [Taken EXCEPT ![k] = Taken[k] \cup {Waiting[k][i]}]
        BY <3>6, <4>1
      <4>3. Waiting' = rest
        BY <2>6, <3>7, <3>8, <3>10, <4>2
      <4>4. Queue!Take(k, i)
        BY <3>5, <3>8, <3>9, <3>11, <4>2, <4>3, QueueTake
      <4> QED BY <3>5, <4>4, TakeIsNext
    <3>12. ASSUME made' = made + 1, NEW m \in Envelope, m.id = made + 1, Sends(s, d, m)
           PROVE  Queue!Next
      <4>1. v = Append(there, m)
        BY <2>9, <3>12
      <4> HIDE DEF u, v
      <4>2. /\ Waiting' = [rest EXCEPT ![p] = Ids(Append(there, m))]
            /\ Taken' = [Taken EXCEPT ![k] = Taken[k] \cup {Waiting[k][i]}]
        BY <3>6, <4>1
      <4>3. Ids(Append(there, m)) = Append(rest[p], made')
        BY <2>6, <3>7, <3>12, IdsAppend
      <4>4. Queue!Take(k, i)
        BY <3>5, <3>8, <3>9, <3>12, <4>2, <4>3, QueueTake
      <4> QED BY <3>5, <4>4, TakeIsNext
    <3> QED BY <2>12, <3>11, <3>12 DEF Accepts
  <2> QED BY <1>3, <2>10, <2>11, <2>12 DEF Moves
<1> QED BY <1>2, <1>3, SoundKinds

(* The channel is the queue that module Contact assumes, whatever is lost, *)
(* repeated, late, pulled, pruned or too old, and however often the nodes  *)
(* restart: a node takes the envelopes of its peer in order and none       *)
(* twice, as long as every Save succeeds.                                  *)
THEOREM ChannelIsQueue == MaxFailedSaves = 0 => (Spec => InOrderAtMostOnce)
<1> SUFFICES ASSUME MaxFailedSaves = 0 PROVE Spec => InOrderAtMostOnce
  OBVIOUS
<1>1. Init => Queue!Init
  <2> SUFFICES ASSUME Init PROVE Queue!Init
    OBVIOUS
  <2>1. TInv /\ DInv
    BY TypeInit, SoundInit
  <2>2. made = 0 /\ \A n \in Node : node[n] = Fresh
    BY DEF Init
  <2>3. ASSUME NEW n \in Node PROVE Waiting[n] = <<>> /\ Taken[n] = {}
    <3>1. Fresh.outbox = <<>> /\ Fresh.seen = {} /\ Fresh.last = 0
      BY DEF Fresh
    <3>2. node[Peer(n)].outbox = <<>> /\ node[n].seen = {} /\ node[n].last = 0
      BY <2>2, <3>1, PeerType
    <3>3. Envelopes(<<>>) = {} /\ Increasing(<<>>) /\ <<>> \in Seq(Envelope)
      BY DEF Envelopes, Increasing
    <3>4. Untaken(n) \in Seq(Envelope) /\ Envelopes(Untaken(n)) = {}
      <4>1. Untaken(n) = After(<<>>, 0)
        BY <3>2 DEF Untaken
      <4>2. After(<<>>, 0) \in Seq(Envelope) /\ Envelopes(After(<<>>, 0)) = {}
        BY <3>3, AfterFacts
      <4> QED BY <4>1, <4>2
    <3>5. Len(Untaken(n)) = 0
      <4> DEFINE u == Untaken(n)
      <4>1. Len(u) \in Nat /\ \A i \in 1..Len(u) : u[i] \in Envelopes(u)
        BY <3>4, InEnvelopes
      <4>2. Envelopes(u) = {}
        BY <3>4
      <4> HIDE DEF u
      <4>3. Len(u) = 0
        BY <4>1, <4>2
      <4> QED BY <4>3 DEF u
    <3>6. Ids(Untaken(n)) \in Seq(Nat) /\ Len(Ids(Untaken(n))) = 0
      BY <3>4, <3>5, IdsFacts
    <3> QED BY <3>2, <3>6 DEF Waiting, Taken
  <2>4. Waiting = [n \in Node |-> <<>>] /\ Taken = [n \in Node |-> {}]
    BY <2>3 DEF Waiting, Taken
  <2> QED BY <2>2, <2>4 DEF Queue!Init, Waiting, Taken, Ids, Untaken
<1>2. TInv /\ DInv /\ [Next]_vars => [Queue!Next]_<<Waiting, made, Taken>>
  <2> SUFFICES ASSUME TInv, DInv, [Next]_vars
               PROVE  Queue!Next \/ UNCHANGED <<Waiting, made, Taken>>
    OBVIOUS
  <2>1. failed = 0
    BY DEF TInv, TypeOK
  <2>2. Sound
    BY <2>1 DEF DInv, Sound
  <2> QED BY <2>2, QueueStep
<1> QED BY <1>1, <1>2, SoundInvariant, PTL
        DEF Spec, InOrderAtMostOnce, Queue!Spec, Waiting, Taken, Ids, Untaken
=============================================================================
