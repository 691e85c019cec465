----------------------------- MODULE HostProofs -----------------------------
(***************************************************************************)
(* Theorems about the clearing-house host, for any number of groups,       *)
(* members, concurrent requests and faults.                                *)
(***************************************************************************)
EXTENDS HostProperties, FunctionTheorems, FiniteSetTheorems, TLAPS

(* What a request holds: a node that only it refers to, one it has looked  *)
(* up, or none (any more).                                                 *)
Fresh == {"save", "insert"}
Holding == Fresh \cup {"join", "leave", "look", "other"}
Nodeless == {"create", "register", "mark", "rename"}
RequestRecord ==
    [pc : Holding \cup Nodeless, gid : Gid,
     who : Member \cup {None}, node : NodeId \cup {None}, empty : BOOLEAN]

NodesTyped(ns) == ns \in [DOMAIN ns -> Node] /\ DOMAIN ns \subseteq NodeId

StoreTyped(st) == st \in [Gid -> Group \cup {None, Broken}]

OpenTyped(op, ns) ==
    /\ op \in [Gid -> NodeId \cup {None}]
    /\ \A g \in Gid : op[g] # None => op[g] \in DOMAIN ns /\ ns[op[g]].gid = g

Serves(q, ns) ==
    /\ q = Idle \/ q \in RequestRecord
    /\ q.pc \in Holding => q.node \in DOMAIN ns /\ ns[q.node].gid = q.gid
    /\ q.pc \in Nodeless => q.node = None
    /\ q.pc \in {"join", "leave"} => q.who \in Member
    /\ q.pc = "save" => ns[q.node].version = "zero"

Refers(q, n) == q.pc # "idle" /\ q.node = n

RequestsTyped(rq, ns) ==
    /\ DOMAIN rq = Request /\ rq = [r \in Request |-> rq[r]]
    /\ \A r \in Request : Serves(rq[r], ns)

(* A node that has been loaded and is not in place is its request's own.   *)
Exclusive(rq, op) ==
    \A r \in Request : rq[r].pc \in Fresh =>
        /\ \A g \in Gid : op[g] # rq[r].node
        /\ \A q \in Request : q # r => ~Refers(rq[q], rq[r].node)

Reached(ns, rq, op) ==
    \A n \in DOMAIN ns : (\E g \in Gid : op[g] = n) \/ (\E r \in Request : Refers(rq[r], n))

(* A version is one of something that is stored.                           *)
Versioned(ns, st) ==
    \A n \in DOMAIN ns : ns[n].version \in {"equal", "less", "match"} => st[ns[n].gid] # None

AtWork == {"remove", "close", "close there", "retire", "delete", "deleting", "unregister"}
SweepTyped(sw, op) ==
    /\ sw \in [pc : {"idle", "next"} \cup AtWork, todo : SUBSET Gid, gid : Gid \cup {None},
               peers : SUBSET Gid, peer : Gid \cup {None}]
    /\ sw.pc \in AtWork => sw.gid \in Gid
    /\ sw.pc \in {"close", "close there", "retire"} =>
          op[sw.gid] # None /\ \A h \in sw.peers : op[h] # None
    /\ sw.pc \in {"close there", "retire"} => sw.peer \in Gid /\ op[sw.peer] # None

Memory(ns, rq, op, st) ==
    /\ NodesTyped(ns) /\ OpenTyped(op, ns) /\ RequestsTyped(rq, ns)
    /\ Exclusive(rq, op) /\ Reached(ns, rq, op) /\ Versioned(ns, st)

RegistryTyped(rg) == rg \in [Gid -> {None, "none", "fresh", "due"}]

IsDown(ns, rq, sw) == ns = <<>> /\ sw = NoSweep /\ \A r \in Request : rq[r] = Idle

HInv ==
    /\ RegistryTyped(registry) /\ StoreTyped(stored)
    /\ Memory(nodes, req, open, stored)
    /\ SweepTyped(sweep, open)
    /\ up \in BOOLEAN /\ (~up => IsDown(nodes, req, sweep) /\ \A g \in Gid : open[g] = None)
    /\ faults \in 0..MaxFaults

-----------------------------------------------------------------------------
(***************************************************************************)
(* There are enough node ids, so the choices of Load and Start exist.      *)
(***************************************************************************)
LEMMA Sizes == Cardinality(Gid) \in Nat /\ Cardinality(Request) \in Nat /\ NodeId \subseteq Nat
BY FiniteAssumption, FS_CardinalityType DEF NodeId

LEMMA OpenedIs ==
    ASSUME NEW gs \in SUBSET Gid
    PROVE  /\ Opened(gs) \in [Gid -> NodeId \cup {None}]
           /\ \A g \in Gid : Opened(gs)[g] = None <=> g \notin gs
           /\ \A g, h \in gs : Opened(gs)[g] = Opened(gs)[h] => g = h
<1>1. ExistsBijection(Gid, 1..Cardinality(Gid))
  BY FiniteAssumption, FS_CardinalityType, Fun_ExistsBijSymmetric
<1>2. PICK f \in [Gid -> 1..Cardinality(Gid)] : \A g, h \in Gid : f[g] = f[h] => g = h
  BY <1>1 DEF ExistsBijection, Bijection, Injection, IsInjective
<1>3. 1..Cardinality(Gid) \subseteq NodeId
  BY Sizes DEF NodeId
<1> DEFINE w == [g \in Gid |-> IF g \in gs THEN f[g] ELSE None]
           Good(o) == /\ \A g \in Gid : o[g] = None <=> g \notin gs
                      /\ \A g, h \in gs : o[g] = o[h] => g = h
<1>4. w \in [Gid -> NodeId \cup {None}] /\ Good(w)
  <2>1. \A g \in Gid : f[g] \in NodeId /\ f[g] # None
    BY <1>2, <1>3, NoneAssumption
  <2> QED BY <1>2, <2>1
<1>5. \E o \in [Gid -> NodeId \cup {None}] : Good(o)
  BY <1>4
<1>6. Opened(gs) = CHOOSE o \in [Gid -> NodeId \cup {None}] : Good(o)
  BY DEF Opened
<1> HIDE DEF Good
<1>7. Opened(gs) \in [Gid -> NodeId \cup {None}] /\ Good(Opened(gs))
  BY <1>5, <1>6
<1> QED BY <1>7 DEF Good

LEMMA LoadedIs ==
    ASSUME NEW gs \in SUBSET Gid, NEW s
    PROVE  LET ns == Loaded(gs, s)
           IN  /\ DOMAIN ns = {Opened(gs)[g] : g \in gs}
               /\ ns = [n \in DOMAIN ns |-> ns[n]]
               /\ \A g \in gs : ns[Opened(gs)[g]] = [gid |-> g, state |-> s[g], version |-> "equal"]
<1> DEFINE o == Opened(gs)
           ns == Loaded(gs, s)
           Of(n) == CHOOSE h \in gs : o[h] = n
<1>1. \A g, h \in gs : o[g] = o[h] => g = h
  BY OpenedIs
<1>2. ns = [n \in {o[g] : g \in gs} |-> [gid |-> Of(n), state |-> s[Of(n)], version |-> "equal"]]
  BY DEF Loaded
<1> HIDE DEF o, ns
<1>3. ASSUME NEW g \in gs PROVE Of(o[g]) = g
  BY <1>1
<1> HIDE DEF Of
<1> QED BY <1>2, <1>3 DEF o, ns

LEMMA FreeNode ==
    ASSUME HInv, NEW r \in Request, req[r].pc = "create"
    PROVE  LET n == CHOOSE i \in NodeId : i \notin DOMAIN nodes
           IN  n \in NodeId /\ n \notin DOMAIN nodes
<1>1. ASSUME NodeId \subseteq DOMAIN nodes PROVE FALSE
  <2> DEFINE A == {n \in NodeId : \E g \in Gid : open[g] = n}
             B == {n \in NodeId : \E q \in Request : Refers(req[q], n)}
  <2>1. NodeId \subseteq A \cup B
    BY <1>1 DEF HInv, Memory, Reached
  <2>2. IsFiniteSet(A) /\ Cardinality(A) <= Cardinality(Gid)
    <3> DEFINE f == [n \in A |-> CHOOSE g \in Gid : open[g] = n]
    <3>1. \A n \in A : f[n] \in Gid /\ open[f[n]] = n
      OBVIOUS
    <3>2. f \in Injection(A, Gid)
      BY <3>1 DEF Injection, IsInjective
    <3> QED BY <3>2, FiniteAssumption, FS_Injection
  <2>3. IsFiniteSet(B) /\ Cardinality(B) <= Cardinality(Request \ {r})
    <3> DEFINE f == [n \in B |-> CHOOSE q \in Request : Refers(req[q], n)]
    <3>1. \A n \in B : f[n] \in Request /\ Refers(req[f[n]], n)
      OBVIOUS
    <3>2. req[r].node = None
      BY DEF HInv, Memory, RequestsTyped, Serves, Nodeless
    <3>3. \A n \in B : n # None
      BY NoneAssumption
    <3>4. f \in Injection(B, Request \ {r})
      BY <3>1, <3>2, <3>3 DEF Injection, IsInjective, Refers
    <3>5. IsFiniteSet(Request \ {r})
      BY FiniteAssumption, FS_RemoveElement
    <3> QED BY <3>4, <3>5, FS_Injection
  <2>4. Cardinality(Request \ {r}) = Cardinality(Request) - 1
    BY FiniteAssumption, FS_RemoveElement
  <2>5. Cardinality(NodeId) = Cardinality(Gid) + Cardinality(Request)
    <3>1. Cardinality(Gid) + Cardinality(Request) \in Nat
      BY Sizes
    <3> DEFINE b == Cardinality(Gid) + Cardinality(Request)
    <3>2. Cardinality(1..b) = IF 1 > b THEN 0 ELSE b - 1 + 1
      BY <3>1, FS_Interval
    <3>3. Cardinality(1..b) = b
      BY <3>1, <3>2
    <3> QED BY <3>3 DEF NodeId
  <2> HIDE DEF A, B
  <2>6. /\ IsFiniteSet(A \cup B)
        /\ Cardinality(A \cup B) = Cardinality(A) + Cardinality(B) - Cardinality(A \cap B)
    BY <2>2, <2>3, FS_Union
  <2>7. Cardinality(NodeId) <= Cardinality(A \cup B)
    BY <2>1, <2>6, FS_Subset
  <2>8. IsFiniteSet(A \cap B)
    BY <2>2, FS_Subset
  <2>9. Cardinality(A) \in Nat /\ Cardinality(B) \in Nat /\ Cardinality(A \cap B) \in Nat
    BY <2>2, <2>3, <2>8, FS_CardinalityType
  <2> QED BY <2>2, <2>3, <2>4, <2>5, <2>6, <2>7, <2>9, Sizes
<1> QED BY <1>1

-----------------------------------------------------------------------------
(***************************************************************************)
(* What a step leaves of the memory: nodes that something refers to.       *)
(***************************************************************************)
Sound(ns, rq, op, st) ==
    /\ NodesTyped(ns) /\ OpenTyped(op, ns) /\ RequestsTyped(rq, ns)
    /\ Exclusive(rq, op) /\ Versioned(ns, st)

LEMMA RememberStep ==
    ASSUME NEW f, NEW rq, NEW op, NEW st, NEW ns, Sound(f, rq, op, st),
           ns = Restrict(f, {n \in DOMAIN f : \/ \E g \in Gid : op[g] = n
                                              \/ \E r \in Request : rq[r].pc # "idle"
                                                                /\ rq[r].node = n})
    PROVE  Memory(ns, rq, op, st)
<1> DEFINE kept == {n \in DOMAIN f : \/ \E g \in Gid : op[g] = n
                                     \/ \E r \in Request : Refers(rq[r], n)}
<1>1. ns = [n \in kept |-> f[n]]
  BY DEF Restrict, Refers
<1>2. DOMAIN ns = kept /\ kept \subseteq DOMAIN f /\ \A n \in kept : ns[n] = f[n]
  BY <1>1
<1>3. \A n \in kept : (\E g \in Gid : op[g] = n) \/ (\E r \in Request : Refers(rq[r], n))
  OBVIOUS
<1>4. \A n \in DOMAIN f, g \in Gid : op[g] = n => n \in kept
  OBVIOUS
<1>5. \A n \in DOMAIN f, r \in Request : Refers(rq[r], n) => n \in kept
  OBVIOUS
<1> HIDE DEF kept
<1>6. NodesTyped(ns)
  BY <1>1, <1>2 DEF Sound, NodesTyped
<1>7. OpenTyped(op, ns)
  BY <1>2, <1>4 DEF Sound, OpenTyped
<1>8. RequestsTyped(rq, ns)
  <2>1. ASSUME NEW r \in Request PROVE Serves(rq[r], ns)
    <3>1. Serves(rq[r], f)
      BY DEF Sound, RequestsTyped
    <3>2. rq[r].pc \in Holding => rq[r].node \in kept
      BY <3>1, <1>5 DEF Serves, Refers, Holding, Fresh
    <3>3. rq[r].pc = "save" => rq[r].pc \in Holding
      BY DEF Holding, Fresh
    <3> QED BY <3>1, <3>2, <3>3, <1>2 DEF Serves
  <2> QED BY <2>1 DEF Sound, RequestsTyped
<1>9. Versioned(ns, st)
  BY <1>2 DEF Sound, Versioned
<1>10. Reached(ns, rq, op)
  BY <1>2, <1>3 DEF Reached
<1> QED BY <1>6, <1>7, <1>8, <1>9, <1>10 DEF Sound, Memory

(* A request goes on as q.                                                 *)
LEMMA GotoSound ==
    ASSUME NEW ns, NEW rq, NEW op, NEW st, Sound(ns, rq, op, st),
           NEW r \in Request, NEW q, Serves(q, ns),
           q.pc \in Fresh => /\ \A g \in Gid : op[g] # q.node
                             /\ \A p \in Request : p # r => ~Refers(rq[p], q.node),
           \A p \in Request : p # r /\ rq[p].pc \in Fresh => ~Refers(q, rq[p].node)
    PROVE  Sound(ns, [rq EXCEPT ![r] = q], op, st)
<1> DEFINE rq1 == [rq EXCEPT ![r] = q]
<1>1. DOMAIN rq = Request
  BY DEF Sound, RequestsTyped
<1>2. /\ DOMAIN rq1 = Request /\ rq1 = [p \in Request |-> rq1[p]]
      /\ rq1[r] = q /\ \A p \in Request : p # r => rq1[p] = rq[p]
  BY <1>1
<1> HIDE DEF rq1
<1>3. RequestsTyped(rq1, ns)
  BY <1>2 DEF Sound, RequestsTyped
<1>4. Exclusive(rq1, op)
  BY <1>2 DEF Sound, Exclusive
<1> QED BY <1>3, <1>4 DEF Sound, rq1

(* Nodes change, but not their groups.                                     *)
LEMMA ChangedSound ==
    ASSUME NEW ns, NEW rq, NEW op, NEW st, Sound(ns, rq, op, st), NEW f, NEW st1,
           DOMAIN f = DOMAIN ns, f = [m \in DOMAIN f |-> f[m]],
           \A m \in DOMAIN ns : f[m] \in Node /\ f[m].gid = ns[m].gid,
           \A r \in Request : rq[r].pc = "save" => f[rq[r].node].version = "zero",
           Versioned(f, st1)
    PROVE  Sound(f, rq, op, st1)
<1>1. NodesTyped(f)
  BY DEF Sound, NodesTyped
<1>2. OpenTyped(op, f)
  BY DEF Sound, OpenTyped
<1>3. RequestsTyped(rq, f)
  <2>1. ASSUME NEW r \in Request PROVE Serves(rq[r], f)
    <3>1. Serves(rq[r], ns)
      BY DEF Sound, RequestsTyped
    <3> QED BY <3>1 DEF Serves
  <2> QED BY <2>1 DEF Sound, RequestsTyped
<1> QED BY <1>1, <1>2, <1>3 DEF Sound

-----------------------------------------------------------------------------
(***************************************************************************)
(* How the invariant is kept: by a step of a process that runs and goes on,*)
(* by one that saves, and by one that ends the process.                    *)
(***************************************************************************)
LEMMA Running ==
    ASSUME HInv
    PROVE  /\ \A r \in Request : req[r].pc # "idle" => up
           /\ sweep.pc # "idle" => up
           /\ \A g \in Gid : IsOpen(g) => up
BY DEF HInv, IsDown, Idle, NoSweep, IsOpen

LEMMA GoesOn ==
    ASSUME HInv, up, up' = up, Memory(nodes', req', open', stored'), StoreTyped(stored'),
           RegistryTyped(registry'), SweepTyped(sweep', open'),
           faults' = faults \/ Fault
    PROVE  HInv'
<1>1. faults' \in 0..MaxFaults
  BY HostAssumption DEF HInv, Fault
<1> QED BY <1>1 DEF HInv

LEMMA Exits ==
    ASSUME HInv, Exit, StoreTyped(stored'), RegistryTyped(registry'), faults' = faults \/ Fault
    PROVE  HInv'
<1>1. faults' \in 0..MaxFaults
  BY HostAssumption DEF HInv, Fault
<1>2. /\ open' = [g \in Gid |-> None] /\ req' = [r \in Request |-> Idle]
      /\ nodes' = <<>> /\ sweep' = NoSweep /\ up' = FALSE
  BY DEF Exit
<1>3. DOMAIN nodes' = {} /\ nodes' = [n \in {} |-> nodes'[n]]
  BY <1>2
<1>4. /\ \A r \in Request : req'[r] = Idle /\ req'[r].pc = "idle"
      /\ \A g \in Gid : open'[g] = None
      /\ DOMAIN req' = Request /\ req' = [r \in Request |-> req'[r]]
  BY <1>2 DEF Idle
<1>5. NodesTyped(nodes') /\ OpenTyped(open', nodes') /\ Versioned(nodes', stored')
      /\ Reached(nodes', req', open')
  BY <1>2, <1>3, <1>4 DEF NodesTyped, OpenTyped, Versioned, Reached
<1>6. RequestsTyped(req', nodes') /\ Exclusive(req', open')
  BY <1>4 DEF RequestsTyped, Serves, Exclusive, Fresh, Holding, Nodeless
<1>7. SweepTyped(sweep', open')
  BY <1>2 DEF SweepTyped, NoSweep, AtWork
<1> QED BY <1>1, <1>2, <1>4, <1>5, <1>6, <1>7 DEF HInv, Memory, IsDown

LEMMA Remembers ==
    ASSUME NEW f, Remember(f), Sound(f, req', open', stored')
    PROVE  Memory(nodes', req', open', stored')
<1>1. nodes' = Restrict(f, {n \in DOMAIN f : \/ \E g \in Gid : open'[g] = n
                                             \/ \E r \in Request : req'[r].pc # "idle"
                                                               /\ req'[r].node = n})
  BY DEF Remember
<1> QED BY <1>1, RememberStep

LEMMA HInvSound ==
    ASSUME HInv PROVE Sound(nodes, req, open, stored) /\ DOMAIN stored = Gid
BY DEF HInv, Memory, Sound, StoreTyped

LEMMA StoreIsTyped ==
    ASSUME HInv, NEW g \in Gid, NEW s \in Group
    PROVE  StoreTyped([stored EXCEPT ![g] = Store(g, s)]) /\ Store(g, s) \in {s, Broken}
BY DEF HInv, StoreTyped, Store

(* What a Save that does not end the process has done.                     *)
Wrote(n, s) ==
    \/ Current(n) /\ \E v \in {"equal", "less", "zero"} : Write(n, s, v)
    \/ Fault /\ stored' = stored /\ Remember([nodes EXCEPT ![n].state = s])

Written(f, n, s, v) ==
    /\ DOMAIN f = DOMAIN nodes /\ f = [m \in DOMAIN f |-> f[m]]
    /\ f[n] = [gid |-> nodes[n].gid, state |-> s, version |-> v]
    /\ \A m \in DOMAIN nodes \ {n} :
          /\ f[m] \in Node /\ f[m].gid = nodes[m].gid /\ f[m].state = nodes[m].state
          /\ nodes[m].gid # nodes[n].gid => f[m] = nodes[m]
          /\ nodes[m].gid = nodes[n].gid =>
                \/ f[m].version = nodes[m].version /\ f[m].version \in {"zero", "less", "more"}
                \/ f[m].version = "less" /\ nodes[m].version \in {"equal", "match"}
                \/ f[m].version = "match" /\ nodes[m].version = "more"

LEMMA WriteIs ==
    ASSUME HInv, NEW n \in DOMAIN nodes, NEW s \in Group,
           NEW v \in {"equal", "less", "zero"}, Write(n, s, v)
    PROVE  /\ stored' = [stored EXCEPT ![nodes[n].gid] = Store(nodes[n].gid, s)]
           /\ \E f : Remember(f) /\ Written(f, n, s, v)
<1> DEFINE g == nodes[n].gid
           others == {m \in DOMAIN nodes : m # n /\ nodes[m].gid = g}
           F(met) == [m \in DOMAIN nodes |->
                        CASE m = n -> [nodes[n] EXCEPT !.state = s, !.version = v]
                          [] m \in others -> [nodes[m] EXCEPT !.version = Passed(@, m \in met)]
                          [] OTHER -> nodes[m]]
<1>1. PICK met : Remember(F(met)) /\ stored' = [stored EXCEPT ![g] = Store(g, s)]
  BY DEF Write
<1> DEFINE f == F(met)
<1>2. \A m \in DOMAIN nodes : nodes[m] \in Node
  BY DEF HInv, Memory, NodesTyped
<1>3. f[n] = [gid |-> g, state |-> s, version |-> v]
  BY <1>2 DEF Node
<1>4. ASSUME NEW m \in DOMAIN nodes, m # n, nodes[m].gid = g
      PROVE  f[m] = [nodes[m] EXCEPT !.version = Passed(nodes[m].version, m \in met)]
  BY <1>4
<1>5. ASSUME NEW m \in DOMAIN nodes, nodes[m].gid # g PROVE f[m] = nodes[m]
  BY <1>5
<1>6. DOMAIN f = DOMAIN nodes /\ f = [m \in DOMAIN f |-> f[m]]
  OBVIOUS
<1>7. Remember(f)
  BY <1>1
<1>8. g = nodes[n].gid
  OBVIOUS
<1> HIDE DEF f, g
<1>9. ASSUME NEW m \in DOMAIN nodes, m # n, nodes[m].gid = g
      PROVE  /\ f[m] \in Node /\ f[m].gid = nodes[m].gid /\ f[m].state = nodes[m].state
             /\ \/ f[m].version = nodes[m].version /\ f[m].version \in {"zero", "less", "more"}
                \/ f[m].version = "less" /\ nodes[m].version \in {"equal", "match"}
                \/ f[m].version = "match" /\ nodes[m].version = "more"
  <2> DEFINE w == Passed(nodes[m].version, m \in met)
  <2>1. f[m] = [nodes[m] EXCEPT !.version = w]
    BY <1>4, <1>9
  <2>2. nodes[m] \in Node
    BY <1>2
  <2>3. nodes[m].version \in {"zero", "equal", "less", "more", "match"}
    BY <2>2 DEF Node
  <2>4. \/ w = nodes[m].version /\ w \in {"zero", "less", "more"}
        \/ w = "less" /\ nodes[m].version \in {"equal", "match"}
        \/ w = "match" /\ nodes[m].version = "more"
    BY <2>3 DEF Passed
  <2> HIDE DEF w
  <2> QED BY <2>1, <2>2, <2>4 DEF Node
<1>10. ASSUME NEW m \in DOMAIN nodes, nodes[m].gid # g
       PROVE  f[m] \in Node /\ f[m].gid = nodes[m].gid /\ f[m].state = nodes[m].state
  BY <1>2, <1>5, <1>10
<1>11. Written(f, n, s, v)
  BY <1>3, <1>5, <1>6, <1>8, <1>9, <1>10 DEF Written
<1> QED BY <1>1, <1>7, <1>8, <1>11

LEMMA UnstoredIs ==
    ASSUME HInv, NEW n \in DOMAIN nodes, NEW s \in Group
    PROVE  \E f : /\ f = [nodes EXCEPT ![n].state = s]
                  /\ DOMAIN f = DOMAIN nodes /\ f = [m \in DOMAIN f |-> f[m]]
                  /\ f[n] = [gid |-> nodes[n].gid, state |-> s, version |-> nodes[n].version]
                  /\ \A m \in DOMAIN nodes : /\ f[m] \in Node /\ f[m].gid = nodes[m].gid
                                             /\ f[m].version = nodes[m].version
                                             /\ m # n => f[m] = nodes[m]
<1> DEFINE f == [m \in DOMAIN nodes |-> IF m = n THEN [nodes[n] EXCEPT !.state = s] ELSE nodes[m]]
<1>1. nodes = [m \in DOMAIN nodes |-> nodes[m]] /\ \A m \in DOMAIN nodes : nodes[m] \in Node
  BY DEF HInv, Memory, NodesTyped
<1>2. f = [nodes EXCEPT ![n].state = s]
  BY <1>1
<1>3. /\ DOMAIN f = DOMAIN nodes /\ f = [m \in DOMAIN f |-> f[m]]
      /\ f[n] = [nodes[n] EXCEPT !.state = s]
      /\ \A m \in DOMAIN nodes : m # n => f[m] = nodes[m]
  OBVIOUS
<1> HIDE DEF f
<1>4. f[n] = [gid |-> nodes[n].gid, state |-> s, version |-> nodes[n].version]
  BY <1>1, <1>3 DEF Node
<1>5. f[n] \in Node
  BY <1>1, <1>4 DEF Node
<1>6. \A m \in DOMAIN nodes : /\ f[m] \in Node /\ f[m].gid = nodes[m].gid
                             /\ f[m].version = nodes[m].version
  BY <1>1, <1>3, <1>4, <1>5
<1> QED BY <1>2, <1>3, <1>4, <1>6

(* Save ends the process, or writes, or only changes the node.             *)
LEMMA PassedIs ==
    ASSUME HInv, NEW n \in DOMAIN nodes, Current(n)
    PROVE  Passed(nodes[n].version, FALSE) \in {"less", "zero"}
BY DEF Current, Passed

LEMMA ServingIs ==
    ASSUME HInv, NEW r \in Request, req[r].node \in DOMAIN nodes, NEW s, NEW q, NEW failed,
           Serving(r, s, q, failed)
    PROVE  \/ Exit /\ UNCHANGED <<stored, faults>>
           \/ /\ Wrote(req[r].node, s) /\ UNCHANGED <<up, open, sweep>>
              /\ Goto(r, q) \/ Goto(r, failed)
              /\ faults' = faults \/ Fault
BY PassedIs DEF Serving, Save, Wrote

LEMMA HandlingIs ==
    ASSUME HInv, NEW g \in Gid, open[g] \in DOMAIN nodes, NEW s, Handling(g, s)
    PROVE  \/ Exit /\ UNCHANGED <<stored, faults>>
           \/ Wrote(open[g], s) /\ UNCHANGED <<up, open, req, sweep>> /\ (faults' = faults \/ Fault)
BY PassedIs DEF Handling, Save, Wrote

LEMMA SweepingIs ==
    ASSUME HInv, NEW g \in Gid, open[g] \in DOMAIN nodes, NEW s, NEW next, NEW failed,
           Sweeping(g, s, next, failed)
    PROVE  \/ Exit /\ UNCHANGED <<stored, faults>>
           \/ /\ Wrote(open[g], s) /\ UNCHANGED <<up, open, req>>
              /\ sweep' = next \/ sweep' = failed
              /\ faults' = faults \/ Fault
BY PassedIs DEF Sweeping, Save, Wrote

LEMMA Saves ==
    ASSUME HInv, NEW n \in DOMAIN nodes, NEW s \in Group, Wrote(n, s),
           Sound(nodes, req', open', stored),
           \A r \in Request : req'[r].pc = "save" => req'[r].node # n
    PROVE  Memory(nodes', req', open', stored') /\ StoreTyped(stored')
<1>1. nodes[n].gid \in Gid /\ DOMAIN stored = Gid
  BY HInvSound DEF HInv, Memory, NodesTyped, Node
<1>2. \A m \in DOMAIN nodes : nodes[m].gid \in Gid
  BY DEF HInv, Memory, NodesTyped, Node
<1>3. ASSUME NEW r \in Request, req'[r].pc = "save"
      PROVE  req'[r].node \in DOMAIN nodes \ {n} /\ nodes[req'[r].node].version = "zero"
  BY <1>3 DEF Sound, RequestsTyped, Serves, Holding, Fresh
<1>4. CASE \E v \in {"equal", "less", "zero"} : Write(n, s, v)
  <2>1. PICK v \in {"equal", "less", "zero"} : Write(n, s, v)
    BY <1>4
  <2>2. stored' = [stored EXCEPT ![nodes[n].gid] = Store(nodes[n].gid, s)]
    BY <2>1, WriteIs
  <2>3. StoreTyped(stored') /\ Store(nodes[n].gid, s) \in {s, Broken}
    BY <1>1, <2>2, StoreIsTyped
  <2>4. stored'[nodes[n].gid] # None /\ \A g \in Gid : g # nodes[n].gid => stored'[g] = stored[g]
    BY <1>1, <2>2, <2>3, NothingAssumption
  <2>5. PICK f : Remember(f) /\ Written(f, n, s, v)
    BY <2>1, WriteIs
  <2>6. f[n] \in Node /\ f[n].gid = nodes[n].gid
    BY <1>1, <2>5 DEF Node, Written
  <2>7. \A m \in DOMAIN nodes : f[m] \in Node /\ f[m].gid = nodes[m].gid
    BY <2>5, <2>6 DEF Written
  <2>8. \A r \in Request : req'[r].pc = "save" => f[req'[r].node].version = "zero"
    BY <1>3, <2>5 DEF Written
  <2>9. Versioned(f, stored')
    <3> SUFFICES ASSUME NEW m \in DOMAIN nodes, f[m].version \in {"equal", "less", "match"},
                        nodes[m].gid # nodes[n].gid
                 PROVE  stored[nodes[m].gid] # None
      BY <1>2, <2>4, <2>5, <2>7 DEF Versioned, Written
    <3>1. f[m] = nodes[m]
      BY <2>5 DEF Written
    <3> QED BY <3>1 DEF HInv, Memory, Versioned
  <2>10. Sound(f, req', open', stored')
    BY <2>5, <2>7, <2>8, <2>9, ChangedSound DEF Written
  <2> QED BY <2>3, <2>5, <2>10, Remembers
<1>5. CASE stored' = stored /\ Remember([nodes EXCEPT ![n].state = s])
  <2>1. PICK f : /\ f = [nodes EXCEPT ![n].state = s]
                 /\ DOMAIN f = DOMAIN nodes /\ f = [m \in DOMAIN f |-> f[m]]
                 /\ f[n] = [gid |-> nodes[n].gid, state |-> s, version |-> nodes[n].version]
                 /\ \A m \in DOMAIN nodes : /\ f[m] \in Node /\ f[m].gid = nodes[m].gid
                                            /\ f[m].version = nodes[m].version
                                            /\ m # n => f[m] = nodes[m]
    BY UnstoredIs
  <2>2. Remember(f)
    BY <1>5, <2>1
  <2>3. \A r \in Request : req'[r].pc = "save" => f[req'[r].node].version = "zero"
    BY <1>3, <2>1
  <2>4. Versioned(f, stored')
    BY <1>5, <2>1 DEF HInv, Memory, Versioned
  <2>5. /\ DOMAIN f = DOMAIN nodes /\ f = [m \in DOMAIN f |-> f[m]]
        /\ \A m \in DOMAIN nodes : f[m] \in Node /\ f[m].gid = nodes[m].gid
    BY <2>1
  <2>6. Sound(f, req', open', stored')
    BY <2>3, <2>4, <2>5, ChangedSound
  <2> QED BY <1>5, <2>2, <2>6, Remembers DEF HInv
<1> QED BY <1>4, <1>5 DEF Wrote

(* A node as a request, an open group and the store know it.               *)
LEMMA NodeOf ==
    ASSUME HInv, NEW n \in DOMAIN nodes
    PROVE  /\ n \in NodeId /\ n # None
           /\ nodes[n].gid \in Gid /\ nodes[n].state \in Group
           /\ nodes[n].state.members \in SUBSET Member
           /\ nodes[n].state.pool \in [Gid -> Pool]
<1>1. n \in NodeId /\ nodes[n] \in Node
  BY DEF HInv, Memory, NodesTyped
<1>2. nodes[n].gid \in Gid /\ nodes[n].state \in Group
  BY <1>1 DEF Node
<1> QED BY <1>1, <1>2, NoneAssumption DEF Group

LEMMA RequestOf ==
    ASSUME HInv, NEW r \in Request, req[r].pc # "idle"
    PROVE  /\ req[r] \in RequestRecord /\ Serves(req[r], nodes)
           /\ req[r].pc \in Holding => /\ req[r].node \in DOMAIN nodes
                                       /\ nodes[req[r].node].gid = req[r].gid
           /\ req[r].gid \in Gid
<1>1. Serves(req[r], nodes) /\ req[r] # Idle
  BY DEF HInv, Memory, RequestsTyped, Idle
<1>2. req[r] \in RequestRecord
  BY <1>1 DEF Serves
<1>3. req[r].gid \in Gid
  BY <1>2 DEF RequestRecord
<1> QED BY <1>1, <1>2, <1>3 DEF Serves

LEMMA OpenOf ==
    ASSUME HInv, NEW g \in Gid, IsOpen(g)
    PROVE  open[g] \in DOMAIN nodes /\ nodes[open[g]].gid = g /\ StateOf(g) \in Group
<1>1. open[g] \in DOMAIN nodes /\ nodes[open[g]].gid = g
  BY DEF HInv, Memory, OpenTyped, IsOpen
<1> QED BY <1>1, NodeOf DEF StateOf

-----------------------------------------------------------------------------
(***************************************************************************)
(* Requests: one goes on as q, which refers to no node of its own.         *)
(***************************************************************************)
LEMMA GotoIs ==
    ASSUME HInv, NEW r \in Request, NEW q, Goto(r, q)
    PROVE  /\ req' = [req EXCEPT ![r] = q] /\ req'[r] = q
           /\ \A p \in Request : p # r => req'[p] = req[p]
BY DEF Goto, HInv, Memory, RequestsTyped

LEMMA NotItsOwn ==
    ASSUME HInv, NEW r \in Request, NEW q, Goto(r, q), Serves(q, nodes), q.pc \notin Fresh,
           \/ q.pc = "idle" \/ q.node = None \/ Refers(req[r], q.node)
           \/ \E g \in Gid : q.node = open[g]
    PROVE  Sound(nodes, req', open, stored)
<1>1. ASSUME NEW p \in Request, p # r, req[p].pc \in Fresh
      PROVE  ~Refers(q, req[p].node)
  <2>1. req[p].pc # "idle" /\ req[p].pc \in Holding
    BY <1>1 DEF Fresh, Holding
  <2>2. req[p].node \in DOMAIN nodes
    BY <2>1, RequestOf
  <2>3. req[p].node # None
    BY <2>2, NodeOf
  <2>4. (\A g \in Gid : open[g] # req[p].node) /\ ~Refers(req[r], req[p].node)
    BY <1>1 DEF HInv, Memory, Exclusive
  <2> QED BY <2>3, <2>4 DEF Refers
<1>2. Sound(nodes, [req EXCEPT ![r] = q], open, stored)
  BY <1>1, HInvSound, GotoSound
<1> QED BY <1>2, GotoIs

LEMMA NoNodeGone ==
    ASSUME HInv, NEW r \in Request, NEW q, Goto(r, q), UNCHANGED <<nodes, open, stored>>,
           Sound(nodes, req', open, stored),
           \A n \in DOMAIN nodes : Refers(req[r], n) => Refers(q, n)
    PROVE  Memory(nodes', req', open', stored')
<1>1. ASSUME NEW n \in DOMAIN nodes
      PROVE  (\E g \in Gid : open[g] = n) \/ (\E p \in Request : Refers(req'[p], n))
  <2>1. (\E g \in Gid : open[g] = n) \/ (\E p \in Request : Refers(req[p], n))
    BY DEF HInv, Memory, Reached
  <2>2. ASSUME NEW p \in Request, Refers(req[p], n) PROVE \E u \in Request : Refers(req'[u], n)
    BY <2>2, GotoIs
  <2> QED BY <2>1, <2>2
<1>2. Reached(nodes, req', open)
  BY <1>1 DEF Reached
<1> QED BY <1>2 DEF Memory, Sound

(* Its record with another pc, and without the node.                       *)
LEMMA SoServes ==
    ASSUME NEW ns, NEW q \in RequestRecord, Serves(q, ns), q.pc \in Holding,
           NEW pc \in {"insert", "look"}
    PROVE  Serves([q EXCEPT !.pc = pc], ns) /\ [q EXCEPT !.pc = pc].pc = pc
           /\ [q EXCEPT !.pc = pc].node = q.node /\ [q EXCEPT !.pc = pc].gid = q.gid
<1> DEFINE k == [q EXCEPT !.pc = pc]
<1>1. k \in RequestRecord /\ k.pc = pc /\ k.node = q.node /\ k.gid = q.gid
  BY DEF RequestRecord, Holding, Fresh
<1>2. k.node \in DOMAIN ns /\ ns[k.node].gid = k.gid
  BY <1>1 DEF Serves
<1> HIDE DEF k
<1>3. Serves(k, ns)
  BY <1>1, <1>2 DEF Serves, Nodeless
<1> QED BY <1>1, <1>3 DEF k

LEMMA NodelessServes ==
    ASSUME NEW ns, NEW q \in RequestRecord, q.pc \in {"register", "mark"}, q.node = None
    PROVE  Serves(q, ns)
BY DEF Serves, Holding, Fresh, Nodeless

LEMMA IdleServes ==
    ASSUME NEW ns PROVE Serves(Idle, ns) /\ Idle.pc = "idle" /\ Idle.pc \notin Fresh
BY DEF Idle, Serves, Holding, Fresh, Nodeless

LEMMA AskStep == ASSUME HInv, NEW r \in Request, Ask(r) PROVE HInv'
<1>1. /\ up /\ req[r].pc = "idle" /\ UNCHANGED <<up, nodes, open, registry, stored, sweep, faults>>
  BY DEF Ask, memory
<1>2. PICK c \in Call, g \in Asked :
        /\ IsOpen(g) <=> c # "create"
        /\ \E m \in IF c \in {"join", "leave"} THEN Member ELSE {None} :
              Goto(r, [pc |-> c, gid |-> g, who |-> m, empty |-> FALSE,
                       node |-> IF c = "rename" THEN None ELSE open[g]])
  BY DEF Ask
<1> DEFINE n == IF c = "rename" THEN None ELSE open[g]
<1>3. PICK m \in IF c \in {"join", "leave"} THEN Member ELSE {None} :
        Goto(r, [pc |-> c, gid |-> g, who |-> m, empty |-> FALSE, node |-> n])
  BY <1>2
<1>4. g \in Gid /\ c \in {"create", "join", "leave", "rename", "other"}
  BY HostAssumption
<1>5. n \in NodeId \cup {None} /\ (n = None \/ n = open[g])
  BY <1>4 DEF HInv, Memory, OpenTyped
<1>6. c \notin {"create", "rename"} => n \in DOMAIN nodes /\ nodes[n].gid = g
  BY <1>2, <1>4, OpenOf
<1>7. c \in {"create", "rename"} => n = None
  BY <1>2 DEF IsOpen
<1> HIDE DEF n
<1> DEFINE q == [pc |-> c, gid |-> g, who |-> m, empty |-> FALSE, node |-> n]
<1>8. q.pc = c /\ q.gid = g /\ q.who = m /\ q.node = n /\ q.empty = FALSE
  OBVIOUS
<1>9. m \in Member \cup {None} /\ (c \in {"join", "leave"} => m \in Member)
  OBVIOUS
<1>10. q \in RequestRecord
  BY <1>4, <1>5, <1>9 DEF RequestRecord, Holding, Fresh, Nodeless
<1> HIDE DEF q
<1>11. Goto(r, q)
  BY <1>3 DEF q
<1>12. Serves(q, nodes) /\ q.pc \notin Fresh
  BY <1>4, <1>6, <1>7, <1>8, <1>9, <1>10 DEF Serves, Holding, Fresh, Nodeless
<1>13. Sound(nodes, req', open, stored)
  BY <1>4, <1>5, <1>8, <1>11, <1>12, NotItsOwn
<1>14. Memory(nodes', req', open', stored')
  BY <1>1, <1>11, <1>13, NoNodeGone DEF Refers
<1>15. StoreTyped(stored') /\ RegistryTyped(registry') /\ SweepTyped(sweep', open')
  BY <1>1 DEF HInv
<1> QED BY <1>1, <1>14, <1>15, GoesOn

LEMMA NewGroupIsGroup == NewGroup \in Group
BY DEF NewGroup, Group, Pool

(* A node is loaded that nothing refers to yet.                            *)
LEMMA AddNode ==
    ASSUME NEW ns, NEW rq, NEW op, NEW st, Sound(ns, rq, op, st), None \notin DOMAIN ns,
           NEW n \in NodeId, n \notin DOMAIN ns, NEW node \in Node,
           node.version \in {"equal", "less", "match"} => st[node.gid] # None
    PROVE  Sound([i \in DOMAIN ns \cup {n} |-> IF i = n THEN node ELSE ns[i]], rq, op, st)
<1> DEFINE f == [i \in DOMAIN ns \cup {n} |-> IF i = n THEN node ELSE ns[i]]
<1>1. /\ DOMAIN f = DOMAIN ns \cup {n} /\ f = [i \in DOMAIN f |-> f[i]]
      /\ f[n] = node /\ \A i \in DOMAIN ns : f[i] = ns[i]
  OBVIOUS
<1> HIDE DEF f
<1>2. NodesTyped(f)
  BY <1>1 DEF Sound, NodesTyped
<1>3. OpenTyped(op, f)
  BY <1>1 DEF Sound, OpenTyped
<1>4. RequestsTyped(rq, f)
  <2>1. ASSUME NEW r \in Request PROVE Serves(rq[r], f)
    <3>1. Serves(rq[r], ns)
      BY DEF Sound, RequestsTyped
    <3>2. rq[r].pc = "save" => rq[r].pc \in Holding
      BY DEF Holding, Fresh
    <3> QED BY <3>1, <3>2, <1>1 DEF Serves
  <2> QED BY <2>1 DEF Sound, RequestsTyped
<1>5. Versioned(f, st)
  BY <1>1 DEF Sound, Versioned
<1> QED BY <1>2, <1>3, <1>4, <1>5 DEF Sound, f

LEMMA LoadNew ==
    ASSUME HInv, NEW r \in Request, Load(r), ~IsOpen(req[r].gid), Loadable(req[r].gid)
    PROVE  Memory(nodes', req', open', stored')
<1> DEFINE g == req[r].gid
           n == CHOOSE i \in NodeId : i \notin DOMAIN nodes
           s == IF stored[g] = None THEN NewGroup ELSE stored[g]
           v == IF stored[g] = None THEN "zero" ELSE "equal"
           node == [gid |-> g, state |-> s, version |-> v]
           pc == IF stored[g] = None THEN "save" ELSE "insert"
           q == [req[r] EXCEPT !.node = n, !.pc = pc]
           ns == [i \in DOMAIN nodes \cup {n} |-> IF i = n THEN node ELSE nodes[i]]
<1>1. req[r].pc = "create" /\ open' = open /\ stored' = stored
  BY DEF Load
<1>2. Goto(r, q) /\ nodes' = ns
  BY DEF Load
<1>3. req[r] \in RequestRecord /\ g \in Gid /\ req[r].node = None
  BY <1>1, RequestOf DEF Serves, Nodeless
<1>4. n \in NodeId /\ n \notin DOMAIN nodes
  BY <1>1, FreeNode
<1>5. n # None
  BY <1>4, NoneAssumption
<1>6. stored[g] # None => stored[g] \in Group
  BY <1>3 DEF HInv, StoreTyped, Loadable
<1>7. s \in Group /\ v \in {"zero", "equal"} /\ (v = "zero" <=> stored[g] = None)
  BY <1>6, NewGroupIsGroup
<1>8. node \in Node /\ node.gid = g /\ node.version = v
  BY <1>3, <1>7 DEF Node
<1>9. pc \in Fresh /\ (pc = "save" => stored[g] = None)
  BY DEF Fresh
<1>10. q \in RequestRecord /\ q.pc = pc /\ q.node = n /\ q.gid = g
  BY <1>3, <1>4, <1>9 DEF RequestRecord, Holding, Nodeless
<1>11. DOMAIN ns = DOMAIN nodes \cup {n} /\ ns[n] = node
  OBVIOUS
<1>12. None \notin DOMAIN nodes
  BY NodeOf
<1> HIDE DEF n, pc, q, g, s, v, node
<1>13. Sound(ns, req, open, stored)
  BY <1>4, <1>7, <1>8, <1>12, HInvSound, AddNode
<1> HIDE DEF ns
<1>14. Serves(q, ns)
  BY <1>7, <1>8, <1>9, <1>10, <1>11 DEF Serves, Fresh, Holding, Nodeless
<1>15. \A h \in Gid : open[h] # n
  BY <1>4, <1>5 DEF HInv, Memory, OpenTyped
<1>16. ASSUME NEW p \in Request, p # r
       PROVE  ~Refers(req[p], n) /\ (req[p].pc \in Fresh => ~Refers(q, req[p].node))
  <2>1. req[p].pc \in Fresh => req[p].pc \in Holding /\ req[p].pc # "idle"
    BY DEF Fresh, Holding
  <2>2. req[p].pc # "idle" => req[p].node = None \/ req[p].node \in DOMAIN nodes
    BY RequestOf DEF Serves, RequestRecord
  <2>3. req[p].pc \in Fresh => req[p].node \in DOMAIN nodes
    BY <2>1, RequestOf
  <2> QED BY <2>2, <2>3, <1>4, <1>5, <1>10 DEF Refers
<1>17. Sound(ns, [req EXCEPT ![r] = q], open, stored)
  BY <1>10, <1>13, <1>14, <1>15, <1>16, GotoSound
<1>18. Reached(ns, req', open)
  <2> SUFFICES ASSUME NEW m \in DOMAIN ns
               PROVE  (\E h \in Gid : open[h] = m) \/ (\E p \in Request : Refers(req'[p], m))
    BY DEF Reached
  <2>1. CASE m = n
    <3>1. Refers(req'[r], m)
      BY <2>1, <1>2, <1>9, <1>10, GotoIs DEF Refers, Fresh
    <3> QED BY <3>1
  <2>2. CASE m # n
    <3>1. m \in DOMAIN nodes /\ m # None
      BY <2>2, <1>11, <1>12
    <3>2. (\E h \in Gid : open[h] = m) \/ (\E p \in Request : Refers(req[p], m))
      BY <3>1 DEF HInv, Memory, Reached
    <3>3. ~Refers(req[r], m)
      BY <3>1, <1>3 DEF Refers
    <3>4. \A p \in Request : p # r => req'[p] = req[p]
      BY <1>2, GotoIs
    <3> QED BY <3>2, <3>3, <3>4
  <2> QED BY <2>1, <2>2
<1>19. req' = [req EXCEPT ![r] = q]
  BY <1>2, GotoIs
<1> QED BY <1>1, <1>2, <1>17, <1>18, <1>19 DEF Memory, Sound

LEMMA LoadStep == ASSUME HInv, NEW r \in Request, Load(r) PROVE HInv'
<1> DEFINE g == req[r].gid
<1>1. /\ req[r].pc = "create"
      /\ UNCHANGED <<up, open, registry, stored, sweep, faults>>
  BY DEF Load
<1>2. up /\ req[r] \in RequestRecord /\ g \in Gid /\ req[r].node = None
  BY <1>1, Running, RequestOf DEF Serves, Nodeless
<1>3. Memory(nodes', req', open', stored')
  <2>1. CASE IsOpen(g)
    <3> DEFINE q == [req[r] EXCEPT !.pc = "register"]
    <3>1. Goto(r, q) /\ nodes' = nodes
      BY <2>1 DEF Load
    <3>2. q \in RequestRecord /\ q.pc = "register" /\ q.node = None
      BY <1>2 DEF RequestRecord, Nodeless
    <3> HIDE DEF q
    <3>3. Serves(q, nodes) /\ q.pc \notin Fresh
      BY <3>2, NodelessServes DEF Fresh
    <3>4. Sound(nodes, req', open, stored)
      BY <3>1, <3>2, <3>3, NotItsOwn
    <3>5. \A n \in DOMAIN nodes : ~Refers(req[r], n)
      BY <1>2, NodeOf DEF Refers
    <3> QED BY <3>1, <3>4, <3>5, <1>1, NoNodeGone
  <2>2. CASE ~IsOpen(g) /\ ~Loadable(g)
    <3>1. Goto(r, Idle) /\ nodes' = nodes
      BY <2>2 DEF Load, Answer, Goto
    <3>2. Sound(nodes, req', open, stored)
      BY <3>1, IdleServes, NotItsOwn
    <3>3. \A n \in DOMAIN nodes : ~Refers(req[r], n)
      BY <1>2, NodeOf DEF Refers
    <3> QED BY <3>1, <3>2, <3>3, <1>1, NoNodeGone
  <2>3. CASE ~IsOpen(g) /\ Loadable(g)
    BY <2>3, LoadNew
  <2> QED BY <2>1, <2>2, <2>3
<1>4. StoreTyped(stored') /\ RegistryTyped(registry') /\ SweepTyped(sweep', open')
  BY <1>1 DEF HInv
<1> QED BY <1>1, <1>2, <1>3, <1>4, GoesOn

(* A request that saves its node, and goes on as q or, if that has failed, *)
(* as failed, or the process ends.                                         *)
LEMMA ServingStep ==
    ASSUME HInv, up, NEW r \in Request, req[r].node \in DOMAIN nodes, NEW s \in Group,
           NEW q, NEW failed, Serving(r, s, q, failed), UNCHANGED registry,
           Goto(r, q) \/ Goto(r, failed) =>
              /\ Sound(nodes, req', open, stored)
              /\ \A p \in Request : req'[p].pc = "save" => req'[p].node # req[r].node
    PROVE  HInv'
<1> DEFINE n == req[r].node
<1>1. \/ Exit /\ UNCHANGED <<stored, faults>>
      \/ /\ Wrote(n, s) /\ UNCHANGED <<up, open, sweep>>
         /\ Goto(r, q) \/ Goto(r, failed)
         /\ faults' = faults \/ Fault
  BY ServingIs
<1> HIDE DEF n
<1>2. CASE Exit /\ UNCHANGED <<stored, faults>>
  <2>1. StoreTyped(stored') /\ RegistryTyped(registry')
    BY <1>2 DEF HInv
  <2> QED BY <1>2, <2>1, Exits
<1>3. CASE /\ Wrote(n, s) /\ UNCHANGED <<up, open, sweep>>
           /\ Goto(r, q) \/ Goto(r, failed)
           /\ faults' = faults \/ Fault
  <2>1. Sound(nodes, req', open', stored)
    BY <1>3
  <2>2. Memory(nodes', req', open', stored') /\ StoreTyped(stored')
    BY <1>3, <2>1, Saves DEF n
  <2>3. RegistryTyped(registry') /\ SweepTyped(sweep', open')
    BY <1>3 DEF HInv
  <2> QED BY <1>3, <2>2, <2>3, GoesOn
<1> QED BY <1>1, <1>2, <1>3

LEMMA SaveNewStep == ASSUME HInv, NEW r \in Request, SaveNew(r) PROVE HInv'
<1> DEFINE q == [req[r] EXCEPT !.pc = "insert"]
           n == req[r].node
<1>1. req[r].pc = "save" /\ Serving(r, NewGroup, q, Idle) /\ UNCHANGED registry
  BY DEF SaveNew
<1>2. req[r].pc # "idle" /\ req[r].pc \in Holding /\ req[r].pc \in Fresh
  BY <1>1 DEF Holding, Fresh
<1>3. up /\ req[r] \in RequestRecord /\ Serves(req[r], nodes) /\ n \in DOMAIN nodes
  BY <1>2, Running, RequestOf
<1>4. Serves(q, nodes) /\ q.pc = "insert" /\ q.node = n
  BY <1>2, <1>3, SoServes
<1> HIDE DEF q
<1>5. \A g \in Gid : open[g] # q.node
  BY <1>2, <1>4 DEF HInv, Memory, Exclusive
<1>6. \A p \in Request : p # r => ~Refers(req[p], q.node)
  BY <1>2, <1>4 DEF HInv, Memory, Exclusive
<1>7. \A p \in Request : p # r /\ req[p].pc \in Fresh => ~Refers(q, req[p].node)
  BY <1>4, <1>6 DEF Refers, Fresh
<1>8. Sound(nodes, [req EXCEPT ![r] = q], open, stored)
  BY <1>4, <1>5, <1>6, <1>7, HInvSound, GotoSound
<1>9. ASSUME Goto(r, q)
      PROVE  /\ Sound(nodes, req', open, stored)
             /\ \A p \in Request : req'[p].pc = "save" => req'[p].node # n
  <2>1. /\ req' = [req EXCEPT ![r] = q] /\ req'[r] = q
        /\ \A p \in Request : p # r => req'[p] = req[p]
    BY <1>9, GotoIs
  <2> QED BY <2>1, <1>4, <1>6, <1>8 DEF Refers
<1>10. ASSUME Goto(r, Idle)
       PROVE  /\ Sound(nodes, req', open, stored)
              /\ \A p \in Request : req'[p].pc = "save" => req'[p].node # n
  <2>1. Sound(nodes, req', open, stored)
    BY <1>10, IdleServes, NotItsOwn
  <2>2. req'[r] = Idle /\ \A p \in Request : p # r => req'[p] = req[p]
    BY <1>10, GotoIs
  <2> QED BY <2>1, <2>2, <1>4, <1>6, IdleServes DEF Refers
<1> QED BY <1>1, <1>3, <1>9, <1>10, NewGroupIsGroup, ServingStep

LEMMA InsertStep == ASSUME HInv, NEW r \in Request, Insert(r) PROVE HInv'
<1> DEFINE g == req[r].gid
           q == [req[r] EXCEPT !.pc = "register", !.node = None]
           n == req[r].node
<1>1. /\ req[r].pc = "insert"
      /\ open' = IF IsOpen(g) THEN open ELSE [open EXCEPT ![g] = n]
      /\ Goto(r, q) /\ Remember(nodes)
      /\ UNCHANGED <<up, registry, stored, sweep, faults>>
  BY DEF Insert
<1>2. req[r].pc # "idle" /\ req[r].pc \in Holding /\ req[r].pc \in Fresh
  BY <1>1 DEF Holding, Fresh
<1>3. /\ up /\ req[r] \in RequestRecord
      /\ n \in DOMAIN nodes /\ nodes[n].gid = g /\ g \in Gid /\ n \in NodeId /\ n # None
  BY <1>2, Running, RequestOf, NodeOf
<1>4. q \in RequestRecord /\ q.pc = "register" /\ q.node = None
  BY <1>3 DEF RequestRecord, Nodeless
<1> HIDE DEF q, g, n
<1>5. Serves(q, nodes) /\ q.pc \notin Fresh
  BY <1>4, NodelessServes DEF Fresh
<1>6. Sound(nodes, req', open, stored)
  BY <1>1, <1>4, <1>5, NotItsOwn
<1>7. \A h \in Gid : open'[h] = open[h] \/ (h = g /\ open'[h] = n)
  BY <1>1, <1>3 DEF HInv, Memory, OpenTyped
<1>8. \A h \in Gid : open[h] # None => open'[h] # None
  BY <1>3, <1>7
<1>9. OpenTyped(open', nodes)
  <2>1. open' \in [Gid -> NodeId \cup {None}]
    BY <1>1, <1>3 DEF HInv, Memory, OpenTyped
  <2> QED BY <2>1, <1>3, <1>7 DEF HInv, Memory, OpenTyped
<1>10. Exclusive(req', open')
  <2>1. ASSUME NEW p \in Request, req'[p].pc \in Fresh
        PROVE  p # r /\ req[p].pc \in Fresh /\ req'[p] = req[p]
    BY <1>1, <1>5, <2>1, GotoIs
  <2>2. ASSUME NEW p \in Request, p # r, req[p].pc \in Fresh PROVE n # req[p].node
    <3>1. ~Refers(req[r], req[p].node)
      BY <2>2 DEF HInv, Memory, Exclusive
    <3> QED BY <3>1, <1>2 DEF Refers, n
  <2>3. \A p \in Request : req[p].pc \in Fresh => \A h \in Gid : open[h] # req[p].node
    BY DEF HInv, Memory, Exclusive
  <2>4. \A p \in Request : req'[p].pc \in Fresh =>
           \A u \in Request : u # p => ~Refers(req'[u], req'[p].node)
    BY <1>6 DEF Sound, Exclusive
  <2> QED BY <2>1, <2>2, <2>3, <2>4, <1>7 DEF Exclusive
<1>11. Memory(nodes', req', open', stored')
  <2>1. Sound(nodes, req', open', stored')
    BY <1>1, <1>6, <1>9, <1>10 DEF Sound
  <2> QED BY <2>1, <1>1, Remembers
<1>12. SweepTyped(sweep', open')
  <2>1. SweepTyped(sweep, open) /\ sweep' = sweep
    BY <1>1 DEF HInv
  <2>2. sweep.peers \in SUBSET Gid /\ (sweep.pc \in AtWork => sweep.gid \in Gid)
    BY <2>1 DEF SweepTyped
  <2> QED BY <2>1, <2>2, <1>8 DEF SweepTyped, AtWork
<1>13. StoreTyped(stored') /\ RegistryTyped(registry')
  BY <1>1 DEF HInv
<1> QED BY <1>1, <1>3, <1>11, <1>12, <1>13, GoesOn

(* A request without a node answers.                                       *)
LEMMA AnswerKeeps ==
    ASSUME HInv, NEW r \in Request, req[r].pc \in {"register", "mark", "rename"}, Answer(r),
           UNCHANGED <<nodes, open, stored>>
    PROVE  Memory(nodes', req', open', stored')
<1>1. Goto(r, Idle)
  BY DEF Answer, Goto
<1>2. Sound(nodes, req', open, stored)
  BY <1>1, IdleServes, NotItsOwn
<1>3. req[r].node = None
  BY RequestOf DEF Serves, Nodeless
<1>4. \A n \in DOMAIN nodes : ~Refers(req[r], n)
  BY <1>3, NodeOf DEF Refers
<1> QED BY <1>1, <1>2, <1>4, NoNodeGone

LEMMA RegisterStep == ASSUME HInv, NEW r \in Request, Register(r) PROVE HInv'
<1>1. /\ req[r].pc = "register" /\ Answer(r) /\ UNCHANGED <<up, nodes, open, stored, sweep>>
      /\ \/ registry' = [registry EXCEPT ![req[r].gid] = "none"] /\ UNCHANGED faults
         \/ Fault /\ UNCHANGED registry
  BY DEF Register, memory
<1>2. up
  BY <1>1, Running
<1>3. Memory(nodes', req', open', stored')
  BY <1>1, AnswerKeeps
<1>4. RegistryTyped(registry')
  BY <1>1 DEF HInv, RegistryTyped
<1>5. StoreTyped(stored') /\ SweepTyped(sweep', open')
  BY <1>1 DEF HInv
<1> QED BY <1>1, <1>2, <1>3, <1>4, <1>5, GoesOn

LEMMA MarkStep == ASSUME HInv, NEW r \in Request, Mark(r) PROVE HInv'
<1>1. /\ req[r].pc = "mark" /\ Answer(r) /\ UNCHANGED <<up, nodes, open, stored, sweep>>
      /\ \/ registry' = [registry EXCEPT ![req[r].gid] = Marked(@, req[r].empty)]
            /\ UNCHANGED faults
         \/ Fault /\ UNCHANGED registry
  BY DEF Mark, memory
<1>2. up
  BY <1>1, Running
<1>3. Memory(nodes', req', open', stored')
  BY <1>1, AnswerKeeps
<1>4. \A e, k : k \in {None, "none", "fresh", "due"} => Marked(k, e) \in {None, "none", "fresh", "due"}
  BY DEF Marked
<1>5. RegistryTyped(registry')
  BY <1>1, <1>4 DEF HInv, RegistryTyped
<1>6. StoreTyped(stored') /\ SweepTyped(sweep', open')
  BY <1>1 DEF HInv
<1> QED BY <1>1, <1>2, <1>3, <1>5, <1>6, GoesOn

(* A request that has looked its node up, and goes on with it or without.  *)
LEMMA NotFresh ==
    ASSUME HInv, NEW r \in Request, req[r].pc \in Holding \ Fresh
    PROVE  /\ up /\ req[r] \in RequestRecord /\ Serves(req[r], nodes)
           /\ req[r].node \in DOMAIN nodes /\ req[r].gid \in Gid
           /\ \A p \in Request : req[p].pc = "save" => req[p].node # req[r].node
<1>1. req[r].pc # "idle" /\ req[r].pc \in Holding
  BY DEF Holding, Fresh
<1>2. ASSUME NEW p \in Request, req[p].pc = "save" PROVE req[p].node # req[r].node
  <2>1. p # r /\ req[p].pc \in Fresh
    BY <1>2 DEF Fresh
  <2>2. ~Refers(req[r], req[p].node)
    BY <2>1 DEF HInv, Memory, Exclusive
  <2> QED BY <2>2, <1>1 DEF Refers
<1> QED BY <1>1, <1>2, Running, RequestOf

LEMMA ChangeStep == ASSUME HInv, NEW r \in Request, Change(r) PROVE HInv'
<1> DEFINE n == req[r].node
           s == nodes[n].state
           changed == IF req[r].pc = "join" THEN Joined(s, req[r].who)
                                            ELSE Departed(s, req[r].who)
           q == [req[r] EXCEPT !.pc = "look"]
<1>1. /\ req[r].pc \in {"join", "leave"} /\ UNCHANGED registry
      /\ IF changed = s
         THEN Goto(r, q) /\ UNCHANGED <<up, nodes, open, stored, sweep, faults>>
         ELSE Serving(r, changed, q, q)
  BY DEF Change, memory
<1>2. req[r].pc \in Holding \ Fresh
  BY <1>1 DEF Holding, Fresh
<1>3. /\ up /\ req[r] \in RequestRecord /\ Serves(req[r], nodes)
      /\ n \in DOMAIN nodes /\ req[r].who \in Member
      /\ \A p \in Request : req[p].pc = "save" => req[p].node # n
  BY <1>1, <1>2, NotFresh DEF Serves
<1>4. s \in Group
  BY <1>3, NodeOf
<1>5. changed \in Group
  BY <1>3, <1>4 DEF Group, Joined, Departed
<1>6. Serves(q, nodes) /\ q.pc = "look" /\ q.node = n
  BY <1>2, <1>3, SoServes
<1>7. Refers(req[r], q.node) /\ q.pc \notin Fresh
  BY <1>2, <1>6 DEF Refers, Holding, Fresh
<1> HIDE DEF q, s, changed
<1>8. ASSUME Goto(r, q)
      PROVE  /\ Sound(nodes, req', open, stored)
             /\ \A p \in Request : req'[p].pc = "save" => req'[p].node # n
  <2>1. Sound(nodes, req', open, stored)
    BY <1>6, <1>7, <1>8, NotItsOwn
  <2>2. req'[r] = q /\ \A p \in Request : p # r => req'[p] = req[p]
    BY <1>8, GotoIs
  <2> QED BY <2>1, <2>2, <1>3, <1>6
<1>9. CASE changed = s
  <2>1. Goto(r, q) /\ UNCHANGED <<up, nodes, open, stored, sweep, faults>>
    BY <1>1, <1>9
  <2>2. \A m \in DOMAIN nodes : Refers(req[r], m) => Refers(q, m)
    BY <1>6 DEF Refers
  <2>3. Memory(nodes', req', open', stored')
    BY <2>1, <2>2, <1>8, NoNodeGone
  <2>4. StoreTyped(stored') /\ RegistryTyped(registry') /\ SweepTyped(sweep', open')
    BY <2>1, <1>1 DEF HInv
  <2> QED BY <2>1, <2>3, <2>4, <1>1, <1>3, GoesOn
<1>10. CASE changed # s
  <2>1. Serving(r, changed, q, q)
    BY <1>1, <1>10
  <2> QED BY <2>1, <1>1, <1>3, <1>5, <1>8, ServingStep
<1> QED BY <1>9, <1>10

LEMMA OtherStep == ASSUME HInv, NEW r \in Request, Other(r) PROVE HInv'
<1> DEFINE n == req[r].node
<1>1. /\ req[r].pc = "other" /\ UNCHANGED registry
      /\ Serving(r, nodes[n].state, Idle, Idle)
  BY DEF Other
<1>2. req[r].pc \in Holding \ Fresh
  BY <1>1 DEF Holding, Fresh
<1>3. /\ up /\ n \in DOMAIN nodes
      /\ \A p \in Request : req[p].pc = "save" => req[p].node # n
  BY <1>2, NotFresh
<1>4. nodes[n].state \in Group
  BY <1>3, NodeOf
<1>5. ASSUME Goto(r, Idle)
      PROVE  /\ Sound(nodes, req', open, stored)
             /\ \A p \in Request : req'[p].pc = "save" => req'[p].node # n
  <2>1. Sound(nodes, req', open, stored)
    BY <1>5, IdleServes, NotItsOwn
  <2>2. req'[r] = Idle /\ \A p \in Request : p # r => req'[p] = req[p]
    BY <1>5, GotoIs
  <2> QED BY <2>1, <2>2, <1>3, IdleServes
<1> QED BY <1>1, <1>3, <1>4, <1>5, ServingStep

LEMMA LookStep == ASSUME HInv, NEW r \in Request, Look(r) PROVE HInv'
<1> DEFINE none == nodes[req[r].node].state.members = {}
           q == [req[r] EXCEPT !.pc = "mark", !.node = None, !.empty = none]
<1>1. /\ req[r].pc = "look" /\ Goto(r, q) /\ Remember(nodes)
      /\ UNCHANGED <<up, open, registry, stored, sweep, faults>>
  BY DEF Look
<1>2. req[r].pc \in Holding \ Fresh
  BY <1>1 DEF Holding, Fresh
<1>3. up /\ req[r] \in RequestRecord
  BY <1>2, NotFresh
<1>4. none \in BOOLEAN
  OBVIOUS
<1> HIDE DEF none
<1>5. q \in RequestRecord /\ q.pc = "mark" /\ q.node = None
  BY <1>3, <1>4 DEF RequestRecord, Nodeless
<1> HIDE DEF q
<1>6. Serves(q, nodes) /\ q.pc \notin Fresh
  BY <1>5, NodelessServes DEF Fresh
<1>7. Sound(nodes, req', open, stored)
  BY <1>1, <1>5, <1>6, NotItsOwn
<1>8. Memory(nodes', req', open', stored')
  <2>1. Sound(nodes, req', open', stored')
    BY <1>1, <1>7
  <2> QED BY <2>1, <1>1, Remembers
<1>9. StoreTyped(stored') /\ RegistryTyped(registry') /\ SweepTyped(sweep', open')
  BY <1>1 DEF HInv
<1> QED BY <1>1, <1>3, <1>8, <1>9, GoesOn

LEMMA RenameStep == ASSUME HInv, NEW r \in Request, Rename(r) PROVE HInv'
<1>1. /\ req[r].pc = "rename" /\ Answer(r) /\ UNCHANGED <<up, nodes, open, stored, sweep, faults>>
      /\ registry' = [registry EXCEPT ![req[r].gid] = IF @ = None THEN "none" ELSE @]
  BY DEF Rename, memory
<1>2. up /\ req[r].gid \in Gid
  BY <1>1, Running, RequestOf
<1>3. Memory(nodes', req', open', stored')
  BY <1>1, AnswerKeeps
<1>4. RegistryTyped(registry')
  BY <1>1, <1>2 DEF HInv, RegistryTyped
<1>5. StoreTyped(stored') /\ SweepTyped(sweep', open')
  BY <1>1 DEF HInv
<1> QED BY <1>1, <1>2, <1>3, <1>4, <1>5, GoesOn

-----------------------------------------------------------------------------
(***************************************************************************)
(* The sweep, and envelopes that are delivered meanwhile.                  *)
(***************************************************************************)
LEMMA NoSweepTyped == ASSUME NEW op PROVE SweepTyped(NoSweep, op) /\ NoSweep.pc = "idle"
BY DEF SweepTyped, NoSweep, AtWork

LEMMA WithPoolIsGroup ==
    ASSUME HInv, NEW g \in Gid, IsOpen(g), NEW h \in Gid, NEW p \in Pool
    PROVE  WithPool(g, h, p) \in Group /\ WithPool(g, h, p).members = StateOf(g).members
<1> DEFINE s == StateOf(g)
<1>1. s \in Group
  BY OpenOf
<1>2. WithPool(g, h, p) = [s EXCEPT !.pool[h] = p]
  BY DEF WithPool
<1> HIDE DEF s
<1>3. [s EXCEPT !.pool[h] = p] \in Group /\ [s EXCEPT !.pool[h] = p].members = s.members
  BY <1>1 DEF Group
<1> QED BY <1>2, <1>3 DEF s

LEMMA ClosedIsGroup ==
    ASSUME HInv, NEW g \in Gid, IsOpen(g), NEW h \in Gid
    PROVE  Closed(g, h) \in Group /\ Closed(g, h).members = StateOf(g).members
<1> DEFINE p == IF StateOf(g).pool[h] = "open" THEN "closed" ELSE StateOf(g).pool[h]
<1>1. p \in Pool
  BY OpenOf DEF Group, Pool
<1> HIDE DEF p
<1>2. Closed(g, h) = WithPool(g, h, p)
  BY DEF Closed, p
<1> QED BY <1>1, <1>2, WithPoolIsGroup

LEMMA NotNew ==
    ASSUME HInv, NEW g \in Gid
    PROVE  \A p \in Request : req[p].pc = "save" => req[p].node # open[g]
BY DEF HInv, Memory, Exclusive, Fresh

LEMMA OpenSaves ==
    ASSUME HInv, NEW g \in Gid, IsOpen(g), NEW s \in Group, Wrote(open[g], s),
           UNCHANGED <<up, open, req, registry>>, SweepTyped(sweep', open),
           faults' = faults \/ Fault
    PROVE  HInv'
<1> DEFINE n == open[g]
<1>1. n \in DOMAIN nodes /\ up
  BY OpenOf, Running
<1>2. \A r \in Request : req'[r].pc = "save" => req'[r].node # n
  BY NotNew
<1> HIDE DEF n
<1>3. Sound(nodes, req', open', stored)
  BY HInvSound
<1>4. Memory(nodes', req', open', stored') /\ StoreTyped(stored')
  BY <1>1, <1>2, <1>3, Saves DEF n
<1>5. RegistryTyped(registry') /\ SweepTyped(sweep', open')
  BY DEF HInv
<1> QED BY <1>1, <1>4, <1>5, GoesOn

LEMMA ExitsUnsaved ==
    ASSUME HInv, Exit, UNCHANGED <<stored, faults, registry>> PROVE HInv'
<1>1. StoreTyped(stored') /\ RegistryTyped(registry')
  BY DEF HInv
<1> QED BY <1>1, Exits

LEMMA HandlingStep ==
    ASSUME HInv, NEW g \in Gid, IsOpen(g), NEW s \in Group, Handling(g, s), UNCHANGED registry
    PROVE  HInv'
<1>1. open[g] \in DOMAIN nodes /\ SweepTyped(sweep, open)
  BY OpenOf DEF HInv
<1>2. \/ Exit /\ UNCHANGED <<stored, faults>>
      \/ Wrote(open[g], s) /\ UNCHANGED <<up, open, req, sweep>> /\ (faults' = faults \/ Fault)
  BY <1>1, HandlingIs
<1>3. CASE Exit /\ UNCHANGED <<stored, faults>>
  BY <1>3, ExitsUnsaved
<1>4. CASE Wrote(open[g], s) /\ UNCHANGED <<up, open, req, sweep>> /\ (faults' = faults \/ Fault)
  BY <1>1, <1>4, OpenSaves
<1> QED BY <1>2, <1>3, <1>4

LEMMA SweepingStep ==
    ASSUME HInv, NEW g \in Gid, IsOpen(g), NEW s \in Group, NEW next, NEW failed,
           Sweeping(g, s, next, failed), SweepTyped(next, open), SweepTyped(failed, open),
           UNCHANGED registry
    PROVE  HInv'
<1>1. open[g] \in DOMAIN nodes
  BY OpenOf
<1>2. \/ Exit /\ UNCHANGED <<stored, faults>>
      \/ /\ Wrote(open[g], s) /\ UNCHANGED <<up, open, req>>
         /\ sweep' = next \/ sweep' = failed
         /\ faults' = faults \/ Fault
  BY <1>1, SweepingIs
<1>3. CASE Exit /\ UNCHANGED <<stored, faults>>
  BY <1>3, ExitsUnsaved
<1>4. CASE /\ Wrote(open[g], s) /\ UNCHANGED <<up, open, req>>
           /\ sweep' = next \/ sweep' = failed
           /\ faults' = faults \/ Fault
  <2>1. SweepTyped(sweep', open)
    BY <1>4
  <2> QED BY <1>4, <2>1, OpenSaves
<1> QED BY <1>2, <1>3, <1>4

LEMMA DeliverStep == ASSUME HInv, NEW g \in Gid, NEW h \in Gid, Deliver(g, h) PROVE HInv'
<1>1. IsOpen(h) /\ Handling(h, WithPool(h, g, "closed")) /\ UNCHANGED registry
  BY DEF Deliver
<1>2. WithPool(h, g, "closed") \in Group
  BY <1>1, WithPoolIsGroup DEF Pool
<1> QED BY <1>1, <1>2, HandlingStep

LEMMA PaidInIs == \A p \in Pool : PaidIn(p) \in Pool
BY DEF PaidIn, Pool

LEMMA PoolIs ==
    ASSUME HInv, NEW g \in Gid, IsOpen(g), NEW h \in Gid PROVE StateOf(g).pool[h] \in Pool
BY OpenOf DEF Group

LEMMA ArriveStep == ASSUME HInv, NEW g \in Gid, NEW h \in Gid, Arrive(g, h) PROVE HInv'
<1> DEFINE p == PaidIn(StateOf(h).pool[g])
<1>1. IsOpen(h) /\ Handling(h, WithPool(h, g, p)) /\ UNCHANGED registry
  BY DEF Arrive
<1>2. p \in Pool
  BY <1>1, PoolIs, PaidInIs
<1> HIDE DEF p
<1>3. WithPool(h, g, p) \in Group
  BY <1>1, <1>2, WithPoolIsGroup
<1> QED BY <1>1, <1>3, HandlingStep

(* The sweep goes on by itself.                                            *)
LEMMA SweepGoesOn ==
    ASSUME HInv, up, UNCHANGED <<up, nodes, open, stored, req>>, SweepTyped(sweep', open),
           RegistryTyped(registry'), faults' = faults \/ Fault
    PROVE  HInv'
<1>1. Memory(nodes', req', open', stored') /\ StoreTyped(stored') /\ SweepTyped(sweep', open')
  BY DEF HInv
<1> QED BY <1>1, GoesOn

LEMMA CronStep == ASSUME HInv, Cron PROVE HInv'
<1>1. /\ up /\ UNCHANGED <<up, nodes, open, registry, stored, req, faults>>
      /\ sweep' = [NoSweep EXCEPT !.pc = "next", !.todo = {g \in Gid : Due(g)}]
  BY DEF Cron, memory
<1>2. SweepTyped(sweep', open)
  BY <1>1 DEF SweepTyped, NoSweep, AtWork
<1>3. RegistryTyped(registry')
  BY <1>1 DEF HInv
<1> QED BY <1>1, <1>2, <1>3, SweepGoesOn

LEMMA SweepNextStep == ASSUME HInv, SweepNext PROVE HInv'
<1>1. sweep.pc = "next" /\ UNCHANGED <<up, nodes, open, registry, stored, req, faults>>
  BY DEF SweepNext, memory
<1>2. SweepTyped(sweep, open) /\ up
  BY <1>1, Running DEF HInv
<1>3. CASE sweep.todo = {}
  <2>1. sweep' = NoSweep
    BY <1>3 DEF SweepNext
  <2>2. SweepTyped(sweep', open) /\ RegistryTyped(registry')
    BY <1>1, <2>1, NoSweepTyped DEF HInv
  <2> QED BY <1>1, <1>2, <2>2, SweepGoesOn
<1>4. CASE sweep.todo # {}
  <2>1. PICK g \in sweep.todo :
          sweep' = [sweep EXCEPT !.todo = @ \ {g},
                                 !.pc = IF Skipped(g) THEN "next" ELSE "remove", !.gid = g]
    BY <1>4 DEF SweepNext
  <2>2. g \in Gid
    BY <1>2 DEF SweepTyped
  <2>3. SweepTyped(sweep', open)
    BY <1>2, <2>1, <2>2 DEF SweepTyped, AtWork
  <2>4. RegistryTyped(registry')
    BY <1>1 DEF HInv
  <2> QED BY <1>1, <1>2, <2>3, <2>4, SweepGoesOn
<1> QED BY <1>3, <1>4

LEMMA RemoveStep == ASSUME HInv, Remove PROVE HInv'
<1>1. /\ sweep.pc = "remove" /\ UNCHANGED <<up, nodes, open, registry, stored, req, faults>>
      /\ sweep' = [sweep EXCEPT !.pc = IF IsOpen(sweep.gid) THEN "close" ELSE "delete",
                                !.peers = {h \in Gid \ {sweep.gid} : IsOpen(h)}]
  BY DEF Remove, memory
<1>2. SweepTyped(sweep, open) /\ up
  BY <1>1, Running DEF HInv
<1>3. SweepTyped(sweep', open)
  BY <1>1, <1>2 DEF SweepTyped, AtWork, IsOpen
<1>4. RegistryTyped(registry')
  BY <1>1 DEF HInv
<1> QED BY <1>1, <1>2, <1>3, <1>4, SweepGoesOn

LEMMA CloseHereStep == ASSUME HInv, NEW h \in Gid, CloseHere(h) PROVE HInv'
<1> DEFINE g == sweep.gid
           next == [sweep EXCEPT !.pc = "close there", !.peers = @ \ {h}, !.peer = h]
<1>1. /\ sweep.pc = "close" /\ h \in sweep.peers /\ UNCHANGED registry
      /\ IF StateOf(h).pool[g] = "none"
         THEN sweep' = [sweep EXCEPT !.peers = @ \ {h}]
              /\ UNCHANGED <<up, nodes, open, stored, req, faults>>
         ELSE Sweeping(g, Closed(g, h), next, next)
  BY DEF CloseHere, memory
<1>2. SweepTyped(sweep, open) /\ up
  BY <1>1, Running DEF HInv
<1>3. g \in Gid /\ IsOpen(g) /\ IsOpen(h)
  BY <1>1, <1>2 DEF SweepTyped, AtWork, IsOpen
<1>4. SweepTyped(next, open)
  BY <1>1, <1>2, <1>3 DEF SweepTyped, AtWork, IsOpen
<1>5. Closed(g, h) \in Group
  BY <1>3, ClosedIsGroup
<1> HIDE DEF next
<1>6. CASE StateOf(h).pool[g] = "none"
  <2>1. /\ sweep' = [sweep EXCEPT !.peers = @ \ {h}]
        /\ UNCHANGED <<up, nodes, open, stored, req, faults>>
    BY <1>1, <1>6
  <2>2. SweepTyped(sweep', open)
    BY <1>1, <1>2, <2>1 DEF SweepTyped, AtWork
  <2>3. RegistryTyped(registry')
    BY <1>1 DEF HInv
  <2> QED BY <1>1, <1>2, <2>1, <2>2, <2>3, SweepGoesOn
<1>7. CASE StateOf(h).pool[g] # "none"
  <2>1. Sweeping(g, Closed(g, h), next, next)
    BY <1>1, <1>7
  <2> QED BY <2>1, <1>1, <1>3, <1>4, <1>5, SweepingStep
<1> QED BY <1>6, <1>7

(* Where the sweep is when it has a peer.                                  *)
LEMMA AtPeer ==
    ASSUME HInv, sweep.pc \in {"close there", "retire"}
    PROVE  /\ up /\ SweepTyped(sweep, open)
           /\ sweep.gid \in Gid /\ IsOpen(sweep.gid) /\ sweep.peer \in Gid /\ IsOpen(sweep.peer)
           /\ SweepTyped([sweep EXCEPT !.pc = "retire"], open)
           /\ SweepTyped([sweep EXCEPT !.pc = "close"], open)
<1>1. SweepTyped(sweep, open) /\ up
  BY Running DEF HInv
<1>2. /\ sweep.gid \in Gid /\ open[sweep.gid] # None /\ sweep.peer \in Gid
      /\ open[sweep.peer] # None /\ \A h \in sweep.peers : open[h] # None
  BY <1>1 DEF SweepTyped, AtWork
<1>3. SweepTyped([sweep EXCEPT !.pc = "retire"], open)
  BY <1>1, <1>2 DEF SweepTyped, AtWork
<1>4. SweepTyped([sweep EXCEPT !.pc = "close"], open)
  BY <1>1, <1>2 DEF SweepTyped, AtWork
<1> QED BY <1>1, <1>2, <1>3, <1>4 DEF IsOpen

LEMMA CloseThereStep == ASSUME HInv, CloseThere PROVE HInv'
<1> DEFINE h == sweep.peer
           s == Closed(h, sweep.gid)
           next == [sweep EXCEPT !.pc = "retire"]
<1>1. sweep.pc = "close there" /\ Sweeping(h, s, next, next) /\ UNCHANGED registry
  BY DEF CloseThere
<1>2. sweep.gid \in Gid /\ h \in Gid /\ IsOpen(h) /\ SweepTyped(next, open)
  BY <1>1, AtPeer
<1>3. s \in Group
  BY <1>2, ClosedIsGroup
<1> HIDE DEF h, s, next
<1> QED BY <1>1, <1>2, <1>3, SweepingStep

LEMMA RetireReserveStep == ASSUME HInv, RetireReserve PROVE HInv'
<1> DEFINE h == sweep.peer
           g == sweep.gid
           s == WithPool(h, g, "retired")
           next == [sweep EXCEPT !.pc = "close"]
           done == StateOf(h).pool[g] \notin {"closed", "refilled"}
<1>1. /\ sweep.pc = "retire" /\ UNCHANGED registry
      /\ IF done THEN sweep' = next /\ UNCHANGED <<up, nodes, open, stored, req, faults>>
         ELSE Sweeping(h, s, next, NoSweep)
  BY DEF RetireReserve, memory, RetireFailed
<1>2. /\ up /\ g \in Gid /\ h \in Gid /\ IsOpen(h)
      /\ SweepTyped(next, open) /\ SweepTyped(NoSweep, open)
  BY <1>1, AtPeer, NoSweepTyped
<1>3. s \in Group
  BY <1>2, WithPoolIsGroup DEF Pool
<1> HIDE DEF h, g, s, next, done
<1>4. CASE done
  <2>1. sweep' = next /\ UNCHANGED <<up, nodes, open, stored, req, faults>>
    BY <1>1, <1>4
  <2>2. RegistryTyped(registry')
    BY <1>1 DEF HInv
  <2> QED BY <1>2, <2>1, <2>2, SweepGoesOn
<1>5. CASE ~done
  BY <1>1, <1>2, <1>3, <1>5, SweepingStep
<1> QED BY <1>4, <1>5

LEMMA ForgetStep == ASSUME HInv, Forget PROVE HInv'
<1> DEFINE g == sweep.gid
<1>1. /\ sweep.pc = "close" /\ sweep.peers = {} /\ Remember(nodes)
      /\ open' = [open EXCEPT ![g] = None] /\ sweep' = [sweep EXCEPT !.pc = "delete"]
      /\ UNCHANGED <<up, registry, stored, req, faults>>
  BY DEF Forget
<1>2. SweepTyped(sweep, open) /\ up
  BY <1>1, Running DEF HInv
<1>3. g \in Gid
  BY <1>1, <1>2 DEF SweepTyped, AtWork
<1>4. SweepTyped(sweep', open')
  BY <1>1, <1>2 DEF SweepTyped, AtWork
<1> HIDE DEF g
<1>5. open \in [Gid -> NodeId \cup {None}]
  BY DEF HInv, Memory, OpenTyped
<1>6. /\ open' \in [Gid -> NodeId \cup {None}]
      /\ \A k \in Gid : open'[k] = open[k] \/ open'[k] = None
  BY <1>1, <1>3, <1>5
<1>7. OpenTyped(open', nodes)
  BY <1>6 DEF HInv, Memory, OpenTyped
<1>8. Exclusive(req', open')
  <2>1. ASSUME NEW r \in Request, req[r].pc \in Fresh
        PROVE  \A k \in Gid : open'[k] # req[r].node
    <3>1. req[r].pc # "idle" /\ req[r].pc \in Holding
      BY <2>1 DEF Fresh, Holding
    <3>2. req[r].node # None
      BY <3>1, RequestOf, NodeOf
    <3>3. \A k \in Gid : open[k] # req[r].node
      BY <2>1 DEF HInv, Memory, Exclusive
    <3> QED BY <3>2, <3>3, <1>6
  <2> QED BY <2>1, <1>1 DEF HInv, Memory, Exclusive
<1>9. Memory(nodes', req', open', stored')
  <2>1. Sound(nodes, req', open', stored')
    BY <1>1, <1>7, <1>8 DEF HInv, Memory, Sound
  <2> QED BY <2>1, <1>1, Remembers
<1>10. StoreTyped(stored') /\ RegistryTyped(registry')
  BY <1>1 DEF HInv
<1> QED BY <1>1, <1>2, <1>4, <1>9, <1>10, GoesOn

(* What Delete leaves of the group.                                        *)
LEMMA RemainsIs ==
    ASSUME HInv, NEW g \in Gid, NEW rest, Remains(g, rest)
    PROVE  /\ stored'[g] = rest /\ \A k \in Gid : k # g => stored'[k] = stored[k]
           /\ stored' = [stored EXCEPT ![g] = rest]
           /\ DOMAIN nodes' = DOMAIN nodes /\ nodes' = [n \in DOMAIN nodes' |-> nodes'[n]]
           /\ \A n \in DOMAIN nodes :
                 /\ nodes'[n] \in Node /\ nodes'[n].gid = nodes[n].gid
                 /\ nodes'[n].state = nodes[n].state
                 /\ nodes'[n].version = IF /\ rest = None /\ nodes[n].gid = g
                                           /\ nodes[n].version # "zero"
                                        THEN "more" ELSE nodes[n].version
<1>1. stored' = [stored EXCEPT ![g] = rest] /\ DOMAIN stored = Gid
  BY HInvSound DEF Remains
<1>2. nodes = [n \in DOMAIN nodes |-> nodes[n]] /\ \A n \in DOMAIN nodes : nodes[n] \in Node
  BY DEF HInv, Memory, NodesTyped
<1>3. CASE rest # None
  <2>1. nodes' = nodes
    BY <1>3 DEF Remains
  <2> QED BY <2>1, <1>1, <1>2, <1>3
<1>4. CASE rest = None
  <2>1. nodes' = [n \in DOMAIN nodes |->
                    IF nodes[n].gid = g /\ nodes[n].version # "zero"
                    THEN [nodes[n] EXCEPT !.version = "more"] ELSE nodes[n]]
    BY <1>4 DEF Remains, NothingStored
  <2>2. DOMAIN nodes' = DOMAIN nodes /\ nodes' = [n \in DOMAIN nodes' |-> nodes'[n]]
    BY <2>1
  <2>3. ASSUME NEW n \in DOMAIN nodes
        PROVE  /\ nodes'[n] \in Node /\ nodes'[n].gid = nodes[n].gid
               /\ nodes'[n].state = nodes[n].state
               /\ nodes'[n].version = IF nodes[n].gid = g /\ nodes[n].version # "zero"
                                      THEN "more" ELSE nodes[n].version
    BY <1>2, <2>1, <2>3 DEF Node
  <2> QED BY <2>2, <2>3, <1>1, <1>4
<1> QED BY <1>3, <1>4

LEMMA DeletesMemory ==
    ASSUME HInv, NEW g \in Gid, NEW rest \in Group \cup {None, Broken}, Remains(g, rest),
           rest # None \/ stored[g] # None, rest = None \/ stored[g] # None,
           UNCHANGED <<req, open>>
    PROVE  Memory(nodes', req', open', stored') /\ StoreTyped(stored')
<1>1. /\ stored'[g] = rest /\ \A k \in Gid : k # g => stored'[k] = stored[k]
      /\ stored' = [stored EXCEPT ![g] = rest]
      /\ DOMAIN nodes' = DOMAIN nodes /\ nodes' = [n \in DOMAIN nodes' |-> nodes'[n]]
      /\ \A n \in DOMAIN nodes :
            /\ nodes'[n] \in Node /\ nodes'[n].gid = nodes[n].gid
            /\ nodes'[n].version = IF /\ rest = None /\ nodes[n].gid = g
                                      /\ nodes[n].version # "zero"
                                   THEN "more" ELSE nodes[n].version
  BY RemainsIs
<1>2. \A r \in Request : req'[r].pc = "save" => nodes'[req'[r].node].version = "zero"
  <2>1. \A r \in Request : req[r].pc = "save" =>
           req[r].node \in DOMAIN nodes /\ nodes[req[r].node].version = "zero"
    BY DEF HInv, Memory, RequestsTyped, Serves, Holding, Fresh
  <2> QED BY <1>1, <2>1
<1>3. Versioned(nodes', stored')
  <2> SUFFICES ASSUME NEW n \in DOMAIN nodes, nodes'[n].version \in {"equal", "less", "match"}
               PROVE  stored'[nodes[n].gid] # None
    BY <1>1 DEF Versioned
  <2>1. nodes[n].version \in {"equal", "less", "match"} /\ (rest = None => nodes[n].gid # g)
    BY <1>1
  <2>2. stored[nodes[n].gid] # None /\ nodes[n].gid \in Gid
    BY <2>1, NodeOf DEF HInv, Memory, Versioned
  <2> QED BY <1>1, <2>1, <2>2
<1>4. Sound(nodes', req', open', stored')
  BY <1>1, <1>2, <1>3, HInvSound, ChangedSound
<1>5. Reached(nodes', req', open')
  BY <1>1 DEF HInv, Memory, Reached
<1>6. StoreTyped(stored')
  BY <1>1 DEF HInv, StoreTyped
<1> QED BY <1>4, <1>5, <1>6 DEF Memory, Sound

LEMMA DeleteStep == ASSUME HInv, Delete PROVE HInv'
<1> DEFINE g == sweep.gid
<1>1. /\ sweep.pc \in {"delete", "deleting"} /\ UNCHANGED <<up, open, registry, req>>
      /\ \/ stored' = stored /\ nodes' = nodes
         \/ \E rest \in {stored[g], Broken, None} : stored[g] # None /\ Remains(g, rest)
         \/ stored[g] = None /\ Remains(g, None)
      /\ \/ sweep' = [sweep EXCEPT !.pc = "unregister"] \/ sweep' = NoSweep
         \/ sweep' = [sweep EXCEPT !.pc = "deleting"]
      /\ faults' = faults \/ Fault
  BY DEF Delete
<1>2. SweepTyped(sweep, open) /\ up
  BY <1>1, Running DEF HInv
<1>3. g \in Gid /\ stored[g] \in Group \cup {None, Broken}
  BY <1>1, <1>2 DEF HInv, SweepTyped, AtWork, StoreTyped
<1>4. SweepTyped(sweep', open')
  <2>1. SweepTyped([sweep EXCEPT !.pc = "unregister"], open)
    BY <1>2, <1>3 DEF SweepTyped, AtWork
  <2>2. SweepTyped([sweep EXCEPT !.pc = "deleting"], open)
    BY <1>2, <1>3 DEF SweepTyped, AtWork
  <2> QED BY <2>1, <2>2, <1>1, NoSweepTyped
<1> HIDE DEF g
<1>5. Memory(nodes', req', open', stored') /\ StoreTyped(stored')
  <2>1. CASE stored' = stored /\ nodes' = nodes
    BY <2>1, <1>1 DEF HInv
  <2>2. CASE \E rest \in {stored[g], Broken, None} : stored[g] # None /\ Remains(g, rest)
    BY <2>2, <1>1, <1>3, DeletesMemory
  <2>3. CASE stored[g] = None /\ Remains(g, None)
    <3>1. /\ stored' = [stored EXCEPT ![g] = None] /\ DOMAIN nodes' = DOMAIN nodes
          /\ nodes' = [n \in DOMAIN nodes' |-> nodes'[n]]
          /\ \A n \in DOMAIN nodes :
                /\ nodes'[n] \in Node /\ nodes'[n].gid = nodes[n].gid
                /\ nodes'[n].version \in {nodes[n].version, "more"}
                /\ nodes[n].version = "zero" => nodes'[n].version = "zero"
      BY <2>3, <1>3, RemainsIs
    <3>2. stored' = stored
      BY <2>3, <3>1, <1>3 DEF HInv, StoreTyped
    <3>3. \A r \in Request : req[r].pc = "save" => nodes'[req[r].node].version = "zero"
      <4>1. \A r \in Request : req[r].pc = "save" =>
               req[r].node \in DOMAIN nodes /\ nodes[req[r].node].version = "zero"
        BY DEF HInv, Memory, RequestsTyped, Serves, Holding, Fresh
      <4> QED BY <3>1, <4>1
    <3>4. Versioned(nodes', stored')
      BY <3>1, <3>2 DEF HInv, Memory, Versioned
    <3>5. Sound(nodes', req', open', stored')
      BY <3>1, <3>3, <3>4, <1>1, HInvSound, ChangedSound
    <3>6. Reached(nodes', req', open')
      BY <3>1, <1>1 DEF HInv, Memory, Reached
    <3> QED BY <3>2, <3>5, <3>6 DEF HInv, Memory, Sound
  <2> QED BY <2>1, <2>2, <2>3, <1>1
<1>6. RegistryTyped(registry')
  BY <1>1 DEF HInv
<1> QED BY <1>1, <1>2, <1>4, <1>5, <1>6, GoesOn

LEMMA UnregisterStep == ASSUME HInv, Unregister PROVE HInv'
<1> DEFINE g == sweep.gid
<1>1. /\ sweep.pc = "unregister" /\ UNCHANGED <<up, nodes, open, stored, req>>
      /\ registry' = registry \/ registry' = [registry EXCEPT ![g] = None]
      /\ sweep' = [sweep EXCEPT !.pc = "next"] \/ sweep' = NoSweep
      /\ faults' = faults \/ Fault
  BY DEF Unregister, memory
<1>2. SweepTyped(sweep, open) /\ up
  BY <1>1, Running DEF HInv
<1>3. g \in Gid
  BY <1>1, <1>2 DEF SweepTyped, AtWork
<1>4. SweepTyped(sweep', open)
  <2>1. SweepTyped([sweep EXCEPT !.pc = "next"], open)
    BY <1>2, <1>3 DEF SweepTyped, AtWork
  <2> QED BY <2>1, <1>1, NoSweepTyped
<1> HIDE DEF g
<1>5. RegistryTyped(registry')
  BY <1>1, <1>3 DEF HInv, RegistryTyped
<1> QED BY <1>1, <1>2, <1>4, <1>5, SweepGoesOn

-----------------------------------------------------------------------------
(***************************************************************************)
(* The process starts and ends, time passes.                               *)
(***************************************************************************)
LEMMA CrashStep == ASSUME HInv, Crash PROVE HInv'
<1>1. Fault /\ Exit /\ UNCHANGED <<registry, stored>>
  BY DEF Crash
<1>2. StoreTyped(stored') /\ RegistryTyped(registry')
  BY <1>1 DEF HInv
<1> QED BY <1>1, <1>2, Exits

LEMMA OpenedMemory ==
    ASSUME NEW gs \in SUBSET Gid, NEW st, StoreTyped(st), \A g \in gs : st[g] \in Group,
           NEW rq, DOMAIN rq = Request, rq = [r \in Request |-> rq[r]],
           \A r \in Request : rq[r] = Idle
    PROVE  Memory(Loaded(gs, st), rq, Opened(gs), st)
<1> DEFINE op == Opened(gs)
           ns == Loaded(gs, st)
<1>1. /\ op \in [Gid -> NodeId \cup {None}]
      /\ \A g \in Gid : op[g] = None <=> g \notin gs
      /\ \A g, h \in gs : op[g] = op[h] => g = h
  BY OpenedIs
<1>2. /\ DOMAIN ns = {op[g] : g \in gs} /\ ns = [n \in DOMAIN ns |-> ns[n]]
      /\ \A g \in gs : ns[op[g]] = [gid |-> g, state |-> st[g], version |-> "equal"]
  BY LoadedIs
<1> HIDE DEF op, ns
<1>3. \A n \in DOMAIN ns : \E g \in gs : n = op[g]
  BY <1>2
<1>4. ASSUME NEW g \in gs
      PROVE  /\ op[g] \in NodeId /\ ns[op[g]].gid = g /\ ns[op[g]].state = st[g]
             /\ ns[op[g]] \in Node
  <2>1. ns[op[g]] = [gid |-> g, state |-> st[g], version |-> "equal"]
    BY <1>2
  <2>2. op[g] \in NodeId
    BY <1>1
  <2>3. g \in Gid /\ st[g] \in Group
    OBVIOUS
  <2> QED BY <2>1, <2>2, <2>3 DEF Node
<1>5. NodesTyped(ns)
  BY <1>2, <1>3, <1>4 DEF NodesTyped
<1>6. OpenTyped(op, ns)
  BY <1>1, <1>2, <1>4 DEF OpenTyped
<1>7. RequestsTyped(rq, ns)
  BY IdleServes DEF RequestsTyped
<1>8. Exclusive(rq, op)
  BY IdleServes DEF Exclusive
<1>9. Reached(ns, rq, op)
  BY <1>3 DEF Reached
<1>10. Versioned(ns, st)
  BY <1>3, <1>4, NothingAssumption DEF Versioned
<1> QED BY <1>5, <1>6, <1>7, <1>8, <1>9, <1>10 DEF Memory, op, ns

LEMMA StartStep == ASSUME HInv, Start PROVE HInv'
<1> DEFINE gs == Registered
<1>1. /\ ~up /\ up' = TRUE /\ \A g \in gs : Startable(g)
      /\ stored' = [g \in Gid |-> IF g \in gs /\ stored[g] = None THEN NewGroup
                                  ELSE stored[g]]
      /\ open' = Opened(gs) /\ nodes' = Loaded(gs, stored')
      /\ UNCHANGED <<registry, req, sweep, faults>>
  BY DEF Start
<1>2. gs \in SUBSET Gid
  BY DEF Registered
<1> HIDE DEF gs
<1>3. sweep = NoSweep /\ \A r \in Request : req[r] = Idle
  BY <1>1 DEF HInv, IsDown
<1>4. StoreTyped(stored') /\ \A g \in gs : stored'[g] \in Group
  BY <1>1, <1>2, NewGroupIsGroup DEF HInv, StoreTyped, Startable
<1>5. Memory(nodes', req', open', stored')
  <2>1. DOMAIN req = Request /\ req = [r \in Request |-> req[r]]
    BY DEF HInv, Memory, RequestsTyped
  <2>2. Memory(Loaded(gs, stored'), req, Opened(gs), stored')
    BY <2>1, <1>2, <1>3, <1>4, OpenedMemory
  <2> QED BY <2>2, <1>1
<1>6. SweepTyped(sweep', open') /\ RegistryTyped(registry')
  BY <1>1, <1>3, NoSweepTyped DEF HInv
<1> QED BY <1>1, <1>4, <1>5, <1>6 DEF HInv

LEMMA GracePassesStep == ASSUME HInv, GracePasses PROVE HInv'
<1>1. /\ UNCHANGED <<up, nodes, open, stored, req, sweep, faults>>
      /\ registry' = [g \in Gid |-> IF registry[g] = "fresh" THEN "due" ELSE registry[g]]
  BY DEF GracePasses, memory
<1>2. RegistryTyped(registry')
  BY <1>1 DEF HInv, RegistryTyped
<1> QED BY <1>1, <1>2 DEF HInv

-----------------------------------------------------------------------------
LEMMA HInvInit == ObservedInit => HInv
<1> SUFFICES ASSUME ObservedInit PROVE HInv
  OBVIOUS
<1>1. /\ up = TRUE
      /\ registry = [g \in Gid |-> IF g \in Old THEN "none" ELSE None]
      /\ stored = [g \in Gid |-> IF g \in Old THEN OldGroup(g) ELSE None]
      /\ open = Opened(Old) /\ nodes = Loaded(Old, stored)
      /\ req = [r \in Request |-> Idle] /\ sweep = NoSweep /\ faults = 0
  BY DEF ObservedInit, Init
<1>2. Old \in SUBSET Gid /\ faults \in 0..MaxFaults
  BY <1>1, HostAssumption
<1>3. \A g \in Gid : OldGroup(g) \in Group
  BY DEF OldGroup, Group, Pool
<1>4. StoreTyped(stored) /\ \A g \in Old : stored[g] \in Group
  BY <1>1, <1>2, <1>3 DEF StoreTyped
<1>5. DOMAIN req = Request /\ req = [r \in Request |-> req[r]] /\ \A r \in Request : req[r] = Idle
  BY <1>1
<1>6. Memory(nodes, req, open, stored)
  BY <1>1, <1>2, <1>4, <1>5, OpenedMemory
<1>7. RegistryTyped(registry)
  BY <1>1 DEF RegistryTyped
<1> QED BY <1>1, <1>2, <1>4, <1>6, <1>7, NoSweepTyped DEF HInv

LEMMA RequestStep == ASSUME HInv, NEW r \in Request, Ask(r) \/ Serve(r) PROVE HInv'
<1>1. CASE Ask(r)
  BY <1>1, AskStep
<1>2. CASE Load(r) \/ SaveNew(r) \/ Insert(r) \/ Register(r)
  BY <1>2, LoadStep, SaveNewStep, InsertStep, RegisterStep
<1>3. CASE Change(r) \/ Other(r) \/ Look(r) \/ Mark(r) \/ Rename(r)
  BY <1>3, ChangeStep, OtherStep, LookStep, MarkStep, RenameStep
<1> QED BY <1>1, <1>2, <1>3, Zenon DEF Serve

LEMMA SweepStep == ASSUME HInv, Sweep PROVE HInv'
<1>1. CASE SweepNext \/ Remove \/ (\E h \in Gid : CloseHere(h)) \/ CloseThere
  BY <1>1, SweepNextStep, RemoveStep, CloseHereStep, CloseThereStep
<1>2. CASE RetireReserve \/ Forget \/ Delete \/ Unregister
  BY <1>2, RetireReserveStep, ForgetStep, DeleteStep, UnregisterStep
<1> QED BY <1>1, <1>2, Zenon DEF Sweep

LEMMA HInvNext == HInv /\ [Next /\ Observe]_allVars => HInv'
<1> SUFFICES ASSUME HInv, [Next /\ Observe]_allVars PROVE HInv'
  OBVIOUS
<1>1. CASE \E r \in Request : Ask(r) \/ Serve(r)
  BY <1>1, RequestStep
<1>2. CASE \E g, h \in Gid : Deliver(g, h) \/ Arrive(g, h)
  BY <1>2, DeliverStep, ArriveStep
<1>3. CASE Cron \/ Sweep
  BY <1>3, CronStep, SweepStep
<1>4. CASE Crash \/ Start \/ GracePasses
  BY <1>4, CrashStep, StartStep, GracePassesStep
<1>5. CASE UNCHANGED allVars
  BY <1>5 DEF allVars, vars, HInv
<1> QED BY <1>1, <1>2, <1>3, <1>4, <1>5, Zenon DEF Next

LEMMA HostInvariant == Spec => []HInv
<1> QED BY HInvInit, HInvNext, PTL DEF Spec

(* The accepts under way are between groups.                               *)
Ways == accepts \subseteq Gid \X Gid

LEMMA WaysInit == ObservedInit => Ways
BY DEF ObservedInit, Init, Ways

LEMMA WaysNext == HInv /\ Ways /\ [Next /\ Observe]_allVars => Ways'
<1> SUFFICES ASSUME HInv, Ways, [Next /\ Observe]_allVars PROVE Ways'
  OBVIOUS
<1>1. CASE \E r \in Request : Ask(r) \/ Serve(r)
  <2>1. accepts' = accepts
    BY <1>1 DEF Ask, Serve, Load, SaveNew, Insert, Register, Change, Other, Look, Mark, Rename
  <2> QED BY <2>1 DEF Ways
<1>2. CASE \E g, h \in Gid : Deliver(g, h) \/ Arrive(g, h)
  BY <1>2 DEF Deliver, Arrive, Ways
<1>3. CASE \E h \in Gid : CloseHere(h)
  <2>1. PICK h \in Gid : CloseHere(h)
    BY <1>3
  <2>2. sweep.gid \in Gid
    BY <2>1 DEF CloseHere, HInv, SweepTyped, AtWork
  <2>3. Accepted(sweep.gid, h) \subseteq Gid \X Gid
    BY <2>2 DEF Accepted
  <2>4. accepts' = accepts \/ \E sent \in SUBSET Accepted(sweep.gid, h) : accepts' = accepts \cup sent
    BY <2>1 DEF CloseHere
  <2> QED BY <2>3, <2>4 DEF Ways
<1>4. CASE SweepNext \/ Remove \/ CloseThere \/ RetireReserve \/ Forget \/ Delete \/ Unregister
  <2>1. accepts' = accepts
    BY <1>4 DEF SweepNext, Remove, CloseThere, RetireReserve, Forget, Delete, Unregister
  <2> QED BY <2>1 DEF Ways
<1>5. CASE Cron \/ Crash \/ Start \/ GracePasses \/ UNCHANGED allVars
  BY <1>5 DEF Cron, Crash, Start, GracePasses, allVars, vars, Ways
<1> QED BY <1>1, <1>2, <1>3, <1>4, <1>5, Zenon DEF Next, Sweep

(* Whoever asks for whatever while the sweep is at work, Saves fail and    *)
(* the process ends and starts again: an open group is served by a node of *)
(* that group, a node's version is one of something that is stored (Save   *)
(* compares versions, dsstore.go), and a process that is down has left     *)
(* nothing behind but the stores.                                          *)
THEOREM HostTypesKept == Spec => []TypeOK
<1>1. HInv /\ Ways => TypeOK
  <2> SUFFICES ASSUME HInv, Ways PROVE TypeOK
    OBVIOUS
  <2>1. registry \in [Gid -> {None, "none", "fresh", "due"}] /\ faults \in 0..MaxFaults
    BY DEF HInv, RegistryTyped
  <2>2. \A g \in Gid : Exists(stored[g]) => stored[g] \in Group
    BY DEF HInv, StoreTyped, Exists
  <2>3. \A n \in DOMAIN nodes : nodes[n] \in Node
    BY DEF HInv, Memory, NodesTyped
  <2>4. \A g \in Gid : IsOpen(g) => nodes[open[g]].gid = g
    BY OpenOf
  <2>5. \A n \in DOMAIN nodes :
           nodes[n].version \in {"equal", "less", "match"} => stored[nodes[n].gid] # None
    BY DEF HInv, Memory, Versioned
  <2>6. ~up => nodes = <<>> /\ sweep = NoSweep /\ \A r \in Request : req[r] = Idle
    BY DEF HInv, IsDown
  <2> QED BY <2>1, <2>2, <2>3, <2>4, <2>5, <2>6 DEF TypeOK, Ways
<1>2. Spec => []Ways
  BY WaysInit, WaysNext, HostInvariant, PTL DEF Spec
<1> QED BY <1>1, <1>2, HostInvariant, PTL

-----------------------------------------------------------------------------
(***************************************************************************)
(* Nobody drops out: a Save changes the members its node has, and a node   *)
(* whose version is the stored one has all that are stored, but those who  *)
(* have left it without being saved.                                       *)
(***************************************************************************)
Kept(g, m) == Exists(stored'[g]) /\ m \in stored'[g].members
Excused(g, m) == Leaves(g, m) \/ <<g, m>> \in unsaved \/ OutOfTheGrave(g) \/ Deletes(g)

Stay == \A g \in Gid : Exists(stored[g]) =>
           /\ Exists(stored'[g]) \/ Deletes(g)
           /\ \A m \in stored[g].members : Kept(g, m) \/ Excused(g, m)

KnowsAll(node, st, left_) ==
    node.version = "equal" /\ Exists(st[node.gid]) =>
        \A m \in st[node.gid].members : m \in node.state.members \/ <<node.gid, m>> \in left_

MInv == \A n \in DOMAIN nodes : KnowsAll(nodes[n], stored, unsaved)

LEMMA Remembered ==
    ASSUME NEW f, Remember(f)
    PROVE  DOMAIN nodes' \subseteq DOMAIN f /\ \A n \in DOMAIN nodes' : nodes'[n] = f[n]
BY DEF Remember, Restrict

LEMMA UnsavedGrow == Observe => unsaved \subseteq unsaved'
BY DEF Observe

(* Nothing is saved, and no node changes.                                  *)
LEMMA QuietStays ==
    ASSUME MInv, Observe, stored' = stored,
           DOMAIN nodes' \subseteq DOMAIN nodes, \A n \in DOMAIN nodes' : nodes'[n] = nodes[n]
    PROVE  MInv' /\ Stay
<1>1. Stay
  BY DEF Stay, Kept
<1>2. \A n \in DOMAIN nodes' : KnowsAll(nodes'[n], stored', unsaved')
  BY UnsavedGrow DEF MInv, KnowsAll
<1> QED BY <1>1, <1>2 DEF MInv

LEMMA ExitStays == ASSUME MInv, Observe, Exit, stored' = stored PROVE MInv' /\ Stay
<1>1. DOMAIN nodes' = {}
  BY DEF Exit
<1> QED BY <1>1, QuietStays

LEMMA WroteStored ==
    ASSUME HInv, NEW n \in DOMAIN nodes, NEW s \in Group, Wrote(n, s),
           NEW g \in Gid
    PROVE  \/ stored'[g] = stored[g]
           \/ /\ g = nodes[n].gid /\ Current(n)
              /\ stored'[g] = IF stored[g] = Broken THEN Broken ELSE s
              /\ Exists(s)
<1>1. DOMAIN stored = Gid /\ Exists(s)
  BY HInvSound, NothingAssumption DEF Exists
<1>2. CASE Current(n) /\ \E v \in {"equal", "less", "zero"} : Write(n, s, v)
  <2>1. stored' = [stored EXCEPT ![nodes[n].gid] = Store(nodes[n].gid, s)]
    BY <1>2, WriteIs
  <2> QED BY <1>1, <1>2, <2>1 DEF Store
<1> QED BY <1>2 DEF Wrote

(* A node saves a state in which nobody is missing but who leaves.         *)
LEMMA WroteStays ==
    ASSUME HInv, MInv, NEW n \in DOMAIN nodes, NEW s \in Group, Wrote(n, s),
           \/ nodes[n].version = "zero"
           \/ \A m \in nodes[n].state.members : m \in s.members \/ Leaves(nodes[n].gid, m)
    PROVE  Stay
<1> SUFFICES ASSUME NEW g \in Gid, Exists(stored[g])
             PROVE  /\ Exists(stored'[g])
                    /\ \A m \in stored[g].members : Kept(g, m) \/ Excused(g, m)
  BY DEF Stay
<1>1. stored[g] # None /\ stored[g] # Broken
  BY DEF Exists
<1>2. CASE stored'[g] = stored[g]
  BY <1>2 DEF Kept
<1>3. CASE g = nodes[n].gid /\ Current(n) /\ stored'[g] = s /\ Exists(s)
  <2>1. nodes[n].version = "equal" \/ OutOfTheGrave(g)
    BY <1>1, <1>3 DEF Current, OutOfTheGrave
  <2>2. CASE nodes[n].version = "equal"
    <3>1. \A m \in stored[g].members :
             m \in nodes[n].state.members \/ <<g, m>> \in unsaved
      BY <1>3, <2>2 DEF MInv, KnowsAll
    <3> QED BY <1>3, <2>2, <3>1 DEF Kept, Excused
  <2>3. CASE OutOfTheGrave(g)
    BY <1>3, <2>3 DEF Excused
  <2> QED BY <2>1, <2>2, <2>3
<1> QED BY <1>1, <1>2, <1>3, WroteStored

LEMMA WroteKnows ==
    ASSUME HInv, MInv, Observe, NEW n \in DOMAIN nodes, NEW s \in Group, Wrote(n, s),
           Fault /\ nodes[n].version = "equal" =>
              \A m \in nodes[n].state.members : m \in s.members \/ <<nodes[n].gid, m>> \in unsaved'
    PROVE  MInv'
<1> DEFINE Fine(node) == KnowsAll(node, stored', unsaved')
<1>1. \A m \in DOMAIN nodes : nodes[m].gid \in Gid
  BY NodeOf
<1>2. CASE Current(n) /\ \E v \in {"equal", "less", "zero"} : Write(n, s, v)
  <2>1. PICK v \in {"equal", "less", "zero"} : Write(n, s, v)
    BY <1>2
  <2>2. PICK f : Remember(f) /\ Written(f, n, s, v)
    BY <2>1, WriteIs
  <2>3. stored' = [stored EXCEPT ![nodes[n].gid] = Store(nodes[n].gid, s)]
    BY <2>1, WriteIs
  <2>4. /\ stored'[nodes[n].gid] \in {s, Broken}
        /\ \A g \in Gid : g # nodes[n].gid => stored'[g] = stored[g]
    BY <1>1, <2>3, HInvSound DEF Store
  <2>5. ASSUME NEW m \in DOMAIN nodes PROVE Fine(f[m])
    <3>1. CASE m = n
      <4>1. f[m].gid = nodes[n].gid /\ f[m].state = s
        BY <2>2, <3>1 DEF Written
      <4> QED BY <4>1, <2>4 DEF KnowsAll, Exists
    <3>2. CASE m # n /\ nodes[m].gid = nodes[n].gid
      <4>1. f[m].version # "equal"
        BY <2>2, <3>2 DEF Written
      <4> QED BY <4>1 DEF KnowsAll
    <3>3. CASE nodes[m].gid # nodes[n].gid
      <4>1. f[m] = nodes[m]
        BY <2>2, <3>3 DEF Written
      <4>2. stored'[nodes[m].gid] = stored[nodes[m].gid]
        BY <3>3, <2>4, <1>1
      <4>3. KnowsAll(nodes[m], stored, unsaved)
        BY DEF MInv
      <4> QED BY <4>1, <4>2, <4>3, UnsavedGrow DEF KnowsAll
    <3> QED BY <3>1, <3>2, <3>3
  <2>6. DOMAIN nodes' \subseteq DOMAIN nodes /\ \A m \in DOMAIN nodes' : nodes'[m] = f[m]
    BY <2>2, Remembered DEF Written
  <2> QED BY <2>5, <2>6 DEF MInv
<1>3. CASE Fault /\ stored' = stored /\ Remember([nodes EXCEPT ![n].state = s])
  <2>1. PICK f : /\ f = [nodes EXCEPT ![n].state = s]
                 /\ DOMAIN f = DOMAIN nodes /\ f = [m \in DOMAIN f |-> f[m]]
                 /\ f[n] = [gid |-> nodes[n].gid, state |-> s, version |-> nodes[n].version]
                 /\ \A m \in DOMAIN nodes : /\ f[m] \in Node /\ f[m].gid = nodes[m].gid
                                            /\ f[m].version = nodes[m].version
                                            /\ m # n => f[m] = nodes[m]
    BY UnstoredIs
  <2>2. Remember(f)
    BY <1>3, <2>1
  <2>3. /\ DOMAIN f = DOMAIN nodes
        /\ f[n].gid = nodes[n].gid /\ f[n].state = s /\ f[n].version = nodes[n].version
        /\ \A m \in DOMAIN nodes : m # n => f[m] = nodes[m]
    BY <2>1
  <2>4. ASSUME NEW m \in DOMAIN nodes PROVE Fine(f[m])
    <3>1. KnowsAll(nodes[m], stored, unsaved)
      BY DEF MInv
    <3>2. CASE m = n
      BY <1>3, <2>3, <3>1, <3>2, UnsavedGrow DEF KnowsAll
    <3>3. CASE m # n
      BY <1>3, <2>3, <3>1, <3>3, UnsavedGrow DEF KnowsAll
    <3> QED BY <3>2, <3>3
  <2>5. DOMAIN nodes' \subseteq DOMAIN nodes /\ \A m \in DOMAIN nodes' : nodes'[m] = f[m]
    BY <2>2, <2>3, Remembered
  <2> QED BY <2>4, <2>5 DEF MInv
<1> QED BY <1>2, <1>3 DEF Wrote

(* ... with the members it has.                                            *)
LEMMA OpenStays ==
    ASSUME HInv, MInv, Observe, NEW g \in Gid, IsOpen(g), NEW s \in Group,
           s.members = StateOf(g).members,
           \/ Exit /\ UNCHANGED <<stored, faults>>
           \/ Wrote(open[g], s)
    PROVE  MInv' /\ Stay
<1> DEFINE n == open[g]
<1>1. n \in DOMAIN nodes /\ s.members = nodes[n].state.members
  BY OpenOf DEF StateOf
<1>2. CASE Exit /\ UNCHANGED <<stored, faults>>
  BY <1>2, ExitStays
<1>3. CASE Wrote(n, s)
  <2> HIDE DEF n
  <2>1. Stay
    BY <1>1, <1>3, WroteStays
  <2>2. MInv'
    BY <1>1, <1>3, WroteKnows
  <2> QED BY <2>1, <2>2
<1> QED BY <1>2, <1>3

LEMMA SaveNewStays == ASSUME HInv, MInv, Observe, NEW r \in Request, SaveNew(r) PROVE MInv' /\ Stay
<1> DEFINE n == req[r].node
<1>1. req[r].pc = "save" /\ Serving(r, NewGroup, [req[r] EXCEPT !.pc = "insert"], Idle)
  BY DEF SaveNew
<1>2. req[r].pc # "idle" /\ req[r].pc \in Holding
  BY <1>1 DEF Holding, Fresh
<1>3. n \in DOMAIN nodes /\ nodes[n].version = "zero"
  BY <1>1, <1>2, RequestOf DEF Serves
<1>4. (Exit /\ stored' = stored) \/ Wrote(n, NewGroup)
  BY <1>1, <1>3, ServingIs
<1> QED BY <1>3, <1>4, NewGroupIsGroup, ExitStays, WroteStays, WroteKnows

LEMMA ChangeStays == ASSUME HInv, MInv, Observe, NEW r \in Request, Change(r) PROVE MInv' /\ Stay
<1> DEFINE n == req[r].node
           s == nodes[n].state
           w == req[r].who
           after == IF req[r].pc = "join" THEN s.members \cup {w} ELSE s.members \ {w}
           changed == IF req[r].pc = "join" THEN Joined(s, w) ELSE Departed(s, w)
           q == [req[r] EXCEPT !.pc = "look"]
<1>1. /\ req[r].pc \in {"join", "leave"}
      /\ IF changed = s THEN stored' = stored /\ nodes' = nodes ELSE Serving(r, changed, q, q)
  BY DEF Change, memory
<1>2. req[r].pc \in Holding \ Fresh /\ req[r].pc # "idle" /\ req[r].pc \in Holding
  BY <1>1 DEF Holding, Fresh
<1>3. n \in DOMAIN nodes /\ nodes[n].gid = req[r].gid /\ w \in Member /\ req[r] \in RequestRecord
  BY <1>1, <1>2, RequestOf DEF Serves
<1>4. s \in Group
  BY <1>3, NodeOf
<1>5. after \in SUBSET Member
  BY <1>3, <1>4 DEF Group
<1>6. \A m \in s.members : m \in after \/ (req[r].pc = "leave" /\ m = w)
  BY <1>1
<1>7. q.pc = "look"
  BY <1>3 DEF RequestRecord
<1> HIDE DEF s, q
<1>8. changed \in Group /\ changed.members = after
  BY <1>4, <1>5 DEF Group, Joined, Departed
<1> HIDE DEF after
<1> HIDE DEF changed
<1>9. CASE changed = s
  BY <1>1, <1>9, QuietStays
<1>10. CASE changed # s
  <2>1. Serving(r, changed, q, q)
    BY <1>1, <1>10
  <2>2. (Exit /\ stored' = stored) \/ (Wrote(n, changed) /\ Goto(r, q))
    BY <2>1, <1>3, ServingIs
  <2>3. CASE Wrote(n, changed) /\ Goto(r, q)
    <3>1. \A m \in nodes[n].state.members : m \in changed.members \/ Leaves(nodes[n].gid, m)
      BY <1>3, <1>6, <1>8 DEF Leaves, s
    <3>2. ASSUME Fault, req[r].pc = "leave" PROVE <<req[r].gid, w>> \in unsaved'
      <4>1. faults' > faults
        BY <3>2, HostAssumption DEF Fault, HInv
      <4>2. req'[r].pc = "look"
        BY <1>7, <2>3, GotoIs
      <4> QED BY <3>2, <4>1, <4>2 DEF Observe
    <3>3. Fault => \A m \in nodes[n].state.members :
                      m \in changed.members \/ <<nodes[n].gid, m>> \in unsaved'
      BY <1>3, <1>6, <1>8, <3>2 DEF s
    <3> QED BY <2>3, <3>1, <3>3, <1>3, <1>8, WroteStays, WroteKnows
  <2> QED BY <2>2, <2>3, ExitStays
<1> QED BY <1>9, <1>10

LEMMA OtherStays == ASSUME HInv, MInv, Observe, NEW r \in Request, Other(r) PROVE MInv' /\ Stay
<1> DEFINE n == req[r].node
<1>1. req[r].pc = "other" /\ Serving(r, nodes[n].state, Idle, Idle)
  BY DEF Other
<1>2. req[r].pc \in Holding \ Fresh
  BY <1>1 DEF Holding, Fresh
<1>3. n \in DOMAIN nodes /\ nodes[n].state \in Group
  BY <1>2, NotFresh, NodeOf
<1>4. (Exit /\ stored' = stored) \/ Wrote(n, nodes[n].state)
  BY <1>1, <1>3, ServingIs
<1> QED BY <1>3, <1>4, ExitStays, WroteStays, WroteKnows

LEMMA LoadStays == ASSUME HInv, MInv, Observe, NEW r \in Request, Load(r) PROVE MInv' /\ Stay
<1> DEFINE g == req[r].gid
           n == CHOOSE i \in NodeId : i \notin DOMAIN nodes
           s == IF stored[g] = None THEN NewGroup ELSE stored[g]
           v == IF stored[g] = None THEN "zero" ELSE "equal"
           node == [gid |-> g, state |-> s, version |-> v]
<1>1. stored' = stored
  BY DEF Load
<1>2. CASE nodes' = nodes
  BY <1>1, <1>2, QuietStays
<1>3. CASE nodes' = [i \in DOMAIN nodes \cup {n} |-> IF i = n THEN node ELSE nodes[i]]
  <2>1. KnowsAll(node, stored', unsaved')
    BY <1>1 DEF KnowsAll, Exists
  <2>2. ASSUME NEW i \in DOMAIN nodes PROVE KnowsAll(nodes[i], stored', unsaved')
    <3>1. KnowsAll(nodes[i], stored, unsaved)
      BY DEF MInv
    <3> QED BY <1>1, <3>1, UnsavedGrow DEF KnowsAll
  <2> HIDE DEF node
  <2>3. MInv'
    BY <1>3, <2>1, <2>2 DEF MInv
  <2> QED BY <1>1, <2>3 DEF Stay, Kept
<1> QED BY <1>2, <1>3 DEF Load

LEMMA ServeStays ==
    ASSUME HInv, MInv, Observe, NEW r \in Request, Ask(r) \/ Serve(r) PROVE MInv' /\ Stay
<1>1. CASE Ask(r) \/ Register(r) \/ Mark(r) \/ Rename(r)
  <2>1. stored' = stored /\ nodes' = nodes
    BY <1>1 DEF Ask, Register, Mark, Rename, memory
  <2> QED BY <2>1, QuietStays
<1>2. CASE Insert(r) \/ Look(r)
  <2>1. stored' = stored /\ Remember(nodes)
    BY <1>2 DEF Insert, Look
  <2> QED BY <2>1, Remembered, QuietStays
<1>3. CASE Load(r) \/ SaveNew(r) \/ Change(r) \/ Other(r)
  BY <1>3, LoadStays, SaveNewStays, ChangeStays, OtherStays
<1> QED BY <1>1, <1>2, <1>3, Zenon DEF Serve

LEMMA EnvelopeStays ==
    ASSUME HInv, MInv, Observe, NEW g \in Gid, NEW h \in Gid, Deliver(g, h) \/ Arrive(g, h)
    PROVE  MInv' /\ Stay
<1>1. PICK p \in Pool : IsOpen(h) /\ Handling(h, WithPool(h, g, p))
  <2>1. CASE Deliver(g, h)
    BY <2>1 DEF Deliver, Pool
  <2>2. CASE Arrive(g, h)
    BY <2>2, PoolIs, PaidInIs DEF Arrive
  <2> QED BY <2>1, <2>2
<1>2. WithPool(h, g, p) \in Group /\ WithPool(h, g, p).members = StateOf(h).members
  BY <1>1, WithPoolIsGroup
<1>3. \/ Exit /\ UNCHANGED <<stored, faults>>
      \/ Wrote(open[h], WithPool(h, g, p))
  BY <1>1, OpenOf, HandlingIs
<1> QED BY <1>1, <1>2, <1>3, OpenStays

LEMMA CloseHereStays ==
    ASSUME HInv, MInv, Observe, NEW h \in Gid, CloseHere(h) PROVE MInv' /\ Stay
<1> DEFINE g == sweep.gid
           next == [sweep EXCEPT !.pc = "close there", !.peers = @ \ {h}, !.peer = h]
<1>1. /\ sweep.pc = "close"
      /\ (stored' = stored /\ nodes' = nodes) \/ Sweeping(g, Closed(g, h), next, next)
  BY DEF CloseHere, memory
<1>2. g \in Gid /\ IsOpen(g)
  BY <1>1 DEF HInv, SweepTyped, AtWork, IsOpen
<1>3. Closed(g, h) \in Group /\ Closed(g, h).members = StateOf(g).members
  BY <1>2, ClosedIsGroup
<1> HIDE DEF next, g
<1>4. \/ stored' = stored /\ nodes' = nodes
      \/ Exit /\ UNCHANGED <<stored, faults>>
      \/ Wrote(open[g], Closed(g, h))
  BY <1>1, <1>2, OpenOf, SweepingIs
<1> QED BY <1>2, <1>3, <1>4, QuietStays, OpenStays

LEMMA PeerStays ==
    ASSUME HInv, MInv, Observe, CloseThere \/ RetireReserve PROVE MInv' /\ Stay
<1> DEFINE g == sweep.gid
           h == sweep.peer
           p == IF sweep.pc = "retire" THEN "retired"
                ELSE IF StateOf(h).pool[g] = "open" THEN "closed" ELSE StateOf(h).pool[g]
<1>1. sweep.pc \in {"close there", "retire"}
  BY DEF CloseThere, RetireReserve
<1>2. g \in Gid /\ h \in Gid /\ IsOpen(h)
  BY <1>1, AtPeer
<1>3. p \in Pool
  BY <1>2, PoolIs DEF Pool
<1>4. \/ stored' = stored /\ nodes' = nodes
      \/ \E next, failed : Sweeping(h, WithPool(h, g, p), next, failed)
  BY DEF CloseThere, RetireReserve, Closed, memory
<1> HIDE DEF g, h, p
<1>5. WithPool(h, g, p) \in Group /\ WithPool(h, g, p).members = StateOf(h).members
  BY <1>2, <1>3, WithPoolIsGroup
<1>6. \/ stored' = stored /\ nodes' = nodes
      \/ Exit /\ UNCHANGED <<stored, faults>>
      \/ Wrote(open[h], WithPool(h, g, p))
  BY <1>2, <1>4, OpenOf, SweepingIs
<1> QED BY <1>2, <1>5, <1>6, QuietStays, OpenStays

LEMMA DeletesStays == ASSUME HInv, MInv, Observe, Delete PROVE MInv' /\ Stay
<1> DEFINE g == sweep.gid
<1>1. sweep.pc \in {"delete", "deleting"}
  BY DEF Delete
<1>2. Deletes(g) /\ g \in Gid
  BY <1>1 DEF Deletes, HInv, SweepTyped, AtWork
<1>3. (stored' = stored /\ nodes' = nodes) \/ \E rest : Remains(g, rest) /\ (Exists(rest) => rest = stored[g])
  BY DEF Delete, Exists
<1> HIDE DEF g
<1>4. CASE stored' = stored /\ nodes' = nodes
  BY <1>4, QuietStays
<1>5. CASE \E rest : Remains(g, rest) /\ (Exists(rest) => rest = stored[g])
  <2>1. PICK rest : Remains(g, rest) /\ (Exists(rest) => rest = stored[g])
    BY <1>5
  <2>2. /\ stored'[g] = rest /\ \A k \in Gid : k # g => stored'[k] = stored[k]
        /\ DOMAIN nodes' = DOMAIN nodes
        /\ \A n \in DOMAIN nodes :
              /\ nodes'[n].gid = nodes[n].gid /\ nodes'[n].state = nodes[n].state
              /\ nodes'[n].version \in {"more", nodes[n].version}
    BY <1>2, <2>1, RemainsIs
  <2>3. Stay
    BY <1>2, <2>2 DEF Stay, Kept, Excused
  <2>4. ASSUME NEW n \in DOMAIN nodes PROVE KnowsAll(nodes'[n], stored', unsaved')
    <3>1. KnowsAll(nodes[n], stored, unsaved)
      BY DEF MInv
    <3>2. nodes[n].gid \in Gid /\ (Exists(stored'[nodes[n].gid]) => stored'[nodes[n].gid] = stored[nodes[n].gid])
      BY <2>1, <2>2, NodeOf
    <3> QED BY <2>2, <3>1, <3>2, UnsavedGrow DEF KnowsAll
  <2> QED BY <2>2, <2>3, <2>4 DEF MInv
<1> QED BY <1>3, <1>4, <1>5

LEMMA SweepStays == ASSUME HInv, MInv, Observe, Sweep PROVE MInv' /\ Stay
<1>1. CASE SweepNext \/ Remove \/ Unregister
  <2>1. stored' = stored /\ nodes' = nodes
    BY <1>1 DEF SweepNext, Remove, Unregister, memory
  <2> QED BY <2>1, QuietStays
<1>2. CASE Forget
  <2>1. stored' = stored /\ Remember(nodes)
    BY <1>2 DEF Forget
  <2> QED BY <2>1, Remembered, QuietStays
<1>3. CASE (\E h \in Gid : CloseHere(h)) \/ CloseThere \/ RetireReserve \/ Delete
  BY <1>3, CloseHereStays, PeerStays, DeletesStays
<1> QED BY <1>1, <1>2, <1>3, Zenon DEF Sweep

LEMMA LoadedKnow ==
    ASSUME NEW gs \in SUBSET Gid, NEW st, NEW u, NEW n \in DOMAIN Loaded(gs, st)
    PROVE  KnowsAll(Loaded(gs, st)[n], st, u)
<1>1. PICK g \in gs : n = Opened(gs)[g]
  BY LoadedIs
<1>2. Loaded(gs, st)[n] = [gid |-> g, state |-> st[g], version |-> "equal"]
  BY <1>1, LoadedIs
<1> QED BY <1>2 DEF KnowsAll

LEMMA StartStays == ASSUME HInv, Start PROVE MInv' /\ Stay
<1>1. \A g \in Gid : Exists(stored[g]) => stored'[g] = stored[g]
  BY DEF Start, Exists
<1>2. nodes' = Loaded(Registered, stored') /\ Registered \in SUBSET Gid
  BY DEF Start, Registered
<1>3. MInv'
  BY <1>2, LoadedKnow DEF MInv
<1> QED BY <1>1, <1>3 DEF Stay, Kept

LEMMA NextStays == ASSUME HInv, MInv, Next, Observe PROVE MInv' /\ Stay
<1>1. CASE \E r \in Request : Ask(r) \/ Serve(r)
  BY <1>1, ServeStays
<1>2. CASE (\E g, h \in Gid : Deliver(g, h) \/ Arrive(g, h)) \/ Sweep \/ Start
  BY <1>2, EnvelopeStays, SweepStays, StartStays
<1>3. CASE Cron \/ GracePasses
  <2>1. stored' = stored /\ nodes' = nodes
    BY <1>3 DEF Cron, GracePasses, memory
  <2> QED BY <2>1, QuietStays
<1>4. CASE Crash
  BY <1>4, ExitStays DEF Crash
<1> QED BY <1>1, <1>2, <1>3, <1>4, Zenon DEF Next

LEMMA MInvInit == ObservedInit => MInv
<1> SUFFICES ASSUME ObservedInit PROVE MInv
  OBVIOUS
<1>1. nodes = Loaded(Old, stored) /\ Old \in SUBSET Gid
  BY HostAssumption DEF ObservedInit, Init
<1> QED BY <1>1, LoadedKnow DEF MInv

LEMMA MInvNext == HInv /\ MInv /\ [Next /\ Observe]_allVars => MInv'
<1> SUFFICES ASSUME HInv, MInv, [Next /\ Observe]_allVars PROVE MInv'
  OBVIOUS
<1>1. CASE UNCHANGED allVars
  BY <1>1 DEF MInv, allVars, vars
<1> QED BY <1>1, NextStays

LEMMA MembersInvariant == Spec => []MInv
<1> QED BY MInvInit, MInvNext, HostInvariant, PTL DEF Spec

(* Whichever nodes of a group requests, restarts and half done removals    *)
(* have made, whoever is in a stored group stays in it until they leave or *)
(* the sweep deletes the group: its nodes do not save over each other's    *)
(* members (exitOnConflict in main.go, Save and Delete in dsstore.go), but *)
(* for a node of a group deleted before, and a leave that has not been     *)
(* saved is not undone.                                                    *)
THEOREM NobodyDropsOut == Spec => MembersStay
<1> DEFINE Step == \A g \in Gid : Exists(stored[g]) => \A m \in stored[g].members :
                      \/ Exists(stored'[g]) /\ m \in stored'[g].members
                      \/ Leaves(g, m) \/ <<g, m>> \in unsaved
                      \/ OutOfTheGrave(g)
                      \/ Deletes(g)
<1>1. HInv /\ MInv /\ [Next /\ Observe]_allVars => [Step]_allVars
  BY NextStays DEF Stay, Kept, Excused
<1>2. MembersStay <=> [][Step]_allVars
  BY DEF MembersStay
<1> HIDE DEF Step
<1> QED BY <1>1, <1>2, HostInvariant, MembersInvariant, PTL DEF Spec

-----------------------------------------------------------------------------
(***************************************************************************)
(* As long as requests come one at a time and nothing fails.               *)
(***************************************************************************)
Calm == ~overlap /\ faults = 0
Busy(r) == req[r].pc # "idle"

OneAtATime ==
    /\ \A r, p \in Request : Busy(r) /\ Busy(p) => r = p
    /\ sweep.pc # "idle" => \A r \in Request : ~Busy(r)

(* A group has one node, which has been stored as it is, or is about to be *)
(* for the first time.                                                     *)
InStore(node, st) ==
    node.version = "equal" /\ Exists(st[node.gid]) /\ node.state.members = st[node.gid].members
IsNew(n, node, rq, st) ==
    /\ node.version = "zero" /\ st[node.gid] = None
    /\ \E r \in Request : rq[r].pc = "save" /\ rq[r].node = n

Tidy(ns, rq, st) ==
    /\ \A n, m \in DOMAIN ns : ns[n].gid = ns[m].gid => n = m
    /\ \A n \in DOMAIN ns : InStore(ns[n], st) \/ IsNew(n, ns[n], rq, st)

(* A group that is marked is empty, unless the request that changed it has *)
(* yet to mark it, or the sweep is deleting it; and then it has been empty *)
(* for as long as the mark says.                                           *)
IsEmpty(g) == Exists(stored[g]) /\ stored[g].members = {}
Changing(g) == \E r \in Request : req[r].pc \in {"look", "mark"} /\ req[r].gid = g
Gone(g) == sweep.gid = g /\ sweep.pc \in {"deleting", "unregister"}

MarkOf(g) ==
    registry[g] \in {"fresh", "due"} /\ ~Gone(g) =>
        /\ Exists(stored[g])
        /\ ~Changing(g) => IsEmpty(g)
        /\ IsEmpty(g) => left[g] # "no" /\ (registry[g] = "due" => left[g] = "long")

Marks ==
    /\ \A g \in Gid : MarkOf(g)
    /\ \A r \in Request : req[r].pc = "mark" /\ req[r].empty =>
          IsEmpty(req[r].gid) /\ left[req[r].gid] # "no"

SweepMarked ==
    /\ sweep.pc # "idle" => \A g \in sweep.todo : registry[g] = "due"
    /\ sweep.pc \in AtWork => registry[sweep.gid] = "due" /\ sweep.gid \notin sweep.todo
    /\ sweep.pc \in {"delete", "deleting", "unregister"} => ~IsOpen(sweep.gid)
    /\ sweep.pc = "deleting" => ~Exists(stored[sweep.gid])

Calmly == up /\ OneAtATime /\ Tidy(nodes, req, stored) /\ Marks /\ SweepMarked
CInv == Calm => Calmly

-----------------------------------------------------------------------------
LEMMA OneAtMost ==
    ASSUME NEW rq, NEW sw,
           LET S == {r \in Request : rq[r].pc # "idle"}
                    \cup IF sw.pc # "idle" THEN {None} ELSE {}
           IN  ~(Cardinality(S) > 1)
    PROVE  /\ \A r, p \in Request : rq[r].pc # "idle" /\ rq[p].pc # "idle" => r = p
           /\ sw.pc # "idle" => \A r \in Request : ~(rq[r].pc # "idle")
<1> DEFINE S == {r \in Request : rq[r].pc # "idle"} \cup IF sw.pc # "idle" THEN {None} ELSE {}
<1>1. IsFiniteSet(S)
  <2>1. S \subseteq Request \cup {None}
    OBVIOUS
  <2>2. IsFiniteSet(Request \cup {None})
    BY FiniteAssumption, FS_AddElement
  <2> QED BY <2>1, <2>2, FS_Subset
<1>2. ~(Cardinality(S) > 1)
  OBVIOUS
<1>3. \A r \in Request : rq[r].pc # "idle" => r \in S
  OBVIOUS
<1>4. sw.pc # "idle" => None \in S
  OBVIOUS
<1> HIDE DEF S
<1>5. ASSUME NEW x \in S, NEW y \in S PROVE x = y
  <2> SUFFICES ASSUME x # y PROVE FALSE
    OBVIOUS
  <2>1. IsFiniteSet({x}) /\ Cardinality({x}) = 1
    BY FS_Singleton
  <2>2. Cardinality({x} \cup {y}) = 2 /\ IsFiniteSet({x} \cup {y})
    <3>1. y \notin {x}
      OBVIOUS
    <3>2. /\ IsFiniteSet({x} \cup {y})
          /\ Cardinality({x} \cup {y}) = IF y \in {x} THEN Cardinality({x})
                                         ELSE Cardinality({x}) + 1
      BY <2>1, FS_AddElement
    <3> QED BY <3>1, <3>2, <2>1
  <2>3. {x} \cup {y} \subseteq S
    OBVIOUS
  <2>4. Cardinality({x} \cup {y}) <= Cardinality(S)
    BY <2>3, <1>1, FS_Subset
  <2>5. Cardinality(S) \in Nat
    BY <1>1, FS_CardinalityType
  <2> QED BY <2>2, <2>4, <2>5, <1>2
<1> QED BY <1>3, <1>4, <1>5, NothingAssumption

LEMMA FaultsGrow == Next => faults' = faults \/ Fault
<1>1. \A r \in Request : Ask(r) \/ Serve(r) => faults' = faults \/ Fault
  BY DEF Ask, Serve, Load, SaveNew, Insert, Register, Change, Other, Look, Mark, Rename,
         Serving, Save
<1>2. \A g, h \in Gid : Deliver(g, h) \/ Arrive(g, h) => faults' = faults \/ Fault
  BY DEF Deliver, Arrive, Handling, Save
<1>3. Sweep => faults' = faults \/ Fault
  BY DEF Sweep, SweepNext, Remove, CloseHere, CloseThere, RetireReserve, Forget, Delete,
         Unregister, Sweeping, Save
<1>4. Cron \/ Crash \/ Start \/ GracePasses => faults' = faults \/ Fault
  BY DEF Cron, Crash, Start, GracePasses
<1> QED BY <1>1, <1>2, <1>3, <1>4 DEF Next

LEMMA CalmBefore ==
    ASSUME HInv, Next, Observe, Calm'
    PROVE  Calm /\ ~Fault /\ OneAtATime'
<1>1. faults \in Nat
  BY HostAssumption DEF HInv
<1>2. ~Fault /\ faults = 0
  BY <1>1, FaultsGrow DEF Calm, Fault
<1>3. ~overlap /\ ~(UnderWay' > 1)
  BY DEF Observe, Calm
<1>4. /\ \A r, p \in Request : req'[r].pc # "idle" /\ req'[p].pc # "idle" => r = p
      /\ sweep'.pc # "idle" => \A r \in Request : ~(req'[r].pc # "idle")
  BY <1>3, OneAtMost DEF UnderWay
<1>5. OneAtATime'
  BY <1>4 DEF OneAtATime, Busy
<1> QED BY <1>2, <1>3, <1>5 DEF Calm

LEMMA LeftIs ==
    ASSUME Observe, NEW g \in Gid, IsEmpty(g)'
    PROVE  /\ left'[g] # "no"
           /\ left[g] = "long" => left'[g] = "long"
           /\ GracePasses /\ left[g] # "no" => left'[g] = "long"
<1>1. Exists(stored'[g]) /\ stored'[g].members = {}
  BY DEF IsEmpty
<1>2. left'[g] = IF left[g] = "no" THEN "fresh" ELSE IF GracePasses THEN "long" ELSE left[g]
  BY <1>1 DEF Observe
<1> QED BY <1>2

(* A step that leaves a group's members and its mark, and one that leaves  *)
(* all of them.                                                            *)
LEMMA MarkKept ==
    ASSUME Calmly, Observe, NEW g \in Gid,
           registry'[g] \in {"fresh", "due"} /\ ~Gone(g)' =>
              registry'[g] = registry[g] /\ ~Gone(g),
           Exists(stored[g]) /\ ~Gone(g)' =>
              Exists(stored'[g]) /\ stored'[g].members = stored[g].members,
           Changing(g) => Changing(g)'
    PROVE  MarkOf(g)'
<1> SUFFICES ASSUME registry'[g] \in {"fresh", "due"}, ~Gone(g)'
             PROVE  /\ Exists(stored'[g])
                    /\ ~Changing(g)' => IsEmpty(g)'
                    /\ IsEmpty(g)' => left'[g] # "no"
                                      /\ (registry'[g] = "due" => left'[g] = "long")
  BY DEF MarkOf
<1>1. registry[g] = registry'[g] /\ ~Gone(g)
  OBVIOUS
<1>2. /\ Exists(stored[g]) /\ (~Changing(g) => IsEmpty(g))
      /\ IsEmpty(g) => left[g] # "no" /\ (registry[g] = "due" => left[g] = "long")
  BY <1>1 DEF Calmly, Marks, MarkOf
<1>3. Exists(stored'[g]) /\ stored'[g].members = stored[g].members
  BY <1>2
<1>4. IsEmpty(g)' <=> IsEmpty(g)
  BY <1>2, <1>3 DEF IsEmpty
<1> QED BY <1>1, <1>2, <1>3, <1>4, LeftIs

LEMMA MarksKept ==
    ASSUME HInv, Calmly, Observe, OneAtATime',
           \A g \in Gid : registry'[g] \in {"fresh", "due"} /\ ~Gone(g)' =>
                             registry'[g] = registry[g] /\ ~Gone(g),
           \A g \in Gid : Exists(stored[g]) /\ ~Gone(g)' =>
                             Exists(stored'[g]) /\ stored'[g].members = stored[g].members,
           \A g \in Gid : Changing(g) => Changing(g)',
           \A r \in Request : req'[r].pc = "mark" => req'[r] = req[r]
    PROVE  Marks'
<1>1. \A g \in Gid : MarkOf(g)'
  BY MarkKept
<1>2. ASSUME NEW r \in Request, req'[r].pc = "mark", req'[r].empty
      PROVE  /\ Exists(stored'[req'[r].gid]) /\ stored'[req'[r].gid].members = {}
             /\ left'[req'[r].gid] # "no"
  <2>1. req'[r] = req[r] /\ req[r].pc # "idle"
    BY <1>2
  <2>2. PICK g \in Gid : g = req[r].gid /\ IsEmpty(g)
    BY <2>1, <1>2, RequestOf DEF Calmly, Marks
  <2>3. sweep'.pc = "idle"
    BY <1>2 DEF OneAtATime, Busy
  <2>4. ~Gone(g)'
    BY <2>3 DEF Gone
  <2>5. Exists(stored'[g]) /\ stored'[g].members = {}
    BY <2>2, <2>4 DEF IsEmpty
  <2>6. IsEmpty(g)'
    BY <2>5 DEF IsEmpty
  <2>7. left'[g] # "no"
    BY <2>2, <2>6, LeftIs
  <2> QED BY <2>1, <2>2, <2>5, <2>7
<1> QED BY <1>1, <1>2 DEF Marks, IsEmpty

LEMMA NotSweeping ==
    ASSUME HInv, Calmly, NEW r \in Request, Busy(r)
    PROVE  sweep.pc = "idle" /\ \A p \in Request : p # r => ~Busy(p)
BY DEF Calmly, OneAtATime

LEMMA SweepIdle == ASSUME sweep'.pc = "idle" PROVE SweepMarked' /\ \A g : ~Gone(g)'
BY DEF SweepMarked, AtWork, Gone

(***************************************************************************)
(* The nodes of a calm host.                                               *)
(***************************************************************************)
LEMMA TidyKept ==
    ASSUME HInv, Calmly,
           DOMAIN nodes' \subseteq DOMAIN nodes,
           \A n \in DOMAIN nodes' : /\ nodes'[n].gid = nodes[n].gid
                                    /\ nodes'[n].state = nodes[n].state
                                    /\ nodes'[n].version = nodes[n].version,
           \A n \in DOMAIN nodes : stored'[nodes[n].gid] = stored[nodes[n].gid],
           \A r \in Request : req[r].pc = "save" => req'[r] = req[r]
    PROVE  Tidy(nodes', req', stored')
<1>1. Tidy(nodes, req, stored)
  BY DEF Calmly
<1>2. ASSUME NEW n \in DOMAIN nodes'
      PROVE  InStore(nodes'[n], stored') \/ IsNew(n, nodes'[n], req', stored')
  <2>1. InStore(nodes[n], stored) \/ IsNew(n, nodes[n], req, stored)
    BY <1>1 DEF Tidy
  <2>2. stored'[nodes'[n].gid] = stored[nodes[n].gid]
    OBVIOUS
  <2> QED BY <2>1, <2>2 DEF InStore, IsNew
<1> QED BY <1>1, <1>2 DEF Tidy

LEMMA CalmSaves ==
    ASSUME HInv, Calmly, NEW n \in DOMAIN nodes
    PROVE  /\ Current(n)
           /\ Exists(stored[nodes[n].gid]) \/ stored[nodes[n].gid] = None
           /\ Exists(stored[nodes[n].gid]) =>
                 nodes[n].state.members = stored[nodes[n].gid].members
BY DEF Calmly, Tidy, InStore, IsNew, Current, Exists

LEMMA TidySaved ==
    ASSUME HInv, Calmly, NEW n \in DOMAIN nodes, NEW s \in Group, Write(n, s, "equal"),
           \A p \in Request : req[p].pc = "save" /\ req[p].node # n => req'[p] = req[p]
    PROVE  /\ Tidy(nodes', req', stored') /\ stored'[nodes[n].gid] = s /\ Exists(s)
           /\ \A g \in Gid : g # nodes[n].gid => stored'[g] = stored[g]
<1> DEFINE g == nodes[n].gid
<1>1. /\ \A k, m \in DOMAIN nodes : nodes[k].gid = nodes[m].gid => k = m
      /\ \A m \in DOMAIN nodes : InStore(nodes[m], stored) \/ IsNew(m, nodes[m], req, stored)
  BY DEF Calmly, Tidy
<1>2. g \in Gid /\ DOMAIN stored = Gid /\ \A m \in DOMAIN nodes : nodes[m].gid \in Gid
  BY NodeOf, HInvSound
<1>3. PICK f : Remember(f) /\ Written(f, n, s, "equal")
  BY WriteIs
<1>4. stored' = [stored EXCEPT ![g] = Store(g, s)]
  BY WriteIs
<1>5. stored[g] # Broken
  BY CalmSaves, NothingAssumption DEF Exists
<1>6. Exists(s)
  BY NothingAssumption DEF Exists
<1>7. stored'[g] = s /\ \A k \in Gid : k # g => stored'[k] = stored[k]
  BY <1>2, <1>4, <1>5 DEF Store
<1>8. /\ f[n].gid = g /\ f[n].state = s /\ f[n].version = "equal"
      /\ \A m \in DOMAIN nodes : m # n => f[m] = nodes[m]
  BY <1>1, <1>3 DEF Written
<1>9. DOMAIN nodes' \subseteq DOMAIN nodes /\ \A m \in DOMAIN nodes' : nodes'[m] = f[m]
  BY <1>3, Remembered DEF Written
<1> HIDE DEF g
<1>10. ASSUME NEW m \in DOMAIN nodes'
       PROVE  InStore(nodes'[m], stored') \/ IsNew(m, nodes'[m], req', stored')
  <2>1. CASE m = n
    BY <2>1, <1>6, <1>7, <1>8, <1>9 DEF InStore
  <2>2. CASE m # n
    <3>1. nodes'[m] = nodes[m] /\ nodes[m].gid # g /\ nodes[m].gid \in Gid
      BY <2>2, <1>1, <1>2, <1>8, <1>9 DEF g
    <3>2. stored'[nodes[m].gid] = stored[nodes[m].gid]
      BY <3>1, <1>7
    <3>3. \A r \in Request : req[r].pc = "save" /\ req[r].node = m => req'[r] = req[r]
      BY <2>2
    <3> QED BY <3>1, <3>2, <3>3, <1>1, <1>9 DEF InStore, IsNew
  <2> QED BY <2>1, <2>2
<1>11. \A k, m \in DOMAIN nodes' : nodes'[k].gid = nodes'[m].gid => k = m
  <2>1. \A m \in DOMAIN nodes' : nodes'[m].gid = nodes[m].gid
    BY <1>8, <1>9 DEF g
  <2> QED BY <2>1, <1>1, <1>9
<1> QED BY <1>6, <1>7, <1>10, <1>11 DEF g, Tidy

(* A Save succeeds.                                                        *)
LEMMA CalmServing ==
    ASSUME HInv, Calmly, ~Fault, NEW r \in Request, req[r].node \in DOMAIN nodes, NEW s,
           NEW q, NEW failed, Serving(r, s, q, failed)
    PROVE  Write(req[r].node, s, "equal") /\ Goto(r, q) /\ UNCHANGED <<up, open, sweep>>
BY CalmSaves DEF Serving, Save

LEMMA CalmHandling ==
    ASSUME HInv, Calmly, ~Fault, NEW g \in Gid, IsOpen(g), NEW s, Handling(g, s)
    PROVE  Write(open[g], s, "equal") /\ UNCHANGED <<up, open, req, sweep>>
BY CalmSaves, OpenOf DEF Handling, Save

LEMMA CalmSweeping ==
    ASSUME HInv, Calmly, ~Fault, NEW g \in Gid, IsOpen(g), NEW s, NEW next, NEW failed,
           Sweeping(g, s, next, failed)
    PROVE  Write(open[g], s, "equal") /\ sweep' = next /\ UNCHANGED <<up, open, req>>
BY CalmSaves, OpenOf DEF Sweeping, Save

LEMMA StaysCalm ==
    ASSUME OneAtATime', up', Tidy(nodes', req', stored'), Marks', SweepMarked' PROVE Calmly'
BY DEF Calmly

(***************************************************************************)
(* Requests, one at a time.                                                *)
(***************************************************************************)
LEMMA ServedCalmly ==
    ASSUME HInv, Calmly, Observe, OneAtATime', sweep.pc = "idle", UNCHANGED <<up, sweep>>,
           Tidy(nodes', req', stored'),
           \A g \in Gid : registry'[g] \in {"fresh", "due"} => registry'[g] = registry[g],
           \A g \in Gid : Exists(stored[g]) =>
                             Exists(stored'[g]) /\ stored'[g].members = stored[g].members,
           \A g \in Gid : Changing(g) => Changing(g)',
           \A r \in Request : req'[r].pc = "mark" => req'[r] = req[r]
    PROVE  Calmly'
<1>1. SweepMarked'
  BY SweepIdle
<1>2. \A g \in Gid : ~Gone(g)
  BY DEF Gone
<1>3. Marks'
  BY <1>2, MarksKept
<1>4. up'
  BY DEF Calmly
<1> QED BY <1>1, <1>3, <1>4, StaysCalm

(* ... by a request that goes on as q and saves nothing.                   *)
LEMMA GoesCalmly ==
    ASSUME HInv, Calmly, Observe, OneAtATime', NEW r \in Request, NEW q, Goto(r, q),
           sweep.pc = "idle", UNCHANGED <<up, sweep, stored>>,
           req[r].pc \notin {"save", "look", "mark"}, q.pc \notin {"save", "mark"},
           DOMAIN nodes' \subseteq DOMAIN nodes, \A n \in DOMAIN nodes' : nodes'[n] = nodes[n],
           \A g \in Gid : registry'[g] \in {"fresh", "due"} => registry'[g] = registry[g]
    PROVE  Calmly'
<1>1. req'[r] = q /\ \A p \in Request : p # r => req'[p] = req[p]
  BY GotoIs
<1>2. /\ \A p \in Request : req'[p].pc \in {"save", "mark"} => req'[p] = req[p]
      /\ \A p \in Request : req[p].pc \in {"save", "look", "mark"} => req'[p] = req[p]
  BY <1>1
<1>3. Tidy(nodes', req', stored')
  BY <1>2, TidyKept
<1>4. \A g \in Gid : Changing(g) => Changing(g)'
  BY <1>2 DEF Changing
<1> QED BY <1>2, <1>3, <1>4, ServedCalmly

LEMMA AskCalm ==
    ASSUME HInv, Calmly, Observe, OneAtATime', NEW r \in Request, Ask(r) PROVE Calmly'
<1>1. /\ req[r].pc = "idle" /\ UNCHANGED <<up, nodes, open, registry, stored, sweep>>
  BY DEF Ask, memory
<1>2. PICK q : Goto(r, q) /\ q.pc \in Call
  BY DEF Ask
<1>3. q.pc \notin {"save", "mark", "idle"}
  BY <1>2, HostAssumption
<1>4. sweep'.pc = "idle"
  <2>1. req'[r].pc # "idle"
    BY <1>2, <1>3, GotoIs
  <2> QED BY <2>1 DEF OneAtATime, Busy
<1> QED BY <1>1, <1>2, <1>3, <1>4, GoesCalmly

LEMMA LoadCalm ==
    ASSUME HInv, Calmly, Observe, OneAtATime', NEW r \in Request, Load(r) PROVE Calmly'
<1> DEFINE g == req[r].gid
<1>1. req[r].pc = "create" /\ UNCHANGED <<up, open, registry, stored, sweep>>
  BY DEF Load
<1>2. /\ Busy(r) /\ sweep.pc = "idle" /\ g \in Gid
      /\ \A p \in Request : p # r => ~Busy(p)
  BY <1>1, NotSweeping, RequestOf DEF Busy
<1>3. CASE IsOpen(g) \/ ~Loadable(g)
  <2>1. PICK q : Goto(r, q) /\ q.pc \in {"register", "idle"} /\ nodes' = nodes
    <3>1. CASE IsOpen(g)
      <4>1. Goto(r, [req[r] EXCEPT !.pc = "register"]) /\ nodes' = nodes
        BY <3>1 DEF Load
      <4>2. req[r] \in RequestRecord
        BY <1>1, RequestOf
      <4>3. [req[r] EXCEPT !.pc = "register"].pc = "register"
        BY <4>2 DEF RequestRecord
      <4> QED BY <4>1, <4>3
    <3>2. CASE ~IsOpen(g) /\ ~Loadable(g)
      <4>1. Goto(r, Idle) /\ nodes' = nodes
        BY <3>2 DEF Load, Answer, Goto
      <4> QED BY <4>1, IdleServes
    <3> QED BY <1>3, <3>1, <3>2
  <2> QED BY <2>1, <1>1, <1>2, GoesCalmly
<1>4. CASE ~IsOpen(g) /\ Loadable(g)
  <2> DEFINE n == CHOOSE i \in NodeId : i \notin DOMAIN nodes
             s == IF stored[g] = None THEN NewGroup ELSE stored[g]
             node == [gid |-> g, state |-> s, version |-> IF stored[g] = None THEN "zero" ELSE "equal"]
             pc == IF stored[g] = None THEN "save" ELSE "insert"
             q == [req[r] EXCEPT !.node = n, !.pc = pc]
             ns == [i \in DOMAIN nodes \cup {n} |-> IF i = n THEN node ELSE nodes[i]]
  <2>1. Goto(r, q) /\ nodes' = ns
    BY <1>4 DEF Load
  <2>2. req[r] \in RequestRecord
    BY <1>1, RequestOf
  <2>3. n \notin DOMAIN nodes /\ n \in NodeId
    BY <1>1, FreeNode
  <2>4. q.pc = pc /\ q.node = n /\ q.gid = g
    BY <2>2 DEF RequestRecord
  <2>5. pc \in {"save", "insert"} /\ (pc = "save" <=> stored[g] = None)
    OBVIOUS
  <2>6. /\ DOMAIN ns = DOMAIN nodes \cup {n} /\ ns[n].gid = g /\ ns[n].state = s
        /\ ns[n].version = (IF stored[g] = None THEN "zero" ELSE "equal")
        /\ \A i \in DOMAIN nodes : ns[i] = nodes[i]
    BY <2>3
  <2> HIDE DEF n, pc, q, ns
  <2>7. \A m \in DOMAIN nodes : nodes[m].gid # g
    <3>1. \A m \in DOMAIN nodes : \E h \in Gid : open[h] = m
      <4>1. req[r].node = None
        BY <1>1, RequestOf DEF Serves, Nodeless
      <4>2. \A m \in DOMAIN nodes : \A p \in Request : ~Refers(req[p], m)
        BY <4>1, <1>2, NodeOf DEF Refers, Busy
      <4> QED BY <4>2 DEF HInv, Memory, Reached
    <3>2. \A h \in Gid : open[h] # None => nodes[open[h]].gid = h
      BY OpenOf DEF IsOpen
    <3>3. \A m \in DOMAIN nodes : m # None
      BY NodeOf
    <3> QED BY <3>1, <3>2, <3>3, <1>4 DEF IsOpen
  <2>8. req'[r] = q /\ \A p \in Request : p # r => req'[p].pc = "idle"
    BY <2>1, <1>2, GotoIs DEF Busy
  <2>9. \A m \in DOMAIN nodes : InStore(nodes[m], stored)
    <3>1. \A p \in Request : req[p].pc # "save"
      BY <1>1, <1>2 DEF Busy
    <3> QED BY <3>1 DEF Calmly, Tidy, IsNew
  <2>10. Tidy(nodes', req', stored')
    <3>1. \A k, m \in DOMAIN ns : ns[k].gid = ns[m].gid => k = m
      BY <2>6, <2>7 DEF Calmly, Tidy
    <3>2. stored[g] # None => Exists(stored[g])
      BY <1>4 DEF Loadable, Exists
    <3>3. InStore(ns[n], stored) \/ IsNew(n, ns[n], req', stored)
      BY <2>4, <2>5, <2>6, <2>8, <3>2 DEF InStore, IsNew
    <3>4. \A m \in DOMAIN ns : InStore(ns[m], stored) \/ IsNew(m, ns[m], req', stored)
      BY <2>6, <2>9, <3>3
    <3> QED BY <2>1, <1>1, <3>1, <3>4 DEF Tidy
  <2>11. \A h \in Gid : ~Changing(h)
    BY <1>1, <1>2 DEF Changing, Busy
  <2>12. \A p \in Request : req'[p].pc # "mark"
    BY <2>4, <2>5, <2>8
  <2> QED BY <1>1, <1>2, <2>10, <2>11, <2>12, ServedCalmly
<1> QED BY <1>3, <1>4

LEMMA SaveNewCalm ==
    ASSUME HInv, Calmly, Observe, OneAtATime', ~Fault, NEW r \in Request, SaveNew(r)
    PROVE  Calmly'
<1> DEFINE q == [req[r] EXCEPT !.pc = "insert"]
           n == req[r].node
<1>1. req[r].pc = "save" /\ Serving(r, NewGroup, q, Idle) /\ UNCHANGED registry
  BY DEF SaveNew
<1>2. sweep.pc = "idle" /\ \A p \in Request : p # r => ~Busy(p)
  BY <1>1, NotSweeping DEF Busy
<1>3. req[r].pc # "idle" /\ req[r].pc \in Holding
  BY <1>1 DEF Holding, Fresh
<1>4. /\ n \in DOMAIN nodes /\ nodes[n].gid = req[r].gid /\ req[r].gid \in Gid
      /\ nodes[n].version = "zero" /\ req[r] \in RequestRecord
  BY <1>1, <1>3, RequestOf DEF Serves
<1>5. q.pc = "insert"
  BY <1>4 DEF RequestRecord
<1> HIDE DEF q
<1>6. Write(n, NewGroup, "equal") /\ Goto(r, q) /\ UNCHANGED <<up, open, sweep>>
  BY <1>1, <1>4, CalmServing
<1>7. req'[r] = q /\ \A p \in Request : p # r => req'[p] = req[p] /\ req[p].pc = "idle"
  BY <1>2, <1>6, GotoIs DEF Busy
<1>8. /\ \A p \in Request : req'[p].pc # "mark"
      /\ \A p \in Request : req[p].pc = "save" => req[p].node = n
      /\ \A g \in Gid : ~Changing(g)
  BY <1>1, <1>5, <1>7 DEF Changing
<1>9. stored[req[r].gid] = None
  BY <1>4 DEF Calmly, Tidy, InStore, IsNew
<1> HIDE DEF n
<1>10. /\ Tidy(nodes', req', stored')
       /\ \A g \in Gid : g # req[r].gid => stored'[g] = stored[g]
  BY <1>4, <1>6, <1>8, NewGroupIsGroup, TidySaved
<1>11. \A g \in Gid : Exists(stored[g]) => stored'[g] = stored[g]
  BY <1>9, <1>10 DEF Exists
<1> QED BY <1>1, <1>2, <1>6, <1>8, <1>10, <1>11, ServedCalmly

LEMMA InsertCalm ==
    ASSUME HInv, Calmly, Observe, OneAtATime', NEW r \in Request, Insert(r) PROVE Calmly'
<1> DEFINE q == [req[r] EXCEPT !.pc = "register", !.node = None]
<1>1. /\ req[r].pc = "insert" /\ Goto(r, q) /\ Remember(nodes)
      /\ UNCHANGED <<up, registry, stored, sweep>>
  BY DEF Insert
<1>2. sweep.pc = "idle" /\ req[r] \in RequestRecord
  BY <1>1, NotSweeping, RequestOf DEF Busy
<1>3. q.pc = "register"
  BY <1>2 DEF RequestRecord
<1> HIDE DEF q
<1> QED BY <1>1, <1>2, <1>3, Remembered, GoesCalmly

LEMMA RegisterCalm ==
    ASSUME HInv, Calmly, Observe, OneAtATime', ~Fault, NEW r \in Request, Register(r)
    PROVE  Calmly'
<1>1. /\ req[r].pc = "register" /\ Goto(r, Idle) /\ UNCHANGED <<up, nodes, stored, sweep>>
      /\ registry' = [registry EXCEPT ![req[r].gid] = "none"]
  BY DEF Register, Answer, Goto, memory
<1>2. sweep.pc = "idle"
  BY <1>1, NotSweeping DEF Busy
<1>3. \A g \in Gid : registry'[g] \in {"fresh", "due"} => registry'[g] = registry[g]
  BY <1>1 DEF HInv, RegistryTyped
<1> QED BY <1>1, <1>2, <1>3, IdleServes, GoesCalmly

LEMMA RenameCalm ==
    ASSUME HInv, Calmly, Observe, OneAtATime', NEW r \in Request, Rename(r) PROVE Calmly'
<1>1. /\ req[r].pc = "rename" /\ Goto(r, Idle) /\ UNCHANGED <<up, nodes, stored, sweep>>
      /\ registry' = [registry EXCEPT ![req[r].gid] = IF @ = None THEN "none" ELSE @]
  BY DEF Rename, Answer, Goto, memory
<1>2. sweep.pc = "idle"
  BY <1>1, NotSweeping DEF Busy
<1>3. \A g \in Gid : registry'[g] \in {"fresh", "due"} => registry'[g] = registry[g]
  BY <1>1 DEF HInv, RegistryTyped
<1> QED BY <1>1, <1>2, <1>3, IdleServes, GoesCalmly

LEMMA OtherCalm ==
    ASSUME HInv, Calmly, Observe, OneAtATime', ~Fault, NEW r \in Request, Other(r)
    PROVE  Calmly'
<1> DEFINE n == req[r].node
           s == nodes[n].state
<1>1. req[r].pc = "other" /\ Serving(r, s, Idle, Idle) /\ UNCHANGED registry
  BY DEF Other
<1>2. sweep.pc = "idle" /\ \A p \in Request : p # r => ~Busy(p)
  BY <1>1, NotSweeping DEF Busy
<1>3. n \in DOMAIN nodes
  BY <1>1, NotFresh DEF Holding, Fresh
<1>4. s \in Group /\ nodes[n].gid \in Gid
  BY <1>3, NodeOf
<1>5. Write(n, s, "equal") /\ Goto(r, Idle) /\ UNCHANGED <<up, open, sweep>>
  BY <1>1, <1>3, CalmServing
<1>6. req'[r] = Idle /\ \A p \in Request : p # r => req'[p] = req[p] /\ req[p].pc = "idle"
  BY <1>2, <1>5, GotoIs DEF Busy
<1>7. /\ \A p \in Request : req'[p].pc = "idle" /\ req[p].pc # "save"
      /\ \A g \in Gid : ~Changing(g)
  BY <1>1, <1>6, IdleServes DEF Changing
<1> HIDE DEF n, s
<1>8. /\ Tidy(nodes', req', stored') /\ stored'[nodes[n].gid] = s /\ Exists(s)
      /\ \A g \in Gid : g # nodes[n].gid => stored'[g] = stored[g]
  BY <1>3, <1>4, <1>5, <1>7, TidySaved
<1>9. ASSUME NEW g \in Gid, Exists(stored[g])
      PROVE  Exists(stored'[g]) /\ stored'[g].members = stored[g].members
  BY <1>3, <1>8, <1>9, CalmSaves DEF s
<1> QED BY <1>1, <1>2, <1>5, <1>7, <1>8, <1>9, ServedCalmly

(* An empty group that is changed has somebody in it again.                *)
LEMMA ChangeCalm ==
    ASSUME HInv, Calmly, Observe, OneAtATime', ~Fault, NEW r \in Request, Change(r)
    PROVE  Calmly'
<1> DEFINE n == req[r].node
           g == req[r].gid
           s == nodes[n].state
           w == req[r].who
           after == IF req[r].pc = "join" THEN s.members \cup {w} ELSE s.members \ {w}
           changed == IF req[r].pc = "join" THEN Joined(s, w) ELSE Departed(s, w)
           q == [req[r] EXCEPT !.pc = "look"]
<1>1. /\ req[r].pc \in {"join", "leave"} /\ UNCHANGED registry
      /\ IF changed = s THEN Goto(r, q) /\ UNCHANGED <<up, nodes, open, stored, sweep>>
         ELSE Serving(r, changed, q, q)
  BY DEF Change, memory
<1>2. sweep.pc = "idle" /\ \A p \in Request : p # r => ~Busy(p)
  BY <1>1, NotSweeping DEF Busy
<1>3. req[r].pc \in Holding \ Fresh /\ req[r].pc # "idle" /\ req[r].pc \in Holding
  BY <1>1 DEF Holding, Fresh
<1>4. /\ n \in DOMAIN nodes /\ nodes[n].gid = g /\ g \in Gid /\ w \in Member
      /\ req[r] \in RequestRecord
  BY <1>1, <1>3, RequestOf DEF Serves
<1>5. s \in Group
  BY <1>4, NodeOf
<1>6. q.pc = "look" /\ q.gid = g
  BY <1>4 DEF RequestRecord
<1>7. CASE changed = s
  <2>1. Goto(r, q) /\ UNCHANGED <<up, nodes, open, stored, sweep>>
    BY <1>1, <1>7
  <2> HIDE DEF q
  <2>2. req[r].pc \notin {"save", "look", "mark"}
    BY <1>1
  <2> QED BY <2>1, <2>2, <1>1, <1>2, <1>6, GoesCalmly
<1>8. CASE changed # s
  <2>1. after \in SUBSET Member
    BY <1>4, <1>5 DEF Group
  <2>2. s.members = {} => after # {}
    <3>1. s.members = after => changed = s
      BY <1>5 DEF Group, Joined, Departed
    <3> QED BY <3>1, <1>8
  <2> HIDE DEF after
  <2>3. changed \in Group /\ changed.members = after
    BY <2>1, <1>5 DEF Group, Joined, Departed, after
  <2> HIDE DEF changed, s, n, q
  <2>4. Write(n, changed, "equal") /\ Goto(r, q) /\ UNCHANGED <<up, open, sweep>>
    BY <1>1, <1>4, <1>8, CalmServing DEF n
  <2>5. req'[r] = q /\ \A p \in Request : p # r => req'[p] = req[p] /\ req[p].pc = "idle"
    BY <2>4, <1>2, GotoIs DEF Busy
  <2>6. /\ \A p \in Request : req'[p].pc \notin {"save", "mark"} /\ req[p].pc # "save"
        /\ \A k \in Gid : ~Changing(k)
    BY <1>1, <1>6, <2>5 DEF Changing
  <2>7. /\ Tidy(nodes', req', stored') /\ Exists(stored'[nodes[n].gid])
        /\ stored'[nodes[n].gid] = changed
        /\ \A k \in Gid : k # nodes[n].gid => stored'[k] = stored[k]
    BY <1>4, <2>3, <2>4, <2>6, TidySaved
  <2>8. ~Gone(g) /\ \A k \in Gid : ~Gone(k)
    BY <1>2, <1>4 DEF Gone
  <2>9. ASSUME NEW k \in Gid PROVE MarkOf(k)'
    <3>1. CASE k # g
      <4>1. stored'[k] = stored[k]
        BY <3>1, <1>4, <2>7
      <4> QED BY <4>1, <2>6, <2>8, <1>1, MarkKept
    <3>2. CASE k = g
      <4> SUFFICES ASSUME registry'[k] \in {"fresh", "due"}
                   PROVE  Exists(stored'[k]) /\ Changing(k)' /\ ~IsEmpty(k)'
        BY DEF MarkOf
      <4>1. Exists(stored'[k]) /\ stored'[k].members = after
        BY <3>2, <1>4, <2>3, <2>7
      <4>2. Changing(k)'
        BY <3>2, <1>6, <2>5 DEF Changing
      <4>3. IsEmpty(k)
        BY <1>1, <2>6, <2>8 DEF Calmly, Marks, MarkOf
      <4>4. s.members = {}
        BY <4>3, <3>2, <1>4, CalmSaves DEF IsEmpty, s
      <4> QED BY <4>1, <4>2, <4>4, <2>2 DEF IsEmpty
    <3> QED BY <3>1, <3>2
  <2>10. Marks'
    BY <2>6, <2>9 DEF Marks
  <2>11. SweepMarked' /\ up'
    BY <2>4, <1>2, SweepIdle DEF Calmly
  <2> QED BY <2>7, <2>10, <2>11, StaysCalm
<1> QED BY <1>7, <1>8

LEMMA LookCalm ==
    ASSUME HInv, Calmly, Observe, OneAtATime', NEW r \in Request, Look(r) PROVE Calmly'
<1> DEFINE n == req[r].node
           none == nodes[n].state.members = {}
           q == [req[r] EXCEPT !.pc = "mark", !.node = None, !.empty = none]
<1>1. /\ req[r].pc = "look" /\ Goto(r, q) /\ Remember(nodes)
      /\ UNCHANGED <<up, open, registry, stored, sweep>>
  BY DEF Look
<1>2. sweep.pc = "idle" /\ \A p \in Request : p # r => ~Busy(p)
  BY <1>1, NotSweeping DEF Busy
<1>3. req[r].pc # "idle" /\ req[r].pc \in Holding
  BY <1>1 DEF Holding, Fresh
<1>4. PICK g \in Gid : g = req[r].gid
  BY <1>3, RequestOf
<1>5. n \in DOMAIN nodes /\ nodes[n].gid = g /\ req[r] \in RequestRecord
  BY <1>3, <1>4, RequestOf
<1>6. none \in BOOLEAN
  OBVIOUS
<1> HIDE DEF none
<1>7. q.pc = "mark" /\ q.gid = g /\ q.empty = none
  BY <1>4, <1>5, <1>6 DEF RequestRecord
<1> HIDE DEF q, n
<1>8. req'[r] = q /\ \A p \in Request : p # r => req'[p] = req[p] /\ req[p].pc = "idle"
  BY <1>1, <1>2, GotoIs DEF Busy
<1>9. \A p \in Request : req'[p].pc # "save" /\ req[p].pc # "save"
  BY <1>1, <1>7, <1>8
<1>10. Tidy(nodes', req', stored')
  BY <1>1, <1>9, Remembered, TidyKept
<1>11. \A k \in Gid : Changing(k) => Changing(k)'
  BY <1>1, <1>4, <1>7, <1>8 DEF Changing
<1>12. \A k \in Gid : ~Gone(k)
  BY <1>2 DEF Gone
<1>13. \A k \in Gid : MarkOf(k)'
  BY <1>1, <1>11, <1>12, MarkKept
<1>14. ASSUME none PROVE Exists(stored'[g]) /\ stored'[g].members = {} /\ left'[g] # "no"
  <2>1. Exists(stored[g])
    BY <1>5, <1>9 DEF Calmly, Tidy, InStore, IsNew
  <2>2. stored[g].members = {}
    BY <2>1, <1>5, <1>14, CalmSaves DEF none
  <2>3. Exists(stored'[g]) /\ stored'[g].members = {}
    BY <2>1, <2>2, <1>1
  <2>4. IsEmpty(g)'
    BY <2>3 DEF IsEmpty
  <2> QED BY <2>3, <2>4, LeftIs
<1>15. Marks'
  <2>1. ASSUME NEW p \in Request, req'[p].pc = "mark", req'[p].empty
        PROVE  /\ Exists(stored'[req'[p].gid]) /\ stored'[req'[p].gid].members = {}
               /\ left'[req'[p].gid] # "no"
    <3>1. p = r
      BY <2>1, <1>8
    <3> QED BY <2>1, <3>1, <1>7, <1>8, <1>14
  <2> QED BY <2>1, <1>13 DEF Marks, IsEmpty
<1>16. SweepMarked' /\ up'
  BY <1>1, <1>2, SweepIdle DEF Calmly
<1> QED BY <1>10, <1>15, <1>16, StaysCalm

LEMMA MarkCalm ==
    ASSUME HInv, Calmly, Observe, OneAtATime', ~Fault, NEW r \in Request, Mark(r)
    PROVE  Calmly'
<1>1. /\ req[r].pc = "mark" /\ Goto(r, Idle) /\ UNCHANGED <<up, nodes, stored, sweep>>
      /\ registry' = [registry EXCEPT ![req[r].gid] = Marked(registry[req[r].gid], req[r].empty)]
  BY DEF Mark, Answer, Goto, memory
<1>2. sweep.pc = "idle" /\ \A p \in Request : p # r => ~Busy(p)
  BY <1>1, NotSweeping DEF Busy
<1>3. PICK g \in Gid : g = req[r].gid
  BY <1>1, RequestOf
<1>4. req'[r] = Idle /\ \A p \in Request : p # r => req'[p] = req[p] /\ req[p].pc = "idle"
  BY <1>1, <1>2, GotoIs DEF Busy
<1>5. \A p \in Request : req'[p].pc = "idle" /\ req[p].pc # "save"
  BY <1>1, <1>4, IdleServes
<1>6. Tidy(nodes', req', stored')
  BY <1>1, <1>5, TidyKept
<1>7. \A k \in Gid : ~Gone(k)
  BY <1>2 DEF Gone
<1>8. /\ registry'[g] = Marked(registry[g], req[r].empty)
      /\ \A k \in Gid : k # g => registry'[k] = registry[k]
  BY <1>1, <1>3 DEF HInv, RegistryTyped
<1>9. ASSUME NEW k \in Gid PROVE MarkOf(k)'
  <2>1. CASE k # g
    <3>1. ~Changing(k)
      BY <2>1, <1>3, <1>4 DEF Changing
    <3> QED BY <3>1, <2>1, <1>1, <1>7, <1>8, MarkKept
  <2>2. CASE k = g
    <3> SUFFICES ASSUME registry'[k] \in {"fresh", "due"}
                 PROVE  /\ IsEmpty(k)' /\ left'[k] # "no"
                        /\ registry'[k] = "due" => left'[k] = "long"
      BY DEF MarkOf, IsEmpty
    <3>1. registry[g] \in {None, "none", "fresh", "due"}
      BY DEF HInv, RegistryTyped
    <3>2. req[r].empty /\ (registry'[k] = registry[k] \/ registry'[k] = "fresh")
      BY <3>1, <2>2, <1>8 DEF Marked
    <3>3. IsEmpty(k) /\ left[k] # "no"
      BY <3>2, <2>2, <1>1, <1>3 DEF Calmly, Marks
    <3>4. IsEmpty(k)'
      BY <3>3, <1>1 DEF IsEmpty
    <3>5. registry'[k] = "due" => left[k] = "long"
      BY <3>2, <3>3, <1>7 DEF Calmly, Marks, MarkOf
    <3> QED BY <3>4, <3>5, LeftIs
  <2> QED BY <2>1, <2>2
<1>10. Marks'
  BY <1>5, <1>9 DEF Marks
<1>11. SweepMarked' /\ up'
  BY <1>1, <1>2, SweepIdle DEF Calmly
<1> QED BY <1>6, <1>10, <1>11, StaysCalm

(***************************************************************************)
(* The sweep, alone, and what goes on by itself.                           *)
(***************************************************************************)
LEMMA RequestsWait ==
    ASSUME HInv, Calmly, req' = req
    PROVE  /\ \A g \in Gid : Changing(g) => Changing(g)'
           /\ \A r \in Request : req'[r].pc = "mark" => req'[r] = req[r]
           /\ \A r \in Request : req[r].pc = "save" => req'[r] = req[r]
BY DEF Changing

(* Nothing stored changes.                                                 *)
LEMMA SweepsCalmly ==
    ASSUME HInv, Calmly, Observe, OneAtATime', UNCHANGED <<up, req, stored>>,
           DOMAIN nodes' \subseteq DOMAIN nodes, \A n \in DOMAIN nodes' : nodes'[n] = nodes[n],
           \A g \in Gid : registry'[g] \in {"fresh", "due"} /\ ~Gone(g)' =>
                             registry'[g] = registry[g] /\ ~Gone(g),
           SweepMarked'
    PROVE  Calmly'
<1>1. Tidy(nodes', req', stored')
  BY TidyKept
<1>2. Marks'
  BY RequestsWait, MarksKept
<1> QED BY <1>1, <1>2, StaysCalm DEF Calmly

(* An open group's node saves, with the members it has.                    *)
LEMMA SavesCalmly ==
    ASSUME HInv, Calmly, Observe, OneAtATime', NEW g \in Gid, IsOpen(g), NEW s \in Group,
           s.members = StateOf(g).members, Write(open[g], s, "equal"),
           UNCHANGED <<up, req>>, registry' = registry,
           (\A k \in Gid : k # g => stored'[k] = stored[k])
              => SweepMarked' /\ \A k \in Gid : Gone(k) => Gone(k)'
    PROVE  Calmly'
<1> DEFINE n == open[g]
<1>1. n \in DOMAIN nodes /\ nodes[n].gid = g
  BY OpenOf
<1>2. s.members = nodes[n].state.members
  BY DEF StateOf
<1>3. Write(n, s, "equal")
  OBVIOUS
<1>4. \A p \in Request : req[p].pc = "save" /\ req[p].node # n => req'[p] = req[p]
  OBVIOUS
<1> HIDE DEF n
<1>5. /\ Tidy(nodes', req', stored') /\ stored'[nodes[n].gid] = s /\ Exists(s)
      /\ \A k \in Gid : k # nodes[n].gid => stored'[k] = stored[k]
  BY <1>1, <1>3, <1>4, TidySaved
<1>6. ASSUME NEW k \in Gid, Exists(stored[k])
      PROVE  Exists(stored'[k]) /\ stored'[k].members = stored[k].members
  BY <1>1, <1>2, <1>5, <1>6, CalmSaves
<1>7. SweepMarked' /\ \A k \in Gid : Gone(k) => Gone(k)'
  BY <1>1, <1>5
<1>8. Marks'
  BY <1>6, <1>7, RequestsWait, MarksKept
<1> QED BY <1>5, <1>7, <1>8, StaysCalm DEF Calmly

LEMMA SweepFields ==
    ASSUME HInv
    PROVE  /\ sweep = [pc |-> sweep.pc, todo |-> sweep.todo, gid |-> sweep.gid,
                       peers |-> sweep.peers, peer |-> sweep.peer]
           /\ sweep.todo \in SUBSET Gid /\ sweep.peers \in SUBSET Gid
           /\ sweep.pc \in AtWork => sweep.gid \in Gid
BY DEF HInv, SweepTyped

LEMMA EnvelopeCalm ==
    ASSUME HInv, Calmly, Observe, OneAtATime', ~Fault, NEW g \in Gid, NEW h \in Gid,
           Deliver(g, h) \/ Arrive(g, h)
    PROVE  Calmly'
<1>1. PICK p \in Pool : IsOpen(h) /\ Handling(h, WithPool(h, g, p)) /\ registry' = registry
  <2>1. CASE Deliver(g, h)
    BY <2>1 DEF Deliver, Pool
  <2>2. CASE Arrive(g, h)
    BY <2>2, PoolIs, PaidInIs DEF Arrive
  <2> QED BY <2>1, <2>2
<1> DEFINE s == WithPool(h, g, p)
<1>2. s \in Group /\ s.members = StateOf(h).members
  BY <1>1, WithPoolIsGroup
<1>3. Write(open[h], s, "equal") /\ UNCHANGED <<up, open, req, sweep>>
  BY <1>1, CalmHandling
<1> HIDE DEF s
<1>4. ASSUME \A k \in Gid : k # h => stored'[k] = stored[k]
      PROVE  SweepMarked' /\ \A k \in Gid : Gone(k) => Gone(k)'
  <2>1. /\ sweep.pc # "idle" => \A k \in sweep.todo : registry[k] = "due"
        /\ sweep.pc \in AtWork => registry[sweep.gid] = "due" /\ sweep.gid \notin sweep.todo
        /\ sweep.pc \in {"delete", "deleting", "unregister"} => open[sweep.gid] = None
        /\ sweep.pc = "deleting" => ~Exists(stored[sweep.gid])
    BY DEF Calmly, SweepMarked, IsOpen
  <2>2. sweep.pc = "deleting" => sweep.gid \in Gid /\ sweep.gid # h
    BY <2>1, <1>1, SweepFields DEF AtWork, IsOpen
  <2>3. SweepMarked'
    BY <2>1, <2>2, <1>1, <1>3, <1>4 DEF SweepMarked, IsOpen, AtWork
  <2> QED BY <2>3, <1>3 DEF Gone
<1> QED BY <1>1, <1>2, <1>3, <1>4, SavesCalmly

LEMMA CronCalm == ASSUME HInv, Calmly, Observe, OneAtATime', Cron PROVE Calmly'
<1>1. /\ sweep.pc = "idle" /\ UNCHANGED <<up, nodes, open, registry, stored, req>>
      /\ sweep' = [NoSweep EXCEPT !.pc = "next", !.todo = {g \in Gid : Due(g)}]
  BY DEF Cron, memory
<1>2. sweep'.pc = "next" /\ sweep'.todo = {g \in Gid : Due(g)}
  BY <1>1 DEF NoSweep
<1>3. SweepMarked' /\ \A g \in Gid : ~Gone(g) /\ ~Gone(g)'
  BY <1>1, <1>2 DEF SweepMarked, AtWork, Due, Gone
<1> QED BY <1>1, <1>3, SweepsCalmly

LEMMA SweepNextCalm == ASSUME HInv, Calmly, Observe, OneAtATime', SweepNext PROVE Calmly'
<1>1. sweep.pc = "next" /\ UNCHANGED <<up, nodes, open, registry, stored, req>>
  BY DEF SweepNext, memory
<1>2. \A g \in sweep.todo : registry[g] = "due"
  BY <1>1 DEF Calmly, SweepMarked
<1>3. SweepMarked' /\ \A g \in Gid : ~Gone(g)'
  <2>1. CASE sweep.todo = {}
    BY <2>1, <1>1, NoSweepTyped, SweepIdle DEF SweepNext
  <2>2. CASE sweep.todo # {}
    <3>1. PICK g \in sweep.todo :
            sweep' = [sweep EXCEPT !.todo = @ \ {g},
                                   !.pc = IF Skipped(g) THEN "next" ELSE "remove", !.gid = g]
      BY <2>2, <1>1 DEF SweepNext
    <3>2. sweep'.todo = sweep.todo \ {g} /\ sweep'.gid = g /\ sweep'.pc \in {"next", "remove"}
      BY <3>1, SweepFields
    <3> QED BY <3>2, <1>1, <1>2 DEF SweepMarked, Gone, AtWork
  <2> QED BY <2>1, <2>2
<1>4. \A g \in Gid : ~Gone(g)
  BY <1>1 DEF Gone
<1> QED BY <1>1, <1>3, <1>4, SweepsCalmly

(* A group that is removed is marked due, and is not looked at again.      *)
LEMMA AtWorkOn ==
    ASSUME HInv, Calmly, sweep.pc \in AtWork
    PROVE  /\ sweep.gid \in Gid /\ registry[sweep.gid] = "due" /\ sweep.gid \notin sweep.todo
           /\ \A g \in sweep.todo : registry[g] = "due"
BY SweepFields DEF Calmly, SweepMarked, AtWork

LEMMA GoesOnWith ==
    ASSUME HInv, Calmly, sweep.pc \in {"remove", "close", "close there", "retire"},
           registry' = registry, sweep'.gid = sweep.gid, sweep'.todo = sweep.todo,
           \/ sweep'.pc \in {"close", "close there", "retire"}
           \/ sweep'.pc = "delete" /\ open'[sweep.gid] = None
    PROVE  SweepMarked' /\ \A g \in Gid : ~Gone(g) /\ ~Gone(g)'
<1>1. sweep.pc \in AtWork
  BY DEF AtWork
<1>2. registry[sweep.gid] = "due" /\ sweep.gid \notin sweep.todo
      /\ \A g \in sweep.todo : registry[g] = "due"
  BY <1>1, AtWorkOn
<1> QED BY <1>2 DEF SweepMarked, Gone, AtWork, IsOpen

LEMMA RemoveCalm == ASSUME HInv, Calmly, Observe, OneAtATime', Remove PROVE Calmly'
<1>1. /\ sweep.pc = "remove" /\ UNCHANGED <<up, nodes, open, registry, stored, req>>
      /\ sweep' = [sweep EXCEPT !.pc = IF IsOpen(sweep.gid) THEN "close" ELSE "delete",
                                !.peers = {h \in Gid \ {sweep.gid} : IsOpen(h)}]
  BY DEF Remove, memory
<1>2. /\ sweep'.gid = sweep.gid /\ sweep'.todo = sweep.todo
      /\ sweep'.pc = IF IsOpen(sweep.gid) THEN "close" ELSE "delete"
  BY <1>1, SweepFields
<1>3. SweepMarked' /\ \A g \in Gid : ~Gone(g) /\ ~Gone(g)'
  BY <1>1, <1>2, GoesOnWith DEF IsOpen
<1> QED BY <1>1, <1>3, SweepsCalmly

LEMMA CloseHereCalm ==
    ASSUME HInv, Calmly, Observe, OneAtATime', ~Fault, NEW h \in Gid, CloseHere(h) PROVE Calmly'
<1> DEFINE g == sweep.gid
           next == [sweep EXCEPT !.pc = "close there", !.peers = @ \ {h}, !.peer = h]
<1>1. /\ sweep.pc = "close" /\ registry' = registry
      /\ IF StateOf(h).pool[g] = "none"
         THEN sweep' = [sweep EXCEPT !.peers = @ \ {h}]
              /\ UNCHANGED <<up, nodes, open, stored, req>>
         ELSE Sweeping(g, Closed(g, h), next, next)
  BY DEF CloseHere, memory
<1>2. g \in Gid /\ IsOpen(g)
  BY <1>1 DEF HInv, SweepTyped, AtWork, IsOpen
<1>3. next.gid = sweep.gid /\ next.todo = sweep.todo /\ next.pc = "close there"
  BY SweepFields
<1>4. CASE StateOf(h).pool[g] = "none"
  <2>1. sweep' = [sweep EXCEPT !.peers = @ \ {h}] /\ UNCHANGED <<up, nodes, open, stored, req>>
    BY <1>1, <1>4
  <2>2. sweep'.gid = sweep.gid /\ sweep'.todo = sweep.todo /\ sweep'.pc = "close"
    BY <2>1, <1>1, SweepFields
  <2>3. SweepMarked' /\ \A k \in Gid : ~Gone(k) /\ ~Gone(k)'
    BY <2>2, <1>1, GoesOnWith
  <2> QED BY <2>1, <2>3, <1>1, SweepsCalmly
<1>5. CASE StateOf(h).pool[g] # "none"
  <2>1. Write(open[g], Closed(g, h), "equal") /\ sweep' = next /\ UNCHANGED <<up, open, req>>
    BY <1>1, <1>2, <1>5, CalmSweeping
  <2>2. Closed(g, h) \in Group /\ Closed(g, h).members = StateOf(g).members
    BY <1>2, ClosedIsGroup
  <2> HIDE DEF next
  <2>3. SweepMarked' /\ \A k \in Gid : ~Gone(k) /\ ~Gone(k)'
    BY <2>1, <1>1, <1>3, GoesOnWith
  <2> HIDE DEF g
  <2> QED BY <2>1, <2>2, <2>3, <1>1, <1>2, SavesCalmly
<1> QED BY <1>4, <1>5

LEMMA CloseThereCalm ==
    ASSUME HInv, Calmly, Observe, OneAtATime', ~Fault, CloseThere PROVE Calmly'
<1> DEFINE h == sweep.peer
           s == Closed(h, sweep.gid)
           next == [sweep EXCEPT !.pc = "retire"]
<1>1. sweep.pc = "close there" /\ registry' = registry /\ Sweeping(h, s, next, next)
  BY DEF CloseThere
<1>2. sweep.gid \in Gid /\ h \in Gid /\ IsOpen(h)
  BY <1>1, AtPeer
<1>3. s \in Group /\ s.members = StateOf(h).members
  BY <1>2, ClosedIsGroup
<1>4. next.gid = sweep.gid /\ next.todo = sweep.todo /\ next.pc = "retire"
  BY SweepFields
<1> HIDE DEF h, s, next
<1>5. Write(open[h], s, "equal") /\ sweep' = next /\ UNCHANGED <<up, open, req>>
  BY <1>1, <1>2, CalmSweeping
<1>6. SweepMarked' /\ \A k \in Gid : ~Gone(k) /\ ~Gone(k)'
  BY <1>5, <1>1, <1>4, GoesOnWith
<1> QED BY <1>1, <1>2, <1>3, <1>5, <1>6, SavesCalmly

LEMMA RetireReserveCalm ==
    ASSUME HInv, Calmly, Observe, OneAtATime', ~Fault, RetireReserve PROVE Calmly'
<1> DEFINE h == sweep.peer
           g == sweep.gid
           s == WithPool(h, g, "retired")
           next == [sweep EXCEPT !.pc = "close"]
           done == StateOf(h).pool[g] \notin {"closed", "refilled"}
<1>1. /\ sweep.pc = "retire" /\ registry' = registry
      /\ IF done THEN sweep' = next /\ UNCHANGED <<up, nodes, open, stored, req>>
         ELSE Sweeping(h, s, next, NoSweep)
  BY DEF RetireReserve, memory, RetireFailed
<1>2. g \in Gid /\ h \in Gid /\ IsOpen(h)
  BY <1>1, AtPeer
<1>3. s \in Group /\ s.members = StateOf(h).members
  BY <1>2, WithPoolIsGroup DEF Pool
<1>4. next.gid = sweep.gid /\ next.todo = sweep.todo /\ next.pc = "close"
  BY SweepFields
<1> HIDE DEF h, g, s, next, done
<1>5. ASSUME sweep' = next PROVE SweepMarked' /\ \A k \in Gid : ~Gone(k) /\ ~Gone(k)'
  BY <1>5, <1>1, <1>4, GoesOnWith
<1>6. CASE done
  BY <1>1, <1>5, <1>6, SweepsCalmly
<1>7. CASE ~done
  <2>1. Write(open[h], s, "equal") /\ sweep' = next /\ UNCHANGED <<up, open, req>>
    BY <1>1, <1>2, <1>7, CalmSweeping
  <2> QED BY <2>1, <1>1, <1>2, <1>3, <1>5, SavesCalmly
<1> QED BY <1>6, <1>7

LEMMA ForgetCalm == ASSUME HInv, Calmly, Observe, OneAtATime', Forget PROVE Calmly'
<1>1. /\ sweep.pc = "close" /\ Remember(nodes) /\ UNCHANGED <<up, registry, stored, req>>
      /\ open' = [open EXCEPT ![sweep.gid] = None] /\ sweep' = [sweep EXCEPT !.pc = "delete"]
  BY DEF Forget
<1>2. sweep'.gid = sweep.gid /\ sweep'.todo = sweep.todo /\ sweep'.pc = "delete"
  BY <1>1, SweepFields
<1>3. sweep.gid \in Gid
  BY <1>1, SweepFields DEF AtWork
<1>4. open'[sweep.gid] = None
  BY <1>1, <1>3 DEF HInv, Memory, OpenTyped
<1>5. SweepMarked' /\ \A g \in Gid : ~Gone(g) /\ ~Gone(g)'
  BY <1>1, <1>2, <1>4, GoesOnWith
<1> QED BY <1>1, <1>5, Remembered, SweepsCalmly

(* No node is left of a group whose state is deleted.                      *)
LEMMA NoNodeLeft ==
    ASSUME HInv, Calmly, sweep.pc \in {"delete", "deleting", "unregister"}
    PROVE  /\ sweep.gid \in Gid /\ \A n \in DOMAIN nodes : nodes[n].gid # sweep.gid
           /\ \A r \in Request : req[r].pc = "idle"
<1>1. sweep.gid \in Gid /\ open[sweep.gid] = None /\ sweep.pc # "idle"
  BY SweepFields DEF Calmly, SweepMarked, IsOpen, AtWork
<1>2. \A r \in Request : req[r].pc = "idle"
  BY <1>1 DEF Calmly, OneAtATime, Busy
<1>3. ASSUME NEW n \in DOMAIN nodes PROVE nodes[n].gid # sweep.gid
  <2>1. PICK g \in Gid : open[g] = n
    BY <1>2 DEF HInv, Memory, Reached, Refers
  <2>2. n # None
    BY NodeOf
  <2>3. nodes[n].gid = g
    BY <2>1, <2>2, OpenOf DEF IsOpen
  <2> QED BY <2>1, <2>2, <2>3, <1>1
<1> QED BY <1>1, <1>2, <1>3

LEMMA DeleteCalm ==
    ASSUME HInv, Calmly, Observe, OneAtATime', ~Fault, Delete PROVE Calmly'
<1> DEFINE g == sweep.gid
           gone == [sweep EXCEPT !.pc = "unregister"]
           rest_ == [sweep EXCEPT !.pc = "deleting"]
<1>1. /\ sweep.pc \in {"delete", "deleting"} /\ UNCHANGED <<up, open, registry, req>>
      /\ \/ stored[g] = None /\ sweep' = gone /\ UNCHANGED <<stored, nodes>>
         \/ Remains(g, None) /\ sweep' = gone
         \/ sweep.pc = "delete" /\ Remains(g, Broken) /\ sweep' = rest_
  BY DEF Delete
<1>2. /\ registry[g] = "due" /\ g \notin sweep.todo /\ g \in Gid
      /\ \A k \in sweep.todo : registry[k] = "due"
  BY <1>1, AtWorkOn DEF AtWork
<1>3. open[g] = None
  BY <1>1 DEF Calmly, SweepMarked, IsOpen
<1>4. \A n \in DOMAIN nodes : nodes[n].gid # g /\ nodes[n].gid \in Gid
  BY <1>1, NoNodeLeft, NodeOf
<1>5. /\ gone.gid = g /\ gone.todo = sweep.todo /\ gone.pc = "unregister"
      /\ rest_.gid = g /\ rest_.todo = sweep.todo /\ rest_.pc = "deleting"
  BY SweepFields
<1> HIDE DEF g, gone, rest_
<1>6. \A k \in Gid : Gone(k) => k = g
  BY DEF Gone, g
<1>7. CASE stored[g] = None /\ sweep' = gone /\ UNCHANGED <<stored, nodes>>
  <2>1. SweepMarked'
    BY <1>1, <1>2, <1>3, <1>5, <1>7 DEF SweepMarked, AtWork, IsOpen
  <2>2. \A k \in Gid : ~Gone(k)' => ~Gone(k)
    BY <1>5, <1>6, <1>7 DEF Gone
  <2> QED BY <2>1, <2>2, <1>1, <1>7, SweepsCalmly
<1>8. ASSUME NEW rest \in {None, Broken}, Remains(g, rest),
             \/ rest = None /\ sweep' = gone
             \/ rest = Broken /\ sweep' = rest_
      PROVE  Calmly'
  <2>1. /\ stored'[g] = rest /\ \A k \in Gid : k # g => stored'[k] = stored[k]
        /\ DOMAIN nodes' = DOMAIN nodes
        /\ \A n \in DOMAIN nodes : /\ nodes'[n].gid = nodes[n].gid
                                   /\ nodes'[n].state = nodes[n].state
                                   /\ nodes'[n].version = nodes[n].version
    BY <1>2, <1>4, <1>8, RemainsIs
  <2>2. SweepMarked'
    BY <2>1, <1>1, <1>2, <1>3, <1>5, <1>8 DEF SweepMarked, AtWork, IsOpen, Exists
  <2>3. \A k \in Gid : ~Gone(k)' => k # g /\ ~Gone(k)
    BY <1>5, <1>6, <1>8 DEF Gone
  <2>4. Tidy(nodes', req', stored')
    BY <2>1, <1>1, <1>4, TidyKept
  <2>5. Marks'
    BY <2>1, <2>3, <1>1, RequestsWait, MarksKept
  <2> QED BY <2>2, <2>4, <2>5, <1>1, StaysCalm DEF Calmly
<1> QED BY <1>1, <1>7, <1>8

LEMMA UnregisterCalm ==
    ASSUME HInv, Calmly, Observe, OneAtATime', ~Fault, Unregister PROVE Calmly'
<1> DEFINE g == sweep.gid
<1>1. /\ sweep.pc = "unregister" /\ UNCHANGED <<up, nodes, open, stored, req>>
      /\ registry' = [registry EXCEPT ![g] = None] /\ sweep' = [sweep EXCEPT !.pc = "next"]
  BY DEF Unregister, memory
<1>2. g \notin sweep.todo /\ g \in Gid /\ \A k \in sweep.todo : registry[k] = "due"
  BY <1>1, AtWorkOn DEF AtWork
<1>3. registry'[g] = None /\ \A k \in Gid : k # g => registry'[k] = registry[k]
  BY <1>1, <1>2 DEF HInv, RegistryTyped
<1>4. sweep'.todo = sweep.todo /\ sweep'.pc = "next" /\ sweep.todo \subseteq Gid
  BY <1>1, SweepFields
<1>5. SweepMarked'
  BY <1>2, <1>3, <1>4 DEF SweepMarked, AtWork
<1>6. \A k \in Gid : registry'[k] \in {"fresh", "due"} => k # g
  BY <1>3, NothingAssumption
<1>7. \A k \in Gid : registry'[k] \in {"fresh", "due"} => registry'[k] = registry[k] /\ ~Gone(k)
  BY <1>3, <1>6 DEF Gone
<1> QED BY <1>1, <1>5, <1>7, SweepsCalmly

LEMMA SweepCalm ==
    ASSUME HInv, Calmly, Observe, OneAtATime', ~Fault, Sweep PROVE Calmly'
<1>1. CASE SweepNext \/ Remove \/ (\E h \in Gid : CloseHere(h)) \/ CloseThere
  BY <1>1, SweepNextCalm, RemoveCalm, CloseHereCalm, CloseThereCalm
<1>2. CASE RetireReserve \/ Forget \/ Delete \/ Unregister
  BY <1>2, RetireReserveCalm, ForgetCalm, DeleteCalm, UnregisterCalm
<1> QED BY <1>1, <1>2, Zenon DEF Sweep

LEMMA RequestCalm ==
    ASSUME HInv, Calmly, Observe, OneAtATime', ~Fault, NEW r \in Request, Ask(r) \/ Serve(r)
    PROVE  Calmly'
<1>1. CASE Ask(r) \/ Load(r) \/ SaveNew(r) \/ Insert(r) \/ Register(r)
  BY <1>1, AskCalm, LoadCalm, SaveNewCalm, InsertCalm, RegisterCalm
<1>2. CASE Change(r) \/ Other(r) \/ Look(r) \/ Mark(r) \/ Rename(r)
  BY <1>2, ChangeCalm, OtherCalm, LookCalm, MarkCalm, RenameCalm
<1> QED BY <1>1, <1>2, Zenon DEF Serve

LEMMA GracePassesCalm ==
    ASSUME HInv, Calmly, Observe, OneAtATime', GracePasses PROVE Calmly'
<1>1. /\ UNCHANGED <<up, nodes, open, stored, req, sweep>> /\ sweep.pc = "idle"
      /\ \A r \in Request : req[r].pc = "idle"
      /\ registry' = [g \in Gid |-> IF registry[g] = "fresh" THEN "due" ELSE registry[g]]
  BY DEF GracePasses, memory
<1>2. Tidy(nodes', req', stored')
  BY <1>1, TidyKept
<1>3. ASSUME NEW g \in Gid PROVE MarkOf(g)'
  <2> SUFFICES ASSUME registry'[g] \in {"fresh", "due"}
               PROVE  IsEmpty(g)' /\ left'[g] = "long"
    BY DEF MarkOf, IsEmpty
  <2>1. registry[g] \in {"fresh", "due"} /\ ~Gone(g) /\ ~Changing(g)
    BY <1>1 DEF Gone, Changing
  <2>2. IsEmpty(g) /\ left[g] # "no"
    BY <2>1 DEF Calmly, Marks, MarkOf
  <2>3. IsEmpty(g)'
    BY <2>2, <1>1 DEF IsEmpty
  <2> QED BY <2>2, <2>3, LeftIs
<1>4. Marks'
  BY <1>1, <1>3 DEF Marks
<1>5. SweepMarked' /\ up'
  BY <1>1, SweepIdle DEF Calmly
<1> QED BY <1>2, <1>4, <1>5, StaysCalm

LEMMA CInvInit == ObservedInit => CInv
<1> SUFFICES ASSUME ObservedInit PROVE Calmly
  BY DEF CInv
<1>1. /\ up = TRUE
      /\ registry = [g \in Gid |-> IF g \in Old THEN "none" ELSE None]
      /\ stored = [g \in Gid |-> IF g \in Old THEN OldGroup(g) ELSE None]
      /\ open = Opened(Old) /\ nodes = Loaded(Old, stored)
      /\ req = [r \in Request |-> Idle] /\ sweep = NoSweep
  BY DEF ObservedInit, Init
<1>2. Old \in SUBSET Gid
  BY HostAssumption
<1>3. (\A r \in Request : req[r].pc = "idle") /\ sweep.pc = "idle"
  BY <1>1, NoSweepTyped DEF Idle
<1>4. /\ DOMAIN nodes = {open[g] : g \in Old}
      /\ \A g \in Old : nodes[open[g]] = [gid |-> g, state |-> stored[g], version |-> "equal"]
  <2>1. LET ns == Loaded(Old, stored)
        IN  /\ DOMAIN ns = {Opened(Old)[g] : g \in Old}
            /\ \A g \in Old : ns[Opened(Old)[g]] = [gid |-> g, state |-> stored[g], version |-> "equal"]
    BY <1>2, LoadedIs
  <2>2. nodes = Loaded(Old, stored) /\ open = Opened(Old)
    BY <1>1
  <2> QED BY <2>1, <2>2
<1>5. ASSUME NEW n \in DOMAIN nodes
      PROVE  \E g \in Old : n = open[g] /\ nodes[n].gid = g /\ nodes[n].state = stored[g] /\ nodes[n].version = "equal"
  <2>1. PICK g \in Old : n = open[g]
    BY <1>4
  <2>2. nodes[n] = [gid |-> g, state |-> stored[g], version |-> "equal"]
    BY <2>1, <1>4
  <2> QED BY <2>1, <2>2
<1>6. \A g \in Old : Exists(stored[g])
  <2>1. \A g \in Old : stored[g] = OldGroup(g) /\ OldGroup(g) \in Group
    BY <1>1, <1>2 DEF OldGroup, Group, Pool
  <2> QED BY <2>1, NothingAssumption DEF Exists
<1>7. Tidy(nodes, req, stored)
  BY <1>3, <1>5, <1>6 DEF Tidy, InStore
<1>8. \A g \in Gid : registry[g] \notin {"fresh", "due"}
  BY <1>1, NothingAssumption
<1>9. Marks /\ SweepMarked /\ OneAtATime
  BY <1>3, <1>8 DEF Marks, MarkOf, SweepMarked, OneAtATime, Busy, AtWork
<1> QED BY <1>1, <1>7, <1>9 DEF Calmly

LEMMA CInvNext == HInv /\ CInv /\ [Next /\ Observe]_allVars => CInv'
<1> SUFFICES ASSUME HInv, CInv, [Next /\ Observe]_allVars, Calm' PROVE Calmly'
  BY DEF CInv
<1>1. CASE UNCHANGED allVars
  BY <1>1 DEF CInv, Calm, Calmly, OneAtATime, Busy, Tidy, InStore, IsNew, Marks, MarkOf, IsEmpty, Changing, Gone,
              SweepMarked, IsOpen, allVars, vars
<1>2. CASE Next /\ Observe
  <2>1. Calm /\ ~Fault /\ OneAtATime' /\ Calmly /\ Observe
    BY <1>2, CalmBefore DEF CInv
  <2>2. CASE \E r \in Request : Ask(r) \/ Serve(r)
    BY <2>1, <2>2, RequestCalm
  <2>3. CASE (\E g, h \in Gid : Deliver(g, h) \/ Arrive(g, h)) \/ Cron \/ Sweep
    BY <2>1, <2>3, EnvelopeCalm, CronCalm, SweepCalm
  <2>4. CASE GracePasses
    BY <2>1, <2>4, GracePassesCalm
  <2>5. ~Crash /\ ~Start
    BY <2>1 DEF Crash, Start, Calmly
  <2> QED BY <1>2, <2>2, <2>3, <2>4, <2>5, Zenon DEF Next
<1> QED BY <1>1, <1>2

LEMMA CalmInvariant == Spec => []CInv
<1> QED BY CInvInit, CInvNext, HostInvariant, PTL DEF Spec

(* As long as requests come one at a time and nothing has failed, a group  *)
(* is deleted only when nobody has been in it for the whole of GroupGrace: *)
(* the mark that the sweep goes by is never older than what it stands for  *)
(* (markEmpty and sweepGroups, admin.go).                                  *)
THEOREM DeletedWhenEmpty == Spec => DeletedAfterGraceIfCalm
<1> DEFINE Step == ~overlap' /\ faults = 0 => EmptyForGrace
<1>1. HInv /\ MInv /\ CInv /\ [Next /\ Observe]_allVars => [Step]_allVars
  <2> SUFFICES ASSUME HInv, MInv, CInv, Next, Observe, ~overlap', faults = 0,
                      NEW g \in Gid, Exists(stored[g]), ~Exists(stored'[g])
               PROVE  left[g] = "long"
    BY DEF EmptyForGrace
  <2>1. Calmly
    BY DEF Observe, CInv, Calm
  <2>2. Deletes(g)
    BY NextStays DEF Stay
  <2>3. sweep.gid = g /\ sweep.pc \in {"delete", "deleting"}
    BY <2>2 DEF Deletes
  <2>4. sweep.pc = "delete"
    BY <2>1, <2>3 DEF Calmly, SweepMarked
  <2>5. registry[g] = "due" /\ ~Gone(g)
    BY <2>1, <2>3, <2>4, AtWorkOn DEF Gone, AtWork
  <2>6. ~Changing(g)
    BY <2>1, <2>4 DEF Calmly, OneAtATime, Busy, Changing
  <2> QED BY <2>1, <2>5, <2>6 DEF Calmly, Marks, MarkOf
<1>2. DeletedAfterGraceIfCalm <=> [][Step]_allVars
  BY DEF DeletedAfterGraceIfCalm
<1> HIDE DEF Step
<1> QED BY <1>1, <1>2, HostInvariant, MembersInvariant, CalmInvariant, PTL DEF Spec

=============================================================================
