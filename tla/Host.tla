-------------------------------- MODULE Host --------------------------------
(***************************************************************************)
(* The clearing-house host: the groups it runs, the registry that says     *)
(* which to open, and the daily sweep of the abandoned ones (host.go,      *)
(* admin.go and main.go of src/gae, and Delete of dsstore.go).             *)
(*                                                                         *)
(* Admin requests run concurrently with each other and with the sweep; a   *)
(* request looks its group's node up once and then calls it.  The state of *)
(* a node is who is in the group and how its pools with other groups       *)
(* stand, the rest is in modules Contact and Community; Save and Load are  *)
(* those of module DSStore, each in one step.  Save succeeds if the        *)
(* version stored is the one the node has loaded or saved, and ends the    *)
(* process otherwise (exitOnConflict).  It may also fail: then the change  *)
(* stays in memory, and of the callers only some report it.                *)
(***************************************************************************)
EXTENDS Naturals, FiniteSets, Functions

CONSTANTS
    Gid, Member,
    Request,       \* requests that may be served at the same time
    Call,          \* what they ask for
    Asked,         \* the groups they ask it of
    Old,           \* the groups there are from the start, all members in them
                   \*   and each linked with each other
    Payer,         \* the groups whose members pay into linked groups
    None, Broken,  \* nothing there; something that cannot be loaded
    MaxFaults      \* crashes and failing Datastore requests

ASSUME HostAssumption ==
    /\ Asked \subseteq Gid /\ Old \subseteq Gid /\ Payer \subseteq Gid
    /\ MaxFaults \in Nat
    /\ Call \subseteq {"create", "join", "leave", "rename", "other"}

VARIABLES
    up,        \* the process runs
    registry,  \* LPGroup: None, or its mark "none", "fresh" or "due": since
               \*   when it is empty, less or more than GroupGrace ago
    stored,    \* what its store holds of each group
    nodes,     \* the nodes in memory
    open,      \* h.nodes: the node of each open group
    accepts,   \* <<g, h>>: an accept that g sent to h, which will pay, before
               \*   it closed the contact
    req,       \* the requests
    sweep,     \* the cron request
    faults

vars == <<up, registry, stored, nodes, open, accepts, req, sweep, faults>>
memory == <<up, nodes, open>>

NodeId == 1..Cardinality(Gid) + Cardinality(Request)

ASSUME FiniteAssumption == IsFiniteSet(Gid) /\ IsFiniteSet(Request)
ASSUME NoneAssumption == None \notin NodeId
NewGroup == [members |-> {}, pool |-> [g \in Gid |-> "none"]]

Idle == [pc |-> "idle"]
NoSweep == [pc |-> "idle", todo |-> {}, gid |-> None, peers |-> {}, peer |-> None]

Loadable(g) == stored[g] # Broken
IsOpen(g) == open[g] # None
StateOf(g) == nodes[open[g]].state

Answer(r) == req' = [req EXCEPT ![r] = Idle]
Goto(r, q) == req' = [req EXCEPT ![r] = q]

Fault == faults < MaxFaults /\ faults' = faults + 1

-----------------------------------------------------------------------------
(* Nodes nobody refers to are gone.                                        *)
Remember(f) ==
    nodes' = Restrict(f, {n \in DOMAIN f : \/ \E g \in Gid : open'[g] = n
                                           \/ \E r \in Request : req'[r].pc # "idle"
                                                             /\ req'[r].node = n})

Exit ==
    /\ up' = FALSE
    /\ open' = [g \in Gid |-> None]
    /\ nodes' = <<>>
    /\ req' = [r \in Request |-> Idle]
    /\ sweep' = NoSweep

(* Slip: the version is not compared.                                      *)
CurrentAlways(n) == TRUE

(* How the version of a node compares with the one stored: "equal",        *)
(* "less", or "more" for a node of a group that has been deleted and       *)
(* counts from 1 again, which may "match" by chance some time.  "zero" is  *)
(* that of a node that has found nothing stored, and of nothing stored.    *)
Current(n) ==
    \/ nodes[n].version \in {"equal", "match"}
    \/ nodes[n].version = "zero" /\ stored[nodes[n].gid] = None

(* What is half deleted is not mended by a Save.                           *)
Store(g, s) == IF stored[g] = Broken THEN Broken ELSE s

(* The stored version goes up: other nodes fall behind, or are met.        *)
Passed(v, met) ==
    CASE v \in {"equal", "match"} -> "less"
      [] v = "more" /\ met -> "match"
      [] OTHER -> v

(* n writes state s, and has version v then.                               *)
Write(n, s, v) ==
    LET g == nodes[n].gid
        others == {m \in DOMAIN nodes : m # n /\ nodes[m].gid = g}
    IN  /\ stored' = [stored EXCEPT ![g] = Store(g, s)]
        /\ \E met \in SUBSET {m \in others : nodes[m].version = "more"} :
              Remember([m \in DOMAIN nodes |->
                  CASE m = n -> [nodes[n] EXCEPT !.state = s, !.version = v]
                    [] m \in others -> [nodes[m] EXCEPT !.version = Passed(@, m \in met)]
                    [] OTHER -> nodes[m]])

(* Save by n, whose state is s now, and what its caller does then: if it   *)
(* has succeeded, or failed, be it that only the answer was lost.          *)
Save(n, s, done, failed) ==
    \/ /\ Current(n)
       /\ done /\ UNCHANGED <<up, open, faults>>
       /\ Write(n, s, "equal")
    \/ /\ ~Current(n)
       /\ Exit /\ UNCHANGED <<stored, faults>>
    \/ /\ Fault
       /\ failed /\ UNCHANGED <<up, open>>
       /\ \/ UNCHANGED stored /\ Remember([nodes EXCEPT ![n].state = s])
          \/ Current(n) /\ Write(n, s, Passed(nodes[n].version, FALSE))

(* Save of the node a request has, which goes on as q or as failed.        *)
Serving(r, s, q, failed) ==
    Save(req[r].node, s, Goto(r, q) /\ UNCHANGED sweep, Goto(r, failed) /\ UNCHANGED sweep)

-----------------------------------------------------------------------------
(* A request looks the group up: create wants none, the others need one,   *)
(* and keep its node, which rename leaves as it is.                        *)
Ask(r) ==
    /\ up /\ req[r].pc = "idle"
    /\ \E c \in Call, g \in Asked :
          /\ IsOpen(g) <=> c # "create"
          /\ \E m \in IF c \in {"join", "leave"} THEN Member ELSE {None} :
                Goto(r, [pc |-> c, gid |-> g, who |-> m, empty |-> FALSE,
                         node |-> IF c = "rename" THEN None ELSE open[g]])
    /\ UNCHANGED <<memory, registry, stored, accepts, sweep, faults>>

(* Open, in the steps another request may come between: look again and     *)
(* load the group; save it if it is new; put its node in place unless one  *)
(* is there already.                                                       *)
Load(r) ==
    LET g == req[r].gid
        n == CHOOSE i \in NodeId : i \notin DOMAIN nodes
        s == IF stored[g] = None THEN NewGroup ELSE stored[g]
        node == [gid |-> g, state |-> s,
                 version |-> IF stored[g] = None THEN "zero" ELSE "equal"]
    IN  /\ req[r].pc = "create"
        /\ CASE IsOpen(g) -> Goto(r, [req[r] EXCEPT !.pc = "register"]) /\ UNCHANGED nodes
             [] ~IsOpen(g) /\ ~Loadable(g) -> Answer(r) /\ UNCHANGED nodes
             [] ~IsOpen(g) /\ Loadable(g) ->
                  /\ Goto(r, [req[r] EXCEPT !.node = n,
                                 !.pc = IF stored[g] = None THEN "save" ELSE "insert"])
                  /\ nodes' = [i \in DOMAIN nodes \cup {n} |->
                                 IF i = n THEN node ELSE nodes[i]]
        /\ UNCHANGED <<up, open, registry, stored, accepts, sweep, faults>>

SaveNew(r) ==
    /\ req[r].pc = "save"
    /\ Serving(r, NewGroup, [req[r] EXCEPT !.pc = "insert"], Idle)
    /\ UNCHANGED <<registry, accepts>>

Insert(r) ==
    LET g == req[r].gid
    IN  /\ req[r].pc = "insert"
        /\ open' = IF IsOpen(g) THEN open ELSE [open EXCEPT ![g] = req[r].node]
        /\ Goto(r, [req[r] EXCEPT !.pc = "register", !.node = None])
        /\ Remember(nodes)
        /\ UNCHANGED <<up, registry, stored, accepts, sweep, faults>>

(* The new entry replaces one that is there.                               *)
Register(r) ==
    /\ req[r].pc = "register"
    /\ \/ registry' = [registry EXCEPT ![req[r].gid] = "none"] /\ UNCHANGED faults
       \/ Fault /\ UNCHANGED registry
    /\ Answer(r)
    /\ UNCHANGED <<memory, stored, accepts, sweep>>

-----------------------------------------------------------------------------
(* AddMember or Reactivate, and Leave.                                     *)
Joined(s, m) == [s EXCEPT !.members = @ \cup {m}]
Departed(s, m) == [s EXCEPT !.members = @ \ {m}]

(* Whether they change anything or not, and whether it is saved or not,    *)
(* the mark is looked after then.                                          *)
Change(r) ==
    LET q == req[r]
        s == nodes[q.node].state
        changed == IF q.pc = "join" THEN Joined(s, q.who) ELSE Departed(s, q.who)
        marking == [q EXCEPT !.pc = "look"]
    IN  /\ q.pc \in {"join", "leave"}
        /\ IF changed = s
           THEN Goto(r, marking) /\ UNCHANGED <<memory, stored, sweep, faults>>
           ELSE Serving(r, changed, marking, marking)
        /\ UNCHANGED <<registry, accepts>>

(* Whatever else saves the node: a payment, the dividend, an envelope that *)
(* inproc has looked the node up for, the expiry sweeper that a node keeps *)
(* when its group is removed.                                              *)
Other(r) ==
    /\ req[r].pc = "other"
    /\ Serving(r, nodes[req[r].node].state, Idle, Idle)
    /\ UNCHANGED <<registry, accepts>>

(* markEmpty: ActiveMembers is read before the transaction.                *)
Look(r) ==
    /\ req[r].pc = "look"
    /\ Goto(r, [req[r] EXCEPT !.pc = "mark", !.node = None,
                              !.empty = nodes[req[r].node].state.members = {}])
    /\ UNCHANGED <<up, open, registry, stored, accepts, sweep, faults>>
    /\ Remember(nodes)

(* Slip: the mark is set when the group becomes empty and never cleared.   *)
MarkedForGood(mark, empty) == IF empty /\ mark = "none" THEN "fresh" ELSE mark

(* Slip: someone who comes back soon is overlooked.                        *)
MarkedStale(mark, empty) ==
    CASE empty /\ mark = "none" -> "fresh"
      [] ~empty /\ mark = "due" -> "none"
      [] OTHER -> mark

Marked(mark, empty) ==
    CASE empty /\ mark = "none" -> "fresh"
      [] ~empty /\ mark \in {"fresh", "due"} -> "none"
      [] OTHER -> mark

(* Its errors are ignored.                                                 *)
Mark(r) ==
    /\ req[r].pc = "mark"
    /\ \/ registry' = [registry EXCEPT ![req[r].gid] = Marked(@, req[r].empty)]
          /\ UNCHANGED faults
       \/ Fault /\ UNCHANGED registry
    /\ Answer(r)
    /\ UNCHANGED <<memory, stored, accepts, sweep>>

(* An entry that is not there (any more) is made.                          *)
Rename(r) ==
    /\ req[r].pc = "rename"
    /\ registry' = [registry EXCEPT ![req[r].gid] = IF @ = None THEN "none" ELSE @]
    /\ Answer(r)
    /\ UNCHANGED <<memory, stored, accepts, sweep, faults>>

-----------------------------------------------------------------------------
WithPool(g, h, p) == [StateOf(g) EXCEPT !.pool[h] = p]

(* Save of an open group's node in an envelope's handler, which ignores    *)
(* its errors.                                                             *)
Handling(g, s) ==
    LET on == UNCHANGED <<req, sweep>>
    IN  Save(open[g], s, on, on)

(* A contact.close that the push worker takes to the other group.          *)
Deliver(g, h) ==
    /\ IsOpen(g) /\ IsOpen(h)
    /\ StateOf(g).pool[h] = "closed" /\ StateOf(h).pool[g] = "open"
    /\ Handling(h, WithPool(h, g, "closed"))
    /\ UNCHANGED <<registry, accepts>>

(* A closed contact takes in what is paid: its reserve may grow again.     *)
PaidIn(pool) == IF pool = "retired" THEN "refilled" ELSE pool

(* An accept of g's arrives, for a transfer or the link that h has         *)
(* proposed: h pays into its reserve for g, or seeds it.                   *)
Arrive(g, h) ==
    /\ IsOpen(h) /\ <<g, h>> \in accepts
    /\ Handling(h, WithPool(h, g, PaidIn(StateOf(h).pool[g])))
    /\ accepts' = accepts \ {<<g, h>>}
    /\ UNCHANGED registry

-----------------------------------------------------------------------------
(* sweepGroups, for the groups its query finds.                            *)
Due(g) == registry[g] = "due"

Cron ==
    /\ up /\ sweep.pc = "idle"
    /\ \E g \in Gid : Due(g)
    /\ sweep' = [NoSweep EXCEPT !.pc = "next", !.todo = {g \in Gid : Due(g)}]
    /\ UNCHANGED <<memory, registry, stored, accepts, req, faults>>

(* Someone came back meanwhile.                                            *)
Skipped(g) == IsOpen(g) /\ StateOf(g).members # {}

SweepNext ==
    /\ sweep.pc = "next"
    /\ IF sweep.todo = {}
       THEN sweep' = NoSweep
       ELSE \E g \in sweep.todo :
               sweep' = [sweep EXCEPT !.todo = @ \ {g},
                                      !.pc = IF Skipped(g) THEN "next" ELSE "remove",
                                      !.gid = g]
    /\ UNCHANGED <<memory, registry, stored, accepts, req, faults>>

(* Remove: the other open groups are looked at one by one; if linked, ...  *)
Remove ==
    /\ sweep.pc = "remove"
    /\ sweep' = [sweep EXCEPT !.pc = IF IsOpen(sweep.gid) THEN "close" ELSE "delete",
                              !.peers = {h \in Gid \ {sweep.gid} : IsOpen(h)}]
    /\ UNCHANGED <<memory, registry, stored, accepts, req, faults>>

(* ... CloseContact on both sides, then RetireReserve.  Of Saves that fail *)
(* only that of RetireReserve is reported, unless nothing is left there.   *)
Sweeping(g, s, next, failed) ==
    Save(open[g], s, sweep' = next /\ UNCHANGED req, sweep' = failed /\ UNCHANGED req)

Closed(g, h) == WithPool(g, h, IF StateOf(g).pool[h] = "open" THEN "closed"
                               ELSE StateOf(g).pool[h])

(* Accepts that may be on their way when g closes its contact with h.      *)
Accepted(g, h) ==
    IF StateOf(g).pool[h] = "open" /\ h \in Payer THEN {<<g, h>>} ELSE {}

CloseHere(h) ==
    LET g == sweep.gid
        next == [sweep EXCEPT !.pc = "close there", !.peers = @ \ {h}, !.peer = h]
    IN  /\ sweep.pc = "close" /\ h \in sweep.peers
        /\ IF StateOf(h).pool[g] = "none"
           THEN /\ sweep' = [sweep EXCEPT !.peers = @ \ {h}]
                /\ UNCHANGED <<memory, stored, accepts, req, faults>>
           ELSE /\ Sweeping(g, Closed(g, h), next, next)
                /\ \E sent \in SUBSET Accepted(g, h) : accepts' = accepts \cup sent
        /\ UNCHANGED registry

CloseThere ==
    LET h == sweep.peer
        next == [sweep EXCEPT !.pc = "retire"]
    IN  /\ sweep.pc = "close there"
        /\ Sweeping(h, Closed(h, sweep.gid), next, next)
        /\ UNCHANGED <<registry, accepts>>

(* Slip: a reserve that cannot be retired does not stop the removal.       *)
RetireFailedIgnored == [sweep EXCEPT !.pc = "close"]

RetireFailed == NoSweep

RetireReserve ==
    LET h == sweep.peer
        g == sweep.gid
        next == [sweep EXCEPT !.pc = "close"]
    IN  /\ sweep.pc = "retire"
        /\ IF StateOf(h).pool[g] \notin {"closed", "refilled"}
           THEN sweep' = next /\ UNCHANGED <<memory, stored, req, faults>>
           ELSE Sweeping(h, WithPool(h, g, "retired"), next, RetireFailed)
        /\ UNCHANGED <<registry, accepts>>

(* The node is taken from h.nodes when no peer is left.                    *)
Forget ==
    /\ sweep.pc = "close" /\ sweep.peers = {}
    /\ open' = [open EXCEPT ![sweep.gid] = None]
    /\ sweep' = [sweep EXCEPT !.pc = "delete"]
    /\ UNCHANGED <<up, registry, stored, accepts, req, faults>>
    /\ Remember(nodes)

(* DSStore.Delete, LPState last, in a request or several, of which any may *)
(* fail: then g has left something, or all.  With LPState goes the count   *)
(* of the versions.                                                        *)
DeletedQuietly(g) == nodes' = nodes        \* slip: the count goes on

NothingStored(g) ==
    nodes' = [n \in DOMAIN nodes |->
                IF nodes[n].gid = g /\ nodes[n].version # "zero"
                THEN [nodes[n] EXCEPT !.version = "more"] ELSE nodes[n]]

Remains(g, rest) ==
    /\ stored' = [stored EXCEPT ![g] = rest]
    /\ IF rest = None THEN NothingStored(g) ELSE UNCHANGED nodes

Delete ==
    LET g == sweep.gid
    IN  /\ sweep.pc \in {"delete", "deleting"}
        /\ \/ /\ stored[g] = None
              /\ sweep' = [sweep EXCEPT !.pc = "unregister"]
              /\ UNCHANGED <<stored, nodes, faults>>
           \/ /\ stored[g] # None
              /\ \/ /\ Remains(g, None)
                    /\ sweep' = [sweep EXCEPT !.pc = "unregister"]
                 \/ /\ sweep.pc = "delete" /\ Remains(g, Broken)
                    /\ sweep' = [sweep EXCEPT !.pc = "deleting"]
              /\ UNCHANGED faults
           \/ /\ Fault
              /\ \E rest \in {stored[g]} \cup IF stored[g] = None THEN {} ELSE {Broken, None} :
                    Remains(g, rest)
              /\ sweep' = NoSweep
        /\ UNCHANGED <<up, open, registry, accepts, req>>

Unregister ==
    /\ sweep.pc = "unregister"
    /\ \/ /\ registry' = [registry EXCEPT ![sweep.gid] = None]
          /\ sweep' = [sweep EXCEPT !.pc = "next"]
          /\ UNCHANGED faults
       \/ Fault /\ sweep' = NoSweep /\ UNCHANGED registry
    /\ UNCHANGED <<memory, stored, accepts, req>>

-----------------------------------------------------------------------------
Crash ==
    /\ up /\ Fault
    /\ Exit
    /\ UNCHANGED <<registry, stored, accepts>>

Startable(g) == stored[g] # Broken

Registered == {g \in Gid : registry[g] # None}

(* The groups gs open, each with a node that has loaded its state.         *)
Opened(gs) ==
    CHOOSE f \in [Gid -> NodeId \cup {None}] :
        /\ \A g \in Gid : f[g] = None <=> g \notin gs
        /\ \A g, h \in gs : f[g] = f[h] => g = h

Loaded(gs, s) ==
    [n \in {Opened(gs)[g] : g \in gs} |->
        LET g == CHOOSE h \in gs : Opened(gs)[h] = n
        IN  [gid |-> g, state |-> s[g], version |-> "equal"]]

(* openGroups: a group without a state is made anew; one that cannot be    *)
(* opened ends the process.                                                *)
Start ==
    /\ ~up
    /\ \A g \in Registered : Startable(g)
    /\ up' = TRUE
    /\ stored' = [g \in Gid |-> IF g \in Registered /\ stored[g] = None THEN NewGroup
                               ELSE stored[g]]
    /\ open' = Opened(Registered)
    /\ nodes' = Loaded(Registered, stored')
    /\ UNCHANGED <<registry, accepts, req, sweep, faults>>

(* GroupGrace passes; no request takes that long, and no transfer.         *)
GracePasses ==
    /\ \A r \in Request : req[r].pc = "idle"
    /\ sweep.pc = "idle"
    /\ registry' = [g \in Gid |-> IF registry[g] = "fresh" THEN "due" ELSE registry[g]]
    /\ accepts' = {}
    /\ UNCHANGED <<memory, stored, req, sweep, faults>>

-----------------------------------------------------------------------------
OldGroup(g) ==
    [members |-> Member,
     pool |-> [h \in Gid |-> IF h \in Old \ {g} THEN "open" ELSE "none"]]

Init ==
    /\ up = TRUE
    /\ registry = [g \in Gid |-> IF g \in Old THEN "none" ELSE None]
    /\ stored = [g \in Gid |-> IF g \in Old THEN OldGroup(g) ELSE None]
    /\ open = Opened(Old) /\ nodes = Loaded(Old, stored)
    /\ req = [r \in Request |-> Idle] /\ sweep = NoSweep
    /\ accepts = {} /\ faults = 0

Serve(r) == Load(r) \/ SaveNew(r) \/ Insert(r) \/ Register(r) \/ Change(r) \/ Other(r)
            \/ Look(r) \/ Mark(r) \/ Rename(r)

Sweep == \/ SweepNext \/ Remove \/ (\E h \in Gid : CloseHere(h)) \/ CloseThere
         \/ RetireReserve \/ Forget \/ Delete \/ Unregister

Next == \/ \E r \in Request : Ask(r) \/ Serve(r)
        \/ \E g, h \in Gid : Deliver(g, h) \/ Arrive(g, h)
        \/ Cron \/ Sweep
        \/ Crash \/ Start \/ GracePasses
=============================================================================
