--------------------------- MODULE HostProperties ---------------------------
(***************************************************************************)
(* What the host must do, as properties of the specification in Host.      *)
(* Variables observe it: how long a group has had nobody in it, less or    *)
(* more than GroupGrace; whether requests have overlapped; what has        *)
(* happened to a group's mark; which leaves have not been saved; and which *)
(* groups the sweep has removed.                                           *)
(***************************************************************************)
EXTENDS Host

VARIABLES
    left,     \* left[g]: "no" if someone is in g, else "fresh" or "long"
    overlap,  \* two requests, or one and the sweep, have been under way at once
    mark,     \* mark[g]: "made" by a join or leave; "new" if none has been since
              \*   the group was made; "doubtful" after one that failed, or that
              \*   another request for the group, or its deletion, came between
    unsaved,  \* <<g, m>>: m has left g, and this Save has failed
    removed   \* groups that the sweep has forgotten, to delete what is stored

allVars == <<vars, left, overlap, mark, unsaved, removed>>

UnderWay == Cardinality({r \in Request : req[r].pc # "idle"}
                        \cup IF sweep.pc # "idle" THEN {None} ELSE {})

Exists(s) == s \notin {None, Broken}

(* A node of a deleted group may save over the one that is there now.      *)
OutOfTheGrave(g) == \E n \in DOMAIN nodes : nodes[n].gid = g /\ nodes[n].version = "match"

(* Requests for g, and those that have a say in whether it is marked.      *)
Asking(g) == {r \in Request : req[r].pc # "idle" /\ req[r].gid = g}
Deciding(g) == {r \in Asking(g) : req[r].pc \notin {"other", "rename"}}

Finished(g) == \E r \in Deciding(g) : req[r].pc = "mark" /\ req'[r].pc = "idle"
Failed(g) == \E r \in Deciding(g) : ~up' \/ (faults' > faults /\ req'[r] # req[r])

MarkAfter(g) ==
    LET gone == registry'[g] = None
        muddled == \/ Failed(g) \/ Cardinality(Deciding(g)') > 1
                   \/ (gone /\ registry[g] # None) \/ OutOfTheGrave(g)
        made == \/ stored[g] = None /\ stored'[g] # None
                \/ \E r \in Asking(g) : req[r].pc = "register"
    IN  IF gone /\ open'[g] = None /\ Asking(g)' = {} THEN "new"
        ELSE IF muddled \/ mark[g] = "doubtful" THEN "doubtful"
        ELSE IF made THEN "new"
        ELSE IF Finished(g) THEN "made" ELSE mark[g]

Observe ==
    /\ overlap' = (overlap \/ UnderWay' > 1)
    /\ left' = [g \in Gid |->
         CASE ~Exists(stored'[g]) -> "no"
           [] Exists(stored'[g]) /\ stored'[g].members # {} -> "no"
           [] OTHER -> IF left[g] = "no" THEN "fresh"
                       ELSE IF GracePasses THEN "long" ELSE left[g]]
    /\ mark' = [g \in Gid |-> MarkAfter(g)]
    /\ unsaved' = unsaved \cup
         {<<req[r].gid, req[r].who>> :
            r \in {q \in Request : req[q].pc = "leave" /\ req'[q].pc = "look" /\ faults' > faults}}
    /\ removed' = removed \cup IF sweep'.pc = "delete" THEN {sweep'.gid} ELSE {}

ObservedInit ==
    /\ Init /\ left = [g \in Gid |-> "no"] /\ overlap = FALSE
    /\ mark = [g \in Gid |-> IF g \in Old THEN "made" ELSE "new"] /\ unsaved = {}
    /\ removed = {}

Spec == ObservedInit /\ [][Next /\ Observe]_allVars

Pool == {"none", "open", "closed", "retired", "refilled"}
Group == [members : SUBSET Member, pool : [Gid -> Pool]]
Node == [gid : Gid, state : Group, version : {"zero", "equal", "less", "more", "match"}]

ASSUME NothingAssumption ==
    /\ {None, Broken} \cap Group = {} /\ None # Broken
    /\ None \notin Request \cup {"none", "fresh", "due"}

(* The type invariant; what is open is a node of that group, a version     *)
(* is one of something stored, and while the process is down there is      *)
(* nothing but the stores.                                                 *)
TypeOK ==
    /\ registry \in [Gid -> {None, "none", "fresh", "due"}]
    /\ \A g \in Gid : Exists(stored[g]) => stored[g] \in Group
    /\ \A n \in DOMAIN nodes : nodes[n] \in Node
    /\ \A n \in DOMAIN nodes :
          nodes[n].version \in {"equal", "less", "match"} => stored[nodes[n].gid] # None
    /\ \A g \in Gid : IsOpen(g) => nodes[open[g]].gid = g
    /\ accepts \subseteq Gid \X Gid
    /\ ~up => nodes = <<>> /\ sweep = NoSweep /\ \A r \in Request : req[r] = Idle
    /\ faults \in 0..MaxFaults

(* Nobody drops out of a stored group but by leaving it, or with a group   *)
(* that the sweep had found empty: two nodes of a group, whichever request *)
(* or restart made them, do not save over each other's members (exitOn-    *)
(* Conflict, main.go).  Two ways out are in the code: a leave that was     *)
(* answered with an error has changed the node, whose next Save stores it  *)
(* (leave.go:60); and a node of a deleted group may have just the version  *)
(* that the group of that name made since has got to (dsstore.go:163).     *)
Deletes(g) == sweep.gid = g /\ sweep.pc \in {"delete", "deleting"}
Leaves(g, m) == \E r \in Request : req[r].pc = "leave" /\ req[r].gid = g /\ req[r].who = m

MembersStay ==
    [][\A g \in Gid : Exists(stored[g]) => \A m \in stored[g].members :
          \/ Exists(stored'[g]) /\ m \in stored'[g].members
          \/ Leaves(g, m) \/ <<g, m>> \in unsaved
          \/ OutOfTheGrave(g)
          \/ Deletes(g)]_allVars

(* A group is deleted only when nobody has been in it for 90 days          *)
(* (GroupGrace, admin.go).                                                 *)
EmptyForGrace == \A g \in Gid : Exists(stored[g]) /\ ~Exists(stored'[g]) => left[g] = "long"

DeletedAfterGrace == [][EmptyForGrace]_allVars

(* ... which holds as long as requests come one at a time and nothing      *)
(* fails.                                                                  *)
DeletedAfterGraceIfCalm == [][~overlap' /\ faults = 0 => EmptyForGrace]_allVars

(* The registry entry of a group goes last: every other group has retired  *)
(* the reserve it held for it, even if removing it failed, crashed and was *)
(* begun again, and its state is deleted, unless it was being made again   *)
(* meanwhile.  Three reserves stay behind: one that an accept under way    *)
(* has refilled (handleTransferAccept and handleContactAccept do not ask   *)
(* whether the contact is closed); one that two Saves have failed for, of  *)
(* which RetireReserve reports the first and finds nothing left to do      *)
(* after the second; and that of a group which the sweep has removed too:  *)
(* it is no longer open and so not visited, but if deleting it has failed  *)
(* it is opened again, and what it held may also be brought back by a node *)
(* of it that a request has kept.                                          *)
Settled(g) == \A h \in Gid \ ({g} \cup removed) :
                 Exists(stored[h]) => stored[h].pool[g] \in {"none", "retired", "refilled"}

EntryGoesLast ==
    [][\A g \in Gid : registry[g] # None /\ registry'[g] = None =>
          (Settled(g) \/ faults > 1) /\ (stored[g] = None \/ overlap)]_allVars

(* An entry says that its group is empty when its last member has left,    *)
(* and until someone is in it again (EmptySince, admin.go:30): otherwise   *)
(* the sweep would delete a group with members, or never delete one        *)
(* without.  The exceptions are those of variable mark: a group that       *)
(* nobody has joined or left since it was made is never marked, and        *)
(* markEmpty, whose errors are ignored and which reads the members before  *)
(* its transaction, may leave a wrong mark for ever (admin.go:43-59).      *)
MarkSaysEmpty ==
    \A g \in Gid :
        /\ mark[g] = "made" /\ Deciding(g) = {}
        /\ registry[g] # None /\ Exists(stored[g])
        => (registry[g] = "none" <=> stored[g].members # {})
=============================================================================
