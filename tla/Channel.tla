------------------------------- MODULE Channel -------------------------------
(***************************************************************************)
(* The channel between two nodes: the outbox each keeps for the other, the *)
(* push worker that posts it, the inbox that validates what arrives, the   *)
(* puller that fetches the peer's outbox and prunes its own, and restarts  *)
(* from the saved snapshot (handlers.go, pull.go, reconcile.go, persist.go *)
(* and fed/client.go of src/node).                                         *)
(*                                                                         *)
(* What an envelope says does not matter here, only whether its handler    *)
(* answers it: an envelope with `hops` h > 0 is answered with one of h - 1.*)
(* (transfer.propose, accept, commit, receipt is a chain of three answers.)*)
(***************************************************************************)
EXTENDS Naturals, SequencesExt

CONSTANTS
    A, B,            \* the two nodes
    None,            \* no request, no pull
    MaxCalls,        \* operators start nothing once that many envelopes exist
    Callers,         \* the nodes whose operators start anything
    Pullers,         \* the nodes that pull
    Hops,            \* lengths of the chains of answers they start
    MaxLoose,        \* requests per direction whose sender has given up on them
    MaxRestarts,     \* how often nodes restart
    MaxFailedSaves,  \* how many Save calls fail
    Faults           \* what else happens: requests or answers get lost,
                     \* envelopes get too old, the key of an envelope
                     \* cannot be had, the clocks are far apart

Node == {A, B}
OptionalFaults == {"request", "answer", "age", "key", "clock"}

ASSUME NodeAssumption == A # B /\ None \notin Node
ASSUME BoundAssumption == /\ MaxCalls \in Nat /\ MaxLoose \in Nat
                          /\ MaxRestarts \in Nat /\ MaxFailedSaves \in Nat
ASSUME CallAssumption == Callers \subseteq Node /\ Pullers \subseteq Node /\ Hops \subseteq Nat
ASSUME FaultAssumption == Faults \subseteq OptionalFaults

VARIABLES
    node,      \* node[n]: the part of n's state that Save stores
    saved,     \* saved[n]: its last stored snapshot
    pushed,    \* pushed[n]: the push cursor of n (in memory only)
    post,      \* post[n]: the envelope n is posting, and the peer's answer
    pull,      \* pull[n]: what n's puller is doing
    loose,     \* loose[n]: requests to n whose sender does not wait for an answer
    made,      \* number of envelopes built so far: newID numbers them
    old,       \* envelopes up to this id were created more than 7 days ago
    refused,   \* refused[n]: what n has pulled and refused for nothing but its
               \* key or the clock (for the properties: no action reads it)
    restarts, failed

vars == <<node, saved, pushed, post, pull, loose, made, old, refused, restarts, failed>>

Peer(n) == IF n = A THEN B ELSE A

(* The loop that keeps the envelopes of s with sequence numbers above seq. *)
After(s, seq) ==
    LET kept[i \in 0..Len(s)] ==
            IF i = 0 THEN <<>>
            ELSE IF s[i].seq > seq THEN Append(kept[i - 1], s[i]) ELSE kept[i - 1]
    IN  kept[Len(s)]

-----------------------------------------------------------------------------
(* outSeq and outbox for the peer, channelInbound from the peer.           *)
Fresh == [outSeq |-> 0, outbox |-> <<>>, seen |-> {}, last |-> 0, replies |-> {}]

(* The next envelope of s; `made` numbers it.                              *)
Built(s, hops) == [id |-> made + 1, seq |-> s.outSeq + 1, hops |-> hops]

(* Slip: the outbox lists the newest envelope first.                       *)
RecordedFirst(s, e) == [s EXCEPT !.outSeq = e.seq, !.outbox = <<e>> \o @]

Recorded(s, e) == [s EXCEPT !.outSeq = e.seq, !.outbox = Append(@, e)]

(* Slip: the snapshot is written some time later.                          *)
PersistLater(n, s) ==
    /\ node' = [node EXCEPT ![n] = s]
    /\ UNCHANGED <<saved, failed>>

(* persistLocked: a failing Save is logged and otherwise ignored.          *)
Persist(n, s) ==
    /\ node' = [node EXCEPT ![n] = s]
    /\ \/ saved' = [saved EXCEPT ![n] = s] /\ UNCHANGED failed
       \/ failed < MaxFailedSaves /\ failed' = failed + 1 /\ UNCHANGED saved

(* What may be in the way of a verdict for the time being: the key, which  *)
(* the node does not know and whose fetch fails (or finds another key, or  *)
(* one that does not verify the signature), or the clock.                  *)
Troubles == {"none"} \cup (Faults \cap {"key", "clock"})

(* Slip: sequence numbers are not compared.                                *)
VerdictAnyOrder(n, e, trouble) ==
    CASE trouble = "key" -> "unknown-key"
      [] trouble # "key" /\ e.id \in node[n].seen -> "duplicate"
      [] trouble # "key" /\ e.id \notin node[n].seen ->
            IF e.id <= old THEN "too-old" ELSE IF trouble = "clock" THEN "future" ELSE "ok"

(* fetchPeerKeys and ValidateEnvelope, in the order of their checks.       *)
Verdict(n, e, trouble) ==
    CASE trouble = "key" -> "unknown-key"
      [] trouble # "key" /\ e.id \in node[n].seen -> "duplicate"
      [] trouble # "key" /\ e.id \notin node[n].seen /\ e.seq <= node[n].last -> "stale-seq"
      [] trouble # "key" /\ e.id \notin node[n].seen /\ e.seq > node[n].last ->
            IF e.id <= old THEN "too-old" ELSE IF trouble = "clock" THEN "future" ELSE "ok"

(* Nothing but its key and the clock can keep e out.                       *)
Due(n, e) == Verdict(n, e, "none") = "ok"

(* The inbox answers 202 to these and an error to all others.              *)
Accepted(verdict) == verdict \in {"ok", "duplicate"}

-----------------------------------------------------------------------------
(***************************************************************************)
(* ProcessInbound.  `rest` is loose without the request being processed.   *)
(***************************************************************************)
Processed(s, e) ==
    [s EXCEPT !.seen = @ \cup {e.id}, !.last = IF e.seq > @ THEN e.seq ELSE @]

Route(n, e) ==
    IF e.hops = 0
    THEN Persist(n, Processed(node[n], e)) /\ UNCHANGED made
    ELSE LET reply == Built(node[n], e.hops - 1)
             s == Recorded(Processed(node[n], e), reply)
         IN  /\ Persist(n, [s EXCEPT !.replies = @ \cup {<<e.id, reply>>}])
             /\ made' = made + 1

(* directDeliver: a cached reply is posted once, past the cursor, by a     *)
(* goroutine nobody waits for; it may get lost.                            *)
DirectDeliver(n, e, rest) ==
    \/ loose' = rest
    \/ \E r \in node[n].replies :
          /\ r[1] = e.id
          /\ Len(rest[Peer(n)]) < MaxLoose
          /\ loose' = [rest EXCEPT ![Peer(n)] = Append(@, r[2])]

ProcessInbound(n, e, verdict, rest) ==
    \/ /\ verdict = "ok"
       /\ Route(n, e)
       /\ loose' = rest
    \/ /\ verdict = "duplicate"
       /\ DirectDeliver(n, e, rest)
       /\ UNCHANGED <<node, saved, made, failed>>
    \/ /\ ~Accepted(verdict)
       /\ loose' = rest
       /\ UNCHANGED <<node, saved, made, failed>>

-----------------------------------------------------------------------------
(* An operator call that sends an envelope (OpenContact, StartTransfer...).*)
Call(n, hops) ==
    /\ n \in Callers /\ made < MaxCalls
    /\ Persist(n, Recorded(node[n], Built(node[n], hops)))
    /\ made' = made + 1
    /\ UNCHANGED <<pushed, post, pull, loose, old, refused, restarts>>

(***************************************************************************)
(* The push worker: the first envelope past the cursor is posted; the      *)
(* mutex is not held while the request is on its way.                      *)
(***************************************************************************)
Unpushed(n) == After(node[n].outbox, pushed[n])

PushStart(n) ==
    /\ post[n] = None
    /\ Unpushed(n) # <<>>
    /\ post' = [post EXCEPT ![n] = [env |-> Head(Unpushed(n)), answer |-> "none"]]
    /\ UNCHANGED <<node, saved, pushed, pull, loose, made, old, refused, restarts, failed>>

ArrivesWith(n, trouble) ==
    /\ post[Peer(n)] # None /\ post[Peer(n)].answer = "none"
    /\ LET e == post[Peer(n)].env
           verdict == Verdict(n, e, trouble)
       IN  /\ ProcessInbound(n, e, verdict, loose)
           /\ post' = [post EXCEPT ![Peer(n)].answer =
                         IF Accepted(verdict) THEN "accepted" ELSE "refused"]
    /\ UNCHANGED <<pushed, pull, old, refused, restarts>>

PushArrives(n) == \E trouble \in Troubles : ArrivesWith(n, trouble)

CursorAfter(p, answer, seq) ==
    IF answer = "accepted" /\ seq > p THEN seq ELSE p

PushReturns(n) ==
    /\ post[n] # None /\ post[n].answer # "none"
    /\ pushed' = [pushed EXCEPT ![n] = CursorAfter(@, post[n].answer, post[n].env.seq)]
    /\ post' = [post EXCEPT ![n] = None]
    /\ UNCHANGED <<node, saved, pull, loose, made, old, refused, restarts, failed>>

(* The request fails: it never arrives, or after its sender has given up.  *)
GiveUp(n) ==
    \/ UNCHANGED loose
    \/ /\ Len(loose[Peer(n)]) < MaxLoose
       /\ loose' = [loose EXCEPT ![Peer(n)] = Append(@, post[n].env)]

LoseRequest(n) ==
    /\ "request" \in Faults
    /\ post[n] # None /\ post[n].answer = "none"
    /\ GiveUp(n)
    /\ post' = [post EXCEPT ![n] = None]
    /\ UNCHANGED <<node, saved, pushed, pull, made, old, refused, restarts, failed>>

LoseAnswer(n) ==
    /\ "answer" \in Faults
    /\ post[n] # None /\ post[n].answer # "none"
    /\ post' = [post EXCEPT ![n] = None]
    /\ UNCHANGED <<node, saved, pushed, pull, loose, made, old, refused, restarts, failed>>

LooseArrives(n) ==
    /\ \E i \in 1..Len(loose[n]), trouble \in Troubles :
          ProcessInbound(n, loose[n][i], Verdict(n, loose[n][i], trouble),
                         [loose EXCEPT ![n] = RemoveAt(@, i)])
    /\ UNCHANGED <<pushed, post, pull, old, refused, restarts>>

-----------------------------------------------------------------------------
(***************************************************************************)
(* PollAll: fetch the peer's outbox, process every envelope of it, fetch   *)
(* the peer's checkpoint, prune.  Nothing is locked in between.  A fetch   *)
(* that fails ends its half of the work only.                              *)
(***************************************************************************)
Fetched(value, nothing) ==
    {value} \cup (IF "answer" \in Faults THEN {nothing} ELSE {})

FetchOutbox(n) ==
    /\ n \in Pullers
    /\ pull[n] = None
    /\ \E envs \in Fetched(node[Peer(n)].outbox, <<>>) :
          pull' = [pull EXCEPT ![n] = [todo |-> envs, acked |-> None]]
    /\ UNCHANGED <<node, saved, pushed, post, loose, made, old, refused, restarts, failed>>

(* The peer has answered the fetch that n is making.                       *)
Answered(n) == pull'[n].todo = node[Peer(n)].outbox

(* Slip: stop at the first envelope that is not accepted, as push does.    *)
PolledUntilRefused(todo, verdict) ==
    IF Accepted(verdict) THEN Tail(todo) ELSE <<>>

(* PollPeer goes on whatever the verdict.                                  *)
PolledAfter(todo, verdict) == Tail(todo)

PollWith(n, trouble) ==
    /\ pull[n] # None /\ pull[n].todo # <<>>
    /\ LET e == Head(pull[n].todo)
           verdict == Verdict(n, e, trouble)
       IN  /\ ProcessInbound(n, e, verdict, loose)
           /\ pull' = [pull EXCEPT ![n].todo = PolledAfter(@, verdict)]
           /\ refused' = [refused EXCEPT ![n] = IF Due(n, e) /\ verdict # "ok"
                                             THEN @ \cup {e.id} ELSE @]
    /\ UNCHANGED <<pushed, post, old, restarts>>

PollNext(n) == \E trouble \in Troubles : PollWith(n, trouble)

FetchCheckpoint(n) ==
    /\ pull[n] # None /\ pull[n].todo = <<>> /\ pull[n].acked = None
    /\ \E upto \in Fetched(node[Peer(n)].last, 0) :
          pull' = [pull EXCEPT ![n].acked = upto]
    /\ UNCHANGED <<node, saved, pushed, post, loose, made, old, refused, restarts, failed>>

(* Slip: one envelope too many.                                            *)
PrunedOneMore(s, upto) == [s EXCEPT !.outbox = After(@, upto + 1)]

Pruned(s, upto) == [s EXCEPT !.outbox = After(@, upto)]

Prune(n) ==
    /\ pull[n] # None /\ pull[n].acked # None
    /\ LET s == Pruned(node[n], pull[n].acked)
       IN  IF s = node[n] THEN UNCHANGED <<node, saved, failed>> ELSE Persist(n, s)
    /\ pull' = [pull EXCEPT ![n] = None]
    /\ UNCHANGED <<pushed, post, loose, made, old, refused, restarts>>

-----------------------------------------------------------------------------
(* Seven days after it was created an envelope is too old to be accepted.  *)
Age ==
    /\ "age" \in Faults
    /\ old < made
    /\ old' = old + 1
    /\ UNCHANGED <<node, saved, pushed, post, pull, loose, made, refused, restarts, failed>>

(* Slip: the cursor survives a restart.                                    *)
CursorKept(p) == p

CursorAfterRestart(p) == 0

(* A crash and Restore.  Requests n has sent may still arrive.             *)
Restart(n) ==
    /\ restarts < MaxRestarts
    /\ restarts' = restarts + 1
    /\ node' = [node EXCEPT ![n] = saved[n]]
    /\ pushed' = [pushed EXCEPT ![n] = CursorAfterRestart(@)]
    /\ pull' = [pull EXCEPT ![n] = None]
    /\ post' = [post EXCEPT ![n] = None]
    /\ \/ UNCHANGED loose
       \/ post[n] # None /\ post[n].answer = "none" /\ GiveUp(n)
    /\ UNCHANGED <<saved, made, old, refused, failed>>

-----------------------------------------------------------------------------
Init ==
    /\ node = [n \in Node |-> Fresh]
    /\ saved = node
    /\ pushed = [n \in Node |-> 0]
    /\ post = [n \in Node |-> None]
    /\ pull = [n \in Node |-> None]
    /\ loose = [n \in Node |-> <<>>]
    /\ refused = [n \in Node |-> {}]
    /\ made = 0 /\ old = 0 /\ restarts = 0 /\ failed = 0

Push(n) == PushStart(n) \/ PushArrives(n) \/ PushReturns(n)
Pull(n) == FetchOutbox(n) \/ PollNext(n) \/ FetchCheckpoint(n) \/ Prune(n)

Next ==
    \/ \E n \in Node : \/ \E hops \in Hops : Call(n, hops)
                       \/ Push(n)
                       \/ LoseRequest(n)
                       \/ LoseAnswer(n)
                       \/ LooseArrives(n)
                       \/ Pull(n)
                       \/ Restart(n)
    \/ Age

Spec == Init /\ [][Next]_vars

PollTakes(n) == PollWith(n, "none") /\ Due(n, Head(pull[n].todo))

(* Who sends anything: without answers, only the nodes that call.          *)
Senders == IF Hops = {0} THEN Callers ELSE Node

(***************************************************************************)
(* The push worker of a sender ticks every three seconds, requests are not *)
(* lost and keys not out of reach for ever, and the peer's puller, once    *)
(* started, keeps polling and is answered again and again.                 *)
(***************************************************************************)
Fairness ==
    \A n \in Senders : /\ WF_vars(PushStart(n))
                       /\ SF_vars(ArrivesWith(Peer(n), "none"))
                       /\ SF_vars(PushReturns(n))
                       /\ WF_vars(Pull(Peer(n)))
                       /\ SF_vars(FetchOutbox(Peer(n)) /\ Answered(Peer(n)))
                       /\ SF_vars(PollTakes(Peer(n)))

FairSpec == Spec /\ Fairness
=============================================================================
