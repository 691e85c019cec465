-------------------------- MODULE ChannelProperties --------------------------
(***************************************************************************)
(* What the channel between two nodes must do, as properties of the        *)
(* specification in Channel.                                               *)
(***************************************************************************)
EXTENDS Channel

Envelopes(seq) == {seq[i] : i \in 1..Len(seq)}
Outbox(n) == Envelopes(node[n].outbox)

-----------------------------------------------------------------------------
Envelope == [id : Nat \ {0}, seq : Nat \ {0}, hops : Nat]

NodeState == [outSeq : Nat, outbox : Seq(Envelope), seen : SUBSET Nat, last : Nat,
              replies : SUBSET (Nat \X Envelope)]

Posting == [env : Envelope, answer : {"none", "accepted", "refused"}]

Pulling == [todo : Seq(Envelope), acked : Nat \cup {None}]

(* The type invariant.  Two facts go beyond types: the cursor of the push  *)
(* worker is never past the last envelope there is, and no request is      *)
(* under way that the bounds exclude.                                      *)
TypeOK ==
    /\ node \in [Node -> NodeState] /\ saved \in [Node -> NodeState]
    /\ pushed \in [Node -> Nat] /\ \A n \in Node : pushed[n] <= node[n].outSeq
    /\ post \in [Node -> Posting \cup {None}]
    /\ pull \in [Node -> Pulling \cup {None}]
    /\ loose \in [Node -> Seq(Envelope)] /\ \A n \in Node : Len(loose[n]) <= MaxLoose
    /\ made \in Nat /\ old \in 0..made /\ refused \in [Node -> SUBSET Nat]
    /\ restarts \in 0..MaxRestarts /\ failed \in 0..MaxFailedSaves

(* The channel is the queue that module Contact assumes: whatever is lost, *)
(* repeated, late, pulled, pruned or forgotten in a restart, a node takes  *)
(* the envelopes of its peer in the order of their sequence numbers and    *)
(* none twice (duplicate and stale-seq verdicts of ValidateEnvelope).      *)
Queue == INSTANCE LossyQueue WITH
    Party <- Node,
    queue <- [n \in Node |->
                LET untaken == After(node[Peer(n)].outbox, node[n].last)
                IN  [i \in DOMAIN untaken |-> untaken[i].id]],
    sent <- made,
    got <- [n \in Node |-> node[n].seen]

InOrderAtMostOnce == Queue!Spec

(* An envelope whose sequence number has been passed without it.           *)
Skipped(n, e) == e.seq <= node[n].last /\ e.id \notin node[n].seen

(* No envelope is overtaken: while none gets too old and no Save fails, a  *)
(* node that has processed one has processed all before it, except those   *)
(* that it once pulled and refused because their key was out of reach or   *)
(* their date in the future (PollPeer goes on, pull.go:27).  A push that   *)
(* is refused for such a reason is never passed: push stops there.         *)
NothingSkipped ==
    old = 0 /\ failed = 0 =>
        \A n \in Node : \A e \in Outbox(Peer(n)) : Skipped(n, e) => e.id \in refused[n]

(* While no Save fails, an envelope that was not too old to be accepted    *)
(* anyway is overtaken in two ways only: by a cached reply that            *)
(* directDeliver sent past the push cursor, or by what follows it in a     *)
(* pull in which it was refused for its key or for the clock.              *)
OnlyResendsOvertake ==
    [][failed = 0 =>
       \A n \in Node : \A e \in Outbox(Peer(n)) :
          ~Skipped(n, e) /\ Skipped(n, e)' =>
              \/ e.id <= old
              \/ \E r \in node[Peer(n)].replies :
                    r[2] \in Envelopes(loose[n]) /\ r[2].seq = node[n].last'
              \/ /\ e.id \in refused[n]
                 /\ pull[n] # None /\ pull[n].todo # <<>>
                 /\ Head(pull[n].todo).seq = node[n].last']_vars

(* "A peer never sees an ack the node hasn't persisted" (persist.go:64):   *)
(* while no Save fails, what n's cursor or n's pruning takes as delivered  *)
(* survives a crash of the peer.                                           *)
AckedIsDurable ==
    failed = 0 => \A n \in Node :
        /\ \A e \in Outbox(n) : e.seq <= pushed[n] => e.id \in saved[Peer(n)].seen
        /\ pull[n] # None /\ pull[n].acked # None => pull[n].acked <= saved[Peer(n)].last

(* While no Save fails, an envelope leaves the outbox only after the peer  *)
(* has processed it, or can no longer process it.                          *)
PrunedIsPassed ==
    [][failed = 0 =>
       \A n \in Node : \A e \in Outbox(n) :
          e \notin Outbox(n)' => e.seq <= node[Peer(n)].last']_vars

-----------------------------------------------------------------------------
(* An envelope starts a chain of answers; a failed Save makes a node       *)
(* process and answer an envelope again.                                   *)
MaxId == MaxCalls * (1 + (CHOOSE h \in Hops : \A g \in Hops : g <= h)
                          * (1 + MaxFailedSaves))

(* Every envelope that needs no answer is processed in the end, although   *)
(* requests and answers get lost, keys are out of reach for a while and    *)
(* nodes restart: pulling gets past what the receiver refuses, where push  *)
(* alone stops ("the pull baseline is the ultimate backstop",              *)
(* handlers.go:26).  The only ones that are not are too old themselves, or *)
(* have a sequence number that the peer has passed: because a Save failed  *)
(* and their sender restarted without it, or because the peer refused the  *)
(* envelope in a pull and took the next.                                   *)
AllProcessed ==
    \A n \in Senders : \A i \in 1..MaxId :
        (\E e \in Outbox(n) : e.id = i) ~>
            \/ i \in node[Peer(n)].seen \/ i <= old
            \/ /\ failed > 0 \/ i \in refused[Peer(n)]
               /\ \A e \in Outbox(n) : e.id = i => e.seq <= node[Peer(n)].last
=============================================================================
