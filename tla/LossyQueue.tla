----------------------------- MODULE LossyQueue -----------------------------
(***************************************************************************)
(* What the two nodes of a contact may expect of the channel between them, *)
(* and what module Contact assumes of it: one queue per direction.  A node *)
(* takes the envelopes addressed to it in the order they were sent, each   *)
(* at most once.  Envelopes may be dropped: those before the one a node    *)
(* takes are, and it never takes them later.  Envelopes are numbered in    *)
(* the order they are sent.                                                *)
(***************************************************************************)
EXTENDS Naturals, Sequences

CONSTANT Party
VARIABLES queue,  \* queue[p]: the envelopes p may still take
          sent,   \* number of envelopes sent so far
          got     \* got[p]: the envelopes p has taken

Init == /\ queue = [p \in Party |-> <<>>]
        /\ sent = 0
        /\ got = [p \in Party |-> {}]

Send(p) ==
    /\ sent' = sent + 1
    /\ queue' = [queue EXCEPT ![p] = Append(@, sent')]
    /\ UNCHANGED got

(* p takes its i-th envelope and may answer it.                            *)
Take(p, i) ==
    LET rest == [queue EXCEPT ![p] = SubSeq(@, i + 1, Len(@))]
    IN  /\ got' = [got EXCEPT ![p] = @ \cup {queue[p][i]}]
        /\ \/ queue' = rest /\ UNCHANGED sent
           \/ /\ sent' = sent + 1
              /\ \E q \in Party \ {p} : queue' = [rest EXCEPT ![q] = Append(@, sent')]

Next == \E p \in Party : Send(p) \/ \E i \in 1..Len(queue[p]) : Take(p, i)

Spec == Init /\ [][Next]_<<queue, sent, got>>
=============================================================================
