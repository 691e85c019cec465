----------------------------- MODULE LedgerStore -----------------------------
(***************************************************************************)
(* What a store of a node's snapshot promises: a snapshot is replaced as a *)
(* whole by one that contains it.  No change that was saved is ever lost;  *)
(* and as long as only one instance is alive at a time, the ledger only    *)
(* grows, and a change is saved together with all of its ledger records.   *)
(***************************************************************************)
EXTENDS Naturals, SequencesExt

CONSTANTS Change,
          Appends     \* Appends[c]: how many ledger records change c appends
VARIABLES ledger,     \* the change that made each record of the stored ledger
          applied,    \* the changes that the stored snapshot contains
          alone       \* no two instances have been alive at once so far

Init == ledger = <<>> /\ applied = {}

RecordsOf(c, log) == {j \in DOMAIN log : log[j] = c}

Extended ==
    /\ IsPrefix(ledger, ledger')
    /\ \A c \in applied' \ applied :
          Cardinality(RecordsOf(c, ledger') \ RecordsOf(c, ledger)) = Appends[c]
    /\ \A j \in DOMAIN ledger' \ DOMAIN ledger : ledger'[j] \in applied' \ applied

Save == /\ applied \subseteq applied' /\ applied' \subseteq Change
        /\ alone' => Extended

Spec == Init /\ [][Save]_<<ledger, applied>>
=============================================================================
