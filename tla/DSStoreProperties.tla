-------------------------- MODULE DSStoreProperties --------------------------
(***************************************************************************)
(* What the Datastore store must do, as properties of the specification in *)
(* DSStore.  A variable observes it: whether two instances have been alive *)
(* at once.                                                                *)
(***************************************************************************)
EXTENDS DSStore

VARIABLE overlap

allVars == <<vars, overlap>>

Alive == {w \in Instance : inst[w].pc # "down"}
Observe == overlap' = (overlap \/ Cardinality(Alive') > 1)

ObservedInit == Init /\ overlap = FALSE
ObservedSpec == ObservedInit /\ [][Next /\ Observe]_allVars

(* App Engine starts an instance again, and a request ends.                *)
FairSpec == ObservedSpec /\ \A w \in Instance : WF_allVars(Load(w) /\ Observe)
                                            /\ WF_allVars(Save(w) /\ Observe)

Ledger == Seq(Change)

Process == [pc : {"down", "chunks", "records", "running", "saving"},
            log : Ledger, rest : SUBSET Change, size : 1..MaxChunks,
            version : Nat, records : Nat, st : LPState \cup {None}, done : Nat]

(* The type invariant; an LPRecord is stored under the key its place in    *)
(* the ledger gives it, a chunk is one of those it counts, LPState counts  *)
(* stored records, and no DSStore counts more than its ledger has.         *)
TypeOK ==
    /\ state \in LPState \cup {None}
    /\ DOMAIN record \subseteq Nat \ {0}
    /\ \A j \in DOMAIN record : record[j] \in Ledger /\ Len(record[j]) = j
    /\ state # None => 1..state.records \subseteq DOMAIN record
    /\ chunk \in [1..MaxChunks -> LPStateChunk \cup {None}]
    /\ \A j \in 1..MaxChunks : chunk[j] # None => chunk[j].size >= j
    /\ inst \in [Instance -> Process]
    /\ \A w \in Instance :
          inst[w].pc \in {"running", "saving"} => inst[w].records <= Len(inst[w].log)
    /\ made \subseteq Change /\ faults \in 0..MaxFaults

(* The ledger and the changes that a Load of what is stored would find;    *)
(* None stands for what cannot be loaded.                                  *)
Loadable == \A j \in 1..state.records :
               Linked(IF j = 1 THEN <<>> ELSE record[j - 1], j)
StoredLedger ==
    CASE state = None -> <<>>
      [] state # None -> IF ~Loadable THEN <<None>>
                         ELSE IF state.records = 0 THEN <<>> ELSE record[state.records]
StoredChanges ==
    CASE state = None -> {}
      [] state # None -> IF Whole(state.chunks) THEN chunk[1].rest ELSE {None}

(* The instances are an append-only store that is replaced as a whole:     *)
(* whatever request fails or crashes in the middle of Save, and whatever   *)
(* was loaded while another instance was saving, what is stored is one     *)
(* snapshot and no saved change disappears ("LPState ... makes this process the single writer",         *)
(* dsstore.go:26); and if they follow one another, what the next Load      *)
(* finds is one whole ledger that extends every one stored before.         *)
Store == INSTANCE LedgerStore
         WITH ledger <- StoredLedger, applied <- StoredChanges, alone <- ~overlap
StoreIsAtomic == Store!Spec

(* An instance that is up to date, and may therefore save, holds a ledger  *)
(* that has the records of exactly the changes in its state ("a second     *)
(* writer ... gets ErrConflict instead of silently forking the ledger",    *)
(* dsstore.go:28).                                                         *)
LedgerNotForked ==
    \A w \in Instance :
        inst[w].pc = "running" /\ UpToDate(inst[w]) =>
            \A c \in Change :
                Cardinality({j \in DOMAIN inst[w].log : inst[w].log[j] = c}) =
                    IF c \in inst[w].rest THEN Appends[c] ELSE 0

(* However a Save or a Load ended, the node can be loaded again, unless    *)
(* two instances have written at once.                                     *)
ComesBack == []<>(overlap \/ \E w \in Instance : inst[w].pc = "running")
=============================================================================
