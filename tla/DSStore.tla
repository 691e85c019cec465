------------------------------- MODULE DSStore -------------------------------
(***************************************************************************)
(* The snapshot of one hosted node in Datastore (dsstore.go of src/gae):   *)
(* ledger records that are entities of their own, the rest of the snapshot *)
(* in chunks, and an LPState entity that counts both.  Records are written *)
(* and everything is read outside transactions; the chunks and LPState are *)
(* written in one, guarded by a version.  Several instances of the host    *)
(* may be alive during a deployment.                                       *)
(*                                                                         *)
(* A snapshot is the set of changes it contains; what a change is does not *)
(* matter, only how many records it appends.  A ledger record is linked to *)
(* all before it by hashes, so it is modelled as the ledger that ends in   *)
(* it.                                                                     *)
(***************************************************************************)
EXTENDS Naturals, FiniteSets, SequencesExt

CONSTANTS
    Instance,     \* instances of the host
    Change,       \* changes of the node's state
    None,         \* no such entity
    Appends,      \* Appends[c]: how many ledger records change c appends
    MaxChunks,    \* chunks the rest of a snapshot takes at most
    PutBatch, GetBatch,  \* entities per request
    MaxFaults     \* crashes and requests that fail

ASSUME InstanceAssumption == IsFiniteSet(Instance)
ASSUME AppendsAssumption == Appends \in [Change -> Nat]
ASSUME BoundAssumption == /\ MaxChunks \in Nat \ {0}
                          /\ PutBatch \in Nat \ {0} /\ GetBatch \in Nat \ {0}
                          /\ MaxFaults \in Nat

(* An LPState counts the other entities; a chunk says how many there are.  *)
LPState == [version : Nat \ {0}, records : Nat, chunks : 1..MaxChunks]
LPStateChunk == [rest : SUBSET Change, size : 1..MaxChunks]

ASSUME NoneAssumption == None \notin LPState \cup LPStateChunk \cup Change

VARIABLES
    state,   \* LPState: [version, records, chunks]
    record,  \* record[j]: the j-th LPRecord, if it has been stored
    chunk,   \* chunk[i]: the i-th LPStateChunk
    inst,    \* inst[w]: instance w
    made,    \* the changes made so far
    faults

vars == <<state, record, chunk, inst, made, faults>>

Least(a, b) == IF a < b THEN a ELSE b

(***************************************************************************)
(* What an instance does (pc), its node's ledger and the rest of its state *)
(* (log, rest, in `size` chunks), the fields version and records of its    *)
(* DSStore, the LPState it has read (st), and how far it has come with     *)
(* the batches of records (done).                                          *)
(***************************************************************************)
Down == [pc |-> "down", log |-> <<>>, rest |-> {}, size |-> 1,
         version |-> 0, records |-> 0, st |-> None, done |-> 0]

Goto(w, i) == inst' = [inst EXCEPT ![w] = i]
Stored == <<state, record, chunk>>

-----------------------------------------------------------------------------
(***************************************************************************)
(* Load, in one request for LPState, one for the chunks, and one for each  *)
(* batch of records.  What does not decode ends the process.               *)
(***************************************************************************)
(* A new node is made and saved at once.                                   *)
LoadState(w) ==
    /\ inst[w].pc = "down"
    /\ Goto(w, IF state = None THEN [Down EXCEPT !.pc = "saving"]
                               ELSE [Down EXCEPT !.pc = "chunks", !.st = state])
    /\ UNCHANGED <<Stored, made, faults>>

(* The chunks 1..n hold one snapshot, complete.                            *)
Whole(n) == \A i \in 1..n : chunk[i] # None /\ chunk[i] = chunk[1] /\ chunk[i].size = n

LoadChunks(w) ==
    LET i == inst[w]
    IN  /\ i.pc = "chunks"
        /\ Goto(w, IF Whole(i.st.chunks)
                   THEN [i EXCEPT !.pc = "records", !.rest = chunk[1].rest,
                                  !.size = chunk[1].size]
                   ELSE Down)
        /\ UNCHANGED <<Stored, made, faults>>

(* `log` is extended by record[j] only if that is linked to log, which is  *)
(* what VerifyChain requires of the records in the end.                    *)
Linked(log, j) == j \in DOMAIN record /\ SubSeq(record[j], 1, j - 1) = log

LoadRecords(w) ==
    LET i == inst[w]
        last == Least(i.done + GetBatch, i.st.records)
        before(j) == IF j = i.done + 1 THEN i.log ELSE record[j - 1]
        read == [i EXCEPT !.log = IF last = 0 THEN <<>> ELSE record[last], !.done = last]
    IN  /\ i.pc = "records"
        /\ Goto(w, IF \E j \in i.done + 1..last : ~Linked(before(j), j) THEN Down
                   ELSE IF last < i.st.records THEN read
                   ELSE [read EXCEPT !.pc = "running", !.version = i.st.version,
                                     !.records = last])
        /\ UNCHANGED <<Stored, made, faults>>

-----------------------------------------------------------------------------
(* Any operation of the node: it changes the state and saves it.           *)
Operate(w) ==
    /\ inst[w].pc = "running"
    /\ \E c \in Change \ made, size \in 1..MaxChunks :
          /\ made' = made \cup {c}
          /\ Goto(w, [inst[w] EXCEPT !.pc = "saving", !.log = @ \o [j \in 1..Appends[c] |-> c],
                                     !.rest = @ \cup {c}, !.size = size,
                                     !.done = inst[w].records])
    /\ UNCHANGED <<Stored, faults>>

(* Slip: records count as stored as soon as their request was sent.        *)
FailedCounted(i) == [i EXCEPT !.pc = "running", !.records = Len(i.log)]

(* Save, first part: the records from s.records on, batch by batch.  A     *)
(* request that fails may have stored any of them and ends Save; a node    *)
(* only logs that and goes on, a new one is given up.                      *)
Failed(i) == IF i.version = 0 THEN Down ELSE [i EXCEPT !.pc = "running"]

(* Slip: the hash chain is cut one record early.                           *)
WrittenShifted(log, js) ==
    [j \in js \cup DOMAIN record |-> IF j \in js THEN SubSeq(log, 1, j - 1) ELSE record[j]]

Written(log, js) ==
    [j \in js \cup DOMAIN record |-> IF j \in js THEN SubSeq(log, 1, j) ELSE record[j]]

PutRecords(w) ==
    LET i == inst[w]
        last == Least(i.done + PutBatch, Len(i.log))
        batch == i.done + 1..last
    IN  /\ i.pc = "saving" /\ batch # {}
        /\ \/ /\ record' = Written(i.log, batch)
              /\ Goto(w, [i EXCEPT !.done = last])
              /\ UNCHANGED faults
           \/ /\ faults < MaxFaults
              /\ faults' = faults + 1
              /\ \E js \in SUBSET batch : record' = Written(i.log, js)
              /\ Goto(w, Failed(i))
        /\ UNCHANGED <<state, chunk, made>>

(* Slip: the version is not compared.                                      *)
UpToDateAlways(i) == TRUE

UpToDate(i) == i.version = IF state = None THEN 0 ELSE state.version

(* The transaction: every chunk and LPState at once.                       *)
Applied(i) ==
    /\ chunk' = [j \in DOMAIN chunk |->
                   IF j <= i.size THEN [rest |-> i.rest, size |-> i.size]
                   ELSE IF state # None /\ j <= state.chunks THEN None ELSE chunk[j]]
    /\ state' = [version |-> i.version + 1, records |-> Len(i.log), chunks |-> i.size]

(* Second part.  A conflict makes the process exit (exitOnConflict); an    *)
(* error leaves the instance as it was, whether the transaction has been   *)
(* applied or not.                                                         *)
Commit(w) ==
    LET i == inst[w]
    IN  /\ i.pc = "saving" /\ i.done = Len(i.log)
        /\ \/ /\ ~UpToDate(i)
              /\ Goto(w, Down)
              /\ UNCHANGED <<state, chunk, faults>>
           \/ /\ UpToDate(i)
              /\ Applied(i)
              /\ Goto(w, [i EXCEPT !.pc = "running", !.version = @ + 1,
                                   !.records = Len(i.log)])
              /\ UNCHANGED faults
           \/ /\ faults < MaxFaults
              /\ faults' = faults + 1
              /\ Goto(w, Failed(i))
              /\ \/ UpToDate(i) /\ Applied(i)
                 \/ UNCHANGED <<state, chunk>>
        /\ UNCHANGED <<record, made>>

Crash(w) ==
    /\ faults < MaxFaults
    /\ inst[w].pc # "down"
    /\ faults' = faults + 1
    /\ Goto(w, Down)
    /\ UNCHANGED <<Stored, made>>

-----------------------------------------------------------------------------
Init ==
    /\ state = None
    /\ record = <<>>
    /\ chunk = [j \in 1..MaxChunks |-> None]
    /\ inst = [w \in Instance |-> Down]
    /\ made = {} /\ faults = 0

Load(w) == LoadState(w) \/ LoadChunks(w) \/ LoadRecords(w)
Save(w) == PutRecords(w) \/ Commit(w)

Next == \E w \in Instance : \/ Load(w)
                            \/ Operate(w)
                            \/ Save(w)
                            \/ Crash(w)

Spec == Init /\ [][Next]_vars
=============================================================================
