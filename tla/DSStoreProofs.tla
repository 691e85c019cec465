---------------------------- MODULE DSStoreProofs ----------------------------
(***************************************************************************)
(* Theorems about the Datastore store, for any number of instances,        *)
(* changes, chunks, failing requests and crashes, and batches of any size. *)
(***************************************************************************)
EXTENDS DSStoreProperties, FiniteSetTheorems, TLAPS

Loading == {"chunks", "records"}
Serving == {"running", "saving"}

(* What is counted as read or written has been written.                    *)
Counted(i, rec) ==
    /\ 1..i.done \subseteq DOMAIN rec /\ 1..i.records \subseteq DOMAIN rec
    /\ i.pc \in Loading => i.st # None /\ i.done <= i.st.records /\ Len(i.log) = i.done
    /\ i.pc \in Serving => i.records <= Len(i.log)
    /\ i.pc = "saving" => i.done <= Len(i.log)

TInv == TypeOK /\ \A w \in Instance : Counted(inst[w], record)

-----------------------------------------------------------------------------
(* The changes of the stored snapshot, however many instances there are.   *)
(* All chunks are those of one snapshot; an instance whose version is the  *)
(* stored one has all changes that are stored, and is otherwise behind.    *)
Number(st) == IF st = None THEN 0 ELSE st.version
Held(st, ch) == IF st = None THEN {} ELSE ch[1].rest

OneSnapshot(st, ch) ==
    st # None => \A j \in 1..st.chunks :
                    ch[j] # None /\ ch[j] = ch[1] /\ ch[j].size = st.chunks

Behind(i, st, h) ==
    /\ i.pc \in Loading =>
          /\ i.st.version <= Number(st)
          /\ i.st.version = Number(st) => i.st = st /\ (i.pc = "records" => i.rest = h)
    /\ i.pc \in Serving =>
          /\ i.version <= Number(st)
          /\ i.version = Number(st) => h \subseteq i.rest

Remembered ==
    /\ \A j \in 1..MaxChunks : chunk[j] # None => chunk[j].rest \subseteq made
    /\ \A w \in Instance : inst[w].rest \subseteq made

AInv ==
    /\ TInv
    /\ OneSnapshot(state, chunk)
    /\ \A w \in Instance : Behind(inst[w], state, Held(state, chunk))
    /\ Remembered

-----------------------------------------------------------------------------
(* The stored ledger log, as long as no two instances have been alive at   *)
(* once.  The records are its prefixes; the instance that is alive has     *)
(* read some of it, or continues it: with the records of its new changes   *)
(* if it is up to date, and after a transaction whose answer was lost too. *)
Chain(log, st, rec) ==
    /\ st = None => log = <<>>
    /\ st # None => Len(log) = st.records
    /\ \A j \in 1..Len(log) : rec[j] = SubSeq(log, 1, j)

(* The records that `more` has after those of log: all records of the      *)
(* changes in cs, and no others.                                           *)
NewRecords(log, more, cs) ==
    /\ \A j \in (Len(log) + 1)..Len(more) : more[j] \in cs
    /\ \A c \in cs : Cardinality({j \in (Len(log) + 1)..Len(more) : more[j] = c}) = Appends[c]

Extends(more, log) == Len(log) <= Len(more) /\ SubSeq(more, 1, Len(log)) = log

Continues(log, i, st, rec, h) ==
    /\ i.pc \in Loading => i.st = st /\ i.log = SubSeq(log, 1, i.done)
    /\ i.pc = "records" => i.rest = h
    /\ i.pc \in Serving =>
          /\ Extends(i.log, log) /\ i.records <= Len(log)
          /\ i.version = Number(st) =>
                i.records = Len(log) /\ NewRecords(log, i.log, i.rest \ h)
    /\ i.pc = "saving" => \A j \in 1..i.done : rec[j] = SubSeq(i.log, 1, j)

Alone == \A v, w \in Alive : v = w

Agrees(log, st, rec, ch, ins) ==
    /\ Chain(log, st, rec)
    /\ \A w \in Instance : Continues(log, ins[w], st, rec, Held(st, ch))

LInv == ~overlap => Alone /\ \E log \in Ledger : Agrees(log, state, record, chunk, inst)

Inv == AInv /\ LInv

-----------------------------------------------------------------------------
(* Sequences.                                                              *)
LEMMA PrefixOf ==
    ASSUME NEW log \in Ledger, NEW j \in 0..Len(log)
    PROVE  /\ SubSeq(log, 1, j) \in Ledger /\ Len(SubSeq(log, 1, j)) = j
           /\ \A k \in 1..j : SubSeq(log, 1, j)[k] = log[k]
BY DEF Ledger

LEMMA SameSequence ==
    ASSUME NEW s \in Ledger, NEW t \in Ledger, Len(s) = Len(t),
           \A k \in 1..Len(s) : s[k] = t[k]
    PROVE  s = t
BY DEF Ledger

LEMMA PrefixOfPrefix ==
    ASSUME NEW log \in Ledger, NEW j \in 0..Len(log), NEW k \in 0..j
    PROVE  SubSeq(SubSeq(log, 1, j), 1, k) = SubSeq(log, 1, k)
<1>1. Len(log) \in Nat /\ k \in 0..Len(log)
  BY DEF Ledger
<1> DEFINE p == SubSeq(log, 1, j)
<1>2. p \in Ledger /\ Len(p) = j /\ \A m \in 1..j : p[m] = log[m]
  BY PrefixOf
<1> HIDE DEF p
<1>3. /\ SubSeq(p, 1, k) \in Ledger /\ Len(SubSeq(p, 1, k)) = k
      /\ \A m \in 1..k : SubSeq(p, 1, k)[m] = p[m]
  BY <1>2, PrefixOf
<1>4. /\ SubSeq(log, 1, k) \in Ledger /\ Len(SubSeq(log, 1, k)) = k
      /\ \A m \in 1..k : SubSeq(log, 1, k)[m] = log[m]
  BY <1>1, PrefixOf
<1>5. \A m \in 1..k : m \in 1..j
  OBVIOUS
<1>6. SubSeq(p, 1, k) = SubSeq(log, 1, k)
  BY <1>2, <1>3, <1>4, <1>5, SameSequence
<1> QED BY <1>6 DEF p

LEMMA Empty == <<>> \in Ledger /\ Len(<<>>) = 0
BY DEF Ledger

LEMMA WholeLedger ==
    ASSUME NEW log \in Ledger
    PROVE  /\ Len(log) \in Nat /\ SubSeq(log, 1, Len(log)) = log
           /\ SubSeq(log, 1, 0) = <<>>
BY DEF Ledger

(* A change appends its records.                                           *)
LEMMA Appended ==
    ASSUME NEW log \in Ledger, NEW c \in Change
    PROVE  LET new == log \o [j \in 1..Appends[c] |-> c]
           IN  /\ new \in Ledger /\ Len(new) = Len(log) + Appends[c]
               /\ \A k \in 1..Len(log) : new[k] = log[k]
               /\ \A k \in (Len(log) + 1)..Len(new) : new[k] = c
<1> DEFINE more == [j \in 1..Appends[c] |-> c]
<1>1. Appends[c] \in Nat
  BY AppendsAssumption
<1>2. more \in Seq(Change) /\ Len(more) = Appends[c] /\ \A k \in 1..Appends[c] : more[k] = c
  BY <1>1
<1> HIDE DEF more
<1>3. log \in Seq(Change)
  BY DEF Ledger
<1>4. /\ log \o more \in Seq(Change) /\ Len(log \o more) = Len(log) + Len(more)
      /\ \A k \in 1..Len(log) + Len(more) :
            (log \o more)[k] = IF k <= Len(log) THEN log[k] ELSE more[k - Len(log)]
  BY <1>2, <1>3
<1>5. Len(log) \in Nat
  BY <1>3
<1>6. \A k \in (Len(log) + 1)..(Len(log) + Appends[c]) : (log \o more)[k] = c
  BY <1>1, <1>2, <1>4, <1>5
<1>7. \A k \in 1..Len(log) : (log \o more)[k] = log[k]
  BY <1>1, <1>2, <1>4, <1>5
<1> QED BY <1>1, <1>2, <1>4, <1>6, <1>7 DEF more, Ledger

-----------------------------------------------------------------------------
(***************************************************************************)
(* Types.                                                                  *)
(***************************************************************************)
LEMMA DownTyped == Down \in Process /\ Down.pc = "down" /\ \A rec : Counted(Down, rec)
<1>1. <<>> \in Ledger
  BY Empty
<1>2. Down \in Process
  BY <1>1, BoundAssumption DEF Down, Process
<1> QED BY <1>2 DEF Down, Counted, Loading

LEMMA ProcessFields ==
    ASSUME NEW i \in Process
    PROVE  /\ i.log \in Ledger /\ Len(i.log) \in Nat /\ i.rest \subseteq Change
           /\ i.size \in 1..MaxChunks /\ i.version \in Nat /\ i.records \in Nat
           /\ i.done \in Nat /\ (i.st # None => i.st \in LPState)
           /\ i.pc \in {"down"} \cup Loading \cup Serving
BY WholeLedger DEF Process, Loading, Serving

LEMMA StateFields ==
    \A st \in LPState : /\ st.version \in Nat \ {0} /\ st.records \in Nat
                        /\ st.chunks \in 1..MaxChunks /\ st # None
BY NoneAssumption DEF LPState

(* The parts of TInv an action leaves alone or establishes.                *)
Data(st, rec, ch) ==
    /\ st \in LPState \cup {None}
    /\ DOMAIN rec \subseteq Nat \ {0}
    /\ \A j \in DOMAIN rec : rec[j] \in Ledger /\ Len(rec[j]) = j
    /\ st # None => 1..st.records \subseteq DOMAIN rec
    /\ ch \in [1..MaxChunks -> LPStateChunk \cup {None}]
    /\ \A j \in 1..MaxChunks : ch[j] # None => ch[j].size >= j

LEMMA TypedStep ==
    ASSUME TInv, NEW w \in Instance, NEW i \in Process, Goto(w, i),
           Data(state', record', chunk'), Counted(i, record'),
           DOMAIN record \subseteq DOMAIN record',
           made' \subseteq Change, faults' \in 0..MaxFaults
    PROVE  TInv'
<1>1. inst' = [inst EXCEPT ![w] = i] /\ inst \in [Instance -> Process]
  BY DEF Goto, TInv, TypeOK
<1>2. inst' \in [Instance -> Process]
  BY <1>1
<1>3. ASSUME NEW v \in Instance PROVE Counted(inst'[v], record')
  <2>1. CASE v = w
    BY <1>1, <2>1
  <2>2. CASE v # w
    <3>1. inst'[v] = inst[v]
      BY <1>1, <2>2
    <3>2. Counted(inst[v], record)
      BY DEF TInv
    <3>3. Counted(inst[v], record')
      BY <3>2 DEF Counted
    <3> QED BY <3>1, <3>3
  <2> QED BY <2>1, <2>2
<1>4. \A v \in Instance :
         inst'[v].pc \in {"running", "saving"} => inst'[v].records <= Len(inst'[v].log)
  BY <1>3 DEF Counted, Serving
<1>5. TypeOK'
  BY <1>2, <1>4 DEF TypeOK, Data
<1> QED BY <1>3, <1>5 DEF TInv

LEMMA Typed ==
    ASSUME TInv
    PROVE  /\ Data(state, record, chunk) /\ inst \in [Instance -> Process]
           /\ \A w \in Instance : inst[w] \in Process /\ Counted(inst[w], record)
           /\ made \subseteq Change /\ faults \in 0..MaxFaults
BY DEF TInv, TypeOK, Data

LEMMA TypedLoadState ==
    ASSUME TInv, NEW w \in Instance, LoadState(w)
    PROVE  TInv'
<1> DEFINE i == IF state = None THEN [Down EXCEPT !.pc = "saving"]
                               ELSE [Down EXCEPT !.pc = "chunks", !.st = state]
<1>1. Goto(w, i) /\ state' = state /\ record' = record /\ chunk' = chunk
      /\ made' = made /\ faults' = faults
  BY DEF LoadState, Stored
<1>2. Data(state, record, chunk) /\ made \subseteq Change /\ faults \in 0..MaxFaults
  BY Typed
<1>3. i \in Process
  <2>1. Down \in Process
    BY DownTyped
  <2>2. state # None => state \in LPState
    BY <1>2 DEF Data
  <2> QED BY <2>1, <2>2 DEF Process
<1>4. Counted(i, record)
  <2>1. CASE state = None
    BY <2>1, Empty DEF Counted, Down, Loading, Serving
  <2>2. CASE state # None
    <3>1. state.records \in Nat
      BY <1>2, <2>2, StateFields DEF Data
    <3> QED BY <2>2, <3>1, Empty DEF Counted, Down, Loading, Serving
  <2> QED BY <2>1, <2>2
<1> HIDE DEF i
<1> QED BY <1>1, <1>2, <1>3, <1>4, TypedStep

LEMMA TypedLoadChunks ==
    ASSUME TInv, NEW w \in Instance, LoadChunks(w)
    PROVE  TInv'
<1> DEFINE i == inst[w]
           j == [i EXCEPT !.pc = "records", !.rest = chunk[1].rest, !.size = chunk[1].size]
           k == IF Whole(i.st.chunks) THEN j ELSE Down
<1>1. /\ i.pc = "chunks" /\ Goto(w, k) /\ state' = state /\ record' = record /\ chunk' = chunk
      /\ made' = made /\ faults' = faults
  BY DEF LoadChunks, Stored
<1>2. Data(state, record, chunk) /\ made \subseteq Change /\ faults \in 0..MaxFaults
  BY Typed
<1>3. i \in Process /\ Counted(i, record)
  BY Typed
<1>4. ASSUME Whole(i.st.chunks) PROVE j \in Process /\ Counted(j, record)
  <2>1. i.st \in LPState /\ i.st.chunks \in 1..MaxChunks /\ i.st.records \in Nat
    BY <1>1, <1>3, ProcessFields, StateFields DEF Counted, Loading
  <2>2. 1 \in 1..i.st.chunks /\ 1 \in 1..MaxChunks
    BY <2>1, BoundAssumption
  <2>3. chunk[1] # None
    BY <1>4, <2>2 DEF Whole
  <2>4. chunk[1] \in LPStateChunk
    BY <1>2, <2>2, <2>3 DEF Data
  <2>5. chunk[1].rest \in SUBSET Change /\ chunk[1].size \in 1..MaxChunks
    BY <2>4 DEF LPStateChunk
  <2>6. j \in Process
    BY <1>3, <2>5 DEF Process
  <2>7. Counted(j, record)
    BY <1>1, <1>3, Zenon DEF Counted, Loading, Serving, Process
  <2> QED BY <2>6, <2>7
<1>5. k \in Process /\ Counted(k, record)
  <2> HIDE DEF j
  <2> QED BY <1>4, DownTyped
<1> HIDE DEF k
<1> QED BY <1>1, <1>2, <1>5, TypedStep

(* What has been read so far, and what is read with the next batch.        *)
LEMMA TypedLoadRecords ==
    ASSUME TInv, NEW w \in Instance, LoadRecords(w)
    PROVE  TInv'
<1> DEFINE i == inst[w]
           last == Least(i.done + GetBatch, i.st.records)
           before(j) == IF j = i.done + 1 THEN i.log ELSE record[j - 1]
           read == [i EXCEPT !.log = IF last = 0 THEN <<>> ELSE record[last], !.done = last]
           ran == [read EXCEPT !.pc = "running", !.version = i.st.version, !.records = last]
           broken == \E j \in i.done + 1..last : ~Linked(before(j), j)
           k == IF broken THEN Down ELSE IF last < i.st.records THEN read ELSE ran
<1>1. /\ i.pc = "records" /\ Goto(w, k) /\ state' = state /\ record' = record /\ chunk' = chunk
      /\ made' = made /\ faults' = faults
  BY DEF LoadRecords, Stored
<1>2. Data(state, record, chunk) /\ made \subseteq Change /\ faults \in 0..MaxFaults
  BY Typed
<1>3. i \in Process /\ Counted(i, record)
  BY Typed
<1>4. i.st \in LPState /\ i.st.records \in Nat /\ i.st.version \in Nat
  BY <1>1, <1>3, ProcessFields, StateFields DEF Counted, Loading
<1>5. i.done \in Nat /\ i.done <= i.st.records /\ 1..i.done \subseteq DOMAIN record
  BY <1>1, <1>3, ProcessFields DEF Counted, Loading
<1>6. last \in Nat /\ last <= i.st.records /\ i.done <= last
  BY <1>4, <1>5, BoundAssumption DEF Least
<1>7. ASSUME ~broken PROVE k \in Process /\ Counted(k, record)
  <2> HIDE DEF last
  <2>1. 1..last \subseteq DOMAIN record
    <3>1. \A j \in i.done + 1..last : j \in DOMAIN record
      BY <1>7 DEF Linked
    <3> QED BY <1>5, <1>6, <3>1
  <2>2. last # 0 => last \in DOMAIN record
    BY <1>6, <2>1
  <2> DEFINE log == IF last = 0 THEN <<>> ELSE record[last]
  <2>3. log \in Ledger /\ Len(log) = last
    BY <1>2, <2>2, Empty DEF Data
  <2> HIDE DEF log
  <2>4. read = [i EXCEPT !.log = log, !.done = last]
    BY DEF log
  <2> HIDE DEF read
  <2>5. read \in Process /\ ran \in Process
    BY <1>3, <1>4, <1>6, <2>3, <2>4 DEF Process
  <2>6. /\ read.pc = "records" /\ read.st = i.st /\ read.done = last /\ read.log = log
        /\ read.records = i.records
    BY <1>1, <1>3, <2>4 DEF Process
  <2>7. 1..i.records \subseteq DOMAIN record
    BY <1>3 DEF Counted
  <2>8. Counted(read, record)
    BY <1>4, <1>6, <2>1, <2>3, <2>6, <2>7, StateFields DEF Counted, Loading, Serving
  <2>9. ran.pc = "running" /\ ran.done = last /\ ran.log = log /\ ran.records = last
    BY <2>5, <2>6 DEF Process
  <2>10. Counted(ran, record)
    BY <1>6, <2>1, <2>3, <2>9 DEF Counted, Loading, Serving
  <2> HIDE DEF ran
  <2> QED BY <1>7, <2>5, <2>8, <2>10
<1>8. k \in Process /\ Counted(k, record)
  <2> HIDE DEF last, read, ran
  <2>1. broken => k = Down
    OBVIOUS
  <2> HIDE DEF k, broken
  <2> QED BY <1>7, <2>1, DownTyped
<1> HIDE DEF k
<1> QED BY <1>1, <1>2, <1>8, TypedStep

LEMMA TypedOperate ==
    ASSUME TInv, NEW w \in Instance, Operate(w)
    PROVE  TInv'
<1> DEFINE i == inst[w]
<1>1. PICK c \in Change \ made, size \in 1..MaxChunks :
         /\ made' = made \cup {c}
         /\ Goto(w, [i EXCEPT !.pc = "saving", !.log = @ \o [j \in 1..Appends[c] |-> c],
                              !.rest = @ \cup {c}, !.size = size, !.done = i.records])
  BY DEF Operate
<1> DEFINE log == i.log \o [j \in 1..Appends[c] |-> c]
           k == [i EXCEPT !.pc = "saving", !.log = log, !.rest = @ \cup {c},
                          !.size = size, !.done = i.records]
<1>2. /\ i.pc = "running" /\ state' = state /\ record' = record /\ chunk' = chunk
      /\ faults' = faults /\ Goto(w, k)
  <2>1. i.pc = "running" /\ state' = state /\ record' = record /\ chunk' = chunk
        /\ faults' = faults
    BY DEF Operate, Stored
  <2>2. i \in Process
    BY Typed
  <2>3. k = [i EXCEPT !.pc = "saving", !.log = @ \o [j \in 1..Appends[c] |-> c],
                      !.rest = @ \cup {c}, !.size = size, !.done = i.records]
    BY <2>2 DEF Process
  <2> HIDE DEF k
  <2> QED BY <1>1, <2>1, <2>3
<1>3. Data(state, record, chunk) /\ made \subseteq Change /\ faults \in 0..MaxFaults
  BY Typed
<1>4. i \in Process /\ Counted(i, record)
  BY Typed
<1>5. log \in Ledger /\ Len(log) = Len(i.log) + Appends[c] /\ Appends[c] \in Nat
  BY <1>4, ProcessFields, Appended, AppendsAssumption
<1> HIDE DEF log
<1>6. k \in Process
  BY <1>4, <1>5 DEF Process
<1>7. k.pc = "saving" /\ k.log = log /\ k.done = i.records /\ k.records = i.records
  BY <1>4 DEF Process
<1>8. i.records <= Len(i.log) /\ 1..i.records \subseteq DOMAIN record
  BY <1>2, <1>4 DEF Counted, Serving
<1>9. i.records <= Len(log)
  BY <1>4, <1>5, <1>8, ProcessFields
<1>10. Counted(k, record)
  BY <1>7, <1>8, <1>9 DEF Counted, Loading, Serving
<1> HIDE DEF k
<1> QED BY <1>1, <1>2, <1>3, <1>6, <1>10, TypedStep

(* Failing requests leave an instance running, or down if it is new.       *)
LEMMA FailedTyped ==
    ASSUME NEW i \in Process, NEW rec, Counted(i, rec), i.pc = "saving"
    PROVE  Failed(i) \in Process /\ Counted(Failed(i), rec)
<1> DEFINE k == [i EXCEPT !.pc = "running"]
<1>1. k \in Process
  BY DEF Process
<1>2. k.pc = "running" /\ k.done = i.done /\ k.records = i.records /\ k.log = i.log
  BY DEF Process
<1>3. Counted(k, rec)
  BY <1>2 DEF Counted, Loading, Serving
<1> HIDE DEF k
<1>4. Failed(i) = Down \/ Failed(i) = k
  BY DEF Failed, k
<1> QED BY <1>1, <1>3, <1>4, DownTyped

LEMMA WrittenTyped ==
    ASSUME NEW st, NEW ch, Data(st, record, ch), NEW log \in Ledger, NEW js \in SUBSET (1..Len(log))
    PROVE  Data(st, Written(log, js), ch) /\ DOMAIN Written(log, js) = js \cup DOMAIN record
<1> DEFINE rec == Written(log, js)
<1>1. DOMAIN rec = js \cup DOMAIN record
  BY DEF Written
<1>2. Len(log) \in Nat
  BY WholeLedger
<1>3. DOMAIN rec \subseteq Nat \ {0}
  BY <1>1, <1>2 DEF Data
<1>4. ASSUME NEW j \in DOMAIN rec PROVE rec[j] \in Ledger /\ Len(rec[j]) = j
  <2>1. CASE j \in js
    <3>1. rec[j] = SubSeq(log, 1, j)
      BY <1>1, <2>1 DEF Written
    <3>2. j \in 0..Len(log)
      BY <1>2, <2>1
    <3> HIDE DEF rec
    <3> QED BY <3>1, <3>2, PrefixOf
  <2>2. CASE j \notin js
    <3>1. rec[j] = record[j] /\ j \in DOMAIN record
      BY <1>1, <2>2 DEF Written
    <3> HIDE DEF rec
    <3> QED BY <3>1 DEF Data
  <2> QED BY <2>1, <2>2
<1> HIDE DEF rec
<1>5. Data(st, rec, ch)
  BY <1>1, <1>3, <1>4 DEF Data
<1> QED BY <1>1, <1>5 DEF rec

LEMMA LargerDomain ==
    ASSUME NEW i, NEW rec, NEW rec2, DOMAIN rec \subseteq DOMAIN rec2, Counted(i, rec)
    PROVE  Counted(i, rec2)
BY DEF Counted

LEMMA TypedPutRecords ==
    ASSUME TInv, NEW w \in Instance, PutRecords(w)
    PROVE  TInv'
<1> DEFINE i == inst[w]
           last == Least(i.done + PutBatch, Len(i.log))
           batch == i.done + 1..last
<1>1. /\ i.pc = "saving" /\ batch # {} /\ state' = state /\ chunk' = chunk /\ made' = made
      /\ \/ /\ record' = Written(i.log, batch)
            /\ Goto(w, [i EXCEPT !.done = last])
            /\ faults' = faults
         \/ /\ faults < MaxFaults
            /\ faults' = faults + 1
            /\ \E js \in SUBSET batch : record' = Written(i.log, js)
            /\ Goto(w, Failed(i))
  BY DEF PutRecords
<1>2. Data(state, record, chunk) /\ made \subseteq Change /\ faults \in 0..MaxFaults
  BY Typed
<1>3. i \in Process /\ Counted(i, record) /\ i.log \in Ledger /\ Len(i.log) \in Nat /\ i.done \in Nat
  BY Typed, ProcessFields
<1>4. /\ last \in Nat /\ last <= Len(i.log) /\ batch \subseteq 1..Len(i.log)
      /\ 1..last = 1..i.done \cup batch
  <2>1. i.done <= Len(i.log)
    BY <1>1, <1>3 DEF Counted
  <2> QED BY <1>3, <2>1, BoundAssumption DEF Least
<1> HIDE DEF last, batch
<1>5. CASE /\ record' = Written(i.log, batch)
           /\ Goto(w, [i EXCEPT !.done = last])
           /\ faults' = faults
  <2> DEFINE k == [i EXCEPT !.done = last]
  <2>1. Data(state, record', chunk) /\ DOMAIN record' = batch \cup DOMAIN record
    BY <1>2, <1>3, <1>4, <1>5, WrittenTyped
  <2>2. k \in Process /\ k.pc = i.pc /\ k.log = i.log /\ k.records = i.records /\ k.done = last
    BY <1>3, <1>4 DEF Process
  <2>3. 1..last \subseteq DOMAIN record' /\ 1..i.records \subseteq DOMAIN record'
    BY <1>3, <1>4, <2>1 DEF Counted
  <2>4. Counted(k, record')
    BY <1>1, <1>3, <1>4, <2>2, <2>3 DEF Counted, Loading, Serving
  <2> HIDE DEF k
  <2>5. Goto(w, k)
    BY <1>5 DEF k
  <2> QED BY <1>1, <1>2, <1>5, <2>1, <2>2, <2>4, <2>5, TypedStep
<1>6. CASE /\ faults < MaxFaults
           /\ faults' = faults + 1
           /\ \E js \in SUBSET batch : record' = Written(i.log, js)
           /\ Goto(w, Failed(i))
  <2>1. PICK js \in SUBSET batch : record' = Written(i.log, js)
    BY <1>6
  <2>2. Data(state, record', chunk) /\ DOMAIN record \subseteq DOMAIN record'
    BY <1>2, <1>3, <1>4, <2>1, WrittenTyped
  <2>3. Counted(i, record')
    BY <1>3, <2>2, LargerDomain
  <2>4. Failed(i) \in Process /\ Counted(Failed(i), record')
    BY <1>1, <1>3, <2>3, FailedTyped
  <2>5. faults' \in 0..MaxFaults
    BY <1>2, <1>6, BoundAssumption
  <2> QED BY <1>1, <1>2, <1>6, <2>2, <2>4, <2>5, TypedStep
<1> QED BY <1>1, <1>5, <1>6

LEMMA AppliedTyped ==
    ASSUME NEW i \in Process, Counted(i, record), i.pc = "saving", i.done = Len(i.log),
           Data(state, record, chunk), Applied(i)
    PROVE  /\ Data(state', record, chunk')
           /\ state' \in LPState /\ state'.version = i.version + 1
           /\ state'.records = Len(i.log) /\ state'.chunks = i.size
           /\ \A j \in 1..i.size : chunk'[j] = [rest |-> i.rest, size |-> i.size]
           /\ \A j \in 1..MaxChunks : chunk'[j] \in {None, chunk[j], [rest |-> i.rest, size |-> i.size]}
<1>1. /\ i.rest \subseteq Change /\ i.size \in 1..MaxChunks /\ i.version \in Nat
      /\ Len(i.log) \in Nat /\ i.size \in Nat
  BY ProcessFields, BoundAssumption
<1> DEFINE part == [rest |-> i.rest, size |-> i.size]
<1>2. part \in LPStateChunk /\ part.size = i.size
  BY <1>1 DEF LPStateChunk
<1>3. chunk \in [1..MaxChunks -> LPStateChunk \cup {None}]
  BY DEF Data
<1>4. /\ state' = [version |-> i.version + 1, records |-> Len(i.log), chunks |-> i.size]
      /\ chunk' = [j \in 1..MaxChunks |->
                     IF j <= i.size THEN part
                     ELSE IF state # None /\ j <= state.chunks THEN None ELSE chunk[j]]
  BY <1>3 DEF Applied
<1> HIDE DEF part
<1>5. state' \in LPState
  BY <1>1, <1>4 DEF LPState
<1>6. chunk' \in [1..MaxChunks -> LPStateChunk \cup {None}]
  BY <1>2, <1>3, <1>4
<1>7. \A j \in 1..MaxChunks : chunk'[j] \in {None, chunk[j], part}
  BY <1>4
<1>8. \A j \in 1..i.size : j \in 1..MaxChunks /\ j <= i.size
  BY <1>1, BoundAssumption
<1>9. \A j \in 1..i.size : chunk'[j] = part
  BY <1>4, <1>8
<1>10. ASSUME NEW j \in 1..MaxChunks, chunk'[j] # None PROVE chunk'[j].size >= j
  <2>1. CASE j <= i.size
    BY <1>1, <1>2, <1>4, <2>1
  <2>2. CASE ~(j <= i.size)
    <3>1. chunk'[j] = chunk[j]
      BY <1>4, <1>10, <2>2
    <3> QED BY <1>10, <3>1 DEF Data
  <2> QED BY <2>1, <2>2
<1>11. 1..Len(i.log) \subseteq DOMAIN record
  BY DEF Counted
<1>12. Data(state', record, chunk')
  BY <1>4, <1>5, <1>6, <1>10, <1>11 DEF Data
<1> QED BY <1>4, <1>5, <1>7, <1>9, <1>12 DEF part

(* After a successful transaction.                                         *)
Committed(i) == [i EXCEPT !.pc = "running", !.version = @ + 1, !.records = Len(i.log)]

LEMMA CommittedTyped ==
    ASSUME NEW i \in Process, NEW rec, Counted(i, rec), i.pc = "saving", i.done = Len(i.log)
    PROVE  LET k == Committed(i)
           IN  /\ k \in Process /\ Counted(k, rec)
               /\ k.pc = "running" /\ k.version = i.version + 1 /\ k.records = Len(i.log)
               /\ k.log = i.log /\ k.rest = i.rest
<1> DEFINE k == Committed(i)
<1>1. i.version + 1 \in Nat /\ Len(i.log) \in Nat
  BY ProcessFields
<1>2. k \in Process /\ k.pc = "running" /\ k.version = i.version + 1 /\ k.records = Len(i.log)
      /\ k.log = i.log /\ k.done = i.done /\ k.rest = i.rest
  BY <1>1 DEF Process, Committed
<1> HIDE DEF k
<1>3. Counted(k, rec)
  BY <1>1, <1>2 DEF Counted, Loading, Serving
<1> QED BY <1>2, <1>3 DEF k

(* The three outcomes of a Commit: conflict, success, an error that hides  *)
(* whether the transaction has been applied.                               *)
LEMMA CommitCases ==
    ASSUME TInv, NEW w \in Instance, Commit(w)
    PROVE  LET i == inst[w]
           IN  /\ i.pc = "saving" /\ i.done = Len(i.log)
               /\ record' = record /\ made' = made /\ faults' \in 0..MaxFaults
               /\ Applied(i) \/ (state' = state /\ chunk' = chunk)
               /\ \/ Goto(w, Down) /\ state' = state /\ chunk' = chunk
                  \/ UpToDate(i) /\ Applied(i) /\ Goto(w, Committed(i))
                  \/ UpToDate(i) /\ Applied(i) /\ Goto(w, Failed(i))
                  \/ state' = state /\ chunk' = chunk /\ Goto(w, Failed(i))
<1> DEFINE i == inst[w]
<1>1. faults \in 0..MaxFaults
  BY Typed
<1>2. i.pc = "saving" /\ i.done = Len(i.log) /\ record' = record /\ made' = made
  BY DEF Commit
<1>3. CASE /\ ~UpToDate(i)
           /\ Goto(w, Down)
           /\ UNCHANGED <<state, chunk, faults>>
  BY <1>1, <1>2, <1>3
<1>4. CASE /\ UpToDate(i)
           /\ Applied(i)
           /\ Goto(w, [i EXCEPT !.pc = "running", !.version = @ + 1, !.records = Len(i.log)])
           /\ UNCHANGED faults
  BY <1>1, <1>2, <1>4 DEF Committed
<1>5. CASE /\ faults < MaxFaults
           /\ faults' = faults + 1
           /\ Goto(w, Failed(i))
           /\ \/ UpToDate(i) /\ Applied(i)
              \/ UNCHANGED <<state, chunk>>
  <2>1. faults' \in 0..MaxFaults
    BY <1>1, <1>5, BoundAssumption
  <2> QED BY <1>2, <1>5, <2>1
<1> QED BY <1>3, <1>4, <1>5 DEF Commit

LEMMA TypedCommit ==
    ASSUME TInv, NEW w \in Instance, Commit(w)
    PROVE  TInv'
<1> DEFINE i == inst[w]
<1>1. /\ i.pc = "saving" /\ i.done = Len(i.log) /\ record' = record /\ made' = made
      /\ faults' \in 0..MaxFaults
      /\ Applied(i) \/ (state' = state /\ chunk' = chunk)
      /\ Goto(w, Down) \/ Goto(w, Committed(i)) \/ Goto(w, Failed(i))
  BY CommitCases
<1>2. Data(state, record, chunk) /\ made \subseteq Change
  BY Typed
<1>3. i \in Process /\ Counted(i, record)
  BY Typed
<1>4. Data(state', record', chunk')
  BY <1>1, <1>2, <1>3, AppliedTyped
<1>5. Committed(i) \in Process /\ Counted(Committed(i), record)
  BY <1>1, <1>3, CommittedTyped
<1>6. Failed(i) \in Process /\ Counted(Failed(i), record)
  BY <1>1, <1>3, FailedTyped
<1>7. Down \in Process /\ Counted(Down, record)
  BY DownTyped
<1> HIDE DEF i
<1> QED BY <1>1, <1>2, <1>4, <1>5, <1>6, <1>7, TypedStep

LEMMA TypedCrash ==
    ASSUME TInv, NEW w \in Instance, Crash(w)
    PROVE  TInv'
<1>1. /\ Goto(w, Down) /\ state' = state /\ record' = record /\ chunk' = chunk /\ made' = made
      /\ faults < MaxFaults /\ faults' = faults + 1
  BY DEF Crash, Stored
<1>2. Data(state, record, chunk) /\ made \subseteq Change /\ faults \in 0..MaxFaults
  BY Typed
<1>3. faults' \in 0..MaxFaults
  BY <1>1, <1>2, BoundAssumption
<1> QED BY <1>1, <1>2, <1>3, DownTyped, TypedStep

LEMMA TypeInit == Init => TInv
<1> SUFFICES ASSUME Init PROVE TInv
  OBVIOUS
<1>1. Down \in Process /\ Counted(Down, record) /\ Down.pc = "down"
  BY DownTyped
<1>2. inst = [w \in Instance |-> Down] /\ record = <<>> /\ state = None /\ made = {} /\ faults = 0
      /\ chunk = [j \in 1..MaxChunks |-> None]
  BY DEF Init
<1>3. DOMAIN record = {}
  BY <1>2
<1> HIDE DEF Down
<1>4. \A w \in Instance : inst[w] \in Process /\ Counted(inst[w], record) /\ inst[w].pc = "down"
  BY <1>1, <1>2
<1>5. TypeOK
  BY <1>2, <1>3, <1>4, BoundAssumption DEF TypeOK
<1> QED BY <1>4, <1>5 DEF TInv

LEMMA TypeStep == TInv /\ [Next]_vars => TInv'
<1> SUFFICES ASSUME TInv, [Next]_vars PROVE TInv'
  OBVIOUS
<1>1. CASE UNCHANGED vars
  BY <1>1 DEF vars, TInv, TypeOK
<1>2. ASSUME NEW w \in Instance, Load(w) PROVE TInv'
  BY <1>2, TypedLoadState, TypedLoadChunks, TypedLoadRecords, Zenon DEF Load
<1>3. ASSUME NEW w \in Instance, Operate(w) PROVE TInv'
  BY <1>3, TypedOperate
<1>4. ASSUME NEW w \in Instance, Save(w) PROVE TInv'
  BY <1>4, TypedPutRecords, TypedCommit, Zenon DEF Save
<1>5. ASSUME NEW w \in Instance, Crash(w) PROVE TInv'
  BY <1>5, TypedCrash
<1> QED BY <1>1, <1>2, <1>3, <1>4, <1>5, Zenon DEF Next

(* Every entity is stored under the key that its place gives it, and what  *)
(* LPState and each DSStore count has been stored, whatever failed.        *)
THEOREM StoreTypesKept == ObservedSpec => []TypeOK
<1>1. ObservedInit => TInv
  BY TypeInit DEF ObservedInit
<1>2. TInv /\ [Next /\ Observe]_allVars => TInv'
  BY TypeStep DEF allVars
<1>3. TInv => TypeOK
  BY DEF TInv
<1> QED BY <1>1, <1>2, <1>3, PTL DEF ObservedSpec

-----------------------------------------------------------------------------
(***************************************************************************)
(* The stored snapshot.                                                    *)
(***************************************************************************)
LEMMA Up ==
    \A i : UpToDate(i) <=> i.version = Number(state)
BY DEF UpToDate, Number

(* OneSnapshot is what Load checks of the chunks.                          *)
LEMMA HeldIsStored ==
    ASSUME OneSnapshot(state, chunk)
    PROVE  StoredChanges = Held(state, chunk)
BY DEF OneSnapshot, StoredChanges, Held, Whole

LEMMA HeldType ==
    ASSUME NEW st, NEW rec, NEW ch, Data(st, rec, ch), OneSnapshot(st, ch)
    PROVE  Held(st, ch) \subseteq Change
<1>1. ASSUME st # None PROVE ch[1].rest \subseteq Change
  <2>1. st.chunks \in 1..MaxChunks
    BY <1>1, StateFields DEF Data
  <2>2. 1 \in 1..st.chunks /\ 1 \in 1..MaxChunks
    BY <2>1, BoundAssumption
  <2>3. ch[1] # None
    BY <1>1, <2>2 DEF OneSnapshot
  <2>4. ch[1] \in LPStateChunk
    BY <2>2, <2>3 DEF Data
  <2> QED BY <2>4 DEF LPStateChunk
<1> QED BY <1>1 DEF Held

LEMMA DownBehind ==
    \A st, h : Behind(Down, st, h) /\ Down.rest = {}
BY DEF Behind, Down, Loading, Serving

LEMMA FailedBehind ==
    ASSUME NEW i \in Process, NEW st, NEW h, i.pc = "saving",
           i.version <= Number(st) /\ (i.version = Number(st) => h \subseteq i.rest)
    PROVE  Behind(Failed(i), st, h) /\ (Failed(i).rest = {} \/ Failed(i).rest = i.rest)
<1> DEFINE k == [i EXCEPT !.pc = "running"]
<1>1. k.pc = "running" /\ k.version = i.version /\ k.rest = i.rest
  BY DEF Process
<1> HIDE DEF k
<1>2. Failed(i) = Down \/ Failed(i) = k
  BY DEF Failed, k
<1>3. Behind(k, st, h)
  BY <1>1 DEF Behind, Loading, Serving
<1> QED BY <1>1, <1>2, <1>3, DownBehind

LEMMA KeepStep ==
    ASSUME AInv, TInv', state' = state, chunk' = chunk, NEW w \in Instance, NEW i, Goto(w, i),
           Behind(i, state, Held(state, chunk)), i.rest \subseteq made', made \subseteq made'
    PROVE  AInv'
<1>1. inst' = [inst EXCEPT ![w] = i] /\ inst \in [Instance -> Process]
  BY Typed DEF Goto, AInv
<1>2. \A v \in Instance : v # w => inst'[v] = inst[v]
  BY <1>1
<1>3. inst'[w] = i
  BY <1>1
<1>4. \A v \in Instance : Behind(inst'[v], state', Held(state', chunk'))
  BY <1>2, <1>3 DEF AInv
<1>5. Remembered'
  BY <1>2, <1>3 DEF AInv, Remembered
<1> QED BY <1>4, <1>5 DEF AInv

LEMMA View ==
    ASSUME AInv, NEW w \in Instance
    PROVE  /\ inst[w] \in Process /\ Counted(inst[w], record) /\ inst[w].rest \subseteq made
           /\ Behind(inst[w], state, Held(state, chunk))
           /\ Data(state, record, chunk)
BY Typed DEF AInv, Remembered

LEMMA SnapshotLoadState ==
    ASSUME AInv, TInv', NEW w \in Instance, LoadState(w)
    PROVE  AInv'
<1> DEFINE i == IF state = None THEN [Down EXCEPT !.pc = "saving"]
                               ELSE [Down EXCEPT !.pc = "chunks", !.st = state]
<1>1. Goto(w, i) /\ state' = state /\ chunk' = chunk /\ made' = made
  BY DEF LoadState, Stored
<1>2. Data(state, record, chunk)
  BY View
<1>3. CASE state = None
  <2>1. i.pc = "saving" /\ i.version = 0 /\ i.rest = {}
    BY <1>3 DEF Down
  <2>2. Number(state) = 0 /\ Held(state, chunk) = {}
    BY <1>3 DEF Number, Held
  <2> HIDE DEF i
  <2>3. Behind(i, state, Held(state, chunk))
    BY <2>1, <2>2 DEF Behind, Loading, Serving
  <2> QED BY <1>1, <2>1, <2>3, KeepStep
<1>4. CASE state # None
  <2>1. i.pc = "chunks" /\ i.st = state /\ i.rest = {}
    BY <1>4 DEF Down
  <2>2. Number(state) = state.version /\ state.version \in Nat
    BY <1>2, <1>4, StateFields DEF Number, Data
  <2> HIDE DEF i
  <2>3. Behind(i, state, Held(state, chunk))
    BY <2>1, <2>2 DEF Behind, Loading, Serving
  <2> QED BY <1>1, <2>1, <2>3, KeepStep
<1> QED BY <1>3, <1>4

LEMMA SnapshotLoadChunks ==
    ASSUME AInv, TInv', NEW w \in Instance, LoadChunks(w)
    PROVE  AInv'
<1> DEFINE i == inst[w]
           j == [i EXCEPT !.pc = "records", !.rest = chunk[1].rest, !.size = chunk[1].size]
           k == IF Whole(i.st.chunks) THEN j ELSE Down
<1>1. i.pc = "chunks" /\ Goto(w, k) /\ state' = state /\ chunk' = chunk /\ made' = made
  BY DEF LoadChunks, Stored
<1>2. i \in Process /\ Counted(i, record) /\ Behind(i, state, Held(state, chunk))
  BY View
<1>3. ASSUME Whole(i.st.chunks)
      PROVE  Behind(j, state, Held(state, chunk)) /\ j.rest \subseteq made
  <2>1. j.pc = "records" /\ j.rest = chunk[1].rest /\ j.st = i.st
    BY <1>2 DEF Process
  <2>2. i.st \in LPState
    BY <1>1, <1>2, ProcessFields DEF Counted, Loading
  <2>3. 1 \in 1..i.st.chunks /\ 1 \in 1..MaxChunks
    BY <2>2, StateFields, BoundAssumption
  <2>4. chunk[1] # None
    BY <1>3, <2>3 DEF Whole
  <2>5. chunk[1].rest \subseteq made
    BY <2>3, <2>4 DEF AInv, Remembered
  <2>6. i.st.version <= Number(state) /\ (i.st.version = Number(state) => i.st = state)
    BY <1>1, <1>2 DEF Behind, Loading
  <2>7. i.st = state => Held(state, chunk) = chunk[1].rest
    BY <2>2, StateFields DEF Held
  <2> HIDE DEF j
  <2>8. Behind(j, state, Held(state, chunk))
    BY <2>1, <2>6, <2>7 DEF Behind, Loading, Serving
  <2> QED BY <2>1, <2>5, <2>8
<1>4. Behind(k, state, Held(state, chunk)) /\ k.rest \subseteq made
  <2> HIDE DEF j
  <2>1. CASE Whole(i.st.chunks)
    BY <1>3, <2>1
  <2>2. CASE ~Whole(i.st.chunks)
    BY <2>2, DownBehind
  <2> QED BY <2>1, <2>2
<1> HIDE DEF k
<1> QED BY <1>1, <1>4, KeepStep

(* LoadRecords goes on, ends or gives up.                                  *)
LogUpTo(last) == IF last = 0 THEN <<>> ELSE record[last]
Read(i, last) == [i EXCEPT !.log = LogUpTo(last), !.done = last]
Started(i, last) ==
    [Read(i, last) EXCEPT !.pc = "running", !.version = i.st.version, !.records = last]

LEMMA ReadFields ==
    ASSUME NEW i \in Process, NEW last
    PROVE  LET r == Read(i, last)
               s == Started(i, last)
           IN  /\ r.pc = i.pc /\ r.st = i.st /\ r.rest = i.rest
               /\ r.log = LogUpTo(last) /\ r.done = last
               /\ s.pc = "running" /\ s.rest = i.rest /\ s.version = i.st.version
               /\ s.log = LogUpTo(last) /\ s.records = last
BY DEF Read, Started, Process

LEMMA LoadRecordsCases ==
    ASSUME TInv, NEW w \in Instance, LoadRecords(w)
    PROVE  /\ inst[w].pc = "records" /\ inst[w].st \in LPState
           /\ state' = state /\ record' = record /\ chunk' = chunk /\ made' = made
           /\ \/ Goto(w, Down)
              \/ \E last \in 0..inst[w].st.records :
                    \/ Goto(w, Read(inst[w], last))
                    \/ last = inst[w].st.records /\ Goto(w, Started(inst[w], last))
<1> DEFINE i == inst[w]
           last == Least(i.done + GetBatch, i.st.records)
           before(j) == IF j = i.done + 1 THEN i.log ELSE record[j - 1]
           broken == \E j \in i.done + 1..last : ~Linked(before(j), j)
<1>1. /\ i.pc = "records" /\ state' = state /\ record' = record /\ chunk' = chunk /\ made' = made
      /\ Goto(w, IF broken THEN Down
                 ELSE IF last < i.st.records THEN Read(i, last) ELSE Started(i, last))
  BY DEF LoadRecords, Stored, Read, Started, LogUpTo
<1>2. i \in Process /\ Counted(i, record)
  BY Typed
<1>3. i.st \in LPState /\ i.st.records \in Nat /\ i.done \in Nat
  BY <1>1, <1>2, ProcessFields, StateFields DEF Counted, Loading
<1>4. last \in 0..i.st.records /\ (~(last < i.st.records) => last = i.st.records)
  BY <1>3, BoundAssumption DEF Least
<1> HIDE DEF last, broken
<1>5. Goto(w, Down) \/ Goto(w, Read(i, last)) \/ (~(last < i.st.records) /\ Goto(w, Started(i, last)))
  BY <1>1
<1> QED BY <1>1, <1>3, <1>4, <1>5

LEMMA SnapshotLoadRecords ==
    ASSUME AInv, TInv', NEW w \in Instance, LoadRecords(w)
    PROVE  AInv'
<1> DEFINE i == inst[w]
           h == Held(state, chunk)
<1>1. i \in Process /\ i.rest \subseteq made /\ Behind(i, state, h)
  BY View
<1>2. /\ i.pc = "records" /\ state' = state /\ chunk' = chunk /\ made' = made
      /\ \/ Goto(w, Down)
         \/ \E last \in 0..i.st.records :
               Goto(w, Read(i, last)) \/ Goto(w, Started(i, last))
  BY LoadRecordsCases DEF AInv
<1>3. /\ i.st.version <= Number(state)
      /\ i.st.version = Number(state) => i.st = state /\ i.rest = h
  BY <1>1, <1>2 DEF Behind, Loading
<1> HIDE DEF i, h
<1>4. ASSUME NEW last
      PROVE  /\ Behind(Read(i, last), state, h) /\ Read(i, last).rest \subseteq made
             /\ Behind(Started(i, last), state, h) /\ Started(i, last).rest \subseteq made
  <2> DEFINE r == Read(i, last)
             s == Started(i, last)
  <2>1. /\ r.pc = i.pc /\ r.st = i.st /\ r.rest = i.rest
        /\ s.pc = "running" /\ s.rest = i.rest /\ s.version = i.st.version
    BY <1>1, ReadFields
  <2> HIDE DEF r, s
  <2>2. Behind(r, state, h)
    BY <1>2, <1>3, <2>1 DEF Behind, Loading, Serving
  <2>3. Behind(s, state, h)
    BY <1>3, <2>1 DEF Behind, Loading, Serving
  <2>4. r.rest \subseteq made /\ s.rest \subseteq made
    BY <1>1, <2>1
  <2> QED BY <2>2, <2>3, <2>4 DEF r, s
<1> QED BY <1>2, <1>4, KeepStep, DownBehind DEF h

(* An operation adds one new change.                                       *)
Operated(i, c, n) ==
    [i EXCEPT !.pc = "saving", !.log = i.log \o [j \in 1..Appends[c] |-> c],
              !.rest = i.rest \cup {c}, !.size = n, !.done = i.records]

LEMMA OperateCase ==
    ASSUME TInv, NEW w \in Instance, Operate(w)
    PROVE  /\ inst[w].pc = "running" /\ state' = state /\ record' = record /\ chunk' = chunk
           /\ \E c \in Change \ made, n \in 1..MaxChunks :
                 made' = made \cup {c} /\ Goto(w, Operated(inst[w], c, n))
<1> DEFINE i == inst[w]
<1>1. PICK c \in Change \ made, n \in 1..MaxChunks :
         /\ made' = made \cup {c}
         /\ Goto(w, [i EXCEPT !.pc = "saving", !.log = @ \o [j \in 1..Appends[c] |-> c],
                              !.rest = @ \cup {c}, !.size = n, !.done = i.records])
  BY DEF Operate
<1>2. i \in Process
  BY Typed
<1>3. Operated(i, c, n) =
         [i EXCEPT !.pc = "saving", !.log = @ \o [j \in 1..Appends[c] |-> c],
                   !.rest = @ \cup {c}, !.size = n, !.done = i.records]
  BY <1>2 DEF Operated, Process
<1>4. inst[w].pc = "running" /\ state' = state /\ record' = record /\ chunk' = chunk
  BY DEF Operate, Stored
<1> QED BY <1>1, <1>3, <1>4

LEMMA SnapshotOperate ==
    ASSUME AInv, TInv', NEW w \in Instance, Operate(w)
    PROVE  AInv'
<1> DEFINE i == inst[w]
           h == Held(state, chunk)
<1>1. i \in Process /\ i.rest \subseteq made /\ Behind(i, state, h)
  BY View
<1>2. i.pc = "running" /\ state' = state /\ chunk' = chunk
  BY OperateCase DEF AInv
<1>3. PICK c \in Change \ made, n \in 1..MaxChunks :
         made' = made \cup {c} /\ Goto(w, Operated(i, c, n))
  BY OperateCase DEF AInv
<1> DEFINE k == Operated(i, c, n)
<1> HIDE DEF k, h, i
<1>4. k.pc = "saving" /\ k.rest = i.rest \cup {c} /\ k.version = i.version
  BY <1>1 DEF k, Operated, Process
<1>5. i.version <= Number(state) /\ (i.version = Number(state) => h \subseteq i.rest)
  BY <1>1, <1>2 DEF Behind, Serving
<1>6. Behind(k, state, h)
  BY <1>4, <1>5 DEF Behind, Loading, Serving
<1>7. k.rest \subseteq made' /\ made \subseteq made'
  BY <1>1, <1>3, <1>4
<1> QED BY <1>2, <1>3, <1>6, <1>7, KeepStep DEF k, h

LEMMA SnapshotPutRecords ==
    ASSUME AInv, TInv', NEW w \in Instance, PutRecords(w)
    PROVE  AInv'
<1> DEFINE i == inst[w]
           h == Held(state, chunk)
           last == Least(i.done + PutBatch, Len(i.log))
           k == [i EXCEPT !.done = last]
<1>1. i \in Process /\ i.rest \subseteq made /\ Behind(i, state, h)
  BY View
<1>2. i.pc = "saving" /\ state' = state /\ chunk' = chunk /\ made' = made
      /\ (Goto(w, k) \/ Goto(w, Failed(i)))
  BY DEF PutRecords
<1>3. k.pc = "saving" /\ k.rest = i.rest /\ k.version = i.version
  BY <1>1, <1>2 DEF Process
<1> HIDE DEF k, h, i
<1>4. i.version <= Number(state) /\ (i.version = Number(state) => h \subseteq i.rest)
  BY <1>1, <1>2 DEF Behind, Serving
<1>5. Behind(k, state, h) /\ k.rest \subseteq made
  BY <1>1, <1>3, <1>4 DEF Behind, Loading, Serving
<1>6. Behind(Failed(i), state, h) /\ Failed(i).rest \subseteq made
  BY <1>1, <1>2, <1>4, FailedBehind
<1> QED BY <1>2, <1>5, <1>6, KeepStep DEF h

(* The transaction replaces the snapshot and leaves all others behind.     *)
LEMMA ApplyStep ==
    ASSUME AInv, TInv', NEW w \in Instance, NEW i \in Process, inst[w] = i,
           i.pc = "saving", i.done = Len(i.log), Applied(i), UpToDate(i),
           NEW k, Goto(w, k), made' = made,
           k = Committed(i) \/ k = Failed(i)
    PROVE  AInv' /\ Held(state', chunk') = i.rest
<1> DEFINE h == Held(state, chunk)
           part == [rest |-> i.rest, size |-> i.size]
<1>1. Counted(i, record) /\ i.rest \subseteq made /\ Behind(i, state, h) /\ Data(state, record, chunk)
  BY View
<1>2. /\ state' \in LPState /\ state'.version = i.version + 1 /\ state'.chunks = i.size
      /\ \A j \in 1..i.size : chunk'[j] = part
      /\ \A j \in 1..MaxChunks : chunk'[j] \in {None, chunk[j], part}
  BY <1>1, AppliedTyped
<1>3. i.size \in 1..MaxChunks /\ i.version \in Nat /\ i.rest \subseteq Change
  BY ProcessFields
<1>4. 1 \in 1..i.size /\ state' # None /\ i.version = Number(state)
  BY <1>2, <1>3, StateFields, BoundAssumption, Up
<1>5. part.rest = i.rest /\ part.size = i.size /\ part # None
  BY <1>3, NoneAssumption DEF LPStateChunk
<1> HIDE DEF part
<1>6. Held(state', chunk') = i.rest
  BY <1>2, <1>4, <1>5 DEF Held
<1>7. Number(state') = Number(state) + 1 /\ Number(state) \in Nat
  BY <1>2, <1>3, <1>4 DEF Number
<1>8. OneSnapshot(state', chunk')
  BY <1>2, <1>4, <1>5 DEF OneSnapshot
<1>9. inst' = [inst EXCEPT ![w] = k] /\ inst \in [Instance -> Process]
  BY Typed DEF Goto, AInv
<1>10. inst'[w] = k /\ \A v \in Instance : v # w => inst'[v] = inst[v]
  BY <1>9
<1>11. Behind(k, state', i.rest) /\ k.rest \subseteq made
  <2>1. CASE k = Committed(i)
    <3>1. k.pc = "running" /\ k.version = i.version + 1 /\ k.rest = i.rest
      BY <1>1, <2>1, CommittedTyped
    <3>2. Behind(k, state', i.rest)
      BY <1>4, <1>7, <3>1 DEF Behind, Loading, Serving
    <3> QED BY <1>1, <3>1, <3>2
  <2>2. CASE k = Failed(i)
    <3>1. i.version <= Number(state')
      BY <1>4, <1>7
    <3>2. Behind(Failed(i), state', i.rest) /\ Failed(i).rest \subseteq i.rest
      BY <3>1, FailedBehind
    <3> QED BY <1>1, <2>2, <3>2
  <2> QED BY <2>1, <2>2
<1>12. ASSUME NEW v \in Instance, v # w PROVE Behind(inst[v], state', i.rest)
  <2>1. /\ inst[v].pc \in Loading => inst[v].st.version <= Number(state) /\ inst[v].st.version \in Nat
        /\ inst[v].pc \in Serving => inst[v].version <= Number(state) /\ inst[v].version \in Nat
    <3>1. inst[v] \in Process /\ Counted(inst[v], record) /\ Behind(inst[v], state, h)
      BY View
    <3>2. inst[v].pc \in Loading => inst[v].st \in LPState
      BY <3>1, ProcessFields DEF Counted
    <3>3. inst[v].version \in Nat
      BY <3>1, ProcessFields
    <3> HIDE DEF h
    <3> QED BY <3>1, <3>2, <3>3, StateFields DEF Behind
  <2> QED BY <1>7, <2>1 DEF Behind
<1>13. ASSUME NEW v \in Instance
       PROVE  Behind(inst'[v], state', Held(state', chunk')) /\ inst'[v].rest \subseteq made
  <2>1. CASE v = w
    BY <1>6, <1>10, <1>11, <2>1
  <2>2. CASE v # w
    BY <1>6, <1>10, <1>12, <2>2, View
  <2> QED BY <2>1, <2>2
<1>14. ASSUME NEW j \in 1..MaxChunks, chunk'[j] # None PROVE chunk'[j].rest \subseteq made
  BY <1>1, <1>2, <1>5, <1>14 DEF AInv, Remembered
<1>15. Remembered'
  BY <1>13, <1>14 DEF Remembered
<1> QED BY <1>6, <1>8, <1>13, <1>15 DEF AInv

LEMMA SnapshotCommit ==
    ASSUME AInv, TInv', NEW w \in Instance, Commit(w)
    PROVE  AInv'
<1> DEFINE i == inst[w]
           h == Held(state, chunk)
<1>1. i \in Process /\ i.rest \subseteq made /\ Behind(i, state, h)
  BY View
<1>2. /\ i.pc = "saving" /\ i.done = Len(i.log) /\ made' = made
      /\ \/ Goto(w, Down) /\ state' = state /\ chunk' = chunk
         \/ UpToDate(i) /\ Applied(i) /\ Goto(w, Committed(i))
         \/ UpToDate(i) /\ Applied(i) /\ Goto(w, Failed(i))
         \/ state' = state /\ chunk' = chunk /\ Goto(w, Failed(i))
  BY CommitCases DEF AInv
<1> HIDE DEF i
<1>3. CASE Goto(w, Down) /\ state' = state /\ chunk' = chunk
  BY <1>2, <1>3, KeepStep, DownBehind
<1>4. CASE UpToDate(i) /\ Applied(i) /\ (Goto(w, Committed(i)) \/ Goto(w, Failed(i)))
  <2>1. inst[w] = i
    BY DEF i
  <2> QED BY <1>1, <1>2, <1>4, <2>1, ApplyStep
<1>5. CASE state' = state /\ chunk' = chunk /\ Goto(w, Failed(i))
  <2>1. i.version <= Number(state) /\ (i.version = Number(state) => h \subseteq i.rest)
    BY <1>1, <1>2 DEF Behind, Serving
  <2>2. Behind(Failed(i), state, h) /\ Failed(i).rest \subseteq made
    BY <1>1, <1>2, <2>1, FailedBehind
  <2> QED BY <1>2, <1>5, <2>2, KeepStep
<1> QED BY <1>2, <1>3, <1>4, <1>5

LEMMA SnapshotCrash ==
    ASSUME AInv, TInv', NEW w \in Instance, Crash(w)
    PROVE  AInv'
<1>1. Goto(w, Down) /\ state' = state /\ chunk' = chunk /\ made' = made
  BY DEF Crash, Stored
<1> QED BY <1>1, KeepStep, DownBehind

LEMMA SnapshotInit == Init => AInv
<1> SUFFICES ASSUME Init PROVE AInv
  OBVIOUS
<1>1. inst = [w \in Instance |-> Down] /\ state = None /\ chunk = [j \in 1..MaxChunks |-> None]
  BY DEF Init
<1> HIDE DEF Down
<1>2. \A w \in Instance : inst[w] = Down
  BY <1>1
<1>3. OneSnapshot(state, chunk) /\ \A j \in 1..MaxChunks : chunk[j] = None
  BY <1>1 DEF OneSnapshot
<1> QED BY <1>2, <1>3, TypeInit, DownBehind DEF AInv, Remembered

LEMMA SnapshotStep == AInv /\ [Next]_vars => AInv'
<1> SUFFICES ASSUME AInv, [Next]_vars PROVE AInv'
  OBVIOUS
<1>1. TInv'
  BY TypeStep DEF AInv
<1>2. CASE UNCHANGED vars
  BY <1>1, <1>2 DEF vars, AInv, Remembered
<1>3. ASSUME NEW w \in Instance, Load(w) PROVE AInv'
  BY <1>1, <1>3, SnapshotLoadState, SnapshotLoadChunks, SnapshotLoadRecords, Zenon DEF Load
<1>4. ASSUME NEW w \in Instance, Operate(w) PROVE AInv'
  BY <1>1, <1>4, SnapshotOperate
<1>5. ASSUME NEW w \in Instance, Save(w) PROVE AInv'
  BY <1>1, <1>5, SnapshotPutRecords, SnapshotCommit, Zenon DEF Save
<1>6. ASSUME NEW w \in Instance, Crash(w) PROVE AInv'
  BY <1>1, <1>6, SnapshotCrash
<1> QED BY <1>2, <1>3, <1>4, <1>5, <1>6, Zenon DEF Next

-----------------------------------------------------------------------------
(***************************************************************************)
(* The stored ledger, while instances follow one another.                  *)
(***************************************************************************)
LEMMA OneAlive ==
    ASSUME Observe, ~overlap'
    PROVE  Alone' /\ ~overlap
<1>1. ~overlap /\ ~(Cardinality(Alive') > 1)
  BY DEF Observe
<1>2. IsFiniteSet(Alive')
  BY InstanceAssumption, FS_Subset DEF Alive
<1>3. ASSUME NEW v \in Alive', NEW w \in Alive', v # w PROVE FALSE
  <2>1. IsFiniteSet({v}) /\ Cardinality({v}) = 1
    BY FS_Singleton
  <2>2. Cardinality({v} \cup {w}) = 2
    BY <1>3, <2>1, FS_AddElement
  <2>3. {v} \cup {w} \subseteq Alive'
    OBVIOUS
  <2>4. Cardinality({v} \cup {w}) <= Cardinality(Alive')
    BY <1>2, <2>3, FS_Subset
  <2>5. Cardinality(Alive') \in Nat
    BY <1>2, FS_CardinalityType
  <2> QED BY <1>1, <2>2, <2>4, <2>5
<1> QED BY <1>1, <1>3 DEF Alone

(* Whoever acts is the only one.                                           *)
LEMMA Others ==
    ASSUME TInv, Alone, Alone', NEW w \in Instance, NEW i, Goto(w, i),
           inst[w].pc # "down" \/ i.pc # "down"
    PROVE  inst'[w] = i /\ \A v \in Instance : v # w => inst'[v].pc = "down"
<1>1. inst' = [inst EXCEPT ![w] = i] /\ inst \in [Instance -> Process]
  BY Typed DEF Goto
<1>2. inst'[w] = i /\ \A v \in Instance : v # w => inst'[v] = inst[v]
  BY <1>1
<1>3. ASSUME NEW v \in Instance, v # w PROVE inst'[v].pc = "down"
  BY <1>2, <1>3 DEF Alone, Alive
<1> QED BY <1>2, <1>3

LEMMA DownContinues ==
    \A log, i, st, rec, h : i.pc = "down" => Continues(log, i, st, rec, h)
BY DEF Continues, Loading, Serving

LEMMA AgreesStep ==
    ASSUME TInv, Alone, Alone', NEW w \in Instance, NEW i, Goto(w, i),
           inst[w].pc # "down" \/ i.pc # "down",
           NEW log, Chain(log, state', record'),
           Continues(log, i, state', record', Held(state', chunk'))
    PROVE  Agrees(log, state', record', chunk', inst')
<1>1. inst'[w] = i /\ \A v \in Instance : v # w => inst'[v].pc = "down"
  BY Others
<1>2. \A v \in Instance : Continues(log, inst'[v], state', record', Held(state', chunk'))
  BY <1>1, DownContinues
<1> QED BY <1>2 DEF Agrees

LEMMA ContinuesHere ==
    ASSUME NEW log, NEW w \in Instance, Agrees(log, state, record, chunk, inst)
    PROVE  /\ Chain(log, state, record)
           /\ Continues(log, inst[w], state, record, Held(state, chunk))
BY DEF Agrees

(* Nothing is new after all of a ledger.                                   *)
LEMMA NothingNew ==
    ASSUME NEW log \in Ledger
    PROVE  Extends(log, log) /\ NewRecords(log, log, {})
<1>1. Len(log) \in Nat /\ SubSeq(log, 1, Len(log)) = log
  BY WholeLedger
<1>2. (Len(log) + 1)..Len(log) = {}
  BY <1>1
<1> QED BY <1>1, <1>2 DEF Extends, NewRecords

LEMMA ExtendsElements ==
    ASSUME NEW log \in Ledger, NEW more \in Ledger
    PROVE  Extends(more, log) <=> /\ Len(log) <= Len(more)
                                  /\ \A k \in 1..Len(log) : more[k] = log[k]
<1>1. Len(log) \in Nat /\ Len(more) \in Nat
  BY WholeLedger
<1>2. ASSUME Len(log) <= Len(more)
      PROVE  /\ SubSeq(more, 1, Len(log)) \in Ledger /\ Len(SubSeq(more, 1, Len(log))) = Len(log)
             /\ \A k \in 1..Len(log) : SubSeq(more, 1, Len(log))[k] = more[k]
  BY <1>1, <1>2, PrefixOf
<1>3. ASSUME Extends(more, log), NEW k \in 1..Len(log) PROVE more[k] = log[k]
  BY <1>2, <1>3 DEF Extends
<1>4. ASSUME Len(log) <= Len(more), \A k \in 1..Len(log) : more[k] = log[k]
      PROVE  SubSeq(more, 1, Len(log)) = log
  BY <1>2, <1>4, SameSequence
<1> QED BY <1>3, <1>4 DEF Extends

LEMMA CommonPrefix ==
    ASSUME NEW log \in Ledger, NEW more \in Ledger, Extends(more, log), NEW j \in 1..Len(log)
    PROVE  SubSeq(more, 1, j) = SubSeq(log, 1, j) /\ j \in 1..Len(more)
<1>1. Len(log) \in Nat /\ Len(more) \in Nat
  BY WholeLedger
<1>2. Len(log) \in 0..Len(more) /\ j \in 0..Len(log) /\ j \in 1..Len(more)
  BY <1>1 DEF Extends
<1>3. SubSeq(SubSeq(more, 1, Len(log)), 1, j) = SubSeq(more, 1, j)
  BY <1>2, PrefixOfPrefix
<1> QED BY <1>2, <1>3 DEF Extends

LEMMA CardinalityIs == \A S : Store!Cardinality(S) = Cardinality(S)
BY DEF Store!Cardinality, Cardinality

LEMMA LedgerLoadState ==
    ASSUME AInv, Alone, Alone', NEW w \in Instance, LoadState(w), NEW log \in Ledger,
           Agrees(log, state, record, chunk, inst)
    PROVE  Agrees(log, state', record', chunk', inst')
<1> DEFINE i == IF state = None THEN [Down EXCEPT !.pc = "saving"]
                               ELSE [Down EXCEPT !.pc = "chunks", !.st = state]
           h == Held(state, chunk)
<1>1. Goto(w, i) /\ state' = state /\ record' = record /\ chunk' = chunk
  BY DEF LoadState, Stored
<1>2. Chain(log, state, record)
  BY ContinuesHere
<1>3. SubSeq(log, 1, 0) = <<>>
  BY WholeLedger
<1>4. i.pc # "down"
  BY DEF Down
<1>5. Continues(log, i, state, record, h)
  <2>1. CASE state = None
    <3>1. log = <<>>
      BY <1>2, <2>1 DEF Chain
    <3>2. /\ i.pc = "saving" /\ i.version = 0 /\ i.rest = {} /\ i.log = log /\ i.records = 0
          /\ i.done = 0
      BY <2>1, <3>1 DEF Down
    <3>3. Number(state) = 0 /\ h = {} /\ Len(log) = 0
      BY <2>1, <3>1, Empty DEF Number, Held
    <3>4. Extends(log, log) /\ NewRecords(log, log, {})
      BY NothingNew
    <3>5. i.rest \ h = {}
      BY <3>2
    <3> HIDE DEF i, h
    <3> QED BY <3>2, <3>3, <3>4, <3>5 DEF Continues, Loading, Serving
  <2>2. CASE state # None
    <3>1. i.pc = "chunks" /\ i.st = state /\ i.log = <<>> /\ i.done = 0
      BY <2>2 DEF Down
    <3> HIDE DEF i, h
    <3> QED BY <1>3, <3>1 DEF Continues, Loading, Serving
  <2> QED BY <2>1, <2>2
<1> HIDE DEF i
<1> QED BY <1>1, <1>2, <1>4, <1>5, AgreesStep DEF AInv

LEMMA LedgerLoadChunks ==
    ASSUME AInv, Alone, Alone', NEW w \in Instance, LoadChunks(w), NEW log \in Ledger,
           Agrees(log, state, record, chunk, inst)
    PROVE  Agrees(log, state', record', chunk', inst')
<1> DEFINE i == inst[w]
           h == Held(state, chunk)
           j == [i EXCEPT !.pc = "records", !.rest = chunk[1].rest, !.size = chunk[1].size]
           k == IF Whole(i.st.chunks) THEN j ELSE Down
<1>1. i.pc = "chunks" /\ Goto(w, k) /\ state' = state /\ record' = record /\ chunk' = chunk
  BY DEF LoadChunks, Stored
<1>2. i \in Process /\ Counted(i, record) /\ Chain(log, state, record)
      /\ Continues(log, i, state, record, h)
  BY View, ContinuesHere
<1>3. i.st = state /\ i.st # None /\ i.log = SubSeq(log, 1, i.done)
  BY <1>1, <1>2 DEF Continues, Counted, Loading
<1>4. j.pc = "records" /\ j.rest = chunk[1].rest /\ j.st = i.st /\ j.log = i.log /\ j.done = i.done
  BY <1>2 DEF Process
<1>5. h = chunk[1].rest
  BY <1>3 DEF Held
<1> HIDE DEF j, h
<1>6. Continues(log, j, state, record, h)
  BY <1>3, <1>4, <1>5 DEF Continues, Loading, Serving
<1>7. Continues(log, k, state, record, h)
  BY <1>6, DownTyped, DownContinues
<1> HIDE DEF k
<1> QED BY <1>1, <1>2, <1>7, AgreesStep DEF AInv, h

(* The records that have been read are those of the stored ledger.         *)
LEMMA LedgerLoadRecords ==
    ASSUME AInv, Alone, Alone', NEW w \in Instance, LoadRecords(w), NEW log \in Ledger,
           Agrees(log, state, record, chunk, inst)
    PROVE  Agrees(log, state', record', chunk', inst')
<1> DEFINE i == inst[w]
           h == Held(state, chunk)
<1>1. i \in Process /\ Chain(log, state, record) /\ Continues(log, i, state, record, h)
  BY View, ContinuesHere
<1>2. /\ i.pc = "records" /\ i.st \in LPState
      /\ state' = state /\ record' = record /\ chunk' = chunk
      /\ \/ Goto(w, Down)
         \/ \E last \in 0..i.st.records :
               \/ Goto(w, Read(i, last))
               \/ last = i.st.records /\ Goto(w, Started(i, last))
  BY LoadRecordsCases DEF AInv
<1>3. i.st = state /\ i.rest = h /\ state # None
  BY <1>1, <1>2, StateFields DEF Continues, Loading
<1>4. Len(log) = state.records /\ Len(log) \in Nat /\ SubSeq(log, 1, 0) = <<>>
      /\ SubSeq(log, 1, Len(log)) = log
  BY <1>1, <1>3, WholeLedger DEF Chain
<1> HIDE DEF i, h
<1>5. ASSUME NEW last \in 0..Len(log)
      PROVE  LogUpTo(last) = SubSeq(log, 1, last)
  <2>1. last # 0 => last \in 1..Len(log)
    BY <1>4
  <2> QED BY <1>1, <1>4, <2>1 DEF LogUpTo, Chain
<1>6. ASSUME NEW last \in 0..Len(log)
      PROVE  /\ Continues(log, Read(i, last), state, record, h)
             /\ last = Len(log) => Continues(log, Started(i, last), state, record, h)
  <2> DEFINE r == Read(i, last)
             s == Started(i, last)
  <2>1. /\ r.pc = i.pc /\ r.st = i.st /\ r.rest = i.rest
        /\ r.log = LogUpTo(last) /\ r.done = last
        /\ s.pc = "running" /\ s.rest = i.rest /\ s.version = i.st.version
        /\ s.log = LogUpTo(last) /\ s.records = last
    BY <1>1, ReadFields
  <2> HIDE DEF r, s
  <2>2. Continues(log, r, state, record, h)
    BY <1>2, <1>3, <1>5, <2>1 DEF Continues, Loading, Serving
  <2>3. ASSUME last = Len(log) PROVE Continues(log, s, state, record, h)
    <3>1. s.log = log /\ s.records = Len(log) /\ s.pc = "running" /\ s.rest \ h = {}
      BY <1>3, <1>4, <1>5, <2>1, <2>3
    <3>2. Extends(s.log, log) /\ NewRecords(log, s.log, s.rest \ h)
      BY <3>1, NothingNew
    <3>3. s.records <= Len(log)
      BY <1>4, <3>1
    <3> QED BY <3>1, <3>2, <3>3 DEF Continues, Loading, Serving
  <2> QED BY <2>2, <2>3 DEF r, s
<1>7. \/ Goto(w, Down)
      \/ \E last \in 0..Len(log) :
            Goto(w, Read(i, last)) \/ (last = Len(log) /\ Goto(w, Started(i, last)))
  BY <1>2, <1>3, <1>4
<1>8. \E k : Goto(w, k) /\ Continues(log, k, state, record, h)
  <2>1. CASE Goto(w, Down)
    BY <2>1, DownTyped, DownContinues
  <2>2. CASE \E last \in 0..Len(log) :
                Goto(w, Read(i, last)) \/ (last = Len(log) /\ Goto(w, Started(i, last)))
    BY <1>6, <2>2
  <2> QED BY <1>7, <2>1, <2>2
<1> QED BY <1>1, <1>2, <1>8, AgreesStep DEF AInv, h, i

(* An operation appends the records of one new change.                     *)
LEMMA OneMore ==
    ASSUME NEW log \in Ledger, NEW more \in Ledger, NEW cs \in SUBSET Change,
           NEW c \in Change, c \notin cs, Extends(more, log), NewRecords(log, more, cs)
    PROVE  LET new == more \o [j \in 1..Appends[c] |-> c]
           IN  Extends(new, log) /\ NewRecords(log, new, cs \cup {c})
<1> DEFINE new == more \o [j \in 1..Appends[c] |-> c]
           At(s, d) == {j \in (Len(log) + 1)..Len(s) : s[j] = d}
<1>1. /\ new \in Ledger /\ Len(new) = Len(more) + Appends[c]
      /\ \A k \in 1..Len(more) : new[k] = more[k]
      /\ \A k \in (Len(more) + 1)..Len(new) : new[k] = c
  BY Appended
<1>2. Len(log) \in Nat /\ Len(more) \in Nat /\ Appends[c] \in Nat /\ Len(log) <= Len(more)
  BY WholeLedger, AppendsAssumption DEF Extends
<1>3. \A k \in 1..Len(log) : more[k] = log[k]
  BY ExtendsElements
<1> HIDE DEF new
<1>4. Extends(new, log)
  <2>1. Len(log) <= Len(new) /\ \A k \in 1..Len(log) : new[k] = log[k]
    BY <1>1, <1>2, <1>3
  <2> QED BY <1>1, <2>1, ExtendsElements
<1>5. \A j \in (Len(log) + 1)..Len(more) : more[j] \in cs
  BY DEF NewRecords
<1>6. ASSUME NEW j \in (Len(log) + 1)..Len(new)
      PROVE  IF j <= Len(more) THEN new[j] = more[j] /\ new[j] \in cs ELSE new[j] = c
  BY <1>1, <1>2, <1>5
<1>7. ASSUME NEW d \in cs PROVE Cardinality(At(new, d)) = Appends[d]
  <2>1. At(new, d) = At(more, d)
    BY <1>1, <1>2, <1>6
  <2>2. Cardinality(At(more, d)) = Appends[d]
    BY DEF NewRecords
  <2> QED BY <2>1, <2>2
<1>8. Cardinality(At(new, c)) = Appends[c]
  <2>1. At(new, c) = (Len(more) + 1)..Len(new)
    BY <1>1, <1>2, <1>6
  <2>2. Len(more) + 1 \in Int /\ Len(new) \in Int
    BY <1>1, <1>2
  <2>3. Cardinality((Len(more) + 1)..Len(new)) =
           IF Len(more) + 1 > Len(new) THEN 0 ELSE Len(new) - (Len(more) + 1) + 1
    BY <2>2, FS_Interval
  <2>4. Cardinality((Len(more) + 1)..Len(new)) = Appends[c]
    BY <1>1, <1>2, <2>3
  <2> HIDE DEF At
  <2> QED BY <2>1, <2>4
<1>9. \A j \in (Len(log) + 1)..Len(new) : new[j] \in cs \cup {c}
  BY <1>6
<1>10. NewRecords(log, new, cs \cup {c})
  BY <1>7, <1>8, <1>9 DEF NewRecords
<1> QED BY <1>4, <1>10 DEF new

LEMMA MoreExtends ==
    ASSUME NEW log \in Ledger, NEW more \in Ledger, NEW c \in Change, Extends(more, log)
    PROVE  Extends(more \o [j \in 1..Appends[c] |-> c], log)
<1> DEFINE new == more \o [j \in 1..Appends[c] |-> c]
<1>1. /\ new \in Ledger /\ Len(new) = Len(more) + Appends[c]
      /\ \A k \in 1..Len(more) : new[k] = more[k]
  BY Appended
<1>2. Len(log) \in Nat /\ Len(more) \in Nat /\ Appends[c] \in Nat /\ Len(log) <= Len(more)
  BY WholeLedger, AppendsAssumption DEF Extends
<1>3. \A k \in 1..Len(log) : more[k] = log[k]
  BY ExtendsElements
<1> HIDE DEF new
<1>4. Len(log) <= Len(new) /\ \A k \in 1..Len(log) : new[k] = log[k]
  BY <1>1, <1>2, <1>3
<1>5. Extends(new, log)
  BY <1>1, <1>4, ExtendsElements
<1> QED BY <1>5 DEF new

LEMMA LedgerOperate ==
    ASSUME AInv, Alone, Alone', NEW w \in Instance, Operate(w), NEW log \in Ledger,
           Agrees(log, state, record, chunk, inst)
    PROVE  Agrees(log, state', record', chunk', inst')
<1> DEFINE i == inst[w]
           h == Held(state, chunk)
<1>1. /\ i \in Process /\ Chain(log, state, record) /\ Continues(log, i, state, record, h)
      /\ i.rest \subseteq made /\ Behind(i, state, h) /\ i.log \in Ledger /\ i.rest \subseteq Change
  BY View, ContinuesHere, ProcessFields
<1>2. /\ i.pc = "running" /\ state' = state /\ record' = record /\ chunk' = chunk
      /\ \E c \in Change \ made, n \in 1..MaxChunks : Goto(w, Operated(i, c, n))
  BY OperateCase DEF AInv
<1>3. PICK c \in Change \ made, n \in 1..MaxChunks : Goto(w, Operated(i, c, n))
  BY <1>2
<1> DEFINE k == Operated(i, c, n)
           new == i.log \o [j \in 1..Appends[c] |-> c]
<1>4. /\ k.pc = "saving" /\ k.log = new /\ k.rest = i.rest \cup {c} /\ k.done = i.records
      /\ k.version = i.version /\ k.records = i.records
  BY <1>1 DEF k, Operated, Process
<1>5. /\ Extends(i.log, log) /\ i.records <= Len(log)
      /\ i.version = Number(state) =>
            i.records = Len(log) /\ NewRecords(log, i.log, i.rest \ h) /\ h \subseteq i.rest
  <2>1. /\ Extends(i.log, log) /\ i.records <= Len(log)
        /\ i.version = Number(state) => i.records = Len(log) /\ NewRecords(log, i.log, i.rest \ h)
    BY <1>1, <1>2 DEF Continues, Serving
  <2>2. i.version = Number(state) => h \subseteq i.rest
    BY <1>1, <1>2 DEF Behind, Serving
  <2> QED BY <2>1, <2>2
<1>6. Extends(new, log) /\ new \in Ledger /\ c \in Change
  BY <1>1, <1>5, MoreExtends, Appended
<1>7. ASSUME i.version = Number(state) PROVE NewRecords(log, new, k.rest \ h)
  <2> DEFINE cs == i.rest \ h
  <2>1. c \notin i.rest /\ c \notin h
    BY <1>1, <1>3, <1>5, <1>7
  <2>2. cs \subseteq Change /\ c \notin cs /\ NewRecords(log, i.log, cs)
    BY <1>1, <1>5, <1>7, <2>1
  <2> HIDE DEF cs
  <2>3. NewRecords(log, new, cs \cup {c})
    BY <1>1, <1>5, <1>6, <2>2, OneMore
  <2>4. k.rest \ h = cs \cup {c}
    BY <1>4, <2>1 DEF cs
  <2> QED BY <2>3, <2>4
<1>8. ASSUME NEW j \in 1..i.records PROVE record[j] = SubSeq(new, 1, j)
  <2>1. j \in 1..Len(log)
    BY <1>1, <1>5, ProcessFields, WholeLedger
  <2>2. record[j] = SubSeq(log, 1, j)
    BY <1>1, <2>1 DEF Chain
  <2>3. SubSeq(new, 1, j) = SubSeq(log, 1, j)
    BY <1>6, <2>1, CommonPrefix
  <2> QED BY <2>2, <2>3
<1>9. Goto(w, k)
  BY <1>3
<1> HIDE DEF k, h, new
<1>10. Continues(log, k, state, record, h)
  BY <1>4, <1>5, <1>6, <1>7, <1>8 DEF Continues, Loading, Serving
<1> QED BY <1>1, <1>2, <1>9, <1>10, AgreesStep DEF AInv, h

LEMMA FailedContinues ==
    ASSUME NEW log, NEW i \in Process, NEW st, NEW rec, NEW h, i.pc = "saving",
           Continues(log, i, st, rec, h), NEW rec2
    PROVE  Continues(log, Failed(i), st, rec2, h)
<1> DEFINE k == [i EXCEPT !.pc = "running"]
<1>1. /\ k.pc = "running" /\ k.version = i.version /\ k.rest = i.rest /\ k.log = i.log
      /\ k.records = i.records
  BY DEF Process
<1> HIDE DEF k
<1>2. Failed(i) = Down \/ Failed(i) = k
  BY DEF Failed, k
<1>3. Continues(log, k, st, rec2, h)
  BY <1>1 DEF Continues, Loading, Serving
<1> QED BY <1>2, <1>3, DownTyped, DownContinues

(* A request overwrites records only with what they are.                   *)
LEMMA WrittenChain ==
    ASSUME NEW log \in Ledger, NEW st, NEW ch, Data(st, record, ch), Chain(log, st, record),
           NEW more \in Ledger, Extends(more, log), NEW js \in SUBSET (1..Len(more))
    PROVE  Chain(log, st, Written(more, js))
<1> DEFINE rec == Written(more, js)
<1>1. ASSUME NEW j \in 1..Len(log) PROVE rec[j] = SubSeq(log, 1, j)
  <2>1. j \in DOMAIN record
    BY Empty DEF Chain, Data
  <2>2. record[j] = SubSeq(log, 1, j) /\ SubSeq(more, 1, j) = SubSeq(log, 1, j)
    BY CommonPrefix DEF Chain
  <2>3. rec[j] = IF j \in js THEN SubSeq(more, 1, j) ELSE record[j]
    BY <2>1 DEF Written
  <2> QED BY <2>2, <2>3
<1> HIDE DEF rec
<1> QED BY <1>1 DEF Chain, rec

LEMMA LedgerPutRecords ==
    ASSUME AInv, Alone, Alone', NEW w \in Instance, PutRecords(w), NEW log \in Ledger,
           Agrees(log, state, record, chunk, inst)
    PROVE  Agrees(log, state', record', chunk', inst')
<1> DEFINE i == inst[w]
           h == Held(state, chunk)
           last == Least(i.done + PutBatch, Len(i.log))
           batch == i.done + 1..last
           k == [i EXCEPT !.done = last]
<1>1. /\ i \in Process /\ Chain(log, state, record) /\ Continues(log, i, state, record, h)
      /\ Counted(i, record) /\ Data(state, record, chunk)
      /\ i.log \in Ledger /\ Len(i.log) \in Nat /\ i.done \in Nat
  BY View, ContinuesHere, ProcessFields
<1>2. /\ i.pc = "saving" /\ state' = state /\ chunk' = chunk
      /\ \/ record' = Written(i.log, batch) /\ Goto(w, k)
         \/ \E js \in SUBSET batch : record' = Written(i.log, js) /\ Goto(w, Failed(i))
  BY DEF PutRecords
<1>3. batch \subseteq 1..Len(i.log) /\ (1..last) \ batch \subseteq 1..i.done
  <2>1. i.done <= Len(i.log)
    BY <1>1, <1>2 DEF Counted
  <2> QED BY <1>1, <2>1, BoundAssumption DEF Least
<1>4. /\ k.pc = "saving" /\ k.version = i.version /\ k.rest = i.rest /\ k.log = i.log
      /\ k.records = i.records /\ k.done = last
  BY <1>1, <1>2 DEF Process
<1>5. /\ Extends(i.log, log) /\ i.records <= Len(log)
      /\ i.version = Number(state) => i.records = Len(log) /\ NewRecords(log, i.log, i.rest \ h)
      /\ \A j \in 1..i.done : record[j] = SubSeq(i.log, 1, j)
  BY <1>1, <1>2 DEF Continues, Serving
<1> HIDE DEF i, h, k, last, batch
<1>6. ASSUME record' = Written(i.log, batch), NEW j \in 1..last
      PROVE  record'[j] = SubSeq(i.log, 1, j)
  <2>1. CASE j \in batch
    BY <1>6, <2>1 DEF Written
  <2>2. CASE j \notin batch
    <3>1. j \in 1..i.done /\ j \in DOMAIN record
      BY <1>1, <1>3, <2>2 DEF Counted
    <3>2. record'[j] = record[j]
      BY <1>6, <2>2, <3>1 DEF Written
    <3> QED BY <1>5, <3>1, <3>2
  <2> QED BY <2>1, <2>2
<1>7. CASE record' = Written(i.log, batch) /\ Goto(w, k)
  <2>1. Chain(log, state, record')
    BY <1>1, <1>3, <1>5, <1>7, WrittenChain
  <2>2. Continues(log, k, state, record', h)
    BY <1>4, <1>5, <1>6, <1>7 DEF Continues, Loading, Serving
  <2> QED BY <1>2, <1>4, <1>7, <2>1, <2>2, AgreesStep DEF AInv, h
<1>8. CASE \E js \in SUBSET batch : record' = Written(i.log, js) /\ Goto(w, Failed(i))
  <2>1. PICK js \in SUBSET batch : record' = Written(i.log, js) /\ Goto(w, Failed(i))
    BY <1>8
  <2>2. Chain(log, state, record')
    BY <1>1, <1>3, <1>5, <2>1, WrittenChain
  <2>3. Continues(log, Failed(i), state, record', h)
    BY <1>1, <1>2, FailedContinues
  <2>4. inst[w].pc # "down"
    BY <1>2 DEF i
  <2> QED BY <1>2, <2>1, <2>2, <2>3, <2>4, AgreesStep DEF AInv, h
<1> QED BY <1>2, <1>7, <1>8

LEMMA LedgerCrash ==
    ASSUME AInv, Alone, Alone', NEW w \in Instance, Crash(w), NEW log \in Ledger,
           Agrees(log, state, record, chunk, inst)
    PROVE  Agrees(log, state', record', chunk', inst')
<1>1. /\ Goto(w, Down) /\ inst[w].pc # "down"
      /\ state' = state /\ record' = record /\ chunk' = chunk
  BY DEF Crash, Stored
<1>2. Chain(log, state', record') /\ Continues(log, Down, state', record', Held(state', chunk'))
  BY <1>1, ContinuesHere, DownTyped, DownContinues
<1> QED BY <1>1, <1>2, AgreesStep DEF AInv

(* A transaction replaces the ledger by the one that the instance holds.   *)
LEMMA LedgerApply ==
    ASSUME AInv, AInv', Alone, Alone', NEW w \in Instance, NEW i \in Process, inst[w] = i,
           i.pc = "saving", i.done = Len(i.log), UpToDate(i), Applied(i),
           record' = record, Held(state', chunk') = i.rest,
           NEW k, Goto(w, k), k = Committed(i) \/ k = Failed(i),
           NEW log \in Ledger, Agrees(log, state, record, chunk, inst)
    PROVE  /\ Agrees(i.log, state', record', chunk', inst')
           /\ Extends(i.log, log) /\ NewRecords(log, i.log, i.rest \ Held(state, chunk))
<1> DEFINE h == Held(state, chunk)
<1>1. /\ Counted(i, record) /\ Data(state, record, chunk)
      /\ Continues(log, i, state, record, h) /\ Behind(i, state, h)
  BY View, ContinuesHere
<1>2. /\ state' \in LPState /\ state'.version = i.version + 1 /\ state'.records = Len(i.log)
  BY <1>1, AppliedTyped
<1>3. i.log \in Ledger /\ i.version \in Nat /\ Len(i.log) \in Nat /\ state' # None
      /\ Number(state') = i.version + 1
  BY <1>2, ProcessFields, StateFields DEF Number
<1>4. /\ Extends(i.log, log) /\ NewRecords(log, i.log, i.rest \ h)
      /\ i.records <= Len(log) /\ Len(log) <= Len(i.log)
      /\ \A j \in 1..Len(i.log) : record[j] = SubSeq(i.log, 1, j)
  <2>1. i.version = Number(state)
    BY Up
  <2>2. Extends(i.log, log) /\ NewRecords(log, i.log, i.rest \ h) /\ i.records <= Len(log)
    BY <1>1, <2>1 DEF Continues, Serving
  <2>3. \A j \in 1..Len(i.log) : record[j] = SubSeq(i.log, 1, j)
    BY <1>1 DEF Continues
  <2> QED BY <2>2, <2>3 DEF Extends
<1>5. Chain(i.log, state', record')
  BY <1>2, <1>3, <1>4 DEF Chain
<1>6. Extends(i.log, i.log) /\ NewRecords(i.log, i.log, {}) /\ i.rest \ i.rest = {}
  BY <1>3, NothingNew
<1>7. Continues(i.log, k, state', record', i.rest)
  <2>1. CASE k = Committed(i)
    <3>1. /\ k.pc = "running" /\ k.version = i.version + 1 /\ k.records = Len(i.log)
          /\ k.log = i.log /\ k.rest = i.rest
      BY <1>1, <2>1, CommittedTyped
    <3>2. k.rest \ i.rest = {} /\ k.records <= Len(i.log)
      BY <1>3, <3>1
    <3>3. Extends(k.log, i.log) /\ NewRecords(i.log, k.log, k.rest \ i.rest)
      BY <1>6, <3>1, <3>2, Zenon
    <3> QED BY <3>1, <3>2, <3>3 DEF Continues, Loading, Serving
  <2>2. CASE k = Failed(i)
    <3> DEFINE r == [i EXCEPT !.pc = "running"]
    <3>1. r.pc = "running" /\ r.version = i.version /\ r.log = i.log /\ r.records = i.records
      BY DEF Process
    <3>2. r.version # Number(state') /\ r.records <= Len(i.log)
      <4>1. i.records \in Nat /\ Len(log) \in Nat
        BY ProcessFields, WholeLedger
      <4> QED BY <1>3, <1>4, <3>1, <4>1
    <3> HIDE DEF r
    <3>3. Continues(i.log, r, state', record', i.rest)
      BY <1>6, <3>1, <3>2 DEF Continues, Loading, Serving
    <3>4. Failed(i) = Down \/ Failed(i) = r
      BY DEF Failed, r
    <3> QED BY <2>2, <3>3, <3>4, DownTyped, DownContinues
  <2> QED BY <2>1, <2>2
<1>8. Agrees(i.log, state', record', chunk', inst')
  BY <1>3, <1>5, <1>7, AgreesStep DEF AInv
<1> QED BY <1>4, <1>8

-----------------------------------------------------------------------------
(***************************************************************************)
(* A step keeps the stored ledger or extends it.                           *)
(***************************************************************************)
Grows(log, more, h, h2) == Extends(more, log) /\ NewRecords(log, more, h2 \ h)

LEMMA SameGrows ==
    ASSUME NEW log \in Ledger, NEW h
    PROVE  Grows(log, log, h, h)
<1>1. h \ h = {}
  OBVIOUS
<1> QED BY <1>1, NothingNew DEF Grows

LEMMA LedgerCommit ==
    ASSUME AInv, AInv', Alone, Alone', NEW w \in Instance, Commit(w), NEW log \in Ledger,
           Agrees(log, state, record, chunk, inst)
    PROVE  \E more \in Ledger :
              /\ Agrees(more, state', record', chunk', inst')
              /\ Grows(log, more, Held(state, chunk), Held(state', chunk'))
<1> DEFINE i == inst[w]
           h == Held(state, chunk)
<1>1. /\ i \in Process /\ Chain(log, state, record) /\ Continues(log, i, state, record, h)
      /\ i.log \in Ledger
  BY View, ContinuesHere, ProcessFields
<1>2. /\ i.pc = "saving" /\ i.done = Len(i.log) /\ made' = made /\ record' = record
      /\ \/ Goto(w, Down) /\ state' = state /\ chunk' = chunk
         \/ UpToDate(i) /\ Applied(i) /\ Goto(w, Committed(i))
         \/ UpToDate(i) /\ Applied(i) /\ Goto(w, Failed(i))
         \/ state' = state /\ chunk' = chunk /\ Goto(w, Failed(i))
  BY CommitCases DEF AInv
<1>3. inst[w] = i
  OBVIOUS
<1> HIDE DEF i
<1>4. CASE UpToDate(i) /\ Applied(i) /\ (Goto(w, Committed(i)) \/ Goto(w, Failed(i)))
  <2>1. PICK k : Goto(w, k) /\ (k = Committed(i) \/ k = Failed(i))
    BY <1>4
  <2>2. Held(state', chunk') = i.rest
    BY <1>1, <1>2, <1>3, <1>4, <2>1, ApplyStep DEF AInv
  <2>3. /\ Agrees(i.log, state', record', chunk', inst')
        /\ Extends(i.log, log) /\ NewRecords(log, i.log, i.rest \ h)
    BY <1>1, <1>2, <1>3, <1>4, <2>1, <2>2, LedgerApply
  <2> QED BY <1>1, <2>2, <2>3 DEF Grows
<1>5. CASE state' = state /\ chunk' = chunk /\ (Goto(w, Down) \/ Goto(w, Failed(i)))
  <2>1. Continues(log, Down, state, record, h) /\ Continues(log, Failed(i), state, record, h)
    BY <1>1, <1>2, DownTyped, DownContinues, FailedContinues
  <2>2. Agrees(log, state', record', chunk', inst')
    BY <1>1, <1>2, <1>3, <1>5, <2>1, AgreesStep DEF AInv
  <2>3. Grows(log, log, h, Held(state', chunk'))
    BY <1>5, SameGrows
  <2> QED BY <2>2, <2>3
<1> QED BY <1>2, <1>4, <1>5

LEMMA LedgerKept ==
    ASSUME state' = state, chunk' = chunk, NEW log \in Ledger,
           Agrees(log, state', record', chunk', inst')
    PROVE  \E more \in Ledger :
              /\ Agrees(more, state', record', chunk', inst')
              /\ Grows(log, more, Held(state, chunk), Held(state', chunk'))
BY SameGrows

LEMMA LedgerStep ==
    ASSUME AInv, AInv', Alone, Alone', Next, NEW log \in Ledger,
           Agrees(log, state, record, chunk, inst)
    PROVE  \E more \in Ledger :
              /\ Agrees(more, state', record', chunk', inst')
              /\ Grows(log, more, Held(state, chunk), Held(state', chunk'))
<1> DEFINE Goal == \E more \in Ledger :
                      /\ Agrees(more, state', record', chunk', inst')
                      /\ Grows(log, more, Held(state, chunk), Held(state', chunk'))
<1>1. ASSUME NEW w \in Instance, Load(w) PROVE Goal
  <2>1. state' = state /\ chunk' = chunk
    BY <1>1 DEF Load, LoadState, LoadChunks, LoadRecords, Stored
  <2>2. Agrees(log, state', record', chunk', inst')
    BY <1>1, LedgerLoadState, LedgerLoadChunks, LedgerLoadRecords, Zenon DEF Load
  <2> QED BY <2>1, <2>2, LedgerKept
<1>2. ASSUME NEW w \in Instance, Operate(w) PROVE Goal
  <2>1. state' = state /\ chunk' = chunk
    BY <1>2 DEF Operate, Stored
  <2>2. Agrees(log, state', record', chunk', inst')
    BY <1>2, LedgerOperate
  <2> QED BY <2>1, <2>2, LedgerKept
<1>3. ASSUME NEW w \in Instance, PutRecords(w) PROVE Goal
  <2>1. state' = state /\ chunk' = chunk
    BY <1>3 DEF PutRecords
  <2>2. Agrees(log, state', record', chunk', inst')
    BY <1>3, LedgerPutRecords
  <2> QED BY <2>1, <2>2, LedgerKept
<1>4. ASSUME NEW w \in Instance, Commit(w) PROVE Goal
  BY <1>4, LedgerCommit
<1>5. ASSUME NEW w \in Instance, Crash(w) PROVE Goal
  <2>1. state' = state /\ chunk' = chunk
    BY <1>5 DEF Crash, Stored
  <2>2. Agrees(log, state', record', chunk', inst')
    BY <1>5, LedgerCrash
  <2> QED BY <2>1, <2>2, LedgerKept
<1> HIDE DEF Goal
<1>6. Goal
  BY <1>1, <1>2, <1>3, <1>4, <1>5, Zenon DEF Next, Save
<1> QED BY <1>6 DEF Goal

(* A change that is stored stays, however many instances there are.        *)
LEMMA HeldGrows ==
    ASSUME AInv, TInv', Next
    PROVE  Held(state, chunk) \subseteq Held(state', chunk')
<1>1. ASSUME NEW w \in Instance, Commit(w)
      PROVE  Held(state, chunk) \subseteq Held(state', chunk')
  <2> DEFINE i == inst[w]
             h == Held(state, chunk)
  <2>1. i \in Process /\ Behind(i, state, h)
    BY View
  <2>2. /\ i.pc = "saving" /\ i.done = Len(i.log) /\ made' = made
        /\ \/ state' = state /\ chunk' = chunk
           \/ UpToDate(i) /\ Applied(i) /\ (Goto(w, Committed(i)) \/ Goto(w, Failed(i)))
    BY <1>1, CommitCases DEF AInv
  <2>3. inst[w] = i
    OBVIOUS
  <2> HIDE DEF i, h
  <2>4. CASE UpToDate(i) /\ Applied(i) /\ (Goto(w, Committed(i)) \/ Goto(w, Failed(i)))
    <3>1. Held(state', chunk') = i.rest
      BY <2>1, <2>2, <2>3, <2>4, ApplyStep
    <3>2. h \subseteq i.rest
      BY <2>1, <2>2, <2>4, Up DEF Behind, Serving
    <3> QED BY <3>1, <3>2 DEF h
  <2> QED BY <2>2, <2>4
<1>2. ASSUME NEW w \in Instance, Load(w) \/ Operate(w) \/ PutRecords(w) \/ Crash(w)
      PROVE  state' = state /\ chunk' = chunk
  <2>1. CASE Load(w)
    BY <2>1 DEF Load, LoadState, LoadChunks, LoadRecords, Stored
  <2>2. CASE Operate(w)
    BY <2>2 DEF Operate, Stored
  <2>3. CASE PutRecords(w)
    BY <2>3 DEF PutRecords
  <2>4. CASE Crash(w)
    BY <2>4 DEF Crash, Stored
  <2> QED BY <1>2, <2>1, <2>2, <2>3, <2>4
<1> QED BY <1>1, <1>2 DEF Next, Save

(* What a Load finds is the ledger whose prefixes the records are.         *)
LedgerOf(st, rec) ==
    IF st = None THEN <<>>
    ELSE IF ~ \A j \in 1..st.records :
                 j \in DOMAIN rec /\ SubSeq(rec[j], 1, j - 1) = IF j = 1 THEN <<>> ELSE rec[j - 1]
         THEN <<None>>
         ELSE IF st.records = 0 THEN <<>> ELSE rec[st.records]

LEMMA StoredIs == StoredLedger = LedgerOf(state, record)
BY DEF StoredLedger, LedgerOf, Loadable, Linked

LEMMA ChainIsStored ==
    ASSUME NEW log \in Ledger, NEW st, NEW rec, NEW ch, Data(st, rec, ch), Chain(log, st, rec)
    PROVE  LedgerOf(st, rec) = log
<1>1. CASE st = None
  BY <1>1 DEF LedgerOf, Chain
<1>2. CASE st # None
  <2>1. Len(log) = st.records /\ st.records \in Nat /\ SubSeq(log, 1, Len(log)) = log
        /\ SubSeq(log, 1, 0) = <<>>
    BY <1>2, WholeLedger DEF Chain
  <2>2. ASSUME NEW j \in 1..st.records
        PROVE  /\ j \in DOMAIN rec
               /\ SubSeq(rec[j], 1, j - 1) = IF j = 1 THEN <<>> ELSE rec[j - 1]
    <3>1. j \in DOMAIN rec
      BY <1>2 DEF Data
    <3>2. rec[j] = SubSeq(log, 1, j) /\ j \in 0..Len(log) /\ j - 1 \in 0..j
      BY <2>1 DEF Chain
    <3>3. SubSeq(rec[j], 1, j - 1) = SubSeq(log, 1, j - 1)
      BY <3>2, PrefixOfPrefix
    <3>4. j # 1 => j - 1 \in 1..Len(log)
      BY <2>1
    <3>5. j # 1 => rec[j - 1] = SubSeq(log, 1, j - 1)
      BY <3>4 DEF Chain
    <3> QED BY <2>1, <3>1, <3>3, <3>5
  <2>3. st.records # 0 => rec[st.records] = log
    BY <2>1 DEF Chain
  <2>4. st.records = 0 => log = <<>>
    BY <2>1
  <2> QED BY <1>2, <2>2, <2>3, <2>4 DEF LedgerOf
<1> QED BY <1>1, <1>2

LEMMA LedgerInit == ObservedInit => Inv
<1> SUFFICES ASSUME ObservedInit PROVE Inv
  OBVIOUS
<1>1. AInv /\ inst = [w \in Instance |-> Down] /\ state = None
  BY SnapshotInit DEF ObservedInit, Init
<1> HIDE DEF Down
<1>2. \A w \in Instance : inst[w] = Down /\ inst[w].pc = "down"
  BY <1>1, DownTyped
<1>3. Alone
  BY <1>2 DEF Alone, Alive
<1>4. <<>> \in Ledger /\ Chain(<<>>, state, record)
  <2>1. 1..0 = {}
    OBVIOUS
  <2> QED BY <1>1, <2>1, Empty DEF Chain
<1>5. Agrees(<<>>, state, record, chunk, inst)
  BY <1>2, <1>4, DownContinues DEF Agrees
<1> QED BY <1>1, <1>3, <1>4, <1>5 DEF Inv, LInv

LEMMA InvStep == Inv /\ [Next /\ Observe]_allVars => Inv'
<1> SUFFICES ASSUME Inv, [Next /\ Observe]_allVars PROVE Inv'
  OBVIOUS
<1>1. AInv'
  BY SnapshotStep DEF Inv, allVars
<1>2. CASE UNCHANGED allVars
  <2>1. /\ state' = state /\ record' = record /\ chunk' = chunk /\ inst' = inst
        /\ overlap' = overlap
    BY <1>2 DEF allVars, vars
  <2>2. LInv'
    BY <2>1 DEF Inv, LInv, Alone, Alive
  <2> QED BY <1>1, <2>2 DEF Inv
<1>3. CASE Next /\ Observe
  <2>1. ASSUME ~overlap' PROVE Alone' /\ \E more \in Ledger : Agrees(more, state', record', chunk', inst')
    <3>1. Alone' /\ ~overlap
      BY <1>3, <2>1, OneAlive
    <3>2. PICK log \in Ledger : Agrees(log, state, record, chunk, inst)
      BY <3>1 DEF Inv, LInv
    <3>3. Alone
      BY <3>1 DEF Inv, LInv
    <3> QED BY <1>1, <1>3, <3>1, <3>2, <3>3, LedgerStep DEF Inv
  <2>2. LInv'
    BY <2>1 DEF LInv
  <2> QED BY <1>1, <2>2 DEF Inv
<1> QED BY <1>2, <1>3

-----------------------------------------------------------------------------
(***************************************************************************)
(* The instances implement the abstract store.                             *)
(***************************************************************************)
LEMMA GrowsIsExtended ==
    ASSUME NEW log \in Ledger, NEW more \in Ledger, NEW h, NEW h2, Grows(log, more, h, h2)
    PROVE  /\ Store!IsPrefix(log, more)
           /\ \A c \in h2 \ h :
                 Cardinality(Store!RecordsOf(c, more) \ Store!RecordsOf(c, log)) = Appends[c]
           /\ \A j \in DOMAIN more \ DOMAIN log : more[j] \in h2 \ h
<1>1. Len(log) \in Nat /\ Len(more) \in Nat /\ Len(log) <= Len(more)
      /\ DOMAIN log = 1..Len(log) /\ DOMAIN more = 1..Len(more)
  BY WholeLedger DEF Grows, Extends, Ledger
<1>2. \A k \in 1..Len(log) : more[k] = log[k]
  BY ExtendsElements DEF Grows
<1>3. Store!IsPrefix(log, more)
  BY WholeLedger DEF Grows, Extends, Store!IsPrefix
<1>4. \A j \in (Len(log) + 1)..Len(more) : more[j] \in h2 \ h
  BY DEF Grows, NewRecords
<1>5. \A j \in DOMAIN more \ DOMAIN log : j \in (Len(log) + 1)..Len(more)
  BY <1>1
<1>6. ASSUME NEW c \in h2 \ h
      PROVE  Cardinality(Store!RecordsOf(c, more) \ Store!RecordsOf(c, log)) = Appends[c]
  <2>1. Store!RecordsOf(c, more) \ Store!RecordsOf(c, log) =
           {j \in (Len(log) + 1)..Len(more) : more[j] = c}
    BY <1>1, <1>2 DEF Store!RecordsOf
  <2>2. Cardinality({j \in (Len(log) + 1)..Len(more) : more[j] = c}) = Appends[c]
    BY DEF Grows, NewRecords
  <2> QED BY <2>1, <2>2
<1> QED BY <1>3, <1>4, <1>5, <1>6

LEMMA StoreStep ==
    ASSUME Inv, Inv', Next, Observe
    PROVE  Store!Save
<1>1. AInv /\ AInv' /\ TInv'
  BY DEF Inv, AInv
<1> DEFINE h == Held(state, chunk)
           h2 == Held(state', chunk')
<1>2. StoredChanges = h /\ StoredChanges' = h2
  <2>1. StoredChanges' = Held(state', chunk')
    BY <1>1 DEF AInv, OneSnapshot, StoredChanges, Held, Whole
  <2> QED BY <1>1, <2>1, HeldIsStored DEF AInv
<1>3. h \subseteq h2
  BY <1>1, HeldGrows
<1>4. h2 \subseteq Change
  <2>1. Data(state', record', chunk') /\ OneSnapshot(state', chunk')
    BY <1>1 DEF AInv, TInv, TypeOK, Data
  <2> QED BY <2>1, HeldType
<1>5. ASSUME ~overlap' PROVE Store!Extended
  <2>1. Alone' /\ ~overlap
    BY <1>5, OneAlive
  <2>2. Alone
    BY <2>1 DEF Inv, LInv
  <2>3. PICK log \in Ledger : Agrees(log, state, record, chunk, inst)
    BY <2>1 DEF Inv, LInv
  <2>4. PICK more \in Ledger : Agrees(more, state', record', chunk', inst') /\ Grows(log, more, h, h2)
    BY <1>1, <2>1, <2>2, <2>3, LedgerStep
  <2>5. StoredLedger = log
    <3>1. Data(state, record, chunk) /\ Chain(log, state, record)
      BY <1>1, <2>3, Typed DEF AInv, Agrees
    <3> QED BY <3>1, ChainIsStored, StoredIs
  <2>6. StoredLedger' = more
    <3>1. Data(state', record', chunk')
      BY <1>1 DEF AInv, TInv, TypeOK, Data
    <3>2. LedgerOf(state', record') = more
      BY <2>4, <3>1, ChainIsStored DEF Agrees
    <3>3. StoredLedger' = LedgerOf(state', record')
      BY DEF StoredLedger, LedgerOf, Loadable, Linked
    <3> QED BY <3>2, <3>3
  <2> HIDE DEF h, h2
  <2>7. /\ Store!IsPrefix(log, more)
        /\ \A c \in h2 \ h :
              Cardinality(Store!RecordsOf(c, more) \ Store!RecordsOf(c, log)) = Appends[c]
        /\ \A j \in DOMAIN more \ DOMAIN log : more[j] \in h2 \ h
    BY <2>4, GrowsIsExtended
  <2> QED BY <1>2, <2>5, <2>6, <2>7, CardinalityIs DEF Store!Extended
<1> HIDE DEF h, h2
<1> QED BY <1>2, <1>3, <1>4, <1>5 DEF Store!Save

(* However many instances run, and whatever request fails or crashes in    *)
(* the middle of Save (dsstore.go): what is stored is one snapshot and no  *)
(* saved change disappears; and while instances follow one another, what   *)
(* the next Load finds is one whole ledger that extends every one stored   *)
(* before by all records of the changes saved with it.                     *)
THEOREM StoreImplementsLedger == ObservedSpec => StoreIsAtomic
<1>1. ObservedInit => Store!Init
  BY DEF ObservedInit, Init, Store!Init, StoredLedger, StoredChanges
<1>2. Inv /\ Inv' /\ [Next /\ Observe]_allVars => [Store!Save]_<<StoredLedger, StoredChanges>>
  <2> SUFFICES ASSUME Inv, Inv', [Next /\ Observe]_allVars
               PROVE  [Store!Save]_<<StoredLedger, StoredChanges>>
    OBVIOUS
  <2>1. CASE UNCHANGED allVars
    BY <2>1 DEF allVars, vars, StoredLedger, StoredChanges, Loadable, Linked, Whole
  <2>2. CASE Next /\ Observe
    BY <2>2, StoreStep
  <2> QED BY <2>1, <2>2
<1> QED BY <1>1, <1>2, LedgerInit, InvStep, PTL DEF ObservedSpec, StoreIsAtomic, Store!Spec
=============================================================================
