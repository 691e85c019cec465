----------------------------- MODULE KeysProofs -----------------------------
(***************************************************************************)
(* Proofs about Keys, for keyrings of any size and any number of           *)
(* envelopes, restarts and failed Saves.                                   *)
(***************************************************************************)
EXTENDS KeysProperties, TLAPS

(* An entry of the keyring.                                                *)
Key == [mat : Material, revoked : BOOLEAN]

(* The owner, or its snapshot, once m - 1 envelopes and keys have been     *)
(* made: it lists the key it signs with, and every number it has given to  *)
(* an envelope is one that was made after the first key.                   *)
Owner(m) ==
    {s \in [keys : Seq(Key), active : Nat, seq : Nat,
            out : SUBSET Envelope] :
        /\ Len(s.keys) <= MaxKeys
        /\ s.active \in 1..Len(s.keys) /\ ~s.keys[s.active].revoked
        /\ s.seq + 2 <= m}

(* The verifier, or its snapshot.                                          *)
Verifier == [keys : KeyMap, last : 0..MaxMade]

Request == [pc : {"fetching", "fetched", "registered"}, env : Envelope, doc : KeyMap]

(* The inductive invariant.                                                *)
KInv ==
    /\ made \in 2..MaxMade
    /\ {own, saved} \subseteq Owner(made)
    /\ {peer, kept} \subseteq Verifier
    /\ refresh \in KeyMap \cup {None}
    /\ inbox \in Request \cup {None}
    /\ restarts \in 0..MaxRestarts /\ failed \in 0..MaxFailedSaves

-----------------------------------------------------------------------------
(* As more is made, an owner stays one.                                    *)
LEMMA OwnerLater ==
    ASSUME NEW m \in Nat, NEW k \in Nat, m <= k, NEW s \in Owner(m)
    PROVE  s \in Owner(k)
BY DEF Owner

LEMMA OwnerIs ==
    ASSUME NEW m, NEW s \in Owner(m)
    PROVE  /\ s = [keys |-> s.keys, active |-> s.active, seq |-> s.seq, out |-> s.out]
           /\ s.keys \in Seq(Key) /\ Len(s.keys) \in Nat /\ Len(s.keys) <= MaxKeys
           /\ s.active \in 1..Len(s.keys) /\ ~s.keys[s.active].revoked
           /\ s.seq \in Nat /\ s.seq + 2 <= m /\ s.out \subseteq Envelope
<1>1. s \in [keys : Seq(Key), active : Nat, seq : Nat, out : SUBSET Envelope]
  BY DEF Owner
<1>2. s = [keys |-> s.keys, active |-> s.active, seq |-> s.seq, out |-> s.out]
  BY <1>1
<1> QED BY <1>1, <1>2 DEF Owner

LEMMA RecordedIs ==
    ASSUME NEW m, NEW s \in Owner(m), NEW e
    PROVE  Recorded(s, e) = [keys |-> s.keys, active |-> s.active, seq |-> e.seq,
                             out |-> s.out \cup {e}]
<1>1. s \in [keys : Seq(Key), active : Nat, seq : Nat, out : SUBSET Envelope]
  BY DEF Owner
<1>2. DOMAIN Recorded(s, e) = {"keys", "active", "seq", "out"}
  BY <1>1 DEF Recorded
<1>3. /\ Recorded(s, e).keys = s.keys /\ Recorded(s, e).active = s.active
      /\ Recorded(s, e).seq = e.seq /\ Recorded(s, e).out = s.out \cup {e}
  BY <1>1 DEF Recorded
<1>4. Recorded(s, e) = [f \in {"keys", "active", "seq", "out"} |-> Recorded(s, e)[f]]
  BY <1>1, <1>2 DEF Recorded
<1> QED BY <1>3, <1>4

(* The envelope the owner signs next, and the owner that has recorded it.  *)
LEMMA SignedIs ==
    ASSUME KInv, made < MaxMade, NEW new \in [id : LocalId, mat : Material] \cup {None}
    PROVE  /\ Signed(new) \in Envelope
           /\ Recorded(own, Signed(new)) =
                [keys |-> own.keys, active |-> own.active, seq |-> own.seq + 1,
                 out |-> own.out \cup {Signed(new)}]
<1>1. /\ own \in Owner(made) /\ own.keys \in Seq(Key)
      /\ own.active \in 1..Len(own.keys) /\ own.seq \in Nat /\ Len(own.keys) <= MaxKeys
      /\ own.seq + 2 <= made /\ made \in 2..MaxMade /\ own.out \in SUBSET Envelope
  BY DEF KInv, Owner
<1>2. own.keys[own.active].mat \in Material
  <2>1. own.keys[own.active] \in Key
    BY <1>1
  <2> QED BY <2>1 DEF Key
<1>3. own.active \in LocalId /\ made \in Material /\ own.seq + 1 \in Material
  BY <1>1, BoundAssumption DEF LocalId, Material
<1>4. Signed(new) \in Envelope /\ Signed(new).seq = own.seq + 1
  BY <1>2, <1>3 DEF Signed, Envelope
<1> QED BY <1>1, <1>4, RecordedIs

(* The identity document maps each local id to material or to nothing.     *)
LEMMA DocumentType ==
    ASSUME KInv
    PROVE  Document \in KeyMap
<1> SUFFICES ASSUME NEW k \in LocalId, k <= Len(own.keys)
             PROVE  own.keys[k].mat \in Material
  BY DEF Document, KeyMap
<1>1. own.keys \in Seq(Key)
  BY DEF KInv, Owner
<1>2. own.keys[k] \in Key
  BY <1>1 DEF LocalId
<1> QED BY <1>2 DEF Key

(* Taking an envelope out of the outbox leaves an owner.                   *)
LEMMA WithoutOwner ==
    ASSUME NEW m, NEW s \in Owner(m), NEW e
    PROVE  Without(s, e) \in Owner(m)
<1>1. s \in [keys : Seq(Key), active : Nat, seq : Nat, out : SUBSET Envelope]
  BY DEF Owner
<1>2. /\ Without(s, e) \in [keys : Seq(Key), active : Nat, seq : Nat, out : SUBSET Envelope]
      /\ Without(s, e).keys = s.keys /\ Without(s, e).active = s.active
      /\ Without(s, e).seq = s.seq
  BY <1>1 DEF Without
<1> QED BY <1>2 DEF Owner

(* Whatever an envelope that was sent is found to be, the types are kept.  *)
LEMMA ValidateKeeps ==
    ASSUME KInv, NEW e \in Envelope, Validate(e)
    PROVE  /\ {own', saved'} \subseteq Owner(made)
           /\ {peer', kept'} \subseteq Verifier
           /\ failed' \in 0..MaxFailedSaves
<1>1. CASE ~(Genuine(e) /\ e.seq > peer.last)
  BY <1>1 DEF Validate, KInv
<1>2. CASE Genuine(e) /\ e.seq > peer.last
  <2>1. /\ Persist(peer, kept, [keys |-> Announced(e), last |-> e.seq])
        /\ own' = Without(own, e) /\ saved' = Without(saved, e)
    BY <1>2 DEF Validate
  <2>2. {own', saved'} \subseteq Owner(made)
    BY <2>1, WithoutOwner DEF KInv
  <2>3. Announced(e) \in KeyMap
    BY DEF Announced, Envelope, KInv, Verifier, KeyMap
  <2>4. e.seq \in 0..MaxMade
    BY DEF Envelope, Material
  <2>5. [keys |-> Announced(e), last |-> e.seq] \in Verifier
    BY <2>3, <2>4 DEF Verifier
  <2>6. {peer', kept'} \subseteq Verifier /\ failed' \in 0..MaxFailedSaves
    BY <2>1, <2>5, BoundAssumption DEF Persist, KInv
  <2> QED BY <2>2, <2>6
<1> QED BY <1>1, <1>2

-----------------------------------------------------------------------------
LEMMA InitKInv == Init => KInv
<1> SUFFICES ASSUME Init PROVE KInv
  OBVIOUS
<1> DEFINE first == [mat |-> 1, revoked |-> FALSE]
<1>1. 1 \in Material /\ first \in Key
  BY BoundAssumption DEF Material, Key
<1>2. <<first>> \in Seq(Key) /\ Len(<<first>>) = 1
      /\ <<first>>[1] = first
  BY <1>1
<1>3. own = [keys |-> <<first>>, active |-> 1, seq |-> 0, out |-> {}] /\ made = 2
  BY DEF Init
<1>4. own \in Owner(made) /\ saved = own
  <2>1. ~first.revoked /\ saved = own /\ made = 2
    BY DEF Init
  <2> HIDE DEF first
  <2>2. /\ own \in [keys : Seq(Key), active : Nat, seq : Nat, out : SUBSET Envelope]
        /\ own.keys = <<first>> /\ own.active = 1 /\ own.seq = 0
    BY <1>2, <1>3
  <2> HIDE DEF Key
  <2>3. Len(own.keys) = 1 /\ own.keys[1] = first
    BY <1>2, <2>2
  <2>4. /\ Len(own.keys) <= MaxKeys /\ own.active \in 1..Len(own.keys)
        /\ ~own.keys[own.active].revoked /\ own.seq + 2 <= made
    BY <2>1, <2>2, <2>3, BoundAssumption
  <2> QED BY <2>1, <2>2, <2>4 DEF Owner
<1>5. peer \in Verifier /\ kept = peer
  BY BoundAssumption DEF Init, Verifier, KeyMap, NoKeys
<1> QED BY <1>4, <1>5, BoundAssumption DEF Init, KInv

(* A snapshot is stored, or one more Save has failed.                      *)
LEMMA OwnerPersists ==
    ASSUME KInv, NEW m \in made..MaxMade, NEW s \in Owner(m), Persist(own, saved, s)
    PROVE  {own', saved'} \subseteq Owner(m) /\ failed' \in 0..MaxFailedSaves
<1>1. saved \in Owner(m)
  BY OwnerLater DEF KInv
<1> QED BY <1>1, BoundAssumption DEF Persist, KInv

LEMMA RotateKeeps == KInv /\ RotateKey => KInv'
<1> SUFFICES ASSUME KInv, RotateKey PROVE KInv'
  OBVIOUS
<1> DEFINE new == [id |-> Len(own.keys) + 1, mat |-> made]
           key == [mat |-> made, revoked |-> FALSE]
           sent == Recorded(own, Signed(new))
           next == [sent EXCEPT !.keys = Append(@, key), !.active = Len(own.keys) + 1]
<1>1. /\ own.keys \in Seq(Key) /\ Len(own.keys) \in Nat
      /\ own.seq \in Nat /\ own.seq + 2 <= made /\ own.out \subseteq Envelope
      /\ made \in 2..MaxMade /\ made < MaxMade /\ Len(own.keys) < MaxKeys /\ made' = made + 1
  BY DEF KInv, Owner, RotateKey
<1>2. made \in Material /\ Len(own.keys) + 1 \in LocalId
  BY <1>1, BoundAssumption DEF Material, LocalId
<1>3. /\ sent \in [keys : Seq(Key), active : Nat, seq : Nat, out : SUBSET Envelope]
      /\ sent.keys = own.keys /\ sent.seq = own.seq + 1
  <2>1. /\ Signed(new) \in Envelope
        /\ sent = [keys |-> own.keys, active |-> own.active, seq |-> own.seq + 1,
                   out |-> own.out \cup {Signed(new)}]
    BY <1>1, <1>2, SignedIs
  <2>2. own.active \in Nat
    BY DEF KInv, Owner
  <2> HIDE DEF sent
  <2> QED BY <1>1, <2>1, <2>2
<1>4. Persist(own, saved, next)
  BY DEF RotateKey
<1>5. next \in Owner(made + 1)
  <2>1. key \in Key /\ ~key.revoked
    BY <1>2 DEF Key
  <2> HIDE DEF sent, key
  <2>2. /\ Append(own.keys, key) \in Seq(Key)
        /\ Len(Append(own.keys, key)) = Len(own.keys) + 1
        /\ Append(own.keys, key)[Len(own.keys) + 1] = key
    BY <1>1, <2>1
  <2>3. /\ next \in [keys : Seq(Key), active : Nat, seq : Nat, out : SUBSET Envelope]
        /\ next.keys = Append(own.keys, key)
        /\ next.active = Len(own.keys) + 1 /\ next.seq = own.seq + 1
    <3> DEFINE ring == Append(own.keys, key)
               last == Len(own.keys) + 1
    <3>1. next = [sent EXCEPT !.keys = ring, !.active = last]
      BY <1>3
    <3>2. ring \in Seq(Key) /\ last \in Nat
      BY <1>1, <2>2
    <3> HIDE DEF next, ring, last
    <3>3. /\ next \in [keys : Seq(Key), active : Nat, seq : Nat, out : SUBSET Envelope]
          /\ next.keys = ring /\ next.active = last /\ next.seq = own.seq + 1
      BY <1>3, <3>1, <3>2
    <3> QED BY <3>3 DEF ring, last
  <2> HIDE DEF next
  <2>4. next.keys[next.active] = key /\ Len(next.keys) <= MaxKeys
        /\ next.active \in 1..Len(next.keys) /\ next.seq + 2 <= made + 1
    BY <1>1, <2>2, <2>3, BoundAssumption
  <2> QED BY <2>1, <2>3, <2>4 DEF Owner
<1>6. made + 1 \in made..MaxMade
  BY <1>1, BoundAssumption
<1> HIDE DEF next
<1>7. {own', saved'} \subseteq Owner(made') /\ failed' \in 0..MaxFailedSaves
  BY <1>1, <1>4, <1>5, <1>6, OwnerPersists
<1> QED BY <1>1, <1>7, BoundAssumption DEF KInv, RotateKey

LEMMA RevokeKeeps ==
    ASSUME KInv, NEW k \in 1..Len(own.keys), RevokeKey(k)
    PROVE  KInv'
<1> DEFINE next == [own EXCEPT !.keys[k].revoked = TRUE]
<1>1. /\ own \in [keys : Seq(Key), active : Nat, seq : Nat,
                  out : SUBSET Envelope]
      /\ own.active \in 1..Len(own.keys) /\ ~own.keys[own.active].revoked
      /\ Len(own.keys) <= MaxKeys /\ own.seq + 2 <= made /\ made \in 2..MaxMade
  BY DEF KInv, Owner
<1>2. k # own.active /\ Persist(own, saved, next)
  BY DEF RevokeKey, Revocable
<1> DEFINE keys == [own.keys EXCEPT ![k].revoked = TRUE]
<1>3. next = [own EXCEPT !.keys = keys]
  OBVIOUS
<1>4. keys \in Seq(Key) /\ Len(keys) = Len(own.keys)
      /\ keys[own.active] = own.keys[own.active]
  <2>1. own.keys[k] \in Key
    BY <1>1
  <2>2. [own.keys[k] EXCEPT !.revoked = TRUE] \in Key
    BY <2>1 DEF Key
  <2> DEFINE late == [own.keys[k] EXCEPT !.revoked = TRUE]
  <2>3. keys = [own.keys EXCEPT ![k] = late]
    OBVIOUS
  <2> HIDE DEF late, keys
  <2> QED BY <1>1, <1>2, <2>2, <2>3 DEF late
<1>5. next \in Owner(made)
  <2> HIDE DEF keys, next
  <2>1. /\ next \in [keys : Seq(Key), active : Nat, seq : Nat, out : SUBSET Envelope]
        /\ next.keys = keys /\ next.active = own.active /\ next.seq = own.seq
    BY <1>1, <1>3, <1>4
  <2> QED BY <1>1, <1>4, <2>1 DEF Owner
<1> HIDE DEF next
<1>6. made \in made..MaxMade
  BY <1>1, BoundAssumption
<1>7. {own', saved'} \subseteq Owner(made) /\ failed' \in 0..MaxFailedSaves
  BY <1>2, <1>5, <1>6, OwnerPersists
<1> QED BY <1>7 DEF KInv, RevokeKey

LEMMA SendKeeps == KInv /\ Send => KInv'
<1> SUFFICES ASSUME KInv, Send PROVE KInv'
  OBVIOUS
<1> DEFINE next == [keys |-> own.keys, active |-> own.active, seq |-> own.seq + 1,
                    out |-> own.out \cup {Signed(None)}]
<1>1. /\ own \in Owner(made) /\ own.out \subseteq Envelope
      /\ made \in 2..MaxMade /\ made < MaxMade /\ made' = made + 1
  BY DEF KInv, Send, Owner
<1>2. Signed(None) \in Envelope /\ Recorded(own, Signed(None)) = next
  BY <1>1, SignedIs
<1>3. next \in Owner(made + 1)
  BY <1>1, <1>2 DEF Owner
<1>4. made + 1 \in made..MaxMade
  BY <1>1, BoundAssumption
<1>5. Persist(own, saved, next)
  BY <1>2 DEF Send
<1> HIDE DEF next
<1>6. {own', saved'} \subseteq Owner(made') /\ failed' \in 0..MaxFailedSaves
  BY <1>1, <1>3, <1>4, <1>5, OwnerPersists
<1> QED BY <1>1, <1>6, BoundAssumption DEF KInv, Send

LEMMA PushKeeps == KInv /\ (Push \/ FetchFails) => KInv'
<1> SUFFICES ASSUME KInv, Push \/ FetchFails PROVE KInv'
  OBVIOUS
<1>1. CASE Arrive
  <2>1. PICK e \in own.out :
              IF peer.keys[e.key] # Unknown
              THEN Validate(e) /\ UNCHANGED inbox
              ELSE /\ inbox' = [pc |-> "fetching", env |-> e, doc |-> NoKeys]
                   /\ UNCHANGED <<own, saved, peer, kept, failed>>
    BY <1>1 DEF Arrive
  <2>2. e \in Envelope
    BY <2>1 DEF KInv, Owner
  <2>3. CASE peer.keys[e.key] # Unknown
    BY <1>1, <2>1, <2>2, <2>3, ValidateKeeps DEF Arrive, KInv
  <2>4. CASE peer.keys[e.key] = Unknown
    <3>1. NoKeys \in KeyMap
      BY DEF NoKeys, KeyMap
    <3>2. inbox' \in Request
      BY <2>1, <2>2, <2>4, <3>1 DEF Request
    <3> QED BY <1>1, <2>1, <2>4, <3>2 DEF Arrive, KInv
  <2> QED BY <2>3, <2>4
<1>2. CASE FetchPeerKeys
  <2>1. inbox' \in Request
    BY <1>2, DocumentType DEF FetchPeerKeys, KInv, Request
  <2> QED BY <1>2, <2>1 DEF FetchPeerKeys, KInv
<1>3. CASE RegisterPeerKeys
  <2>1. inbox \in Request
    BY <1>3 DEF RegisterPeerKeys, KInv
  <2>2. Registered(inbox.doc) \in KeyMap
    BY <2>1 DEF Registered, Request, KeyMap, KInv, Verifier
  <2>3. peer' \in Verifier
    BY <1>3, <2>2 DEF RegisterPeerKeys, KInv, Verifier
  <2>4. inbox' \in Request
    BY <1>3, <2>1 DEF RegisterPeerKeys, Request
  <2> QED BY <1>3, <2>3, <2>4 DEF RegisterPeerKeys, KInv
<1>4. CASE ValidateFetched
  <2>1. PICK e \in Envelope : e = inbox.env
    BY <1>4 DEF ValidateFetched, KInv, Request
  <2>2. Validate(e)
    BY <1>4, <2>1 DEF ValidateFetched, Validate, Genuine, Announced, Without
  <2>3. /\ {own', saved'} \subseteq Owner(made) /\ {peer', kept'} \subseteq Verifier
        /\ failed' \in 0..MaxFailedSaves
    BY <2>1, <2>2, ValidateKeeps
  <2> QED BY <1>4, <2>3 DEF ValidateFetched, KInv
<1>5. CASE FetchFails
  BY <1>5 DEF FetchFails, KInv
<1> QED BY <1>1, <1>2, <1>3, <1>4, <1>5 DEF Push

LEMMA RefreshKeeps == KInv /\ Refresh => KInv'
<1> SUFFICES ASSUME KInv, Refresh PROVE KInv'
  OBVIOUS
<1>1. CASE RefreshFetch
  BY <1>1, DocumentType DEF RefreshFetch, KInv
<1>2. CASE RefreshPeerKeys
  <2> DEFINE next == [peer EXCEPT !.keys = Refreshed(refresh)]
  <2>1. next \in Verifier
    BY <1>2 DEF RefreshPeerKeys, Refreshed, KInv, Verifier
  <2>2. {peer', kept'} \subseteq Verifier /\ failed' \in 0..MaxFailedSaves
    <3>1. peer' = next /\ (kept' = next \/ kept' = kept)
          /\ (failed' = failed \/ (failed < MaxFailedSaves /\ failed' = failed + 1))
      BY <1>2 DEF RefreshPeerKeys, Persist
    <3> QED BY <2>1, <3>1, BoundAssumption DEF KInv
  <2> QED BY <1>2, <2>2 DEF RefreshPeerKeys, KInv
<1> QED BY <1>1, <1>2 DEF Refresh

LEMMA RestartKeeps == KInv /\ (RestartOwner \/ RestartVerifier) => KInv'
BY BoundAssumption DEF RestartOwner, RestartVerifier, KInv

LEMMA NextKeeps == KInv /\ [Next]_vars => KInv'
<1>1. KInv /\ UNCHANGED vars => KInv'
  BY DEF vars, KInv
<1> QED BY <1>1, RotateKeeps, RevokeKeeps, SendKeeps, PushKeeps, RefreshKeeps, RestartKeeps
        DEF Next

(* A node never signs with a key that it does not list as usable, in       *)
(* memory or in the snapshot it restarts from (RotateKey and RevokeKey of  *)
(* keys.go), and what was numbered or received so far keeps its type.      *)
THEOREM KeysTypesKept == Spec => []TypeOK
<1>1. KInv => TypeOK
  <2> SUFFICES ASSUME KInv PROVE TypeOK
    OBVIOUS
  <2>1. ASSUME NEW s \in {own, saved}
        PROVE  /\ s.keys \in Seq(Key) /\ Len(s.keys) <= MaxKeys
               /\ s.active \in 1..Len(s.keys) /\ ~s.keys[s.active].revoked
               /\ s.out \subseteq Envelope
    BY <2>1, OwnerIs DEF KInv
  <2>2. made \in 0..MaxMade /\ {peer, kept} \subseteq [keys : KeyMap, last : 0..MaxMade]
    BY BoundAssumption DEF KInv, Verifier
  <2> QED BY <2>1, <2>2 DEF KInv, TypeOK, Request, Key
<1> QED BY <1>1, InitKInv, NextKeeps, PTL DEF Spec
=============================================================================
