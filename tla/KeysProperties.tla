--------------------------- MODULE KeysProperties ---------------------------
(***************************************************************************)
(* What rotation and revocation of keys must do, as properties of the      *)
(* specification in Keys.                                                  *)
(***************************************************************************)
EXTENDS Keys

Material == 1..MaxMade
KeyMap == [LocalId -> Material \cup {Unknown}]
Envelope == [id : Material, seq : Material, key : LocalId, mat : Material,
             new : [id : LocalId, mat : Material] \cup {None}]

(* The type invariant.  It includes that the key a node signs with is one  *)
(* it lists as usable, in memory and in its snapshot.                      *)
TypeOK ==
    /\ \A s \in {own, saved} :
          /\ s.keys \in Seq([mat : Material, revoked : BOOLEAN]) /\ Len(s.keys) <= MaxKeys
          /\ s.active \in 1..Len(s.keys) /\ ~s.keys[s.active].revoked
          /\ s.out \subseteq Envelope
    /\ {peer, kept} \subseteq [keys : KeyMap, last : 0..MaxMade]
    /\ refresh \in KeyMap \cup {None}
    /\ inbox = None \/ inbox \in [pc : {"fetching", "fetched", "registered"},
                                  env : Envelope, doc : KeyMap]
    /\ made \in 0..MaxMade /\ restarts \in 0..MaxRestarts /\ failed \in 0..MaxFailedSaves

(* The material that a reader of the owner's keyring may trust for k.      *)
Usable(k) ==
    IF k <= Len(own.keys) /\ ~own.keys[k].revoked THEN own.keys[k].mat ELSE Unknown

-----------------------------------------------------------------------------
(* However rotations, revocations, announcements and documents overtake    *)
(* each other, and whatever a restart forgets, in the end the verifier     *)
(* knows exactly the usable keys of the owner: a stolen and revoked key is *)
(* not "accepted on its inbox indefinitely" (pull.go:67).                  *)
TrustConverges == <>[](\A k \in LocalId : peer.keys[k] = Usable(k))

(* "The old key stays valid until explicitly revoked, so in-flight         *)
(* messages signed by it still verify" (keys.go:37): every envelope is     *)
(* accepted in the end, unless one stands in its way that is signed with a *)
(* key its owner has revoked or forgotten, or whose number was used before.*)
Waiting(i) == \E e \in own.out : e.id = i
Obstructed(i) ==
    \E e \in own.out : e.id <= i /\ (Usable(e.key) # e.mat \/ e.seq <= peer.last)

ValidIsAccepted == \A i \in 1..MaxMade : Waiting(i) ~> ~Waiting(i) \/ Obstructed(i)
=============================================================================
