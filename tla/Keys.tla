-------------------------------- MODULE Keys --------------------------------
(***************************************************************************)
(* The signing keys of a node (the owner) and what one of its peers (the   *)
(* verifier) takes them to be: keys.go, fetchPeerKeys and ProcessInbound   *)
(* of handlers.go, StartKeyRefresher of pull.go and the keys in the        *)
(* snapshot of persist.go.                                                 *)
(*                                                                         *)
(* A key has a local id, its place in the keyring ("#nk1", "#nk2", ...),   *)
(* and key material, a number; a node that restarts from a snapshot that   *)
(* lacks its newest key gives the same id to other material.  A signature  *)
(* names the id and is good for one material only.                         *)
(*                                                                         *)
(* The channel is the one of module Channel as the push worker uses it:    *)
(* envelopes arrive in order, the worker posts the first one again and     *)
(* again until it is accepted, and an owner that has forgotten envelopes   *)
(* in a restart uses their sequence numbers again.                         *)
(***************************************************************************)
EXTENDS Naturals, Sequences

CONSTANTS
    None,            \* no request, no document
    MaxKeys,         \* keys in the keyring
    MaxMade,         \* envelopes and materials made
    MaxRestarts,     \* how often a node restarts
    MaxFailedSaves   \* how many Save calls fail

ASSUME BoundAssumption == /\ MaxKeys \in Nat \ {0} /\ MaxMade \in Nat \ {0, 1}
                          /\ MaxRestarts \in Nat /\ MaxFailedSaves \in Nat
ASSUME NoneAssumption == None \notin Nat

VARIABLES
    own,       \* the owner: [keys, active, seq, out], `out` being the envelopes
               \*   of its outbox, which are there in the order of their ids
    saved,     \* ... as it is in its last snapshot
    peer,      \* the verifier: [keys, last], the material it knows for each
               \*   local id and the highest sequence number it has accepted
    kept,      \* ... as it is in its last snapshot
    inbox,     \* the request the verifier has released its lock on
    refresh,   \* the identity document that RefreshPeerKeys has fetched
    made,      \* number of envelopes and of keys made so far
    restarts, failed

vars == <<own, saved, peer, kept, inbox, refresh, made, restarts, failed>>

LocalId == 1..MaxKeys
Unknown == 0                      \* no material: the map has no such id
NoKeys == [k \in LocalId |-> Unknown]

-----------------------------------------------------------------------------
(* Save stores the whole state of a node; its failure is not looked at.    *)
Persist(live, stored, s) ==
    /\ live' = s
    /\ \/ stored' = s /\ UNCHANGED failed
       \/ failed < MaxFailedSaves /\ failed' = failed + 1 /\ UNCHANGED stored

(***************************************************************************)
(* The owner.  Its keys are never removed from the keyring, only stamped   *)
(* as revoked.  An envelope is signed with the active key; `new` is the    *)
(* key a key.announce tells of, or None.                                   *)
(***************************************************************************)
Signed(new) ==
    [id |-> made, seq |-> own.seq + 1, key |-> own.active,
     mat |-> own.keys[own.active].mat, new |-> new]

Recorded(s, e) == [s EXCEPT !.seq = e.seq, !.out = @ \cup {e}]

(* Slip: a key that is no longer used for signing is not listed.           *)
DocumentOfActive ==
    [k \in LocalId |-> IF k = own.active THEN own.keys[k].mat ELSE Unknown]

(* The identity document: what a reader of it takes as usable keys.        *)
Document ==
    [k \in LocalId |-> IF k <= Len(own.keys) /\ ~own.keys[k].revoked
                       THEN own.keys[k].mat ELSE Unknown]

(* The announcement is signed by the key that is active until now.         *)
RotateKey ==
    LET new == [id |-> Len(own.keys) + 1, mat |-> made]
    IN  /\ made < MaxMade /\ Len(own.keys) < MaxKeys
        /\ made' = made + 1
        /\ Persist(own, saved,
                   [Recorded(own, Signed(new)) EXCEPT
                       !.keys = Append(@, [mat |-> new.mat, revoked |-> FALSE]),
                       !.active = new.id])
        /\ UNCHANGED <<peer, kept, inbox, refresh, restarts>>

(* Slip: the active key may be revoked too.                                *)
RevocableAny(k) == ~own.keys[k].revoked

Revocable(k) == k # own.active /\ ~own.keys[k].revoked

RevokeKey(k) ==
    /\ Revocable(k)
    /\ Persist(own, saved, [own EXCEPT !.keys[k].revoked = TRUE])
    /\ UNCHANGED <<peer, kept, inbox, refresh, made, restarts>>

(* Any other envelope the owner sends.                                     *)
Send ==
    /\ made < MaxMade
    /\ made' = made + 1
    /\ Persist(own, saved, Recorded(own, Signed(None)))
    /\ UNCHANGED <<peer, kept, inbox, refresh, restarts>>

-----------------------------------------------------------------------------
(***************************************************************************)
(* ProcessInbound of the verifier, for the envelope at the head of the     *)
(* outbox.  When its key is not known, the lock is released, the identity  *)
(* document fetched and its keys registered; only then is it validated.    *)
(***************************************************************************)
Genuine(e) == peer.keys[e.key] = e.mat

Without(s, e) == [s EXCEPT !.out = {f \in @ : f.id # e.id}]

Announced(e) ==
    IF e.new = None THEN peer.keys ELSE [peer.keys EXCEPT ![e.new.id] = e.new.mat]

(* A good envelope is handled and acknowledged; unknown-key, bad-signature *)
(* and stale-seq leave it where it is.                                     *)
Validate(e) ==
    IF Genuine(e) /\ e.seq > peer.last
    THEN /\ Persist(peer, kept, [keys |-> Announced(e), last |-> e.seq])
         /\ own' = Without(own, e) /\ saved' = Without(saved, e)
    ELSE UNCHANGED <<own, saved, peer, kept, failed>>

Arrive ==
    /\ inbox = None
    /\ \E e \in own.out :
          /\ \A f \in own.out : e.id <= f.id
          /\ IF peer.keys[e.key] # Unknown
             THEN Validate(e) /\ UNCHANGED inbox
             ELSE /\ inbox' = [pc |-> "fetching", env |-> e, doc |-> NoKeys]
                  /\ UNCHANGED <<own, saved, peer, kept, failed>>
    /\ UNCHANGED <<refresh, made, restarts>>

FetchPeerKeys ==
    /\ inbox # None /\ inbox.pc = "fetching"
    /\ inbox' = [inbox EXCEPT !.pc = "fetched", !.doc = Document]
    /\ UNCHANGED <<own, saved, peer, kept, refresh, made, restarts, failed>>

FetchFails ==
    /\ inbox # None /\ inbox.pc = "fetching"
    /\ inbox' = None
    /\ UNCHANGED <<own, saved, peer, kept, refresh, made, restarts, failed>>

(* The keys of the document, and what is known of the others.              *)
Registered(doc) == [k \in LocalId |-> IF doc[k] # Unknown THEN doc[k] ELSE peer.keys[k]]

RegisterPeerKeys ==
    /\ inbox # None /\ inbox.pc = "fetched"
    /\ peer' = [peer EXCEPT !.keys = Registered(inbox.doc)]
    /\ inbox' = [inbox EXCEPT !.pc = "registered"]
    /\ UNCHANGED <<own, saved, kept, refresh, made, restarts, failed>>

ValidateFetched ==
    /\ inbox # None /\ inbox.pc = "registered"
    /\ Validate(inbox.env)
    /\ inbox' = None
    /\ UNCHANGED <<refresh, made, restarts>>

-----------------------------------------------------------------------------
(***************************************************************************)
(* RefreshPeerKeys: the document is fetched without the lock and applied   *)
(* later.  What is not usable in it is forgotten.  The state is saved when *)
(* a key was added or removed, not when one was only replaced.             *)
(***************************************************************************)
RefreshFetch ==
    /\ refresh = None
    /\ refresh' = Document
    /\ UNCHANGED <<own, saved, peer, kept, inbox, made, restarts, failed>>

(* Slip: a key that is known is left as it is.                             *)
RefreshedIfNew(doc) ==
    [k \in LocalId |-> IF Unknown \notin {doc[k], peer.keys[k]} THEN peer.keys[k] ELSE doc[k]]

Refreshed(doc) == doc

RefreshPeerKeys ==
    /\ refresh # None
    /\ IF \E k \in LocalId : (peer.keys[k] = Unknown) # (refresh[k] = Unknown)
       THEN Persist(peer, kept, [peer EXCEPT !.keys = Refreshed(refresh)])
       ELSE peer' = [peer EXCEPT !.keys = Refreshed(refresh)] /\ UNCHANGED <<kept, failed>>
    /\ refresh' = None
    /\ UNCHANGED <<own, saved, inbox, made, restarts>>

-----------------------------------------------------------------------------
(* Restore.  A request that is on its way to the verifier stays there.     *)
RestartOwner ==
    /\ restarts < MaxRestarts
    /\ restarts' = restarts + 1
    /\ own' = saved
    /\ UNCHANGED <<saved, peer, kept, inbox, refresh, made, failed>>

RestartVerifier ==
    /\ restarts < MaxRestarts
    /\ restarts' = restarts + 1
    /\ peer' = kept
    /\ inbox' = None /\ refresh' = None
    /\ UNCHANGED <<own, saved, kept, made, failed>>

-----------------------------------------------------------------------------
Init ==
    /\ own = [keys |-> <<[mat |-> 1, revoked |-> FALSE]>>, active |-> 1,
              seq |-> 0, out |-> {}]
    /\ saved = own
    /\ peer = [keys |-> NoKeys, last |-> 0] /\ kept = peer
    /\ inbox = None /\ refresh = None
    /\ made = 2 /\ restarts = 0 /\ failed = 0

Push == Arrive \/ FetchPeerKeys \/ RegisterPeerKeys \/ ValidateFetched
Refresh == RefreshFetch \/ RefreshPeerKeys

Next ==
    \/ RotateKey
    \/ \E k \in 1..Len(own.keys) : RevokeKey(k)
    \/ Send
    \/ Push
    \/ FetchFails
    \/ Refresh
    \/ RestartOwner
    \/ RestartVerifier

Spec == Init /\ [][Next]_vars

(* The push worker and the refresher tick; not every fetch fails.          *)
Fairness == WF_vars(Push) /\ SF_vars(FetchPeerKeys) /\ WF_vars(Refresh)

FairSpec == Spec /\ Fairness
=============================================================================
