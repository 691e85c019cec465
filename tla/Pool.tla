-------------------------------- MODULE Pool --------------------------------
(***************************************************************************)
(* The pure functions a contact is built from (package conformance): the   *)
(* price of a transfer against two reserves, and the transition table of   *)
(* the transfer state machine.                                             *)
(***************************************************************************)
EXTENDS Integers

(***************************************************************************)
(* Slips a maintainer could make in these functions; the definitions below *)
(* never use them.                                                         *)
(***************************************************************************)
PoolPriceRoundingUp(rSrc, rDst, src) ==     \* a payment rounded up, not down
    IF src <= 0 \/ rSrc <= 0 \/ rDst <= 0
    THEN 0
    ELSE (rDst * src + rSrc + src - 1) \div (rSrc + src)

(***************************************************************************)
(* PoolPrice: floor(rDst * src / (rSrc + src)).  The code returns an error *)
(* for a non-positive amount, an empty reserve or a price of zero (dust);  *)
(* here each of the three is the price 0.  big.Int makes the intermediate  *)
(* values exact, and the result is at most rDst, so it fits its int64.     *)
(***************************************************************************)
PoolPrice(rSrc, rDst, src) ==
    IF src <= 0 \/ rSrc <= 0 \/ rDst <= 0
    THEN 0
    ELSE (rDst * src) \div (rSrc + src)

-----------------------------------------------------------------------------

TransferStates == {"NONE", "PROPOSED", "ACCEPTED", "COMMITTED", "SETTLED",
                   "REJECTED", "ABORTED", "EXPIRED"}

(* The rows of the transition table: state, event, next state.             *)
BeforeCommit ==
    {<<"NONE", "propose", "PROPOSED">>,
     <<"PROPOSED", "accept", "ACCEPTED">>, <<"PROPOSED", "reject", "REJECTED">>,
     <<"PROPOSED", "abort", "ABORTED">>,   <<"PROPOSED", "expire", "EXPIRED">>,
     <<"ACCEPTED", "commit", "COMMITTED">>,
     <<"ACCEPTED", "abort", "ABORTED">>,   <<"ACCEPTED", "expire", "EXPIRED">>}

AfterCommit ==
    {<<"COMMITTED", "receipt", "SETTLED">>,
     <<"COMMITTED", "commit", "COMMITTED">>, <<"SETTLED", "commit", "SETTLED">>}

TransitionsLateEnd ==       \* slip: a committed transfer may be aborted or expire
    BeforeCommit \cup AfterCommit
        \cup {<<"COMMITTED", "abort", "ABORTED">>, <<"COMMITTED", "expire", "EXPIRED">>}
TransitionsRevived ==       \* slip: a late accept revives an aborted transfer
    BeforeCommit \cup AfterCommit \cup {<<"ABORTED", "accept", "ACCEPTED">>}
TransitionsUnknownState ==  \* slip: a row leads to a state nothing else knows
    (BeforeCommit \ {<<"ACCEPTED", "abort", "ABORTED">>}) \cup AfterCommit
        \cup {<<"ACCEPTED", "abort", "CANCELLED">>}

Transitions == BeforeCommit \cup AfterCommit

Can(s, e) == \E row \in Transitions : row[1] = s /\ row[2] = e

(* The next state; only where Can allows the event.                        *)
Transition(s, e) == (CHOOSE row \in Transitions : row[1] = s /\ row[2] = e)[3]
=============================================================================
