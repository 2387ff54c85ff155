--------------------------- MODULE AttestedChain ---------------------------
(***************************************************************************)
(* What a WRAPS proof promises: its statement was reached from a genesis   *)
(* book by rotations, each of which a quorum of the book in force had      *)
(* consented to.  RotationChain implements this specification.             *)
(***************************************************************************)
EXTENDS Naturals

CONSTANTS
    Members,    \* the people who sign
    Books,      \* the address books of the ledger's life
    HashOf,     \* [Books -> hashes]
    HintsKeys,  \* the hinTS verification keys
    Quorums     \* [Books -> sets of members who carry a strict majority]

VARIABLES
    consents,   \* <<member, message>>: the member has signed the message
    attested    \* [z0, zi, num_steps]: the statements with a proof

chainVars == <<consents, attested>>

\* A rotation message names the next book and the next hints key.
Message(b, h) == <<HashOf[b], h>>
AllMessages   == {Message(b, h) : b \in Books, h \in HintsKeys}

\* A quorum of the book has consented to msg.
Authorised(b, msg) == \E Q \in Quorums[b] : \A pk \in Q : <<pk, msg>> \in consents

ChainInit == consents = {} /\ attested = {}

Consent ==
    /\ \E pk \in Members, msg \in AllMessages : consents' = consents \cup {<<pk, msg>>}
    /\ UNCHANGED attested

\* A book attests itself.
Found ==
    /\ \E b \in Books, h \in HintsKeys :
        /\ Authorised(b, Message(b, h))
        /\ attested' = attested
              \cup {[z0 |-> Message(b, h), zi |-> Message(b, h), num_steps |-> 1]}
    /\ UNCHANGED consents

\* The book in force hands over to the next one.
Rotate ==
    /\ \E a \in attested, b \in Books, msg \in AllMessages :
        /\ HashOf[b] = a.zi[1]
        /\ Authorised(b, msg)
        /\ attested' = attested
              \cup {[z0 |-> a.z0, zi |-> msg, num_steps |-> a.num_steps + 1]}
    /\ UNCHANGED consents

ChainNext == Consent \/ Found \/ Rotate

ChainSpec == ChainInit /\ [][ChainNext]_chainVars
=============================================================================
