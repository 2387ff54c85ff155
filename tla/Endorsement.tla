---------------------------- MODULE Endorsement ----------------------------
(***************************************************************************)
(* What the signing protocol of nova-wraps promises: a multisignature over *)
(* a rotation message exists only if every member it names has consented   *)
(* to that message.  SigningProtocol implements this specification, and    *)
(* RotationChain takes its signatures from it.                             *)
(***************************************************************************)
CONSTANTS
    Members,   \* the public keys of the people who sign
    Messages   \* the rotation messages they are asked to sign

VARIABLES
    consents,   \* <<member, message>>: the member has answered for the message
    signatures  \* [signers, msg]: a multisignature has been put together

endorsementVars == <<consents, signatures>>

EndorsementInit == consents = {} /\ signatures = {}

\* A member releases its share over msg.
Consent(pk, msg) ==
    /\ consents' = consents \cup {<<pk, msg>>}
    /\ UNCHANGED signatures

\* A nonempty set of members that all consented is turned into a signature.
Endorse(signers, msg) ==
    /\ signers # {}
    /\ \A pk \in signers : <<pk, msg>> \in consents
    /\ signatures' = signatures \cup {[signers |-> signers, msg |-> msg]}
    /\ UNCHANGED consents

EndorsementNext ==
    \E msg \in Messages :
        \/ \E pk \in Members : Consent(pk, msg)
        \/ \E signers \in SUBSET Members : Endorse(signers, msg)

EndorsementSpec == EndorsementInit /\ [][EndorsementNext]_endorsementVars
=============================================================================
