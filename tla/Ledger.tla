------------------------------- MODULE Ledger -------------------------------
(***************************************************************************)
(* The books, hints keys and rotation messages of a ledger's life, with    *)
(* the facts about them that both the chain of proofs and its abstract     *)
(* specification use.  Books are named, so that a hash can be the name of  *)
(* a book: of the first one with the same padded content.                  *)
(***************************************************************************)
EXTENDS AddressBook

CONSTANTS
    Books,      \* the address books of the ledger's life
    Contents,   \* [Books -> Seq(AddressBookEntry)]: the entries of each
    HintsKeys   \* the hinTS verification keys

\* The books that verify_address_book accepts.
ValidBooks == {b \in Books : verify_address_book(Contents[b])}

padded == [b \in Books |-> pad_address_book(Contents[b])]

\* compute_addressbook_hash.
HashOf == [b \in Books |->
    CHOOSE c \in Books : hash_address_book(padded[c]) = hash_address_book(padded[b])]

Members == {e.pk : e \in UNION {ToSet(Contents[b]) : b \in Books}} \ {Identity}

\* compute_rotation_message: the next book and hints key, both hashed.
compute_rotation_message(ab, hints_vk) == <<HashOf[ab], hints_vk>>
Messages == {compute_rotation_message(b, h) : b \in ValidBooks, h \in HintsKeys}

\* The joint key of a set of members, and of a bitvector of a book.
JointKey    == [signers \in SUBSET Members |-> aggregate_key(SetToSeq(signers))]
SelectedKey == [b \in Books |-> [bits \in SUBSET Seats |->
                                    aggregate_key(signing_subset(padded[b], bits))]]

\* The bitvectors that may rotate a book, and the keys one of them names.
Rotators == [b \in Books |-> {bits \in SUBSET Seats : SubsetMayRotate(padded[b], bits)}]
Signers(b, bits) == {padded[b][seat].pk : seat \in bits}
Quorums == [b \in Books |-> {Signers(b, bits) : bits \in Rotators[b]}]

\* Keys are independent: no other set of members has the joint key of a
\* bitvector that may rotate.  Each member alone knows its secret key, which
\* the proof of knowledge in the book makes it show.
ASSUME LedgerAssumption ==
    /\ Contents \in [Books -> Seq(AddressBookEntry)]
    /\ \A b \in Books : \A bits \in Rotators[b] : \A signers \in SUBSET Members :
          JointKey[signers] = SelectedKey[b][bits] => signers = Signers(b, bits)
=============================================================================
