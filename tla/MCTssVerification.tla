------------------------- MODULE MCTssVerification -------------------------
(***************************************************************************)
(* Two threads and a cache of two verdicts for three proofs: one that      *)
(* verifies with its message, the same proof with another hinTS key, and   *)
(* one that verifies with a signature that does not; and a call with an    *)
(* empty message.  One fault.                                              *)
(***************************************************************************)
EXTENDS TssVerification

Tss(ledgerId, vk, sig, proof, message) ==
    [op |-> "verifyTSS", ledgerId |-> ledgerId, hintsVerificationKey |-> vk,
     hintsSignature |-> sig, abProof |-> proof, message |-> message]

MCRequests ==
    {Tss(<<0>>, <<0, 1>>, <<0>>, <<1>>, <<1>>),
     Tss(<<0>>, <<1, 0>>, <<1>>, <<1>>, <<1>>),
     Tss(<<1>>, <<1, 0>>, <<0>>, <<0>>, <<1>>),
     Tss(<<0>>, <<0, 1>>, <<0>>, <<1>>, <<>>),
     [op |-> "constructWrapsProof", good |-> TRUE],
     [op |-> "verifyUncompressedProof", good |-> FALSE]}

MCProofsThatVerify ==
    {[abProof |-> <<1>>, ledgerId |-> <<0>>, hintsVerificationKey |-> <<0, 1>>],
     [abProof |-> <<0>>, ledgerId |-> <<1>>, hintsVerificationKey |-> <<1, 0>>]}

MCSignaturesThatVerify ==
    {[hintsSignature |-> <<0>>, message |-> <<1>>, hintsVerificationKey |-> <<0, 1>>],
     [hintsSignature |-> <<1>>, message |-> <<1>>, hintsVerificationKey |-> <<1, 0>>]}

MCPackagings ==
    {[params |-> "good", key |-> "good"],
     [params |-> "missing", key |-> "corrupt"],
     [params |-> "corrupt", key |-> "missing"]}
=============================================================================
