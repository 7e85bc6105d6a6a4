----------------------------- MODULE CoinProof -----------------------------
(***************************************************************************)
(* What the coin proofs prove.                                             *)
(*                                                                         *)
(* A proof is ideal: it is the statement its circuit computes, and it      *)
(* exists exactly when the native checks and the circuit's constraints are *)
(* met.  A coin is named by its commitment, and the randomness of a        *)
(* commitment is fresh, so a coin is the pair of the proof that creates it *)
(* and the output it is of that proof.  Every proof has the current        *)
(* version: the acceptance of a consignment refuses any other root.        *)
(***************************************************************************)
EXTENDS ValueGadget, Sequences, FiniteSets, FiniteSetsExt, SequencesExt

CONSTANT Assets         \* assets that may be issued

CoinsOf(proofs, p) == {<<p, k>> : k \in DOMAIN proofs[p].outs}
AllCoins(proofs) == UNION {CoinsOf(proofs, p) : p \in DOMAIN proofs}

Opening(proofs, c) == proofs[c[1]].outs[c[2]]
AssetOf(proofs, c) == proofs[c[1]].asset

OutValues(outs) == [k \in DOMAIN outs |-> outs[k].value]
InValues(proofs, ins) == [i \in DOMAIN ins |-> Opening(proofs, ins[i]).value]
Total(values) == SumFunction(values)

\* Every amount has limbs of the right width.
InRange(values) == \A i \in DOMAIN values : RangeCheck(U64ToFelts(values[i]))

\* A side with a single amount is padded with zero.
SumEq(left, right) ==
    LET Side(values) == <<U64ToFelts(values[1]),
                          U64ToFelts(IF Len(values) = 2 THEN values[2] ELSE 0)>>
    IN EnforceSumEq(Side(left), Side(right))

\* The two input commitments differ in some limb.
DistinctDigest(ins) == ins[1] # ins[2]

\* The predecessor is verified inside the circuit: it is a proof of the same
\* asset, and the output it is asked for is the coin that is consumed.
ChainPredecessor(proofs, asset, c) ==
    /\ c[1] \in DOMAIN proofs
    /\ proofs[c[1]].asset = asset
    /\ c[2] \in DOMAIN proofs[c[1]].outs

\* The prover knows the secret behind the owner of the coin it consumes.
Owned(proofs, c, keys) == Opening(proofs, c).owner \in keys

MintCircuit(asset, outs, value, issued) ==
    /\ asset \in issued
    /\ InRange(<<value>>) /\ InRange(OutValues(outs))
    /\ SumEq(OutValues(outs), <<value>>)

NodeCircuit(proofs, asset, ins, outs, keys) ==
    /\ \A i \in 1..2 : ChainPredecessor(proofs, asset, ins[i]) /\ Owned(proofs, ins[i], keys)
    /\ InRange(InValues(proofs, ins))
    /\ DistinctDigest(ins)
    /\ InRange(OutValues(outs))
    /\ SumEq(InValues(proofs, ins), OutValues(outs))

OneInputCircuit(proofs, asset, in, outs, keys) ==
    /\ ChainPredecessor(proofs, asset, in) /\ Owned(proofs, in, keys)
    /\ InRange(InValues(proofs, <<in>>)) /\ InRange(OutValues(outs))
    /\ SumEq(InValues(proofs, <<in>>), OutValues(outs))

RedeemCircuit(proofs, asset, in, keys) ==
    /\ ChainPredecessor(proofs, asset, in) /\ Owned(proofs, in, keys)
    /\ InRange(InValues(proofs, <<in>>))

----------------------------------------------------------------------------
(* The provers: the native checks, the circuit, and the statement.  V is   *)
(* public for a mint and a redeem only.                                    *)

Statement(mode, asset, value, ins, outs) ==
    [mode |-> mode, asset |-> asset, value |-> value, ins |-> ins, outs |-> outs]

NoProof == Statement("none", "none", 0, << >>, << >>)

ProveGenesisMint(asset, outs, issued) ==
    LET value == Total(OutValues(outs))
    IN IF value <= MaxValue /\ MintCircuit(asset, outs, value, issued)
       THEN Statement("mint", asset, value, << >>, outs) ELSE NoProof

ProveCoinTransfer(proofs, asset, ins, outs, keys) ==
    IF /\ \A i \in 1..2 : AssetOf(proofs, ins[i]) = asset
       /\ ins[1] # ins[2]
       /\ NodeCircuit(proofs, asset, ins, outs, keys)
    THEN Statement("transfer", asset, 0, ins, outs) ELSE NoProof

ProveOneInputTransfer(proofs, asset, in, outs, keys) ==
    IF AssetOf(proofs, in) = asset /\ OneInputCircuit(proofs, asset, in, outs, keys)
    THEN Statement("transfer", asset, 0, <<in>>, outs) ELSE NoProof

ProveRedeemProof(proofs, asset, in, keys) ==
    IF AssetOf(proofs, in) = asset /\ RedeemCircuit(proofs, asset, in, keys)
    THEN Statement("redeem", asset, Opening(proofs, in).value, <<in>>, << >>) ELSE NoProof
=============================================================================
