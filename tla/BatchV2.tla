------------------------------ MODULE BatchV2 ------------------------------
(***************************************************************************)
(* The co-funded batch transcript (opencsv-bitcoin::batch_v2): proposals,  *)
(* participant commitments, canonical manifests, replacement epochs and    *)
(* signature shares.  Hashes are collision free, so a body is its own      *)
(* identifier; wire encodings are canonical, so a body is its own bytes.   *)
(* A manifest is determined by its proposal, its member set, its epoch and *)
(* its feerate (the transaction is recomputed from them), so those four    *)
(* are what the model keeps.                                               *)
(***************************************************************************)
EXTENDS Naturals, FiniteSets

VERSION == 3
LEGACY_VERSION == 2
MAX_BATCH_V2_PARTICIPANTS == 64
MIN_OUTPUT_SATS == 546
MARKER_DUST_SATS == 546

(***************************************************************************)
(* Proposals.  A proposal is a record with fields id (its batch id),       *)
(* version, chain, stock (the outpoint of input 0), count, tip, expiry,    *)
(* target and max.                                                         *)
(***************************************************************************)
ProposalValid(p) ==
    /\ p.version \in {LEGACY_VERSION, VERSION}
    /\ p.count \in 1 .. MAX_BATCH_V2_PARTICIPANTS
    /\ p.expiry > p.tip
    /\ p.target # 0 /\ p.max >= p.target

ProposalValidAt(p, chain, height) ==
    /\ ProposalValid(p)
    /\ p.chain = chain
    /\ height < p.expiry

(***************************************************************************)
(* Commitments.  A commitment is a record with fields batch (a batch id),  *)
(* op, payload, outpoint, value, key, change and max_charge.  Outpoints    *)
(* are numbers, compared as their serialised bytes are.                    *)
(***************************************************************************)
CommitmentValid(p, c) ==
    /\ c.batch = p.id
    /\ c.max_charge # 0
    /\ c.outpoint # p.stock

\* reject_duplicates: members differ pairwise in every listed field.
NoDuplicates(members) ==
    \A c, d \in members :
        c # d => /\ c.op # d.op /\ c.outpoint # d.outpoint
                 /\ c.payload # d.payload /\ c.change # d.change

(***************************************************************************)
(* Fees: the pessimistic weight, and its exact split over the participants.*)
(***************************************************************************)
max_signed_weight(n) == 423 * n + 968
MaxVbytes(n) == (max_signed_weight(n) + 3) \div 4
TotalCharge(n, rate) == rate * MaxVbytes(n) + MARKER_DUST_SATS

\* The charge of the participant at a 0-based position of the outpoint order.
ChargeAt(n, rate, position) ==
    LET total == TotalCharge(n, rate)
    IN  total \div n + (IF position < total % n THEN 1 ELSE 0)

Position(members, c) == Cardinality({d \in members : d.outpoint < c.outpoint})

Covers(members, c, rate) ==
    LET charge == ChargeAt(Cardinality(members), rate, Position(members, c))
    IN  /\ charge <= c.max_charge
        /\ c.value >= charge
        /\ c.value - charge >= MIN_OUTPUT_SATS

(***************************************************************************)
(* Manifests.  Buildable is build_at: the conditions under which the       *)
(* canonical transaction exists at all.                                    *)
(***************************************************************************)
Buildable(p, members, rate) ==
    /\ ProposalValid(p)
    /\ Cardinality(members) = p.count
    /\ p.target <= rate /\ rate <= p.max
    /\ \A c \in members : CommitmentValid(p, c)
    /\ NoDuplicates(members)
    /\ \A c \in members : Covers(members, c, rate)

ManifestAt(p, members, epoch, rate) ==
    [batch |-> p.id, members |-> members, epoch |-> epoch, rate |-> rate]

\* from_wire_pool: every selected source body is in the local pool and the
\* named manifest is the canonical reconstruction.
ManifestInPool(p, pool, m) ==
    /\ m.batch = p.id
    /\ m.members \subseteq pool
    /\ Buildable(p, m.members, m.rate)

\* next is the epoch `replacement` derives from prev at next's feerate.
IsReplacement(p, prev, next) ==
    /\ next.rate > prev.rate
    /\ p.version = VERSION
    /\ Buildable(p, prev.members, next.rate)
    /\ next = ManifestAt(p, prev.members, prev.epoch + 1, next.rate)

(***************************************************************************)
(* Signature shares: a record with fields manifest, index (0 is the stock, *)
(* i the i-th participant in outpoint order) and sig, which names one of   *)
(* the signatures that verify under the key of that input, or is "bad" for *)
(* one that does not.                                                      *)
(***************************************************************************)
Indices(m) == 0 .. Cardinality(m.members)

\* Mutant: the signature itself is not verified.
UnverifiedShare(m, s) == s.manifest = m /\ s.index \in Indices(m)

verify_signature_share(m, s) ==
    /\ s.manifest = m
    /\ s.index \in Indices(m)
    /\ s.sig # "bad"

\* Mutant: the stock input is left out of the count.
CompleteWithoutStock(m, shares) ==
    \A i \in Indices(m) \ {0} : \E s \in shares : s.manifest = m /\ s.index = i

\* finalize_shares succeeds: every input has a verified share.
Complete(m, shares) ==
    \A i \in Indices(m) : \E s \in shares : s.manifest = m /\ s.index = i

\* The member whose fee input has the given index.
MemberAt(m, index) == CHOOSE c \in m.members : Position(m.members, c) = index - 1

\* The local operation and input a share commits to.
ShareOperation(m, index) == IF index = 0 THEN m.batch ELSE MemberAt(m, index).op
ShareOutpoint(p, m, index) == IF index = 0 THEN p.stock ELSE MemberAt(m, index).outpoint

(***************************************************************************)
(* Reservation phases of one locally locked Bitcoin input.                 *)
(***************************************************************************)
ReservationPhases == {"committed_unsigned", "signature_released", "confirmed",
                      "invalidated_on_chain", "released_before_signature"}

is_releasable(phase) ==
    phase \in {"confirmed", "invalidated_on_chain", "released_before_signature"}

\* Mutant: the reservation is not advanced.
PhaseKept(ph) == ph

\* An error from the terminal phases, which callers have excluded.
signature_released(ph) ==
    IF ph \in {"committed_unsigned", "signature_released"} THEN "signature_released" ELSE ph
=============================================================================
