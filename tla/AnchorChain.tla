---------------------------- MODULE AnchorChain ----------------------------
(***************************************************************************)
(* The anchor log as a receiver reads it, and the receiver's decision.     *)
(*                                                                         *)
(* A view of the chain is the confirmed blocks, each a sequence of anchor  *)
(* transactions, and at most one transaction injected from a mempool under *)
(* the sentinel location.  Hashes are ideal: binding a raw nullifier to a  *)
(* context is the pair of the two, and a batch commitment is the envelope  *)
(* with its context.  A recursive proof is the statement it proves.        *)
(***************************************************************************)
EXTENDS Integers, Sequences, FiniteSets

CONSTANTS
    Txs,            \* the anchor transactions that may exist
    Anchor,         \* Anchor[t]: what transaction t carries
    Consignments,   \* the consignments that may be received
    Consignment     \* Consignment[c]: its anchor, nullifiers and outputs

\* Every transaction has a funding outpoint (its context), a record and the
\* witness envelope a batch record commits to; canonical says whether its
\* inputs and outputs have the layout of an anchor.
ASSUME AnchorAssumption ==
    \A t \in Txs : /\ DOMAIN Anchor[t] = {"ctx", "kind", "slots", "envelope", "commit", "canonical"}
                   /\ Anchor[t].kind \in {"mint", "xfer", "redeem", "batch"}
                   /\ Anchor[t].canonical \in BOOLEAN

\* A consignment names its anchor transaction and the location its sender
\* knew, carries raw nullifiers (a sequence: the sender may repeat one), the
\* outputs it opens, and a proof of the statement in its last two fields.
ASSUME ConsignmentAssumption ==
    \A c \in Consignments :
        /\ DOMAIN Consignment[c] = {"txid", "loc", "nullifiers", "coin", "owned", "asset",
                                    "provenNullifiers", "provenCoin"}
        /\ Consignment[c].txid \in Txs

Sentinel == <<0, 0>>        \* MEMPOOL_LOCATION
NoLocation == <<-1, -1>>    \* Option::None

Before(a, b) == a[1] < b[1] \/ (a[1] = b[1] /\ a[2] < b[2])

----------------------------------------------------------------------------
(* Records and their bindings. *)

Binding(nf, ctx) == <<nf, ctx>>

\* The commitment a batch header makes to its whole envelope.
BatchCommit(envelope, ctx) == <<envelope, ctx>>

\* A batch transaction shows a member's payload only when its envelope is the
\* one its header commits to.
EnvelopeOccurrence(a, nf) ==
    /\ a.commit = BatchCommit(a.envelope, a.ctx)
    /\ Binding(nf, a.ctx) \in a.envelope

\* Does transaction t publish raw nullifier nf?  A record copied under another
\* funding outpoint does not: its payloads are bound to the first context.
EntryMatches(t, nf) ==
    LET a == Anchor[t]
    IN IF a.kind = "batch" THEN EnvelopeOccurrence(a, nf)
       ELSE a.kind # "mint" /\ Binding(nf, a.ctx) \in a.slots

\* The record a consignment's proof is checked against: its member of a batch
\* projected to the single transfer it was proved as, or the record itself.
ProofRecordExists(t, nfs) ==
    Anchor[t].kind = "batch" => Len(nfs) = 1 /\ EntryMatches(t, nfs[1])

ProofSlots(t, nfs) ==
    IF Anchor[t].kind = "batch" THEN {Binding(nfs[1], Anchor[t].ctx)} ELSE Anchor[t].slots

Distinct(nfs) == \A i, j \in 1..Len(nfs) : nfs[i] = nfs[j] => i = j

Nullifiers(c) == {Consignment[c].nullifiers[i] : i \in 1..Len(Consignment[c].nullifiers)}

\* The record binds exactly the consignment's nullifiers: every one has a
\* slot, and no slot is left over.
BindsNullifiers(t, c) ==
    /\ Distinct(Consignment[c].nullifiers)
    /\ ProofSlots(t, Consignment[c].nullifiers) =
         {Binding(nf, Anchor[t].ctx) : nf \in Nullifiers(c)}
    /\ Nullifiers(c) = {} <=> Anchor[t].kind = "mint"

----------------------------------------------------------------------------
(* Views of the chain. *)

View(blocks, mempool) == [blocks |-> blocks, sentinel |-> mempool, hidden |-> {}]

\* The view of a backend that leaves transactions out.
Hiding(blocks, txs) == [View(blocks, {}) EXCEPT !.hidden = txs]

TxAt(view, l) == view.blocks[l[1]][l[2]]

\* The canonical (height, position) of every confirmed entry of the view.
Confirmed(view) ==
    {l \in UNION {{h} \X DOMAIN view.blocks[h] : h \in DOMAIN view.blocks} :
        TxAt(view, l) \notin view.hidden}

\* A reference with the sentinel location resolves by transaction alone, any
\* other by transaction and location.
Find(view, c) ==
    LET ref == Consignment[c]
    IN {l \in Confirmed(view) : TxAt(view, l) = ref.txid /\ ref.loc \in {l, Sentinel}}
         \union {Sentinel : t \in view.sentinel \intersect {ref.txid}}

Locate(view, c) == CHOOSE l \in Find(view, c) : TRUE

NullifierOccurrences(view, nf) == {l \in Confirmed(view) : EntryMatches(TxAt(view, l), nf)}

Earliest(locs) == CHOOSE l \in locs : \A k \in locs : k = l \/ Before(l, k)

\* A confirmed occurrence always wins; only when there is none is the injected
\* mempool transaction the first.
FirstOccurrence(view, nf) ==
    LET locs == NullifierOccurrences(view, nf)
    IN IF locs # {} THEN Earliest(locs)
       ELSE IF \E t \in view.sentinel : EntryMatches(t, nf) THEN Sentinel ELSE NoLocation

\* Mutant: the tip already counts as two.
ConfirmationsOneMore(view, loc) == IF loc = Sentinel THEN 0 ELSE Len(view.blocks) - loc[1] + 2
ConfirmationsAt(view, loc) == IF loc = Sentinel THEN 0 ELSE Len(view.blocks) - loc[1] + 1

----------------------------------------------------------------------------
(* The receiver's decision. *)

\* The proof is of this consignment's outputs and of the nullifiers that the
\* anchor's record binds under the anchor's own context.
ProofValid(t, c) ==
    /\ Consignment[c].provenCoin = Consignment[c].coin
    /\ ProofSlots(t, Consignment[c].nullifiers) =
         {Binding(nf, Anchor[t].ctx) : nf \in Consignment[c].provenNullifiers}

\* The anchor-dependent checks, in the order the driver makes them: present,
\* no repeated nullifier, proof, depth, binding, first occurrence; `first` is where
\* each nullifier occurs first.
AnchorAccepted(view, c, required, first) ==
    /\ Find(view, c) # {}
    /\ Distinct(Consignment[c].nullifiers)
    /\ LET t == Consignment[c].txid
           loc == Locate(view, c)
       IN /\ ProofRecordExists(t, Consignment[c].nullifiers)
          /\ ProofValid(t, c)
          /\ ConfirmationsAt(view, loc) >= required
          /\ BindsNullifiers(t, c)
          /\ \A nf \in Nullifiers(c) : first[nf] = loc

\* The whole decision: openings of a known asset, the anchor, and at least one
\* output owned by the recipient.
Accepts(view, c, required) ==
    /\ Consignment[c].asset = "valid"
    /\ AnchorAccepted(view, c, required, [nf \in Nullifiers(c) |-> FirstOccurrence(view, nf)])
    /\ Consignment[c].owned

\* The same decision over several views: they must agree on the tip, the first
\* that has the anchor says where it is, and an occurrence any of them knows
\* counts.
TipsAgree(views) == \A i, j \in DOMAIN views : Len(views[i].blocks) = Len(views[j].blocks)

\* Mutant: only the first view is asked for occurrences.
CrossFirstOfFirst(views, nf) == FirstOccurrence(views[1], nf)

CrossFirst(views, nf) ==
    LET locs == {FirstOccurrence(views[i], nf) : i \in DOMAIN views} \ {NoLocation}
    IN IF locs # {} THEN Earliest(locs) ELSE NoLocation

CrossAccepts(views, c, required) ==
    LET holders == {i \in DOMAIN views : Find(views[i], c) # {}}
    IN /\ holders # {} /\ TipsAgree(views)
       /\ Consignment[c].asset = "valid"
       /\ LET present == views[CHOOSE i \in holders : \A j \in holders : i <= j]
          IN AnchorAccepted(present, c, required, [nf \in Nullifiers(c) |-> CrossFirst(views, nf)])
       /\ Consignment[c].owned

----------------------------------------------------------------------------
(* The provisional view of a payment that is not confirmed yet. *)

\* One exact transaction is merged into the confirmed view: it must have the
\* layout of an anchor, and if it is confirmed already nothing is injected.
MergeAllowed(c) == Consignment[c].loc = Sentinel /\ Anchor[Consignment[c].txid].canonical

MergedView(blocks, c) ==
    LET t == Consignment[c].txid
    IN View(blocks, IF \E l \in Confirmed(View(blocks, {})) : TxAt(View(blocks, {}), l) = t
                    THEN {} ELSE {t})
=============================================================================
