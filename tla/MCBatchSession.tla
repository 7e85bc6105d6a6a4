--------------------------- MODULE MCBatchSession ---------------------------
(***************************************************************************)
(* A small instance of BatchSession: the session joins a peer's batch B of *)
(* two members, or it owns the stock of a batch P of one member that is    *)
(* replaced.                                                               *)
(***************************************************************************)
EXTENDS BatchSession

ProposalOf(id, version, count, stock, max) ==
    [id |-> id, version |-> version, chain |-> "testnet", stock |-> stock, count |-> count,
     tip |-> 1, expiry |-> 2, target |-> 1, max |-> max]

CommitmentOf(batch, op, outpoint) ==
    [batch |-> batch, op |-> op, payload |-> op, outpoint |-> outpoint, value |-> 5000,
     key |-> op, change |-> op, max_charge |-> 1500]

\* The local fee input 2 sorts before the peers' inputs.
alice == CommitmentOf("B", "a", 2)
bob == CommitmentOf("B", "b", 3)
\* Offers bob's input under an operation of its own.
carol == CommitmentOf("B", "c", 3)
\* The only member of the local batch is a peer.
dave == CommitmentOf("P", "d", 3)

Epoch(batch, members, epoch, rate) ==
    [batch |-> batch, members |-> members, epoch |-> epoch, rate |-> rate]

MCProposals == {ProposalOf("B", VERSION, 2, 1, 1), ProposalOf("L", LEGACY_VERSION, 2, 1, 1),
                ProposalOf("P", VERSION, 1, 2, 2)}
MCCommitments == {alice, bob, carol, dave}
MCManifests == {Epoch("B", {alice, bob}, 0, 1), Epoch("B", {alice, bob}, 0, 2),
                Epoch("B", {alice, bob}, 1, 2), Epoch("B", {alice}, 0, 1)}
               \cup {Epoch("P", {dave}, e, r) : e \in 0 .. 2, r \in 1 .. 2}
=============================================================================
