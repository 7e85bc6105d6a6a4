CONSTANTS
    Proposals <- MCProposals
    Commitments <- MCCommitments
    PeerManifests <- MCManifests
    Rates = {1, 2}
    Relays = {"self", "r1", "r2"}
    Self = "self"
    Owned = {"a", "P"}
    LocalOutpoints = {2}
    Signatures = {"s1"}
    LocalSignature = "s1"
    Chain = "testnet"
    Heights = {1, 2}
    max_commitments = 2
    max_replacement_epochs = 2
    max_session_frames = 7
    None = None
SPECIFICATION Spec
INVARIANTS TypeOK ReleasedReserved AbortClean IndexFaithful ManifestChain  BroadcastPersisted
