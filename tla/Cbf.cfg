SPECIFICATION Spec
CONSTANTS
    Peers = {"p1", "p2"}
    Liars = {"p2"}
    Params <- MCParams
    Header <- MCHeader
    Served <- MCServed
    Content <- MCContent
    MinPeers = 2
    Window = 1
    MaxMishaps = 2
INVARIANTS HonestPeerPrevails IndexIsFullScan
PROPERTY SyncRecovers
