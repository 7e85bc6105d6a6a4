----------------------------- MODULE MCIssuance -----------------------------
(* Two mints: one under release r1, one under the release r2 that rotates   *)
(* it.  Release x1 is a freeze that reuses the version of r1.  same has one *)
(* authority's signature two times; wraps is signed in full, but its        *)
(* amounts only add up with an overflow.  The host of r1 has the built-in   *)
(* observers; that of r2 has replaced one of them.                          *)
EXTENDS Issuance

MCBuiltIn ==
    [mempool |-> [network |-> "mainnet", endpoint |-> [host |-> "h1", path |-> 1], pins |-> {"k1"}],
     blockstream |-> [network |-> "mainnet", endpoint |-> [host |-> "h2", path |-> 1], pins |-> {"k2"}],
     signet |-> [network |-> "signet", endpoint |-> [host |-> "h1", path |-> 2], pins |-> {"k1"}]]

Raw(id, host, path, mode, pins) ==
    [id |-> id, kind |-> "raw", endpoint |-> [host |-> host, path |-> path], mode |-> mode, pins |-> pins,
     maxAge |-> 1]

HostConfig(checks, quorum) ==
    [network |-> "mainnet", checks |-> checks, quorum |-> quorum, peers |-> <<"n1", "n2">>,
     verificationPeers |-> <<>>]

PeerChecks == <<Peerwise("relay", "relay", "observe"), Peerwise("spv", "spv", "observe")>>

Replaced ==
    <<Raw("mempool", "h1", 1, "require", {"k1"}), Raw("own", "h3", 1, "require", {"k3"})>> \o PeerChecks

MCHost ==
    ("r1" :> HostConfig(<<>>, None)) @@ ("x1" :> HostConfig(<<>>, None)) @@
    ("r2" :> HostConfig(Replaced, 2)) @@ (None :> HostConfig(<<>>, None))

MCRollout ==
    [maxTransfer |-> 1, maxBatch |-> 2, maxDay |-> 2, maxOperations |-> 2, maxReserve |-> 9, maxFee |-> 1,
     recipients |-> 2]

MCRelease ==
    [r1 |-> [version |-> 1, format |-> 2, policy |-> "p1", issuers |-> TRUE, phase |-> "limited",
             rollout |-> MCRollout],
     x1 |-> [version |-> 1, format |-> 1, policy |-> None, issuers |-> FALSE, phase |-> "candidate",
             rollout |-> MCRollout],
     r2 |-> [version |-> 2, format |-> 2, policy |-> "p2", issuers |-> TRUE, phase |-> "general",
             rollout |-> MCRollout]]

MCPolicy ==
    [p1 |-> [version |-> 1, keys |-> {1, 2, 3}, threshold |-> 2, maxAmount |-> 4, maxSupply |-> 6,
             lifetime |-> 1, from |-> 0, until |-> 2],
     p2 |-> [version |-> 2, keys |-> {2, 3}, threshold |-> 2, maxAmount |-> 4, maxSupply |-> 6,
             lifetime |-> 1, from |-> 0, until |-> 2]]

Mint(sequence, before, amounts, after, outpoint, release, policy, start, signatures) ==
    [sequence |-> sequence, before |-> before, amounts |-> amounts, after |-> after,
     outpoint |-> outpoint, release |-> release, policy |-> policy, notBefore |-> start,
     expires |-> start + 1, signatures |-> signatures]

MCAuthorization ==
    [first |-> Mint(1, 0, <<1, 2>>, 3, "o1", "r1", "p1", 0, <<1, 2>>),
     second |-> Mint(2, 3, <<3>>, 6, "o2", "r2", "p2", 0, <<2, 3>>),
     same |-> Mint(2, 3, <<2>>, 5, "o2", "r1", "p1", 0, <<1, 1>>),
     wraps |-> Mint(1, 0, <<7, 2>>, 1, "o2", "r1", "p1", 0, <<1, 2, 3>>)]

\* Every way to configure two raw observers beside the others
HostConfigs ==
    {HostConfig(<<a, b>> \o PeerChecks, quorum) :
        a, b \in {Raw(id, host, path, mode, pins) :
                     id \in {"mempool", "own", "other"}, host \in {"h1", "h2"}, path \in 1..2,
                     mode \in {"require", "observe"}, pins \in {{}, {"k1"}}},
        quorum \in {None, 1, 2}}

\* The comment on production_observation_policy_ready: a configurable policy is no silent
\* downgrade.  Of a configuration that opens and may write, no one host can be all the
\* observers of the quorum, and the built-in one is where it always was.
ASSUME NoSilentDowngrade ==
    \A host \in HostConfigs : ObservationValid(host) /\ ObservationReady(host) =>
        /\ Quorum(host) >= 2
        /\ \A h \in {"h1", "h2"} : \E c \in RequiredRaw(host) : c.endpoint.host # h
        /\ \A c \in Checks(host) : c.id = "mempool" => c.endpoint = BuiltIn["mempool"].endpoint
=============================================================================
