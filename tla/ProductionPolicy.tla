-------------------------- MODULE ProductionPolicy --------------------------
(***************************************************************************)
(* What an account may be configured with (opencsv-ffi::account): the      *)
(* observers of its transactions, and the limits of a production release.  *)
(* Operators only; Issuance composes them with its gates.                  *)
(*                                                                         *)
(* An observation check is [id, kind, endpoint, mode, pins, maxAge].  An   *)
(* endpoint is [host, path], or None; pins are the accepted certificates,  *)
(* with the pin profile that names them.                                   *)
(***************************************************************************)
EXTENDS Integers, Sequences, FiniteSets, SequencesExt

CONSTANTS
    BuiltIn,            \* id -> [network, endpoint, pins] of the observers that are built in
    MaxRecipients,      \* MAX_LOCAL_BATCH_RECIPIENTS
    MinFeeReserve,      \* MIN_FEE_RESERVE_SATS
    MinOutput,          \* batch_v2::MIN_OUTPUT_SATS
    None

-----------------------------------------------------------------------------
(* Observers.                                                              *)

Peerwise(id, kind, mode) ==
    [id |-> id, kind |-> kind, endpoint |-> None, mode |-> mode, pins |-> {}, maxAge |-> 1]

\* default_observation_checks
DefaultChecks(network) ==
    {[id |-> b, kind |-> "raw", endpoint |-> BuiltIn[b].endpoint, mode |-> "require",
      pins |-> BuiltIn[b].pins, maxAge |-> 1] : b \in {i \in DOMAIN BuiltIn : BuiltIn[i].network = network}}
    \cup {Peerwise("direct_p2p_relay", "relay", "observe"),
          Peerwise("experimental_p2p_mempool_possession", "possession", "off"),
          Peerwise("multi_peer_spv_confirmation", "spv", "observe")}

\* The checks in force: the default ones when the host configures none
Checks(host) == IF host.checks = <<>> THEN DefaultChecks(host.network) ELSE ToSet(host.checks)

RequiredRaw(host) == {c \in Checks(host) : c.kind = "raw" /\ c.mode = "require"}

\* A quorum that the host leaves out is that of all required observers.
Quorum(host) == IF host.quorum = None THEN Cardinality(RequiredRaw(host)) ELSE host.quorum

\* The built-in observers cannot be redirected; one that replaces them has pins of its own.
CheckValid(c, network) ==
    /\ c.kind = "raw" <=> c.endpoint # None
    /\ c.mode = "require" => c.maxAge > 0
    /\ IF c.id \in DOMAIN BuiltIn
       THEN /\ c.kind = "raw"
            /\ BuiltIn[c.id] = [network |-> network, endpoint |-> c.endpoint, pins |-> c.pins]
       ELSE c.kind = "raw" /\ c.mode = "require" => c.pins # {}

\* validate_observation_checks
ObservationValid(host) ==
    /\ \A i, j \in DOMAIN host.checks : host.checks[i].id = host.checks[j].id => i = j
    /\ \A c \in Checks(host) : CheckValid(c, host.network)
    /\ Quorum(host) = Cardinality(RequiredRaw(host))

PinnedHosts(host) == {c.endpoint.host : c \in {d \in RequiredRaw(host) : d.pins # {}}}

VerificationPeers(host) ==
    ToSet(IF host.verificationPeers = <<>> THEN host.peers ELSE host.verificationPeers)

\* production_observation_policy_ready
ObservationReady(host) ==
    host.network = "mainnet" =>
        /\ Cardinality(PinnedHosts(host)) >= 2
        /\ \A kind \in {"relay", "spv"} : \E c \in Checks(host) : c.kind = kind /\ c.mode # "off"
        /\ Cardinality(VerificationPeers(host)) >= 2

-----------------------------------------------------------------------------
(* Limits of a release.                                                    *)

\* Stocks and fee cells for three batches of as many recipients as there may be
ReserveMinimum(recipients) == 3 * MinOutput + 3 * recipients * MinFeeReserve

\* validate_production_rollout_policy
RolloutValid(rollout) ==
    /\ 0 \notin {rollout.maxTransfer, rollout.maxBatch, rollout.maxDay, rollout.maxOperations,
                 rollout.maxReserve, rollout.maxFee}
    /\ rollout.maxTransfer <= rollout.maxBatch /\ rollout.maxBatch <= rollout.maxDay
    /\ rollout.recipients \in 1..MaxRecipients
    /\ rollout.recipients >= 2 => rollout.maxReserve >= ReserveMinimum(rollout.recipients)
=============================================================================
