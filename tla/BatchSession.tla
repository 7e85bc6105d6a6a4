---------------------------- MODULE BatchSession ----------------------------
(***************************************************************************)
(* One durable batching-v2 session (opencsv-cli::batch_gossip::Session) as *)
(* the `opencsv batch v2` commands and the relay loop drive it.            *)
(*                                                                         *)
(* The first group of variables are files of the session directory, each   *)
(* replaced by an atomic write; the second lives in the process that owns  *)
(* the directory.  A handler that makes several durable writes is split at *)
(* them: `job` holds what the running handler still has to do, no other    *)
(* handler starts while it is pending, and a crash may take it.  The last  *)
(* two variables record what has left the process: signature shares of     *)
(* local keys, and transactions given to the Bitcoin network.              *)
(*                                                                         *)
(* A frame that ingest rejects changes nothing but the event log, which no *)
(* handler reads, so rejections are steps that the actions do not take.    *)
(***************************************************************************)
EXTENDS BatchV2

CONSTANTS
    Proposals,              \* proposal bodies any party may author
    Commitments,            \* commitment bodies any party may author
    PeerManifests,          \* manifest bodies peers may author
    Rates,                  \* feerates a local replacement may ask for
    Relays, Self,           \* relay identities, and the one of this session
    Owned,                  \* operation ids and batch ids with a local key
    LocalOutpoints,         \* inputs a command line may name
    Signatures,             \* names of valid signatures over one input
    LocalSignature,         \* the (deterministic) one a local key makes
    Chain,                  \* the chain id the session policy is bound to
    Heights,                \* verified tip heights
    max_commitments,        \* RelayPolicy
    max_replacement_epochs, \* RelayPolicy
    max_session_frames,     \* RelayPolicy::max_session_bytes, in frames
    None

Batches == {p.id : p \in Proposals}
ManifestType == [batch : Batches, members : SUBSET Commitments, epoch : Nat, rate : Nat]
ShareType == [manifest : ManifestType, index : Nat, sig : Signatures]

Phases == {"ready", "proposed", "committed", "manifest_ready", "signed_persisted",
           "broadcast", "mempool", "confirmed", "payload_delivered",
           "aborted_before_signature", "invalidated_on_chain", "expired_unsigned"}

ASSUME ConstantsAssumption ==
    /\ Self \in Relays
    /\ LocalSignature \in Signatures
    /\ "bad" \notin Signatures
    /\ None \notin Proposals
    /\ None \notin ManifestType
    /\ None \notin Phases
    /\ Rates \subseteq Nat /\ max_commitments \in Nat
    /\ PeerManifests \subseteq ManifestType
    /\ \A p \in Proposals : p.target \in Nat
    /\ IsFiniteSet(Commitments)

VARIABLES
    proposal,    \* proposal.bin
    commits,     \* commitments/*.bin
    manifests,   \* manifests/*.bin
    shares,      \* signatures/*.bin
    signed,      \* signed/*.tx: the manifest and the shares in the witness
    frames,      \* frames/*.frame
    reserv,      \* reservations/*.bin
    phase,       \* the phase file, or None
    height,      \* current_height of policy.bin
    up,          \* a process has the session open
    pool,        \* Session::commitments
    senders,     \* Session::commitment_senders
    frameCount,  \* Session::stored_frame_bytes, in frames
    job,         \* what the running handler still has to do
    released,    \* local signature shares handed to peers
    sent         \* manifests whose transaction was handed to the network

bodies == <<proposal, commits, manifests, shares>>
index == <<pool, senders, frameCount>>
vars == <<bodies, signed, frames, reserv, phase, height, up, index, job, released, sent>>

(***************************************************************************)
(* Values                                                                  *)
(***************************************************************************)
\* Mutant: an abort is forgotten.
RejectsAfterConfirmation(ph) ==
    ph \in {"confirmed", "payload_delivered", "invalidated_on_chain", "expired_unsigned"}

rejects_new_protocol_messages(ph) ==
    ph \in {"confirmed", "payload_delivered", "aborted_before_signature",
            "invalidated_on_chain", "expired_unsigned"}

\* The relay identity that authenticates a frame is read back for commitments
\* only, so the other kinds are kept without it.
Frame(kind, body) == [kind |-> kind, body |-> body, sender |-> None]
CommitmentFrame(c, sender) == [kind |-> "commitment", body |-> c, sender |-> sender]

FrameType ==
         [kind : {"proposal"}, body : Proposals, sender : {None}]
    \cup [kind : {"commitment"}, body : Commitments, sender : Relays]
    \cup [kind : {"manifest"}, body : ManifestType, sender : {None}]
    \cup [kind : {"signature"}, body : ShareType, sender : {None}]

Reservation(op, outpoint, ph) == [op |-> op, outpoint |-> outpoint, phase |-> ph]

ReservationType == [op : Owned, outpoint : LocalOutpoints, phase : ReservationPhases]

Idle == [step |-> "idle", frame |-> None, manifest |-> None]
FrameJob(step, f) == [step |-> step, frame |-> f, manifest |-> None]
TxJob(step, m) == [step |-> step, frame |-> None, manifest |-> m]

JobType ==
         {Idle}
    \cup [step : {"ingest", "frame", "send"}, frame : FrameType, manifest : {None}]
    \cup [step : {"phase", "broadcast", "mempool"}, frame : {None}, manifest : ManifestType]

(***************************************************************************)
(* Loading what is on disk.  Every handler starts from these, and fails    *)
(* when they do.                                                           *)
(***************************************************************************)

\* load_proposal returns a body rather than an error or None.
ProposalLoads ==
    /\ proposal # None
    /\ proposal.version = VERSION
    /\ ProposalValidAt(proposal, Chain, height)

\* load_proposal returns no error.
LoadOK == proposal = None \/ ProposalLoads

\* load_manifests returns no error: each body is reconstructed from the pool
\* in memory, and consecutive epochs are replacements of each other.
ManifestsLoad ==
    /\ \A m \in manifests : ManifestInPool(proposal, pool, m)
    /\ \A m, n \in manifests : m.epoch = n.epoch => m = n
    /\ \A m \in manifests :
          (\E n \in manifests : n.epoch < m.epoch) =>
              \E n \in manifests : IsReplacement(proposal, n, m)

SharesOf(m) == {s \in shares : s.manifest = m}

SessionLoads == ProposalLoads /\ ManifestsLoad

IsLatest(m) == m \in manifests /\ \A n \in manifests : n.epoch <= m.epoch

SignedEpochs == {x.manifest : x \in signed}

\* What `status` derives from the stored bodies.
DerivedPhase ==
    IF proposal = None THEN "ready"
    ELSE IF manifests # {} THEN
        (IF \E m \in SignedEpochs : IsLatest(m) THEN "signed_persisted" ELSE "manifest_ready")
    ELSE IF pool = {} THEN "proposed" ELSE "committed"

\* The phase `status` reports when it succeeds.
StatusPhase == IF phase # None THEN phase ELSE DerivedPhase

StatusLoads == proposal = None \/ SessionLoads

(***************************************************************************)
(* Ingest                                                                  *)
(***************************************************************************)
verify_origin_authorization(f) ==
    CASE f.kind = "proposal" -> ProposalValid(f.body) /\ f.body.version = VERSION
      [] f.kind = "commitment" -> ProposalLoads /\ CommitmentValid(proposal, f.body)
      [] OTHER -> TRUE

\* A frame with this kind and body is already stored: IngestOutcome::Duplicate.
Stored(f) == \E g \in frames : g.kind = f.kind /\ g.body = f.body

Conflicts(c, d) ==
    c.key = d.key \/ c.outpoint = d.outpoint \/ c.op = d.op \/ c.payload = d.payload

Smaller(a, b) == IF a < b THEN a ELSE b

enforce_frame_policy(f) ==
    /\ frameCount + 1 <= max_session_frames
    /\ f.kind = "proposal" => LoadOK /\ (proposal # None => proposal = f.body)
    /\ f.kind = "commitment" =>
          /\ ProposalLoads
          /\ f.body \notin pool =>
                /\ Cardinality(pool) < Smaller(max_commitments, proposal.count)
                /\ f.sender \notin senders
                /\ \A c \in pool : ~Conflicts(c, f.body)
    /\ f.kind = "manifest" =>
          /\ ProposalLoads
          /\ ManifestInPool(proposal, pool, f.body)
          /\ f.body.epoch < max_replacement_epochs

\* Mutant: a second body at a stored epoch is not compared with the first.
ManifestFitsAnyEpoch(m) ==
    \/ m.epoch = 0
    \/ \E n \in manifests : IsReplacement(proposal, n, m)

\* The checks persist_semantic makes before its write.
ManifestFits(m) ==
    IF \E n \in manifests : n.epoch = m.epoch
    THEN m \in manifests
    ELSE IF m.epoch = 0 THEN manifests = {}
    ELSE \E n \in manifests : IsReplacement(proposal, n, m)

ShareFits(s) ==
    /\ \E m \in manifests : verify_signature_share(m, s)
    /\ \A t \in shares : t.manifest = s.manifest /\ t.index = s.index => t = s

SemanticFits(f) ==
    CASE f.kind = "proposal" ->
             ProposalValidAt(f.body, Chain, height) /\ proposal \in {None, f.body}
      [] f.kind = "commitment" -> ProposalLoads
      [] f.kind = "manifest" -> SessionLoads /\ ManifestFits(f.body)
      [] OTHER -> SessionLoads /\ ShareFits(f.body)

Accepts(f) ==
    /\ verify_origin_authorization(f)
    /\ ~Stored(f)
    /\ ~rejects_new_protocol_messages(phase)
    /\ enforce_frame_policy(f)
    /\ SemanticFits(f)

\* Mutant: the sender of a new commitment is not remembered.
SendersKept(f) == senders

SendersWith(f) ==
    IF f.kind = "commitment" /\ f.body \notin pool THEN senders \cup {f.sender} ELSE senders

\* The semantic body is on disk (and a commitment indexed in memory) before
\* the frame is.
persist_semantic(f) ==
    /\ proposal' = IF f.kind = "proposal" THEN f.body ELSE proposal
    /\ commits' = commits \cup (IF f.kind = "commitment" THEN {f.body} ELSE {})
    /\ manifests' = manifests \cup (IF f.kind = "manifest" THEN {f.body} ELSE {})
    /\ shares' = shares \cup (IF f.kind = "signature" THEN {f.body} ELSE {})
    /\ pool' = pool \cup (IF f.kind = "commitment" THEN {f.body} ELSE {})
    /\ senders' = SendersWith(f)

Ingest(f) ==
    /\ Accepts(f)
    /\ persist_semantic(f)
    /\ job' = FrameJob("frame", f)
    /\ UNCHANGED <<signed, frames, reserv, phase, height, up, frameCount, released, sent>>

\* `publish` of a stored body: ingest answers Duplicate, the frame goes out.
Resend(f) ==
    /\ verify_origin_authorization(f) /\ Stored(f)
    /\ job' = FrameJob("send", f)
    /\ UNCHANGED <<bodies, signed, frames, reserv, phase, height, up, index, released, sent>>

publish(f) == Ingest(f) \/ Resend(f)

\* The end of ingest: the frame file, then the byte counter.
WriteFrame ==
    /\ up /\ job.step = "frame"
    /\ frames' = frames \cup {job.frame}
    /\ frameCount' = frameCount + 1
    /\ job' = FrameJob("send", job.frame)
    /\ UNCHANGED <<bodies, signed, reserv, phase, height, up, pool, senders, released, sent>>

LocalShare(f) == f.kind = "signature" /\ ShareOperation(f.body.manifest, f.body.index) \in Owned

\* publish_frame, or process_stream's forwarding of a newly accepted frame.
SendFrame ==
    /\ up /\ job.step = "send"
    /\ released' = released \cup (IF LocalShare(job.frame) THEN {job.frame.body} ELSE {})
    /\ job' = Idle
    /\ UNCHANGED <<bodies, signed, frames, reserv, phase, height, up, index, sent>>

(***************************************************************************)
(* Handlers                                                                *)
(***************************************************************************)
Ready == up /\ job = Idle

refresh_verified_tip ==
    /\ Ready
    /\ \E h \in Heights : h # height /\ height' = h
    /\ UNCHANGED <<bodies, signed, frames, reserv, phase, up, index, job, released, sent>>

\* The relay loop ingests what peers send.  A peer cannot make the origin
\* signature of a local key, nor a signature share of a local input; manifests
\* need neither.
ReceiveProposal ==
    /\ Ready
    /\ \E p \in Proposals : p.id \notin Owned /\ Ingest(Frame("proposal", p))

ReceiveCommitment ==
    /\ Ready
    /\ \E c \in Commitments, r \in Relays \ {Self} :
          c.op \notin Owned /\ Ingest(CommitmentFrame(c, r))

ReceiveManifest ==
    /\ Ready
    /\ \E m \in PeerManifests : Ingest(Frame("manifest", m))

\* A signature over an input with a local key verifies only if it was released.
ReceiveSignature ==
    /\ Ready
    /\ \E m \in manifests, sig \in Signatures \cup {"bad"} :
       \E i \in 0 .. Cardinality(m.members) + 1 :
          LET s == [manifest |-> m, index |-> i, sig |-> sig]
          IN  /\ i \in Indices(m) /\ ShareOperation(m, i) \in Owned => s \in released
              /\ Ingest(Frame("signature", s))

\* No reservation of this operation, none of this input that still holds it.
Reservable(op, o) ==
    \A x \in reserv : x.op # op /\ (x.outpoint = o => is_releasable(x.phase))

reserve_local_input ==
    /\ Ready
    /\ \E op \in Owned, o \in LocalOutpoints :
          /\ Reservable(op, o)
          /\ reserv' = reserv \cup {Reservation(op, o, "committed_unsigned")}
    /\ UNCHANGED <<bodies, signed, frames, phase, height, up, index, job, released, sent>>

\* The reservation is the one local_reservation has just read.
require_reservation(x, op, o) == x.op = op /\ x.outpoint = o /\ ~is_releasable(x.phase)

publish_proposal ==
    /\ Ready
    /\ \E p \in Proposals : p.id \in Owned /\ publish(Frame("proposal", p))

publish_verified_commitment ==
    /\ Ready
    /\ ProposalLoads
    /\ \E c \in Commitments :
          /\ c.op \in Owned
          /\ CommitmentValid(proposal, c)
          /\ \E x \in reserv : require_reservation(x, c.op, c.outpoint)
          /\ publish(CommitmentFrame(c, Self))

author_manifest ==
    /\ Ready
    /\ ProposalLoads
    /\ Buildable(proposal, pool, proposal.target)
    /\ publish(Frame("manifest", ManifestAt(proposal, pool, 0, proposal.target)))

author_replacement ==
    /\ Ready
    /\ SessionLoads
    /\ \E m \in manifests, rate \in Rates :
          LET next == ManifestAt(proposal, m.members, m.epoch + 1, rate)
          IN  /\ IsLatest(m)
              /\ IsReplacement(proposal, m, next)
              /\ publish(Frame("manifest", next))

\* sign_and_publish up to its first durable write; PublishShare is the rest.
sign_and_publish ==
    /\ Ready
    /\ SessionLoads
    /\ \E m \in manifests, x \in reserv : \E i \in Indices(m) :
          LET op == ShareOperation(m, i)
              o  == ShareOutpoint(proposal, m, i)
              s  == [manifest |-> m, index |-> i, sig |-> LocalSignature]
          IN  /\ op \in Owned
              /\ require_reservation(x, op, o)
              /\ reserv' = {y \in reserv : y.op # op}
                               \cup {Reservation(op, o, signature_released(x.phase))}
              /\ job' = FrameJob("ingest", Frame("signature", s))
    /\ UNCHANGED <<bodies, signed, frames, phase, height, up, index, released, sent>>

IngestFails ==
    /\ ~Accepts(job.frame) /\ ~Stored(job.frame)
    /\ job' = Idle
    /\ UNCHANGED <<bodies, signed, frames, reserv, phase, height, up, index, released, sent>>

PublishShare ==
    /\ up /\ job.step = "ingest"
    /\ publish(job.frame) \/ IngestFails

finalize_shares(m) == SharesOf(m)

finalize_manifest ==
    /\ Ready
    /\ SessionLoads
    /\ ~rejects_new_protocol_messages(StatusPhase)
    /\ \E m \in manifests \ SignedEpochs :
          /\ Complete(m, shares)
          /\ signed' = signed \cup {[manifest |-> m, witness |-> finalize_shares(m)]}
          /\ job' = TxJob("phase", m)
    /\ UNCHANGED <<bodies, frames, reserv, phase, height, up, index, released, sent>>

FinalizePhase ==
    /\ up /\ job.step = "phase"
    /\ phase' = IF StatusPhase \in {"ready", "proposed", "committed",
                                    "manifest_ready", "signed_persisted"}
                THEN "signed_persisted" ELSE phase
    /\ job' = Idle
    /\ UNCHANGED <<bodies, signed, frames, reserv, height, up, index, released, sent>>

\* Mutant: the shares suffice, the persisted transaction is not read.
AssembledTransaction(m) == SessionLoads /\ m \in manifests /\ Complete(m, shares)

\* signed_transaction returns the transaction of m.
signed_transaction(m) ==
    /\ SessionLoads
    /\ m \in manifests
    /\ \E x \in signed : x.manifest = m /\ x.witness = finalize_shares(m)
    /\ Complete(m, shares)

MayMark(next) ==
    CASE next = "broadcast" -> StatusPhase = "signed_persisted"
      [] next = "mempool" -> StatusPhase \in {"broadcast", "mempool"}
      [] next = "confirmed" -> StatusPhase \in {"broadcast", "mempool", "confirmed"}
      [] next = "payload_delivered" -> StatusPhase \in {"confirmed", "payload_delivered"}
      [] next \in {"aborted_before_signature", "expired_unsigned"} ->
             /\ \A m \in manifests : SharesOf(m) = {}
             /\ StatusPhase \in {"proposed", "committed", "manifest_ready"}
      [] next = "invalidated_on_chain" -> proposal # None /\ manifests # {}
      [] OTHER -> FALSE

\* The `mark` command.
mark_phase ==
    /\ Ready
    /\ StatusLoads
    /\ \E next \in Phases : MayMark(next) /\ phase' = next
    /\ UNCHANGED <<bodies, signed, frames, reserv, height, up, index, job, released, sent>>

\* The `broadcast` command: record the attempt, hand over, record acceptance.
Broadcast ==
    /\ Ready
    /\ \E m \in manifests :
          /\ signed_transaction(m)
          /\ job' = TxJob("broadcast", m)
    /\ \/ StatusPhase = "signed_persisted" /\ phase' = "broadcast"
       \/ StatusPhase \in {"broadcast", "mempool"} /\ UNCHANGED phase
    /\ UNCHANGED <<bodies, signed, frames, reserv, height, up, index, released, sent>>

\* The node may take the transaction and still answer with an error.
BroadcastTransaction ==
    /\ up /\ job.step = "broadcast"
    /\ \/ sent' = sent \cup {job.manifest} /\ job' = TxJob("mempool", job.manifest)
       \/ sent' \in {sent, sent \cup {job.manifest}} /\ job' = Idle
    /\ UNCHANGED <<bodies, signed, frames, reserv, phase, height, up, index, released>>

MarkMempool ==
    /\ up /\ job.step = "mempool"
    /\ phase' = IF StatusLoads /\ MayMark("mempool") THEN "mempool" ELSE phase
    /\ job' = Idle
    /\ UNCHANGED <<bodies, signed, frames, reserv, height, up, index, released, sent>>

(***************************************************************************)
(* Process life.                                                           *)
(***************************************************************************)
CommitmentFrames == {f \in frames : f.kind = "commitment"}

\* rebuild_session_index returns no error.
Rebuildable ==
    /\ proposal # None => ProposalValid(proposal) /\ proposal.version = VERSION
    /\ commits # {} => proposal # None
    /\ \A c \in commits : CommitmentValid(proposal, c)
    /\ \A c, d \in commits : c # d => ~Conflicts(c, d)
    /\ commits # {} => Cardinality(commits) <= Smaller(max_commitments, proposal.count)
    /\ Cardinality(frames) <= max_session_frames
    /\ CommitmentFrames # {} => proposal # None
    /\ \A f, g \in CommitmentFrames : f # g => f.sender # g.sender
    /\ commits \subseteq {f.body : f \in CommitmentFrames}

open ==
    /\ ~up /\ Rebuildable
    /\ up' = TRUE
    /\ pool' = commits
    /\ senders' = {f.sender : f \in CommitmentFrames}
    /\ frameCount' = Cardinality(frames)
    /\ UNCHANGED <<bodies, signed, frames, reserv, phase, height, job, released, sent>>

OpenFails == ~up /\ ~Rebuildable /\ UNCHANGED vars

\* A crash, or the end of a command: what was in memory is gone.
Exit ==
    /\ up
    /\ up' = FALSE
    /\ pool' = {} /\ senders' = {} /\ frameCount' = 0
    /\ job' = Idle
    /\ UNCHANGED <<bodies, signed, frames, reserv, phase, height, released, sent>>

Init ==
    /\ proposal = None /\ phase = None
    /\ commits = {} /\ manifests = {} /\ shares = {} /\ signed = {}
    /\ frames = {} /\ reserv = {}
    /\ height \in Heights
    /\ up = FALSE /\ pool = {} /\ senders = {} /\ frameCount = 0
    /\ job = Idle
    /\ released = {} /\ sent = {}

HandlerSteps ==
    \/ WriteFrame \/ SendFrame \/ PublishShare
    \/ FinalizePhase \/ BroadcastTransaction \/ MarkMempool

Next ==
    \/ ReceiveProposal \/ ReceiveCommitment \/ ReceiveManifest \/ ReceiveSignature
    \/ refresh_verified_tip \/ reserve_local_input
    \/ publish_proposal \/ publish_verified_commitment
    \/ author_manifest \/ author_replacement \/ sign_and_publish
    \/ finalize_manifest \/ mark_phase \/ Broadcast
    \/ HandlerSteps
    \/ open \/ OpenFails \/ Exit

Spec == Init /\ [][Next]_vars

(***************************************************************************)
(* Properties                                                              *)
(***************************************************************************)

\* Every variable holds a value of its type; files of one kind hold bodies of
\* that kind, and a pending handler step carries what it needs.
TypeOK ==
    /\ proposal \in Proposals \cup {None}
    /\ commits \subseteq Commitments
    /\ manifests \subseteq ManifestType
    /\ shares \subseteq ShareType
    /\ signed \subseteq [manifest : ManifestType, witness : SUBSET ShareType]
    /\ frames \subseteq FrameType /\ IsFiniteSet(frames)
    /\ reserv \subseteq ReservationType
    /\ phase \in Phases \cup {None}
    /\ height \in Heights
    /\ up \in BOOLEAN
    /\ pool \subseteq Commitments
    /\ senders \subseteq Relays
    /\ frameCount \in Nat
    /\ job \in JobType
    /\ released \subseteq ShareType
    /\ sent \subseteq ManifestType

Reserved(s) ==
    \E x \in reserv :
        /\ x.op = ShareOperation(s.manifest, s.index)
        /\ x.outpoint = ShareOutpoint(proposal, s.manifest, s.index)
        /\ x.phase = "signature_released"

\* Write-ahead of signatures (sign_and_publish): a share of a local input that
\* any peer may hold is stored in the session, and its reservation on disk says
\* signature_released, whatever crashed in between, so no restart can take the
\* input for abortable.
ReleasedReserved == \A s \in released : s \in shares /\ Reserved(s)

Unsigned == {"aborted_before_signature", "expired_unsigned"}

\* A session that reports aborted_before_signature or expired_unsigned holds no
\* share of any participant in any epoch, has released none of its own, and has
\* no signed transaction: mark_phase's check stays true for ever after.
AbortClean ==
    phase \in Unsigned =>
        shares = {} /\ released = {} /\ signed = {} /\ sent = {}

\* Write-ahead of transactions (finalize_manifest, the broadcast command): what
\* the network may have is a signed epoch on disk, and the phase file records
\* that a broadcast was attempted.
BroadcastPersisted ==
    /\ sent \subseteq SignedEpochs
    /\ sent # {} => phase \in {"broadcast", "mempool", "confirmed", "payload_delivered",
                              "invalidated_on_chain"}

\* The parts of the inductive invariant behind the three properties above.
ReservationsUnique == \A x, y \in reserv : x.op = y.op => x = y

SharesReserved ==
    /\ shares # {} => proposal # None
    /\ \A s \in shares :
          /\ s.manifest \in manifests
          /\ ShareOperation(s.manifest, s.index) \in Owned => Reserved(s)

FramesStored == \A f \in frames : f.kind = "signature" => f.body \in shares

SignedHasShare == \A x \in signed : \E s \in shares : s.manifest = x.manifest

JobBacked ==
    /\ job.step = "ingest" =>
          job.frame.kind = "signature" /\ proposal # None /\ Reserved(job.frame.body)
    /\ job.step \in {"frame", "send"} /\ job.frame.kind = "signature" =>
          job.frame.body \in shares
    /\ job.step \in {"broadcast", "mempool"} =>
          job.manifest \in SignedEpochs /\ phase \in {"broadcast", "mempool"}

\* What makes ReleasedReserved, AbortClean and BroadcastPersisted inductive:
\* the durable writes that back every pending step are already on disk.
SessionInv ==
    /\ ReservationsUnique /\ SharesReserved /\ FramesStored /\ SignedHasShare /\ JobBacked
    /\ \A s \in released : s \in shares /\ ShareOperation(s.manifest, s.index) \in Owned
    /\ AbortClean
    /\ BroadcastPersisted

\* Every signed/*.tx stays what signed_transaction recomputes from the stored
\* shares of its manifest, with one share for every input: later frames never
\* make a persisted epoch differ from its verified shares.
SignedMatchesShares ==
    \A x \in signed :
        /\ x.manifest \in manifests
        /\ x.witness = finalize_shares(x.manifest)
        /\ \A i \in Indices(x.manifest) :
              Cardinality({s \in x.witness : s.index = i}) = 1

\* No order of accepted frames makes load_manifests fail: the stored epochs are
\* a chain of replacements from epoch zero, over members the pool still has.
ManifestChain ==
    up => /\ ManifestsLoad
          /\ manifests # {} => \E m \in manifests : m.epoch = 0

\* The index in memory is the one rebuild_session_index would compute, but for
\* the frame being written: quotas bite the same before and after a restart.
IndexFaithful ==
    up /\ job.step # "frame" =>
        /\ pool = commits
        /\ senders = {f.sender : f \in CommitmentFrames}
        /\ frameCount = Cardinality(frames)
        /\ Rebuildable

Rank == [ph \in Phases \cup {None} |->
    CASE ph = None -> 0
      [] ph = "signed_persisted" -> 1
      [] ph = "broadcast" -> 2
      [] ph = "mempool" -> 3
      [] ph = "confirmed" -> 4
      [] ph = "payload_delivered" -> 5
      [] ph \in Unsigned -> 5
      [] OTHER -> 6]

\* The persisted phase only moves forward through the state machine, and once
\* it rejects new protocol messages no body and no signed epoch is added.
PhaseForward ==
    [][ /\ Rank[phase'] >= Rank[phase]
        /\ rejects_new_protocol_messages(phase) =>
              UNCHANGED <<bodies, signed>> ]_vars

-----------------------------------------------------------------------------
(* What documents or comments promise and the code does not keep; TLC       *)
(* refutes it on the instance of the module's run (README, Findings).       *)

\* "a crash resumes from persisted state rather than rebuilding by guesswork":
\* whenever no process runs, Session::open succeeds.
CrashRecoverable == ~up => Rebuildable

\* "All signed epochs remain recoverable": signed_transaction returns every
\* epoch that was persisted.
SignedRecoverable == Ready => \A m \in SignedEpochs : signed_transaction(m)

\* "It MUST NOT sign two different manifests at the same replacement epoch or a
\* lower epoch": no share is released for an epoch below one already signed.
NoLowerEpochSigned ==
    [][ \A s \in released' \ released, t \in released :
            s.index = t.index => s.manifest.epoch > t.manifest.epoch ]_vars
=============================================================================
