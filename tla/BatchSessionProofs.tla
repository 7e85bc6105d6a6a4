------------------------- MODULE BatchSessionProofs -------------------------
(***************************************************************************)
(* Safety of a batch session for every set of proposals, commitments,      *)
(* manifests, keys and quotas: types, write-ahead of signatures,           *)
(* write-ahead of transactions and the cleanliness of an abort.            *)
(***************************************************************************)
EXTENDS BatchSession, FiniteSetTheorems, TLAPS

\* A fresh session directory is well typed.
LEMMA TypeInit == Init => TypeOK
  <1> SUFFICES ASSUME Init PROVE TypeOK
    OBVIOUS
  <1>1. job \in JobType
    BY DEF Init, JobType
  <1> QED
    BY <1>1, FS_EmptySet DEF Init, TypeOK

\* Ingest writes a body of the frame's own kind.
LEMMA IngestType ==
    ASSUME TypeOK, NEW f \in FrameType, Ingest(f)
    PROVE  TypeOK'
  <1>1. proposal' \in Proposals \cup {None} /\ commits' \subseteq Commitments
        /\ manifests' \subseteq ManifestType /\ shares' \subseteq ShareType
        /\ pool' \subseteq Commitments /\ senders' \subseteq Relays
    BY DEF TypeOK, Ingest, persist_semantic, SendersWith, FrameType
  <1>2. job' \in JobType
    BY DEF Ingest, FrameJob, JobType
  <1> QED
    BY <1>1, <1>2 DEF TypeOK, Ingest

\* A frame that is relayed again changes no stored body.
LEMMA ResendType ==
    ASSUME TypeOK, NEW f \in FrameType, Resend(f)
    PROVE  TypeOK'
  <1>1. job' \in JobType
    BY DEF Resend, FrameJob, JobType
  <1> QED
    BY <1>1 DEF TypeOK, Resend, bodies, index

\* publish stores a new frame or relays a known one.
LEMMA PublishType ==
    ASSUME TypeOK, NEW f \in FrameType, publish(f)
    PROVE  TypeOK'
  BY IngestType, ResendType DEF publish

\* The manifest that a coordinator builds from its proposal is a frame.
LEMMA LocalManifestType ==
    ASSUME TypeOK, ProposalLoads, NEW members \in SUBSET Commitments,
           NEW epoch \in Nat, NEW rate \in Nat
    PROVE  Frame("manifest", ManifestAt(proposal, members, epoch, rate)) \in FrameType
  BY DEF TypeOK, ProposalLoads, Frame, ManifestAt, FrameType, ManifestType, Batches

\* Every step of every handler keeps the types.
LEMMA TypeNext == TypeOK /\ [Next]_vars => TypeOK'
  <1> SUFFICES ASSUME TypeOK, [Next]_vars PROVE TypeOK'
    OBVIOUS
  <1> USE ConstantsAssumption
  <1>1. CASE ReceiveProposal
    <2>1. PICK p \in Proposals : Ingest(Frame("proposal", p))
      BY <1>1 DEF ReceiveProposal
    <2>2. Frame("proposal", p) \in FrameType
      BY DEF Frame, FrameType
    <2> QED BY <2>1, <2>2, IngestType
  <1>2. CASE ReceiveCommitment
    <2>1. PICK c \in Commitments, r \in Relays \ {Self} : Ingest(CommitmentFrame(c, r))
      BY <1>2 DEF ReceiveCommitment
    <2>2. CommitmentFrame(c, r) \in FrameType
      BY DEF CommitmentFrame, FrameType
    <2> QED BY <2>1, <2>2, IngestType
  <1>3. CASE ReceiveManifest
    <2>1. PICK m \in PeerManifests : Ingest(Frame("manifest", m))
      BY <1>3 DEF ReceiveManifest
    <2>2. Frame("manifest", m) \in FrameType
      BY DEF Frame, FrameType
    <2> QED BY <2>1, <2>2, IngestType
  <1>4. CASE ReceiveSignature
    <2>1. PICK m \in manifests, sig \in Signatures \cup {"bad"} :
            \E i \in 0 .. Cardinality(m.members) + 1 :
              Ingest(Frame("signature", [manifest |-> m, index |-> i, sig |-> sig]))
      BY <1>4 DEF ReceiveSignature
    <2>2. PICK i \in 0 .. Cardinality(m.members) + 1 :
              Ingest(Frame("signature", [manifest |-> m, index |-> i, sig |-> sig]))
      BY <2>1
    <2>3. i \in Nat
      BY <2>2
    <2>4. sig \in Signatures
      BY <2>2 DEF Ingest, Accepts, SemanticFits, ShareFits, verify_signature_share, Frame
    <2>5. [manifest |-> m, index |-> i, sig |-> sig] \in ShareType
      BY <2>3, <2>4 DEF TypeOK, ShareType
    <2>6. Frame("signature", [manifest |-> m, index |-> i, sig |-> sig]) \in FrameType
      BY <2>5 DEF Frame, FrameType
    <2> QED BY <2>2, <2>6, IngestType
  <1>5. CASE refresh_verified_tip
    BY <1>5 DEF TypeOK, refresh_verified_tip, bodies, index
  <1>6. CASE reserve_local_input
    <2>1. reserv' \subseteq ReservationType
      BY <1>6 DEF TypeOK, reserve_local_input, Reservation, ReservationType, ReservationPhases
    <2> QED BY <1>6, <2>1 DEF TypeOK, reserve_local_input, bodies, index
  <1>7. CASE publish_proposal
    <2>1. PICK p \in Proposals : publish(Frame("proposal", p))
      BY <1>7 DEF publish_proposal
    <2>2. Frame("proposal", p) \in FrameType
      BY DEF Frame, FrameType
    <2> QED BY <2>1, <2>2, PublishType
  <1>8. CASE publish_verified_commitment
    <2>1. PICK c \in Commitments : publish(CommitmentFrame(c, Self))
      BY <1>8 DEF publish_verified_commitment
    <2>2. CommitmentFrame(c, Self) \in FrameType
      BY DEF CommitmentFrame, FrameType
    <2> QED BY <2>1, <2>2, PublishType
  <1>9. CASE author_manifest
    <2>1. Frame("manifest", ManifestAt(proposal, pool, 0, proposal.target)) \in FrameType
      BY <1>9, LocalManifestType DEF author_manifest, ProposalLoads, TypeOK
    <2> QED BY <1>9, <2>1, PublishType DEF author_manifest
  <1>10. CASE author_replacement
    <2>1. PICK m \in manifests, rate \in Rates :
            publish(Frame("manifest", ManifestAt(proposal, m.members, m.epoch + 1, rate)))
      BY <1>10 DEF author_replacement
    <2>2. m.members \in SUBSET Commitments /\ m.epoch + 1 \in Nat /\ rate \in Nat
      BY DEF TypeOK, ManifestType
    <2>3. ProposalLoads
      BY <1>10 DEF author_replacement, SessionLoads
    <2>4. Frame("manifest", ManifestAt(proposal, m.members, m.epoch + 1, rate)) \in FrameType
      BY <2>2, <2>3, LocalManifestType
    <2> QED BY <2>1, <2>4, PublishType
  <1>11. CASE sign_and_publish
    <2>1. PICK m \in manifests, x \in reserv : \E i \in Indices(m) :
            /\ ShareOperation(m, i) \in Owned
            /\ require_reservation(x, ShareOperation(m, i), ShareOutpoint(proposal, m, i))
            /\ reserv' = {y \in reserv : y.op # ShareOperation(m, i)} \cup
                 {Reservation(ShareOperation(m, i), ShareOutpoint(proposal, m, i),
                              signature_released(x.phase))}
            /\ job' = FrameJob("ingest",
                 Frame("signature", [manifest |-> m, index |-> i, sig |-> LocalSignature]))
      BY <1>11 DEF sign_and_publish
    <2>2. PICK i \in Indices(m) :
            /\ ShareOperation(m, i) \in Owned
            /\ require_reservation(x, ShareOperation(m, i), ShareOutpoint(proposal, m, i))
            /\ reserv' = {y \in reserv : y.op # ShareOperation(m, i)} \cup
                 {Reservation(ShareOperation(m, i), ShareOutpoint(proposal, m, i),
                              signature_released(x.phase))}
            /\ job' = FrameJob("ingest",
                 Frame("signature", [manifest |-> m, index |-> i, sig |-> LocalSignature]))
      BY <2>1
    <2>3. ShareOutpoint(proposal, m, i) \in LocalOutpoints
      BY <2>2 DEF TypeOK, require_reservation, ReservationType
    <2>4. reserv' \subseteq ReservationType
      BY <2>2, <2>3 DEF TypeOK, Reservation, ReservationType, ReservationPhases,
         signature_released
    <2>5. [manifest |-> m, index |-> i, sig |-> LocalSignature] \in ShareType
      BY <2>2 DEF TypeOK, ShareType, Indices
    <2>6. job' \in JobType
      BY <2>2, <2>5 DEF FrameJob, Frame, FrameType, JobType
    <2> QED BY <1>11, <2>4, <2>6 DEF TypeOK, sign_and_publish, bodies, index
  <1>12. CASE finalize_manifest
    <2>1. signed' \subseteq [manifest : ManifestType, witness : SUBSET ShareType]
      BY <1>12 DEF TypeOK, finalize_manifest, finalize_shares, SharesOf
    <2>2. job' \in JobType
      BY <1>12 DEF TypeOK, finalize_manifest, TxJob, JobType
    <2> QED BY <1>12, <2>1, <2>2 DEF TypeOK, finalize_manifest, bodies, index
  <1>13. CASE mark_phase
    BY <1>13 DEF TypeOK, mark_phase, bodies, index
  <1>14. CASE Broadcast
    <2>1. job' \in JobType
      BY <1>14 DEF TypeOK, Broadcast, TxJob, JobType
    <2>2. phase' \in Phases \cup {None}
      BY <1>14 DEF TypeOK, Broadcast, Phases
    <2> QED BY <1>14, <2>1, <2>2 DEF TypeOK, Broadcast, bodies, index
  <1>15. CASE WriteFrame
    <2>1. job.frame \in FrameType
      BY <1>15 DEF TypeOK, WriteFrame, JobType, Idle
    <2>2. job' \in JobType
      BY <1>15, <2>1 DEF WriteFrame, FrameJob, JobType
    <2>3. IsFiniteSet(frames')
      BY <1>15, FS_AddElement DEF TypeOK, WriteFrame
    <2> QED BY <1>15, <2>1, <2>2, <2>3 DEF TypeOK, WriteFrame, bodies
  <1>16. CASE SendFrame
    <2>1. job.frame \in FrameType
      BY <1>16 DEF TypeOK, SendFrame, JobType, Idle
    <2>2. released' \subseteq ShareType
      BY <1>16, <2>1 DEF TypeOK, SendFrame, LocalShare, FrameType
    <2>3. job' \in JobType
      BY <1>16 DEF SendFrame, JobType
    <2> QED BY <1>16, <2>2, <2>3 DEF TypeOK, SendFrame, bodies, index
  <1>17. CASE PublishShare
    <2>1. job.frame \in FrameType
      BY <1>17 DEF TypeOK, PublishShare, JobType, Idle
    <2>2. CASE publish(job.frame)
      BY <2>1, <2>2, PublishType
    <2>3. CASE IngestFails
      <3>1. job' \in JobType
        BY <2>3 DEF IngestFails, JobType
      <3> QED BY <2>3, <3>1 DEF TypeOK, IngestFails, bodies, index
    <2> QED BY <1>17, <2>2, <2>3 DEF PublishShare
  <1>18. CASE FinalizePhase
    <2>1. job' \in JobType
      BY <1>18 DEF FinalizePhase, JobType
    <2>2. phase' \in Phases \cup {None}
      BY <1>18 DEF TypeOK, FinalizePhase, Phases
    <2> QED BY <1>18, <2>1, <2>2 DEF TypeOK, FinalizePhase, bodies, index
  <1>19. CASE BroadcastTransaction
    <2>1. job.manifest \in ManifestType
      BY <1>19 DEF TypeOK, BroadcastTransaction, JobType, Idle
    <2>2. job' \in JobType
      BY <1>19, <2>1 DEF BroadcastTransaction, TxJob, JobType
    <2>3. sent' \subseteq ManifestType
      BY <1>19, <2>1 DEF TypeOK, BroadcastTransaction
    <2> QED BY <1>19, <2>2, <2>3 DEF TypeOK, BroadcastTransaction, bodies, index
  <1>20. CASE MarkMempool
    <2>1. job' \in JobType
      BY <1>20 DEF MarkMempool, JobType
    <2>2. phase' \in Phases \cup {None}
      BY <1>20 DEF TypeOK, MarkMempool, Phases
    <2> QED BY <1>20, <2>1, <2>2 DEF TypeOK, MarkMempool, bodies, index
  <1>21. CASE open
    <2>1. senders' \subseteq Relays
      BY <1>21 DEF TypeOK, open, CommitmentFrames, FrameType
    <2>2. Cardinality(frames) \in Nat
      BY FS_CardinalityType DEF TypeOK
    <2> QED BY <1>21, <2>1, <2>2 DEF TypeOK, open, bodies
  <1>22. CASE OpenFails \/ UNCHANGED vars
    BY <1>22 DEF TypeOK, OpenFails, vars, bodies, index
  <1>23. CASE Exit
    <2>1. job' \in JobType
      BY <1>23 DEF Exit, JobType
    <2> QED BY <1>23, <2>1 DEF TypeOK, Exit, bodies
  <1> QED
    BY <1>1, <1>2, <1>3, <1>4, <1>5, <1>6, <1>7, <1>8, <1>9, <1>10, <1>11, <1>12, <1>13,
       <1>14, <1>15, <1>16, <1>17, <1>18, <1>19, <1>20, <1>21, <1>22, <1>23
    DEF Next, HandlerSteps

\* A session's files, index and pending work stay well typed.
THEOREM TypeCorrect == Spec => []TypeOK
  BY TypeInit, TypeNext, PTL DEF Spec

(***************************************************************************)
(* SessionInv is inductive.                                                *)
(***************************************************************************)
LEMMA InvInit == Init => SessionInv
  <1> SUFFICES ASSUME Init PROVE SessionInv
    OBVIOUS
  <1>1. JobBacked
    BY DEF Init, JobBacked, Idle
  <1> QED
    BY <1>1 DEF Init, SessionInv, ReservationsUnique, SharesReserved, FramesStored,
       SignedHasShare, AbortClean, BroadcastPersisted, SignedEpochs

\* A step that changes no file the invariant reads, and leaves nothing pending,
\* keeps it.
LEMMA QuietStep ==
    ASSUME SessionInv, UNCHANGED <<bodies, signed, frames, reserv, phase, released, sent>>,
           job' = Idle
    PROVE  SessionInv'
  <1>1. JobBacked'
    BY DEF JobBacked, Idle
  <1>2. SharesReserved'
    BY DEF SessionInv, SharesReserved, Reserved, bodies
  <1> QED
    BY <1>1, <1>2 DEF SessionInv, ReservationsUnique, FramesStored, SignedHasShare,
       AbortClean, BroadcastPersisted, SignedEpochs, bodies

\* A frame that ingest accepts keeps it, if a share of a local input is reserved.
LEMMA IngestInv ==
    ASSUME TypeOK, SessionInv, NEW f \in FrameType, Ingest(f), LocalShare(f) => Reserved(f.body)
    PROVE  SessionInv'
  <1> USE ConstantsAssumption
  <1>1. shares # {} => proposal' = proposal
    BY DEF SessionInv, SharesReserved, Ingest, Accepts, SemanticFits, persist_semantic
  <1>2. f.kind = "signature" => proposal # None /\ proposal' = proposal
                                /\ f.body.manifest \in manifests
    BY DEF Ingest, Accepts, SemanticFits, SessionLoads, ProposalLoads, ShareFits,
       verify_signature_share, persist_semantic
  <1>3. SharesReserved'
    <2>1. shares' # {} => proposal' # None
      BY <1>1, <1>2 DEF SessionInv, SharesReserved, Ingest, persist_semantic
    <2>2. ASSUME NEW s \in shares' PROVE s.manifest \in manifests'
      BY <1>2 DEF SessionInv, SharesReserved, Ingest, persist_semantic
    <2>3. ASSUME NEW s \in shares', ShareOperation(s.manifest, s.index) \in Owned
          PROVE  Reserved(s)'
      <3>1. CASE s \in shares
        BY <1>1, <2>3, <3>1 DEF SessionInv, SharesReserved, Reserved, Ingest
      <3>2. CASE s \notin shares
        <4>1. f.kind = "signature" /\ s = f.body
          BY <3>2 DEF Ingest, persist_semantic
        <4>2. Reserved(s)
          BY <2>3, <4>1 DEF LocalShare
        <4> QED BY <1>2, <4>1, <4>2 DEF Reserved, Ingest
      <3> QED BY <3>1, <3>2
    <2> QED BY <2>1, <2>2, <2>3 DEF SharesReserved
  <1>4. JobBacked'
    BY DEF JobBacked, Ingest, FrameJob, persist_semantic
  <1>5. phase' \notin Unsigned
    BY DEF Ingest, Accepts, rejects_new_protocol_messages, Unsigned
  <1>6. shares \subseteq shares'
    BY DEF Ingest, persist_semantic
  <1> QED
    BY <1>3, <1>4, <1>5, <1>6 DEF SessionInv, ReservationsUnique, FramesStored,
       SignedHasShare, AbortClean, BroadcastPersisted, SignedEpochs, Ingest

\* A frame that is relayed again keeps the session invariant.
LEMMA ResendInv ==
    ASSUME TypeOK, SessionInv, NEW f \in FrameType, Resend(f)
    PROVE  SessionInv'
  <1>1. f.kind = "signature" => f.body \in shares
    BY DEF SessionInv, FramesStored, Resend, Stored
  <1>2. JobBacked'
    BY <1>1 DEF JobBacked, Resend, FrameJob, bodies
  <1>3. SharesReserved'
    BY DEF SessionInv, SharesReserved, Reserved, Resend, bodies
  <1> QED
    BY <1>2, <1>3 DEF SessionInv, ReservationsUnique, FramesStored, SignedHasShare,
       AbortClean, BroadcastPersisted, SignedEpochs, Resend, bodies

\* publish keeps it, provided that a share is reserved before it is published.
LEMMA PublishInv ==
    ASSUME TypeOK, SessionInv, NEW f \in FrameType, publish(f),
           LocalShare(f) => Reserved(f.body)
    PROVE  SessionInv'
  BY IngestInv, ResendInv DEF publish

\* Input 0 of a manifest, the stock, is always there.
LEMMA IndicesHaveStock == TypeOK => \A m \in manifests : 0 \in Indices(m)
  <1> SUFFICES ASSUME TypeOK, NEW m \in manifests PROVE 0 \in Indices(m)
    OBVIOUS
  <1>1. IsFiniteSet(m.members)
    BY ConstantsAssumption, FS_Subset DEF TypeOK, ManifestType
  <1> QED
    BY <1>1, FS_CardinalityType DEF Indices

\* Every step of every handler keeps the invariant.
LEMMA InvNext == TypeOK /\ SessionInv /\ [Next]_vars => SessionInv'
  <1> SUFFICES ASSUME TypeOK, SessionInv, [Next]_vars PROVE SessionInv'
    OBVIOUS
  <1> USE ConstantsAssumption
  <1>1. CASE ReceiveProposal
    <2>1. PICK p \in Proposals : Ingest(Frame("proposal", p))
      BY <1>1 DEF ReceiveProposal
    <2>2. Frame("proposal", p) \in FrameType /\ ~LocalShare(Frame("proposal", p))
      BY DEF Frame, FrameType, LocalShare
    <2> QED BY <2>1, <2>2, IngestInv
  <1>2. CASE ReceiveCommitment
    <2>1. PICK c \in Commitments, r \in Relays \ {Self} : Ingest(CommitmentFrame(c, r))
      BY <1>2 DEF ReceiveCommitment
    <2>2. CommitmentFrame(c, r) \in FrameType /\ ~LocalShare(CommitmentFrame(c, r))
      BY DEF CommitmentFrame, FrameType, LocalShare
    <2> QED BY <2>1, <2>2, IngestInv
  <1>3. CASE ReceiveManifest
    <2>1. PICK m \in PeerManifests : Ingest(Frame("manifest", m))
      BY <1>3 DEF ReceiveManifest
    <2>2. Frame("manifest", m) \in FrameType /\ ~LocalShare(Frame("manifest", m))
      BY DEF Frame, FrameType, LocalShare
    <2> QED BY <2>1, <2>2, IngestInv
  <1>4. CASE ReceiveSignature
    <2>1. PICK m \in manifests, sig \in Signatures \cup {"bad"} :
            \E i \in 0 .. Cardinality(m.members) + 1 :
              /\ i \in Indices(m) /\ ShareOperation(m, i) \in Owned
                   => [manifest |-> m, index |-> i, sig |-> sig] \in released
              /\ Ingest(Frame("signature", [manifest |-> m, index |-> i, sig |-> sig]))
      BY <1>4 DEF ReceiveSignature
    <2>2. PICK i \in 0 .. Cardinality(m.members) + 1 :
              /\ i \in Indices(m) /\ ShareOperation(m, i) \in Owned
                   => [manifest |-> m, index |-> i, sig |-> sig] \in released
              /\ Ingest(Frame("signature", [manifest |-> m, index |-> i, sig |-> sig]))
      BY <2>1
    <2> DEFINE s == [manifest |-> m, index |-> i, sig |-> sig]
    <2>3. sig \in Signatures /\ i \in Indices(m)
      BY <2>2 DEF Ingest, Accepts, SemanticFits, ShareFits, verify_signature_share, Frame
    <2>4. s \in ShareType
      BY <2>2, <2>3 DEF TypeOK, ShareType
    <2>5. Frame("signature", s) \in FrameType
      BY <2>4 DEF Frame, FrameType
    <2>6. LocalShare(Frame("signature", s)) => Reserved(s)
      <3>1. SUFFICES ASSUME ShareOperation(m, i) \in Owned PROVE Reserved(s)
        BY DEF LocalShare, Frame
      <3>2. s \in shares
        BY <2>2, <2>3, <3>1 DEF SessionInv
      <3>3. ShareOperation(s.manifest, s.index) \in Owned
        BY <3>1
      <3> HIDE DEF s
      <3> QED BY <3>2, <3>3 DEF SessionInv, SharesReserved
    <2>7. Frame("signature", s).body = s
      BY DEF Frame
    <2> HIDE DEF s
    <2>8. Ingest(Frame("signature", s))
      BY <2>2 DEF s
    <2> QED BY <2>5, <2>6, <2>7, <2>8, IngestInv
  <1>5. CASE refresh_verified_tip
    BY <1>5, QuietStep DEF refresh_verified_tip, Ready
  <1>6. CASE reserve_local_input
    <2>1. reserv \subseteq reserv'
      BY <1>6 DEF reserve_local_input
    <2>2. ReservationsUnique'
      BY <1>6 DEF reserve_local_input, Reservable, SessionInv, ReservationsUnique, Reservation
    <2>3. SharesReserved'
      BY <1>6, <2>1 DEF reserve_local_input, SessionInv, SharesReserved, Reserved, bodies
    <2>4. JobBacked'
      BY <1>6 DEF reserve_local_input, JobBacked, Ready, Idle
    <2> QED BY <1>6, <2>2, <2>3, <2>4 DEF reserve_local_input, SessionInv, FramesStored,
               SignedHasShare, AbortClean, BroadcastPersisted, SignedEpochs, bodies
  <1>7. CASE publish_proposal
    <2>1. PICK p \in Proposals : publish(Frame("proposal", p))
      BY <1>7 DEF publish_proposal
    <2>2. Frame("proposal", p) \in FrameType /\ ~LocalShare(Frame("proposal", p))
      BY DEF Frame, FrameType, LocalShare
    <2> QED BY <2>1, <2>2, PublishInv
  <1>8. CASE publish_verified_commitment
    <2>1. PICK c \in Commitments : publish(CommitmentFrame(c, Self))
      BY <1>8 DEF publish_verified_commitment
    <2>2. CommitmentFrame(c, Self) \in FrameType /\ ~LocalShare(CommitmentFrame(c, Self))
      BY DEF CommitmentFrame, FrameType, LocalShare
    <2> QED BY <2>1, <2>2, PublishInv
  <1>9. CASE author_manifest
    <2> DEFINE f == Frame("manifest", ManifestAt(proposal, pool, 0, proposal.target))
    <2>1. f \in FrameType
      BY <1>9, LocalManifestType DEF author_manifest, ProposalLoads, TypeOK
    <2>2. ~LocalShare(f)
      BY DEF LocalShare, Frame
    <2>3. publish(f)
      BY <1>9 DEF author_manifest
    <2> QED BY <2>1, <2>2, <2>3, PublishInv
  <1>10. CASE author_replacement
    <2>1. PICK m \in manifests, rate \in Rates :
            publish(Frame("manifest", ManifestAt(proposal, m.members, m.epoch + 1, rate)))
      BY <1>10 DEF author_replacement
    <2> DEFINE f == Frame("manifest", ManifestAt(proposal, m.members, m.epoch + 1, rate))
    <2>2. m.members \in SUBSET Commitments /\ m.epoch + 1 \in Nat /\ rate \in Nat
      BY DEF TypeOK, ManifestType
    <2>3. ProposalLoads
      BY <1>10 DEF author_replacement, SessionLoads
    <2>4. f \in FrameType
      BY <2>2, <2>3, LocalManifestType
    <2>5. ~LocalShare(f)
      BY DEF LocalShare, Frame
    <2> QED BY <2>1, <2>4, <2>5, PublishInv
  <1>11. CASE sign_and_publish
    <2>1. PICK m \in manifests, x \in reserv : \E i \in Indices(m) :
            /\ require_reservation(x, ShareOperation(m, i), ShareOutpoint(proposal, m, i))
            /\ reserv' = {y \in reserv : y.op # ShareOperation(m, i)} \cup
                 {Reservation(ShareOperation(m, i), ShareOutpoint(proposal, m, i),
                              signature_released(x.phase))}
            /\ job' = FrameJob("ingest",
                 Frame("signature", [manifest |-> m, index |-> i, sig |-> LocalSignature]))
      BY <1>11 DEF sign_and_publish
    <2>2. PICK i \in Indices(m) :
            /\ require_reservation(x, ShareOperation(m, i), ShareOutpoint(proposal, m, i))
            /\ reserv' = {y \in reserv : y.op # ShareOperation(m, i)} \cup
                 {Reservation(ShareOperation(m, i), ShareOutpoint(proposal, m, i),
                              signature_released(x.phase))}
            /\ job' = FrameJob("ingest",
                 Frame("signature", [manifest |-> m, index |-> i, sig |-> LocalSignature]))
      BY <2>1
    <2> DEFINE op == ShareOperation(m, i)
               o == ShareOutpoint(proposal, m, i)
               new == Reservation(op, o, "signature_released")
    <2>3. /\ reserv' = {y \in reserv : y.op # op} \cup {new}
          /\ x.op = op /\ x.outpoint = o
      BY <2>2 DEF TypeOK, ReservationType, ReservationPhases, require_reservation,
         is_releasable, signature_released
    <2>4. new.op = op /\ new.outpoint = o /\ new.phase = "signature_released"
      BY DEF Reservation
    <2>5. proposal # None /\ proposal' = proposal
      BY <1>11 DEF sign_and_publish, SessionLoads, ProposalLoads, bodies
    <2>6. JobBacked'
      BY <2>2, <2>3, <2>4, <2>5 DEF JobBacked, Reserved, FrameJob, Frame
    <2> HIDE DEF op, o, new
    <2>7. ReservationsUnique'
      BY <2>3, <2>4 DEF SessionInv, ReservationsUnique
    <2>8. ASSUME NEW s \in shares, Reserved(s) PROVE Reserved(s)'
      <3>1. PICK y \in reserv : /\ y.op = ShareOperation(s.manifest, s.index)
                                /\ y.outpoint = ShareOutpoint(proposal, s.manifest, s.index)
                                /\ y.phase = "signature_released"
        BY <2>8 DEF Reserved
      <3>2. CASE y.op # op
        BY <2>3, <2>5, <3>1, <3>2 DEF Reserved
      <3>3. CASE y.op = op
        <4>1. y.outpoint = o
          BY <2>3, <3>3 DEF SessionInv, ReservationsUnique
        <4> QED BY <2>3, <2>4, <2>5, <3>1, <3>3, <4>1 DEF Reserved
      <3> QED BY <3>2, <3>3
    <2>9. SharesReserved'
      BY <1>11, <2>8 DEF sign_and_publish, SessionInv, SharesReserved, bodies
    <2> QED BY <1>11, <2>6, <2>7, <2>9 DEF sign_and_publish, SessionInv, FramesStored,
               SignedHasShare, AbortClean, BroadcastPersisted, SignedEpochs, bodies
  <1>12. CASE finalize_manifest
    <2>1. PICK m \in manifests :
            /\ Complete(m, shares)
            /\ signed' = signed \cup {[manifest |-> m, witness |-> finalize_shares(m)]}
            /\ job' = TxJob("phase", m)
      BY <1>12 DEF finalize_manifest
    <2>2. PICK s \in shares : s.manifest = m
      BY <2>1, IndicesHaveStock DEF Complete
    <2>3. SignedHasShare' /\ SignedEpochs \subseteq SignedEpochs'
      BY <1>12, <2>1, <2>2 DEF finalize_manifest, SessionInv, SignedHasShare, SignedEpochs, bodies
    <2>4. JobBacked'
      BY <2>1 DEF JobBacked, TxJob
    <2>5. SharesReserved'
      BY <1>12 DEF finalize_manifest, SessionInv, SharesReserved, Reserved, bodies
    <2>6. AbortClean'
      BY <1>12, <2>2 DEF finalize_manifest, SessionInv, AbortClean, bodies
    <2> QED BY <1>12, <2>3, <2>4, <2>5, <2>6 DEF finalize_manifest, SessionInv,
               ReservationsUnique, FramesStored, BroadcastPersisted, bodies
  <1>13. CASE mark_phase
    <2>1. PICK next \in Phases : MayMark(next) /\ phase' = next
      BY <1>13 DEF mark_phase
    <2>2. AbortClean'
      <3>1. SUFFICES ASSUME next \in Unsigned
                     PROVE shares = {} /\ released = {} /\ signed = {} /\ sent = {}
        BY <1>13, <2>1 DEF mark_phase, AbortClean, bodies
      <3>2. \A m \in manifests : SharesOf(m) = {}
        BY <2>1, <3>1 DEF MayMark, Unsigned
      <3>3. shares = {}
        BY <3>2 DEF SessionInv, SharesReserved, SharesOf
      <3> QED BY <3>3 DEF SessionInv, SignedHasShare, BroadcastPersisted, SignedEpochs
    <2>3. BroadcastPersisted'
      <3>1. SUFFICES ASSUME sent # {}
                     PROVE next \in {"broadcast", "mempool", "confirmed", "payload_delivered",
                                     "invalidated_on_chain"}
        BY <1>13, <2>1 DEF mark_phase, SessionInv, BroadcastPersisted, SignedEpochs
      <3>2. CASE phase = None
        <4>1. next \in {"broadcast", "mempool", "confirmed", "payload_delivered",
                        "invalidated_on_chain", "aborted_before_signature", "expired_unsigned"}
          BY <2>1 DEF MayMark
        <4> QED BY <1>13, <2>1, <2>2, <3>1, <4>1 DEF mark_phase, AbortClean, Unsigned
      <3>3. CASE phase # None
        BY <2>1, <3>1, <3>3 DEF SessionInv, BroadcastPersisted, MayMark, StatusPhase
      <3> QED BY <3>2, <3>3
    <2>4. JobBacked'
      BY <1>13 DEF mark_phase, JobBacked, Ready, Idle
    <2>5. SharesReserved'
      BY <1>13 DEF mark_phase, SessionInv, SharesReserved, Reserved, bodies
    <2> QED BY <1>13, <2>2, <2>3, <2>4, <2>5 DEF mark_phase, SessionInv, ReservationsUnique,
               FramesStored, SignedHasShare, bodies
  <1>14. CASE Broadcast
    <2>1. PICK m \in manifests : signed_transaction(m) /\ job' = TxJob("broadcast", m)
      BY <1>14 DEF Broadcast
    <2>2. m \in SignedEpochs
      BY <2>1 DEF signed_transaction, SignedEpochs
    <2>3. phase' \in {"broadcast", "mempool"}
      <3>1. CASE phase' = "broadcast"
        BY <3>1
      <3>2. CASE StatusPhase \in {"broadcast", "mempool"} /\ phase' = phase
        BY <3>2 DEF StatusPhase, DerivedPhase
      <3> QED BY <1>14, <3>1, <3>2 DEF Broadcast
    <2>4. JobBacked'
      BY <1>14, <2>1, <2>2, <2>3 DEF Broadcast, JobBacked, TxJob, SignedEpochs
    <2>5. SharesReserved'
      BY <1>14 DEF Broadcast, SessionInv, SharesReserved, Reserved, bodies
    <2> QED BY <1>14, <2>3, <2>4, <2>5 DEF Broadcast, SessionInv, ReservationsUnique,
               FramesStored, SignedHasShare, AbortClean, Unsigned, BroadcastPersisted,
               SignedEpochs, bodies
  <1>15. CASE WriteFrame
    <2>1. FramesStored' /\ JobBacked'
      BY <1>15 DEF WriteFrame, SessionInv, FramesStored, JobBacked, FrameJob, bodies
    <2>2. SharesReserved'
      BY <1>15 DEF WriteFrame, SessionInv, SharesReserved, Reserved, bodies
    <2> QED BY <1>15, <2>1, <2>2 DEF WriteFrame, SessionInv, ReservationsUnique,
               SignedHasShare, AbortClean, BroadcastPersisted, SignedEpochs, bodies
  <1>16. CASE SendFrame
    <2>1. JobBacked'
      BY <1>16 DEF SendFrame, JobBacked, Idle
    <2>2. SharesReserved'
      BY <1>16 DEF SendFrame, SessionInv, SharesReserved, Reserved, bodies
    <2>3. ASSUME NEW s \in released'
          PROVE  s \in shares /\ ShareOperation(s.manifest, s.index) \in Owned
      BY <1>16 DEF SendFrame, SessionInv, JobBacked, LocalShare
    <2>4. AbortClean'
      BY <1>16, <2>3 DEF SendFrame, SessionInv, AbortClean, bodies
    <2> QED BY <1>16, <2>1, <2>2, <2>3, <2>4 DEF SendFrame, SessionInv, ReservationsUnique,
               FramesStored, SignedHasShare, BroadcastPersisted, SignedEpochs, bodies
  <1>17. CASE PublishShare
    <2>1. job.frame \in FrameType
      BY <1>17 DEF TypeOK, PublishShare, JobType, Idle
    <2>2. Reserved(job.frame.body)
      BY <1>17 DEF PublishShare, SessionInv, JobBacked
    <2>3. CASE publish(job.frame)
      BY <2>1, <2>2, <2>3, PublishInv
    <2>4. CASE IngestFails
      BY <2>4, QuietStep DEF IngestFails
    <2> QED BY <1>17, <2>3, <2>4 DEF PublishShare
  <1>18. CASE FinalizePhase
    <2>1. phase' = phase \/ phase' = "signed_persisted"
      BY <1>18 DEF FinalizePhase
    <2>2. sent # {} => phase' = phase
      BY <1>18 DEF FinalizePhase, SessionInv, BroadcastPersisted, StatusPhase, Phases
    <2>3. JobBacked'
      BY <1>18 DEF FinalizePhase, JobBacked, Idle
    <2>4. SharesReserved'
      BY <1>18 DEF FinalizePhase, SessionInv, SharesReserved, Reserved, bodies
    <2> QED BY <1>18, <2>1, <2>2, <2>3, <2>4 DEF FinalizePhase, SessionInv,
               ReservationsUnique, FramesStored, SignedHasShare, AbortClean, Unsigned,
               BroadcastPersisted, SignedEpochs, bodies
  <1>19. CASE BroadcastTransaction
    <2>1. job.manifest \in SignedEpochs /\ phase \in {"broadcast", "mempool"}
      BY <1>19 DEF BroadcastTransaction, SessionInv, JobBacked
    <2>2. JobBacked'
      BY <1>19, <2>1 DEF BroadcastTransaction, JobBacked, TxJob, Idle, SignedEpochs
    <2>3. SharesReserved'
      BY <1>19 DEF BroadcastTransaction, SessionInv, SharesReserved, Reserved, bodies
    <2>4. BroadcastPersisted' /\ AbortClean'
      BY <1>19, <2>1 DEF BroadcastTransaction, SessionInv, BroadcastPersisted, SignedEpochs,
         AbortClean, Unsigned
    <2> QED BY <1>19, <2>2, <2>3, <2>4 DEF BroadcastTransaction, SessionInv,
               ReservationsUnique, FramesStored, SignedHasShare, bodies
  <1>20. CASE MarkMempool
    <2>1. phase' \in {"broadcast", "mempool"}
      BY <1>20 DEF MarkMempool, SessionInv, JobBacked
    <2>2. JobBacked'
      BY <1>20 DEF MarkMempool, JobBacked, Idle
    <2>3. SharesReserved'
      BY <1>20 DEF MarkMempool, SessionInv, SharesReserved, Reserved, bodies
    <2> QED BY <1>20, <2>1, <2>2, <2>3 DEF MarkMempool, SessionInv, ReservationsUnique,
               FramesStored, SignedHasShare, AbortClean, Unsigned, BroadcastPersisted,
               SignedEpochs, bodies
  <1>21. CASE open
    <2>1. JobBacked'
      BY <1>21 DEF open, SessionInv, JobBacked, Reserved, SignedEpochs, bodies
    <2>2. SharesReserved'
      BY <1>21 DEF open, SessionInv, SharesReserved, Reserved, bodies
    <2> QED BY <1>21, <2>1, <2>2 DEF open, SessionInv, ReservationsUnique, FramesStored,
               SignedHasShare, AbortClean, BroadcastPersisted, SignedEpochs, bodies
  <1>22. CASE OpenFails \/ UNCHANGED vars
    <2>1. UNCHANGED vars
      BY <1>22 DEF OpenFails
    <2>2. JobBacked' /\ SharesReserved'
      BY <2>1 DEF SessionInv, JobBacked, SharesReserved, Reserved, SignedEpochs, vars, bodies
    <2> QED BY <2>1, <2>2 DEF SessionInv, ReservationsUnique, FramesStored, SignedHasShare,
               AbortClean, BroadcastPersisted, SignedEpochs, vars, bodies
  <1>23. CASE Exit
    BY <1>23, QuietStep DEF Exit
  <1> QED
    BY <1>1, <1>2, <1>3, <1>4, <1>5, <1>6, <1>7, <1>8, <1>9, <1>10, <1>11, <1>12, <1>13,
       <1>14, <1>15, <1>16, <1>17, <1>18, <1>19, <1>20, <1>21, <1>22, <1>23
    DEF Next, HandlerSteps

\* The durable writes behind every pending step and every outward effect are on
\* disk before it, in every reachable state of every instance.
THEOREM SessionSafe == Spec => []SessionInv
  <1>1. Init => TypeOK /\ SessionInv
    BY TypeInit, InvInit
  <1>2. TypeOK /\ SessionInv /\ [Next]_vars => (TypeOK /\ SessionInv)'
    BY TypeNext, InvNext
  <1> QED BY <1>1, <1>2, PTL DEF Spec

\* A share of a local input that a peer may hold is backed by a reservation that
\* says so (sign_and_publish persists it first), across any crash.
THEOREM ReleasedSharesReserved == Spec => []ReleasedReserved
  <1>1. SessionInv => ReleasedReserved
    BY DEF SessionInv, SharesReserved, ReleasedReserved
  <1> QED BY <1>1, SessionSafe, PTL

\* An aborted or expired session has released, signed and sent nothing, and
\* never will while it stays so (mark_phase, ingest).
THEOREM AbortsAreClean == Spec => []AbortClean
  <1>1. SessionInv => AbortClean
    BY DEF SessionInv
  <1> QED BY <1>1, SessionSafe, PTL

\* Only persisted signed epochs reach the network, after the phase file says a
\* broadcast is being attempted (the broadcast command).
THEOREM BroadcastsPersisted == Spec => []BroadcastPersisted
  <1>1. SessionInv => BroadcastPersisted
    BY DEF SessionInv
  <1> QED BY <1>1, SessionSafe, PTL

(***************************************************************************)
(* The stored epochs, the index in memory and the signed epochs.           *)
(***************************************************************************)

\* The commitment frames among a set of frames.
Carriers(fs) == {f \in fs : f.kind = "commitment"}

\* The frames on disk once the running ingest has ended: the body and the index are
\* written before the frame.
Written == IF job.step = "frame" THEN frames \cup {job.frame} ELSE frames

\* Without a process nothing is pending.
StoppedInv == ~up => job = Idle

\* While a process runs, what it has indexed is what rebuild_session_index would compute
\* from the disk after the running ingest.
IndexInv ==
    up => /\ pool = commits
          /\ senders = {f.sender : f \in Carriers(Written)}
          /\ frameCount = Cardinality(frames)
          /\ job.step = "frame" => ~Stored(job.frame)
          /\ proposal # None => ProposalValid(proposal) /\ proposal.version = VERSION
          /\ commits # {} => /\ proposal # None
                             /\ Cardinality(commits) <= Smaller(max_commitments, proposal.count)
          /\ \A c \in commits : CommitmentValid(proposal, c)
          /\ \A c, d \in commits : c # d => ~Conflicts(c, d)
          /\ Cardinality(Written) <= max_session_frames
          /\ \A f, g \in Carriers(Written) : f # g => f.sender # g.sender
          /\ Carriers(Written) # {} => proposal # None
          /\ commits \subseteq {f.body : f \in Carriers(Written)}

\* The stored manifests are one chain of replacements over stored commitments, whether or
\* not a process runs.
ChainInv ==
    /\ manifests # {} => proposal # None /\ \E m \in manifests : m.epoch = 0
    /\ \A m \in manifests : ManifestInPool(proposal, commits, m)
    /\ \A m, n \in manifests : m.epoch = n.epoch => m = n
    /\ \A m \in manifests : m.epoch # 0 => \E n \in manifests : IsReplacement(proposal, n, m)

\* Every share is of an input of its manifest and the only one of that input, so a witness
\* that was complete once is all the shares that its manifest will ever have.
WitnessInv ==
    /\ \A s \in shares : s.manifest \in manifests /\ s.index \in Indices(s.manifest)
    /\ \A s, t \in shares : s.manifest = t.manifest /\ s.index = t.index => s = t
    /\ \A x \in signed : /\ x.manifest \in manifests
                         /\ Complete(x.manifest, shares)
                         /\ x.witness = finalize_shares(x.manifest)

LoadInv == StoppedInv /\ IndexInv /\ ChainInv /\ WitnessInv

\* A call that ends a handler or starts one, and writes no body, no signed epoch and no frame.
Quiet ==
    /\ UNCHANGED <<bodies, signed, frames, up, index>>
    /\ UNCHANGED job \/ (up /\ job.step # "frame" /\ job'.step # "frame")

\* A running process ingests a frame, and no other frame is being written.
Ingests(f) == up /\ job.step # "frame" /\ Ingest(f)

\* publish ingests, or sends what is stored.
LEMMA PublishKinds ==
    ASSUME NEW f \in FrameType, up, job.step # "frame", publish(f)
    PROVE  Ingests(f) \/ Quiet
  <1>1. CASE Ingest(f)
    BY <1>1 DEF Ingests
  <1>2. CASE Resend(f)
    <2>1. job'.step = "send"
      BY <1>2 DEF Resend, FrameJob
    <2> QED BY <1>2, <2>1 DEF Resend, Quiet
  <1> QED BY <1>1, <1>2 DEF publish

\* A free process has no frame to write.
LEMMA ReadyIsFree == Ready => up /\ job.step # "frame"
  BY DEF Ready, Idle

\* Bodies, signed epochs, frames and the index change in five ways.
LEMMA StepKinds ==
    ASSUME TypeOK, [Next]_vars
    PROVE  \/ \E f \in FrameType : Ingests(f)
           \/ WriteFrame \/ open \/ Exit \/ finalize_manifest
           \/ Quiet
  <1> USE ConstantsAssumption
  <1>1. CASE ReceiveProposal
    <2>1. PICK p \in Proposals : Ingest(Frame("proposal", p))
      BY <1>1 DEF ReceiveProposal
    <2>2. Frame("proposal", p) \in FrameType
      BY DEF Frame, FrameType
    <2> QED BY <1>1, <2>1, <2>2, ReadyIsFree DEF ReceiveProposal, Ingests
  <1>2. CASE ReceiveCommitment
    <2>1. PICK c \in Commitments, r \in Relays \ {Self} : Ingest(CommitmentFrame(c, r))
      BY <1>2 DEF ReceiveCommitment
    <2>2. CommitmentFrame(c, r) \in FrameType
      BY DEF CommitmentFrame, FrameType
    <2> QED BY <1>2, <2>1, <2>2, ReadyIsFree DEF ReceiveCommitment, Ingests
  <1>3. CASE ReceiveManifest
    <2>1. PICK m \in PeerManifests : Ingest(Frame("manifest", m))
      BY <1>3 DEF ReceiveManifest
    <2>2. Frame("manifest", m) \in FrameType
      BY DEF Frame, FrameType
    <2> QED BY <1>3, <2>1, <2>2, ReadyIsFree DEF ReceiveManifest, Ingests
  <1>4. CASE ReceiveSignature
    <2>1. PICK m \in manifests, sig \in Signatures \cup {"bad"} :
            \E i \in 0 .. Cardinality(m.members) + 1 :
              Ingest(Frame("signature", [manifest |-> m, index |-> i, sig |-> sig]))
      BY <1>4 DEF ReceiveSignature
    <2>2. PICK i \in 0 .. Cardinality(m.members) + 1 :
              Ingest(Frame("signature", [manifest |-> m, index |-> i, sig |-> sig]))
      BY <2>1
    <2>3. sig \in Signatures
      BY <2>2 DEF Ingest, Accepts, SemanticFits, ShareFits, verify_signature_share, Frame
    <2>4. [manifest |-> m, index |-> i, sig |-> sig] \in ShareType
      BY <2>2, <2>3 DEF TypeOK, ShareType
    <2>5. Frame("signature", [manifest |-> m, index |-> i, sig |-> sig]) \in FrameType
      BY <2>4 DEF Frame, FrameType
    <2> QED BY <1>4, <2>2, <2>5, ReadyIsFree DEF ReceiveSignature, Ingests
  <1>5. CASE publish_proposal
    <2>1. PICK p \in Proposals : publish(Frame("proposal", p))
      BY <1>5 DEF publish_proposal
    <2>2. Frame("proposal", p) \in FrameType
      BY DEF Frame, FrameType
    <2> QED BY <1>5, <2>1, <2>2, ReadyIsFree, PublishKinds DEF publish_proposal
  <1>6. CASE publish_verified_commitment
    <2>1. PICK c \in Commitments : publish(CommitmentFrame(c, Self))
      BY <1>6 DEF publish_verified_commitment
    <2>2. CommitmentFrame(c, Self) \in FrameType
      BY DEF CommitmentFrame, FrameType
    <2> QED BY <1>6, <2>1, <2>2, ReadyIsFree, PublishKinds DEF publish_verified_commitment
  <1>7. CASE author_manifest
    <2>1. Frame("manifest", ManifestAt(proposal, pool, 0, proposal.target)) \in FrameType
      BY <1>7, LocalManifestType DEF author_manifest, ProposalLoads, TypeOK
    <2> QED BY <1>7, <2>1, ReadyIsFree, PublishKinds DEF author_manifest
  <1>8. CASE author_replacement
    <2>1. PICK m \in manifests, rate \in Rates :
            publish(Frame("manifest", ManifestAt(proposal, m.members, m.epoch + 1, rate)))
      BY <1>8 DEF author_replacement
    <2>2. m.members \in SUBSET Commitments /\ m.epoch + 1 \in Nat /\ rate \in Nat
      BY DEF TypeOK, ManifestType
    <2>3. ProposalLoads
      BY <1>8 DEF author_replacement, SessionLoads
    <2>4. Frame("manifest", ManifestAt(proposal, m.members, m.epoch + 1, rate)) \in FrameType
      BY <2>2, <2>3, LocalManifestType
    <2> QED BY <1>8, <2>1, <2>4, ReadyIsFree, PublishKinds DEF author_replacement
  <1>9. CASE PublishShare
    <2>1. job.frame \in FrameType
      BY <1>9 DEF TypeOK, PublishShare, JobType, Idle
    <2>2. up /\ job.step # "frame"
      BY <1>9 DEF PublishShare
    <2>3. CASE IngestFails
      <3>1. job'.step = "idle"
        BY <2>3 DEF IngestFails, Idle
      <3> QED BY <2>2, <2>3, <3>1 DEF IngestFails, Quiet
    <2> QED BY <1>9, <2>1, <2>2, <2>3, PublishKinds DEF PublishShare
  <1>10. CASE refresh_verified_tip \/ reserve_local_input \/ mark_phase
    BY <1>10 DEF refresh_verified_tip, reserve_local_input, mark_phase, Quiet
  <1>11. CASE sign_and_publish
    BY <1>11, ReadyIsFree DEF sign_and_publish, FrameJob, Quiet
  <1>12. CASE Broadcast
    BY <1>12, ReadyIsFree DEF Broadcast, TxJob, Quiet
  <1>13. CASE SendFrame \/ FinalizePhase \/ MarkMempool
    BY <1>13 DEF SendFrame, FinalizePhase, MarkMempool, Idle, Quiet
  <1>14. CASE BroadcastTransaction
    BY <1>14 DEF BroadcastTransaction, TxJob, Idle, Quiet
  <1>15. CASE OpenFails \/ UNCHANGED vars
    BY <1>15 DEF OpenFails, vars, Quiet
  <1> QED
    BY <1>1, <1>2, <1>3, <1>4, <1>5, <1>6, <1>7, <1>8, <1>9, <1>10, <1>11, <1>12, <1>13,
       <1>14, <1>15 DEF Next, HandlerSteps

\* An ingest stores one body, and rewrites no proposal.
LEMMA IngestWrites ==
    ASSUME NEW f \in FrameType, Ingests(f)
    PROVE  /\ proposal # None => proposal' = proposal
           /\ f.kind # "proposal" => proposal' = proposal
           /\ f.kind # "manifest" => manifests' = manifests
           /\ f.kind # "signature" => shares' = shares
           /\ f.kind # "commitment" => UNCHANGED <<commits, pool, senders>>
           /\ commits \subseteq commits'
           /\ UNCHANGED <<signed, frames, up, frameCount>>
           /\ job' = FrameJob("frame", f) /\ up
  <1>1. f.kind = "proposal" => proposal \in {None, f.body}
    BY DEF Ingests, Ingest, Accepts, SemanticFits
  <1> QED
    BY <1>1 DEF Ingests, Ingest, persist_semantic, SendersWith

\* The chain of stored epochs survives every frame that ingest accepts.
LEMMA ChainStep ==
    ASSUME TypeOK, IndexInv, ChainInv, [Next]_vars
    PROVE  ChainInv'
  <1>1. ASSUME NEW f \in FrameType, Ingests(f), f.kind # "manifest"
        PROVE  ChainInv'
    <2>1. manifests' = manifests /\ commits \subseteq commits'
      BY <1>1, IngestWrites
    <2>2. manifests # {} => proposal' = proposal
      BY <1>1, IngestWrites DEF ChainInv
    <2>3. ASSUME NEW m \in manifests PROVE ManifestInPool(proposal', commits', m)
      BY <2>1, <2>2, <2>3 DEF ChainInv, ManifestInPool
    <2> QED
      BY <2>1, <2>2, <2>3 DEF ChainInv
  <1>2. ASSUME NEW f \in FrameType, Ingests(f), f.kind = "manifest"
        PROVE  ChainInv'
    <2>1. /\ proposal' = proposal /\ commits' = commits
          /\ manifests' = manifests \cup {f.body} /\ proposal # None
      BY <1>2, IngestWrites DEF Ingests, Ingest, Accepts, SemanticFits, SessionLoads,
         ProposalLoads, persist_semantic
    <2>2. ManifestFits(f.body) /\ ManifestInPool(proposal, commits, f.body)
      BY <1>2 DEF IndexInv, Ingests, Ingest, Accepts, SemanticFits, enforce_frame_policy
    <2>3. CASE f.body \in manifests
      BY <2>1, <2>3 DEF ChainInv
    <2>4. CASE f.body \notin manifests
      <3>1. \A n \in manifests : n.epoch # f.body.epoch
        BY <2>2, <2>4 DEF ManifestFits
      <3>2. \/ f.body.epoch = 0 /\ manifests = {}
            \/ f.body.epoch # 0 /\ \E n \in manifests : IsReplacement(proposal, n, f.body)
        BY <2>2, <3>1 DEF ManifestFits
      <3> QED
        BY <2>1, <2>2, <3>1, <3>2 DEF ChainInv
    <2> QED BY <2>3, <2>4
  <1>3. CASE WriteFrame \/ open \/ Exit \/ finalize_manifest \/ Quiet
    BY <1>3 DEF ChainInv, WriteFrame, open, Exit, finalize_manifest, Quiet, bodies
  <1> QED
    BY <1>1, <1>2, <1>3, StepKinds

\* A complete witness takes no further share.
LEMMA WitnessStep ==
    ASSUME TypeOK, WitnessInv, [Next]_vars
    PROVE  WitnessInv'
  <1>1. ASSUME NEW f \in FrameType, Ingests(f), f.kind # "signature"
        PROVE  WitnessInv'
    <2>1. shares' = shares /\ signed' = signed /\ manifests \subseteq manifests'
      BY <1>1, IngestWrites DEF Ingests, Ingest, persist_semantic
    <2> QED
      BY <2>1 DEF WitnessInv, finalize_shares, SharesOf
  <1>2. ASSUME NEW f \in FrameType, Ingests(f), f.kind = "signature"
        PROVE  WitnessInv'
    <2>1. shares' = shares \cup {f.body} /\ signed' = signed /\ manifests' = manifests
      BY <1>2, IngestWrites DEF Ingests, Ingest, persist_semantic
    <2>2. ShareFits(f.body)
      BY <1>2 DEF Ingests, Ingest, Accepts, SemanticFits
    <2>3. f.body.manifest \in manifests /\ f.body.index \in Indices(f.body.manifest)
      BY <2>2 DEF ShareFits, verify_signature_share
    <2>4. \A t \in shares : t.manifest = f.body.manifest /\ t.index = f.body.index => t = f.body
      BY <2>2 DEF ShareFits
    <2>5. ASSUME NEW x \in signed
          PROVE  Complete(x.manifest, shares') /\ SharesOf(x.manifest)' = SharesOf(x.manifest)
      <3>1. Complete(x.manifest, shares)
        BY DEF WitnessInv
      <3>2. f.body.manifest = x.manifest => f.body \in shares
        BY <2>3, <2>4, <3>1 DEF Complete
      <3>3. SharesOf(x.manifest)' = SharesOf(x.manifest)
        BY <2>1, <3>2 DEF SharesOf
      <3> QED BY <2>1, <3>1, <3>3 DEF Complete
    <2> QED
      BY <2>1, <2>3, <2>4, <2>5 DEF WitnessInv, finalize_shares
  <1>3. CASE WriteFrame \/ open \/ Exit \/ Quiet
    BY <1>3 DEF WitnessInv, finalize_shares, SharesOf, WriteFrame, open, Exit, Quiet, bodies
  <1>4. CASE finalize_manifest
    <2>1. PICK m \in manifests :
            /\ Complete(m, shares)
            /\ signed' = signed \cup {[manifest |-> m, witness |-> finalize_shares(m)]}
      BY <1>4 DEF finalize_manifest
    <2>2. shares' = shares /\ manifests' = manifests
      BY <1>4 DEF finalize_manifest, bodies
    <2> QED
      BY <2>1, <2>2 DEF WitnessInv, finalize_shares, SharesOf
  <1> QED
    BY <1>1, <1>2, <1>3, <1>4, StepKinds

\* What an accepted frame adds to the index is what the frame itself will carry.
LEMMA IngestIndex ==
    ASSUME TypeOK, IndexInv, NEW f \in FrameType, Ingests(f)
    PROVE  IndexInv'
  <1> USE ConstantsAssumption
  <1>1. /\ proposal # None => proposal' = proposal
        /\ f.kind # "proposal" => proposal' = proposal
        /\ f.kind # "commitment" => UNCHANGED <<commits, pool, senders>>
        /\ frames' = frames /\ frameCount' = frameCount
        /\ job' = FrameJob("frame", f) /\ up /\ Written = frames
    BY IngestWrites DEF Ingests, Written
  <1>2. Written' = frames \cup {f} /\ job'.step = "frame" /\ job'.frame = f
    BY <1>1 DEF Written, FrameJob
  <1>3. ~Stored(f) /\ f \notin frames /\ frameCount + 1 <= max_session_frames
    BY DEF Ingests, Ingest, Accepts, enforce_frame_policy, Stored
  <1>4. ~Stored(f)'
    BY <1>1, <1>3 DEF Stored
  <1>5. Cardinality(Written') <= max_session_frames
    <2>1. Cardinality(frames \cup {f}) = Cardinality(frames) + 1
      BY <1>3, FS_AddElement DEF TypeOK
    <2> QED BY <1>1, <1>2, <1>3, <2>1 DEF IndexInv
  <1>6. CASE f.kind = "commitment"
    <2>1. /\ commits' = commits \cup {f.body} /\ pool' = pool \cup {f.body}
          /\ proposal' = proposal /\ ProposalLoads /\ CommitmentValid(proposal, f.body)
      BY <1>1, <1>6 DEF Ingests, Ingest, Accepts, persist_semantic, SemanticFits,
         verify_origin_authorization
    <2>2. f.body \notin pool
      BY <1>1, <1>3, <1>6 DEF IndexInv, Stored, Carriers
    <2>3. /\ Cardinality(pool) < Smaller(max_commitments, proposal.count)
          /\ f.sender \notin senders
          /\ \A c \in pool : ~Conflicts(c, f.body)
      BY <1>6, <2>2 DEF Ingests, Ingest, Accepts, enforce_frame_policy
    <2>4. senders' = senders \cup {f.sender}
      BY <1>6, <2>2 DEF Ingests, Ingest, persist_semantic, SendersWith
    <2>5. Carriers(Written') = Carriers(frames) \cup {f}
      BY <1>2, <1>6 DEF Carriers
    <2>6. Cardinality(commits') <= Smaller(max_commitments, proposal'.count)
      <3>1. IsFiniteSet(pool) /\ Cardinality(pool) \in Nat
        BY FS_Subset, FS_CardinalityType DEF TypeOK
      <3>2. Cardinality(commits') = Cardinality(pool) + 1
        BY <1>1, <2>1, <2>2, <3>1, FS_AddElement DEF IndexInv
      <3>3. Smaller(max_commitments, proposal.count) \in Nat
        BY <2>1 DEF ProposalLoads, ProposalValidAt, ProposalValid, Smaller,
           MAX_BATCH_V2_PARTICIPANTS
      <3> QED BY <2>1, <2>3, <3>1, <3>2, <3>3
    <2>7. \A c, d \in commits' : c # d => ~Conflicts(c, d)
      BY <1>1, <2>1, <2>3 DEF IndexInv, Conflicts
    <2>8. \A g, h \in Carriers(Written') : g # h => g.sender # h.sender
      BY <1>1, <2>3, <2>5 DEF IndexInv
    <2>9. senders' = {g.sender : g \in Carriers(Written')}
      BY <1>1, <2>4, <2>5 DEF IndexInv
    <2>10. commits' \subseteq {g.body : g \in Carriers(Written')}
      BY <1>1, <2>1, <2>5 DEF IndexInv
    <2> QED
      BY <1>1, <1>2, <1>4, <1>5, <2>1, <2>6, <2>7, <2>8, <2>9, <2>10
      DEF IndexInv, ProposalLoads, ProposalValidAt
  <1>7. CASE f.kind # "commitment"
    <2>1. Carriers(Written') = Carriers(frames)
      BY <1>2, <1>7 DEF Carriers
    <2>2. proposal' # None => ProposalValid(proposal') /\ proposal'.version = VERSION
      <3>1. CASE f.kind = "proposal"
        BY <3>1 DEF Ingests, Ingest, Accepts, verify_origin_authorization, persist_semantic
      <3>2. CASE f.kind # "proposal"
        BY <1>1, <3>2 DEF IndexInv
      <3> QED BY <3>1, <3>2
    <2> QED
      BY <1>1, <1>2, <1>4, <1>5, <1>7, <2>1, <2>2 DEF IndexInv
  <1> QED BY <1>6, <1>7

\* The index agrees with the disk after every step.
LEMMA IndexStep ==
    ASSUME TypeOK, StoppedInv, IndexInv, [Next]_vars
    PROVE  StoppedInv' /\ IndexInv'
  <1>1. ASSUME NEW f \in FrameType, Ingests(f) PROVE StoppedInv' /\ IndexInv'
    BY <1>1, IngestIndex, IngestWrites DEF StoppedInv
  <1>2. CASE WriteFrame
    <2>1. /\ frames' = frames \cup {job.frame} /\ frameCount' = frameCount + 1
          /\ job'.step = "send" /\ job.step = "frame" /\ up /\ up'
          /\ UNCHANGED <<proposal, commits, pool, senders>>
      BY <1>2 DEF WriteFrame, FrameJob, bodies
    <2>2. Written' = Written /\ Written = frames \cup {job.frame}
      BY <2>1 DEF Written
    <2>3. job.frame \notin frames
      BY <2>1 DEF IndexInv, Stored
    <2>4. Cardinality(frames') = Cardinality(frames) + 1
      BY <2>1, <2>3, FS_AddElement DEF TypeOK
    <2> QED
      BY <2>1, <2>2, <2>4 DEF IndexInv, StoppedInv
  <1>3. CASE open
    <2>1. /\ job = Idle /\ job' = job /\ up' /\ UNCHANGED <<proposal, commits, frames>>
          /\ pool' = commits /\ senders' = {f.sender : f \in CommitmentFrames}
          /\ frameCount' = Cardinality(frames) /\ Rebuildable
      BY <1>3 DEF open, StoppedInv, bodies
    <2>2. Written' = frames /\ Carriers(frames) = CommitmentFrames
      BY <2>1 DEF Written, Idle, Carriers, CommitmentFrames
    <2>3. job'.step # "frame"
      BY <2>1 DEF Idle
    <2> QED
      BY <2>1, <2>2, <2>3 DEF IndexInv, StoppedInv, Rebuildable
  <1>4. CASE Exit
    BY <1>4 DEF Exit, StoppedInv, IndexInv
  <1>5. CASE finalize_manifest
    <2>1. /\ UNCHANGED <<proposal, commits, pool, senders, frames, frameCount, up>>
          /\ job.step # "frame" /\ job'.step # "frame" /\ up
      BY <1>5, ReadyIsFree DEF finalize_manifest, TxJob, bodies, index
    <2>2. Written' = Written
      BY <2>1 DEF Written
    <2> QED
      BY <2>1, <2>2 DEF IndexInv, StoppedInv
  <1>6. CASE Quiet
    <2>1. /\ UNCHANGED <<proposal, commits, pool, senders, frames, frameCount, up>>
          /\ job' = job \/ (up /\ job.step # "frame" /\ job'.step # "frame")
      BY <1>6 DEF Quiet, bodies, index
    <2>2. Written' = Written /\ (job'.step = "frame" => job' = job)
      BY <2>1 DEF Written
    <2>3. job'.step = "frame" /\ up => ~Stored(job.frame)'
      BY <2>1, <2>2 DEF IndexInv, Stored
    <2> QED
      BY <2>1, <2>2, <2>3 DEF IndexInv, StoppedInv
  <1> QED
    BY <1>1, <1>2, <1>3, <1>4, <1>5, <1>6, StepKinds

\* A fresh directory has no chain, no witness and no index.
LEMMA LoadInit == Init => LoadInv
  BY DEF Init, LoadInv, StoppedInv, IndexInv, ChainInv, WitnessInv

\* What load_manifests, rebuild_session_index and signed_transaction read back is what the
\* handlers checked when they wrote it.
THEOREM SessionLoadable == Spec => []LoadInv
  <1>1. TypeOK /\ LoadInv /\ [Next]_vars => LoadInv'
    BY IndexStep, ChainStep, WitnessStep DEF LoadInv
  <1> QED
    BY <1>1, LoadInit, TypeCorrect, PTL DEF Spec

\* No order of accepted frames makes load_manifests fail while a process runs: the stored
\* epochs are one chain of replacements from epoch zero over members the pool has.
THEOREM EpochsAreAChain == Spec => []ManifestChain
  <1>1. ASSUME TypeOK, LoadInv PROVE ManifestChain
    <2>1. \A m \in manifests : m.epoch \in Nat
      BY <1>1 DEF TypeOK, ManifestType
    <2>2. \A m, n \in manifests : n.epoch < m.epoch => m.epoch # 0
      BY <2>1
    <2> QED
      BY <1>1, <2>2 DEF LoadInv, IndexInv, ChainInv, ManifestChain, ManifestsLoad
  <1> QED
    BY <1>1, SessionLoadable, TypeCorrect, PTL

\* A persisted signed epoch is for ever what signed_transaction recomputes from the shares:
\* one share of every input, and none that came later.
THEOREM SignedEpochsAreTheirShares == Spec => []SignedMatchesShares
  <1>1. ASSUME LoadInv PROVE SignedMatchesShares
    <2> SUFFICES ASSUME NEW x \in signed, NEW i \in Indices(x.manifest)
                 PROVE  Cardinality({s \in x.witness : s.index = i}) = 1
      BY <1>1 DEF LoadInv, WitnessInv, SignedMatchesShares
    <2>1. PICK s \in shares : s.manifest = x.manifest /\ s.index = i
      BY <1>1 DEF LoadInv, WitnessInv, Complete
    <2>2. {t \in x.witness : t.index = i} = {s}
      BY <1>1, <2>1 DEF LoadInv, WitnessInv, finalize_shares, SharesOf
    <2> QED
      BY <2>2, FS_Singleton
  <1> QED
    BY <1>1, SessionLoadable, PTL

\* Between two ingests the index in memory is what rebuild_session_index computes, and it
\* would not fail: the quotas bite the same before and after a restart.
THEOREM IndexIsRebuilt == Spec => []IndexFaithful
  <1>1. ASSUME LoadInv PROVE IndexFaithful
    <2> SUFFICES ASSUME up, job.step # "frame"
                 PROVE  /\ pool = commits
                        /\ senders = {f.sender : f \in CommitmentFrames}
                        /\ frameCount = Cardinality(frames)
                        /\ Rebuildable
      BY DEF IndexFaithful
    <2>1. Written = frames /\ Carriers(Written) = CommitmentFrames
      BY DEF Written, Carriers, CommitmentFrames
    <2> QED
      BY <1>1, <2>1 DEF LoadInv, IndexInv, Rebuildable
  <1> QED
    BY <1>1, SessionLoadable, PTL

\* The phase file holds only what a handler or a mark puts there; the earlier phases are
\* derived, never stored.
PhaseStored == phase \notin {"ready", "proposed", "committed", "manifest_ready"}

\* Which calls write the phase file, and from what.
LEMMA PhaseSteps ==
    ASSUME TypeOK, [Next]_vars
    PROVE  \/ phase' = phase
           \/ phase' = "signed_persisted" /\ StatusPhase \in {"ready", "proposed", "committed",
                                                   "manifest_ready", "signed_persisted"}
           \/ phase' \in Phases /\ MayMark(phase')
  <1>1. CASE FinalizePhase
    BY <1>1 DEF FinalizePhase
  <1>2. CASE mark_phase
    BY <1>2 DEF mark_phase
  <1>3. CASE Broadcast
    <2>1. CASE StatusPhase = "signed_persisted" /\ phase' = "broadcast"
      BY <2>1 DEF MayMark, Phases
    <2> QED BY <1>3, <2>1 DEF Broadcast
  <1>4. CASE MarkMempool
    <2>1. CASE StatusLoads /\ MayMark("mempool")
      BY <1>4, <2>1 DEF MarkMempool, Phases
    <2> QED BY <1>4, <2>1 DEF MarkMempool
  <1>5. CASE ~(FinalizePhase \/ mark_phase \/ Broadcast \/ MarkMempool)
    <2>1. CASE ReceiveProposal \/ ReceiveCommitment \/ ReceiveManifest \/ ReceiveSignature
      BY <2>1 DEF ReceiveProposal, ReceiveCommitment, ReceiveManifest, ReceiveSignature, Ingest
    <2>2. CASE publish_proposal \/ publish_verified_commitment
      BY <2>2 DEF publish_proposal, publish_verified_commitment, publish, Ingest, Resend
    <2>3. CASE author_manifest \/ author_replacement
      BY <2>3 DEF author_manifest, author_replacement, publish, Ingest, Resend
    <2>4. CASE PublishShare
      BY <2>4 DEF PublishShare, publish, Ingest, Resend, IngestFails
    <2>5. CASE refresh_verified_tip \/ reserve_local_input \/ sign_and_publish
      BY <2>5 DEF refresh_verified_tip, reserve_local_input, sign_and_publish
    <2>6. CASE finalize_manifest \/ WriteFrame \/ SendFrame \/ BroadcastTransaction
      BY <2>6 DEF finalize_manifest, WriteFrame, SendFrame, BroadcastTransaction
    <2>7. CASE open \/ OpenFails \/ Exit \/ UNCHANGED vars
      BY <2>7 DEF open, OpenFails, Exit, vars
    <2> QED
      BY <1>5, <2>1, <2>2, <2>3, <2>4, <2>5, <2>6, <2>7 DEF Next, HandlerSteps
  <1> QED
    BY <1>1, <1>2, <1>3, <1>4, <1>5

\* The stored phase never moves back, and a session that rejects protocol messages takes no
\* body and no signed epoch any more (mark_phase, finalize_manifest, ingest).
THEOREM PhasesMoveForward == Spec => PhaseForward
  <1> USE ConstantsAssumption
  <1>1. Init => PhaseStored
    BY DEF Init, PhaseStored, Phases
  <1>2. ASSUME TypeOK, PhaseStored, [Next]_vars PROVE PhaseStored'
    <2>1. \A next : MayMark(next) => next \notin {"ready", "proposed", "committed", "manifest_ready"}
      BY DEF MayMark
    <2> QED
      BY <1>2, <2>1, PhaseSteps DEF PhaseStored
  <1>3. ASSUME TypeOK, PhaseStored, [Next]_vars PROVE Rank[phase'] >= Rank[phase]
    <2>1. phase \in Phases \cup {None} /\ phase' \in Phases \cup {None}
      BY <1>3, TypeNext DEF TypeOK
    <2> DEFINE R(ph) == CASE ph = None -> 0
                         [] ph = "signed_persisted" -> 1
                         [] ph = "broadcast" -> 2
                         [] ph = "mempool" -> 3
                         [] ph = "confirmed" -> 4
                         [] ph = "payload_delivered" -> 5
                         [] ph \in Unsigned -> 5
                         [] OTHER -> 6
    <2>r. \A ph \in Phases \cup {None} : Rank[ph] = R(ph)
      BY DEF Rank
    <2>n. \A ph : R(ph) \in 0 .. 6
      OBVIOUS
    <2>2. CASE phase' = phase
      BY <2>1, <2>2, <2>r, <2>n
    <2>3. CASE phase = None
      <3>1. R(None) = 0
        BY DEF Phases, Unsigned
      <3> HIDE DEF R
      <3> QED BY <2>1, <2>3, <2>r, <2>n, <3>1
    <2>4. CASE phase # None /\ phase' = "signed_persisted"
               /\ StatusPhase \in {"ready", "proposed", "committed", "manifest_ready",
                                   "signed_persisted"}
      BY <1>3, <2>1, <2>4 DEF StatusPhase, PhaseStored, Rank
    <2>5. CASE phase # None /\ phase' \in Phases /\ MayMark(phase')
      <3>1. StatusPhase = phase
        BY <2>5 DEF StatusPhase
      <3>2. CASE phase' = "broadcast" \/ phase' = "mempool"
        <4>1. CASE phase' = "broadcast"
          <5>1. phase = "signed_persisted"
            BY <2>5, <3>1, <4>1 DEF MayMark
          <5> QED BY <2>1, <4>1, <5>1, <2>r DEF Phases, Unsigned
        <4>2. CASE phase' = "mempool"
          <5>1. phase = "broadcast" \/ phase = "mempool"
            BY <2>5, <3>1, <4>2 DEF MayMark
          <5> QED BY <2>1, <4>2, <5>1, <2>r DEF Phases, Unsigned
        <4> QED BY <3>2, <4>1, <4>2
      <3>3. CASE phase' = "confirmed" \/ phase' = "payload_delivered"
        BY <2>1, <2>5, <3>1, <3>3 DEF MayMark, Rank, Phases, Unsigned
      <3>4. CASE phase' \in Unsigned
        BY <1>3, <2>5, <3>1, <3>4 DEF MayMark, PhaseStored, Unsigned
      <3>5. CASE phase' = "invalidated_on_chain"
        BY <2>1, <3>5 DEF Rank, Phases, Unsigned
      <3> QED
        BY <2>5, <3>2, <3>3, <3>4, <3>5 DEF MayMark, Unsigned
    <2> QED
      BY <1>3, <2>2, <2>3, <2>4, <2>5, PhaseSteps
  <1>4. ASSUME TypeOK, [Next]_vars, rejects_new_protocol_messages(phase)
        PROVE  UNCHANGED <<bodies, signed>>
    <2>1. ~\E f \in FrameType : Ingests(f)
      BY <1>4 DEF Ingests, Ingest, Accepts
    <2>2. ~finalize_manifest
      BY <1>4 DEF finalize_manifest, StatusPhase, rejects_new_protocol_messages, Phases
    <2>3. CASE WriteFrame \/ open \/ Exit \/ Quiet
      BY <2>3 DEF WriteFrame, open, Exit, Quiet
    <2> QED
      BY <1>4, <2>1, <2>2, <2>3, StepKinds
  <1>5. TypeOK /\ PhaseStored /\ [Next]_vars =>
          [ /\ Rank[phase'] >= Rank[phase]
            /\ rejects_new_protocol_messages(phase) => UNCHANGED <<bodies, signed>> ]_vars
    BY <1>3, <1>4
  <1> QED
    BY <1>1, <1>2, <1>5, TypeCorrect, PTL DEF Spec, PhaseForward
=============================================================================
