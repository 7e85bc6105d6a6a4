------------------------- MODULE OperationSettlement -------------------------
(***************************************************************************)
(* One signed operation of the account wallet (opencsv-ffi::account) from  *)
(* its first broadcast to settlement: observation, fee replacement,        *)
(* delivery of its consignment over Signal, SPV confirmation, reorgs.      *)
(*                                                                         *)
(* Every fee bump signs another version of the operation's transaction;    *)
(* all of them spend the same fee input, so at most one is ever mined.  A  *)
(* consignment names the txid that anchors it, and is modelled by that     *)
(* version.  A delivery nonce is modelled by the version it was drawn for. *)
(*                                                                         *)
(* The account has the ConfirmedSpv check enabled (the default), so that   *)
(* only the scan settles; RawRequired says whether a raw-transaction API   *)
(* is in mode Require (the default of signet and mainnet).                 *)
(***************************************************************************)
EXTENDS Naturals

CONSTANTS
    MaxBumps,     \* bound: fee bumps of the operation
    RawRequired,  \* is a raw-transaction observer in mode Require?
    None

Versions == 0..MaxBumps
Settled == {"confirmed", "consignment_delivered"}
Resumable == {"signed_persisted", "broadcast_unobserved"}

Deliveries == [consignment : Versions, nonce : Versions, delivered : BOOLEAN]

ASSUME SettlementAssumption ==
    /\ MaxBumps \in Nat
    /\ RawRequired \in BOOLEAN
    /\ None \notin Versions /\ None \notin Deliveries /\ None \notin {"relay", "record"}

VARIABLES
    state,     \* opencsv_operations.state
    tx,        \* .signed_tx_hex and .txid
    nonce,     \* .delivery_nonce
    receipt,   \* .receipt_json: what its fields below hold
    backup,    \* opencsv_account_meta: backup_verified
    pending,   \* memory: the proof is in pending_by_operation
    step,      \* memory: the next write of the call in progress
    last,      \* versions signed so far, less one
    relayed,   \* versions given to the network
    seen,      \* the version that explorers and raw observers return
    mined,     \* the version in a block that the verified scan accepts
    sent       \* what Signal has sent: consignments with their nonces

row == <<state, tx, nonce, receipt>>
network == <<relayed, seen, mined, sent>>
vars == <<row, backup, pending, step, last, network>>

TypeOK ==
    /\ state \in Resumable \cup Settled \cup {"mempool"}
    /\ tx \in Versions
    /\ nonce \in Versions
    /\ receipt \in [replaces : Versions \cup {None}, consignment : Versions \cup {None},
                    delivered : BOOLEAN, prior : Deliveries \cup {None}]
    /\ backup \in BOOLEAN
    /\ pending \in BOOLEAN
    /\ step \in {"relay", "record", None}
    /\ last \in Versions
    /\ relayed \subseteq Versions
    /\ seen \in Versions \cup {None}
    /\ mined \in Versions \cup {None}
    /\ sent \subseteq [consignment : Versions, nonce : Versions]

\* sign_and_broadcast has just committed the first version and goes on to relay it.
Init ==
    /\ state = "signed_persisted"
    /\ tx = 0
    /\ nonce = 0
    /\ receipt = [replaces |-> None, consignment |-> None, delivered |-> FALSE, prior |-> None]
    /\ backup = TRUE
    /\ pending = TRUE
    /\ step = "relay"
    /\ last = 0
    /\ relayed = {}
    /\ seen = None
    /\ mined = None
    /\ sent = {}

\* The account mutex is free.
Unlocked == step = None

-----------------------------------------------------------------------------
(* Broadcast and fee replacement.                                          *)

WriteRelay ==
    /\ step = "relay"
    /\ relayed' = relayed \cup {tx}
    /\ step' = "record"
    /\ UNCHANGED <<row, backup, pending, last, seen, mined, sent>>

WriteRecord ==
    /\ step = "record"
    /\ state' = "broadcast_unobserved"
    /\ step' = None
    /\ UNCHANGED <<tx, nonce, receipt, backup, pending, last, network>>

\* Mutant: the receipt keeps the consignment of the replaced version.
ReceiptKept ==
    [receipt EXCEPT !.replaces = tx]

\* replacement_delivery_snapshot, and the fields that persist_signed_replacement drops.
ReplacementReceipt ==
    [replaces |-> tx,
     consignment |-> None,
     delivered |-> FALSE,
     prior |-> IF receipt.consignment = None THEN receipt.prior
               ELSE [consignment |-> receipt.consignment, nonce |-> nonce,
                     delivered |-> receipt.delivered]]

\* Mutant: the acknowledgement nonce survives the replacement.
KeptNonce == nonce

\* persist_signed_replacement rotates the nonce.
ReplacementNonce == last + 1

\* fee_bump: the funding verifier has found no spend of the fee input in a block, and the
\* replacement is committed, with the proof imported again, before it is relayed.
FeeBump ==
    /\ Unlocked
    /\ backup
    /\ state \in {"broadcast_unobserved", "mempool"}
    /\ mined = None
    /\ last < MaxBumps
    /\ last' = last + 1
    /\ tx' = last + 1
    /\ nonce' = ReplacementNonce
    /\ receipt' = ReplacementReceipt
    /\ state' = "signed_persisted"
    /\ pending' = TRUE
    /\ step' = "relay"
    /\ UNCHANGED <<backup, network>>

\* Mutant: the replacement's own confirmation is looked up.
ReplacementMined == receipt.replaces # None /\ mined = tx

\* reconcile_confirmed_replacement: the version that this one replaces is mined.
ReplacedMined == receipt.replaces # None /\ mined = receipt.replaces

\* restore_pre_replacement_delivery.
RestoredReceipt ==
    IF receipt.prior = None
    THEN [replaces |-> None, consignment |-> None, delivered |-> FALSE, prior |-> None]
    ELSE [replaces |-> None, consignment |-> receipt.prior.consignment,
          delivered |-> receipt.prior.delivered, prior |-> None]

ResumeReconcile ==
    /\ Unlocked
    /\ state \in Resumable
    /\ ReplacedMined
    /\ tx' = receipt.replaces
    /\ receipt' = RestoredReceipt
    /\ nonce' = IF receipt.prior = None THEN nonce ELSE receipt.prior.nonce
    /\ state' = "broadcast_unobserved"
    /\ UNCHANGED <<backup, pending, step, last, network>>

ResumeRelay ==
    /\ Unlocked
    /\ state \in Resumable
    /\ ~ReplacedMined
    /\ step' = "relay"
    /\ UNCHANGED <<row, backup, pending, last, network>>

-----------------------------------------------------------------------------
(* Observation and settlement.                                             *)

\* finalize_observed_operation: the pending proof becomes the consignment of tx.
Finalize ==
    /\ pending
    /\ receipt' = [receipt EXCEPT !.consignment = tx]
    /\ pending' = FALSE

\* observe_operation_unconfirmed; in mempool it changes nothing more.
ObserveUnconfirmed ==
    /\ Unlocked
    /\ state \in Resumable
    /\ seen = tx
    /\ Finalize
    /\ state' = "mempool"
    /\ UNCHANGED <<tx, nonce, backup, step, last, network>>

\* refresh_operation asks an explorer, unless raw observers are required.
MayRefresh ==
    /\ Unlocked
    /\ state # "consignment_delivered"
    /\ RawRequired => state = "confirmed"

RefreshUnobserved ==
    /\ MayRefresh
    /\ seen # tx
    /\ state' = "broadcast_unobserved"
    /\ UNCHANGED <<tx, nonce, receipt, backup, pending, step, last, network>>

RefreshFinalized ==
    /\ MayRefresh
    /\ seen = tx
    /\ state \in Resumable
    /\ receipt.consignment # None
    /\ state' = "mempool"
    /\ UNCHANGED <<tx, nonce, receipt, backup, pending, step, last, network>>

RefreshFinalizes ==
    /\ MayRefresh
    /\ seen = tx
    /\ state \in Resumable
    /\ receipt.consignment = None
    /\ Finalize
    /\ state' = "mempool"
    /\ UNCHANGED <<tx, nonce, backup, step, last, network>>

\* scan_verify_outgoing_operation accepts a consignment whose anchor is mined.
ScanVerifies(v) == v = mined

\* refresh_operation_spv with the consignment in the receipt.
RefreshSpvSettles ==
    /\ Unlocked
    /\ receipt.consignment # None
    /\ ScanVerifies(receipt.consignment)
    /\ state' = IF receipt.delivered THEN "consignment_delivered" ELSE "confirmed"
    /\ UNCHANGED <<tx, nonce, receipt, backup, pending, step, last, network>>

\* refresh_operation_spv without one: spv_consignment_candidate builds it on a clone and
\* install_spv_finalized_candidate keeps it when the scan accepts it.
RefreshSpvInstalls ==
    /\ Unlocked
    /\ receipt.consignment = None
    /\ state \in Resumable
    /\ ScanVerifies(tx)
    /\ Finalize
    /\ state' = "confirmed"
    /\ UNCHANGED <<tx, nonce, backup, step, last, network>>

\* refresh_operation_spv after a reorg: settlement is withdrawn, and writes are frozen
\* until the backup is refreshed.
RefreshSpvDemotes ==
    /\ Unlocked
    /\ state \in Settled
    /\ receipt.consignment # None
    /\ ~ScanVerifies(receipt.consignment)
    /\ state' = IF receipt.delivered THEN "mempool" ELSE "broadcast_unobserved"
    /\ backup' = FALSE
    /\ UNCHANGED <<tx, nonce, receipt, pending, step, last, network>>

RefreshSpv == RefreshSpvSettles \/ RefreshSpvInstalls \/ RefreshSpvDemotes
RefreshOperation == RefreshUnobserved \/ RefreshFinalized \/ RefreshFinalizes
ResumeOperation == ResumeReconcile \/ ResumeRelay
NextWrite == WriteRelay \/ WriteRecord

-----------------------------------------------------------------------------
(* Delivery, backup, reopening.                                            *)

\* The host sends the attachment of an observed operation (external: Signal).
Send ==
    /\ Unlocked
    /\ state \in {"mempool", "confirmed"}
    /\ receipt.consignment # None
    /\ sent' = sent \cup {[consignment |-> receipt.consignment, nonce |-> nonce]}
    /\ UNCHANGED <<row, backup, pending, step, last, relayed, seen, mined>>

\* mark_consignment_delivered: an acknowledgement arrives, however late.
MarkConsignmentDelivered ==
    /\ Unlocked
    /\ \E message \in sent : message.nonce = nonce
    /\ ~receipt.delivered
    /\ state \in {"mempool", "confirmed"}
    /\ receipt' = [receipt EXCEPT !.delivered = TRUE]
    /\ state' = IF state = "confirmed" THEN "consignment_delivered" ELSE "mempool"
    /\ UNCHANGED <<tx, nonce, backup, pending, step, last, network>>

SetBackupState ==
    /\ Unlocked
    /\ backup' \in BOOLEAN
    /\ UNCHANGED <<row, pending, step, last, network>>

\* The process ends anywhere and AccountWallet::open rebuilds the memory.  It refuses an
\* account whose finalized operation does not replay to the consignment in its receipt.
Reopen ==
    /\ state \notin Resumable => receipt.consignment = tx
    /\ pending' = (state \in Resumable)
    /\ step' = None
    /\ UNCHANGED <<row, backup, last, network>>

-----------------------------------------------------------------------------
(* The Bitcoin network (external).                                         *)

\* Mempools take up, replace or drop versions.
Relay ==
    /\ mined = None
    /\ seen' \in relayed \cup {None}
    /\ UNCHANGED <<row, backup, pending, step, last, relayed, mined, sent>>

Mine ==
    /\ mined = None
    /\ \E v \in relayed : mined' = v /\ seen' = v
    /\ UNCHANGED <<row, backup, pending, step, last, relayed, sent>>

Reorg ==
    /\ mined # None
    /\ mined' = None
    /\ UNCHANGED <<row, backup, pending, step, last, relayed, seen, sent>>

-----------------------------------------------------------------------------

Next ==
    \/ NextWrite \/ FeeBump \/ ResumeOperation
    \/ ObserveUnconfirmed \/ RefreshOperation \/ RefreshSpv
    \/ Send \/ MarkConsignmentDelivered \/ SetBackupState \/ Reopen
    \/ Relay \/ Mine \/ Reorg

\* The host keeps polling (status, resume and refresh_spv), each call gets the mutex if it
\* is free again and again, and the phone restarts the app now and then.
Fairness ==
    /\ WF_vars(NextWrite)
    /\ SF_vars(RefreshOperation)
    /\ SF_vars(RefreshSpv)
    /\ SF_vars(ResumeReconcile)
    /\ SF_vars(Reopen)

Spec == Init /\ [][Next]_vars
FairSpec == Spec /\ Fairness

-----------------------------------------------------------------------------
(* Properties.                                                             *)

\* "An operation is finalized only against the exact txid in its consignment"
\* (refresh_operation): the consignment that is delivered and replayed at open names the
\* transaction that the operation is waiting for.
ConsignmentNamesTx ==
    receipt.consignment # None => receipt.consignment = tx

\* "a delayed acknowledgement for the superseded consignment cannot mark this replacement
\* delivered before Signal sends it" (persist_signed_replacement,
\* mark_consignment_delivered): a replacement recorded as delivered has had exactly its
\* present consignment sent, however late the acknowledgements of other versions arrive.
DeliveredWasSent ==
    receipt.replaces # None /\ receipt.delivered
        => [consignment |-> receipt.consignment, nonce |-> nonce] \in sent

\* Only the verified scan settles (refresh_operation_spv: "no host-provided Boolean can
\* move an operation to `confirmed`"): the transaction that becomes confirmed is mined.
SettlesWhatIsMined ==
    [][state \notin Settled /\ state' \in Settled => mined = tx]_vars

\* "Once that transaction or its valid replacement confirms, the state advances": when the
\* transaction that the operation holds, or the one that it replaces, stays mined at last,
\* the operation settles (resume_operation, refresh_operation, refresh_operation_spv),
\* whatever was reorganized before.
MinedSettles ==
    <>[](mined # None /\ mined \in {tx, receipt.replaces}) => <>[](state \in Settled)
=============================================================================
