-------------------------- MODULE TransferOperation --------------------------
(***************************************************************************)
(* Solo transfers of the account wallet (opencsv-ffi::account) from        *)
(* transfer_plan to the first observation of the broadcast transaction.    *)
(*                                                                         *)
(* Every call runs under the account mutex, except that the proof itself   *)
(* runs outside it (opencsv_operation_prove): begin_proof_job leaves a job *)
(* in a host thread, and other calls interleave before that thread comes   *)
(* back with finish_proof_job or fail_proof_job.                           *)
(*                                                                         *)
(* A call that makes several durable writes is split at them.  Its first   *)
(* write is the action named after it; `step` holds the next write that *)
(* it has still to make, no other call starts meanwhile, and the process   *)
(* may die between any two of them.                                        *)
(*                                                                         *)
(* A transfer spends one OpenCSV coin and one Bitcoin fee outpoint.  The   *)
(* selection order is left open: any free coin, any free outpoint.         *)
(***************************************************************************)
EXTENDS FiniteSets

CONSTANTS
    Operations,   \* operation ids
    Outpoints,    \* confirmed fee outputs of the wallet
    Coins,        \* OpenCSV coins of the wallet
    Threads,      \* host threads that call opencsv_operation_prove
    Reenter,      \* operations that two host threads may prove at once
    MayCrash,     \* may the process die inside a call or a proof?
    None

States == {"none", "planned", "fee_reserved", "proof_ready", "signed_persisted",
           "broadcast_unobserved", "mempool", "cancelled"}

\* Durable writes that a call makes after its first one, and the relay of a transaction.
Writes == {"lock", "lease", "unlock", "delete_row", "cancel", "drop_lease", "stage",
           "apply", "relay", "record"}

ASSUME TransferAssumption ==
    /\ None \notin Operations \cup Outpoints \cup Coins \cup Writes
    /\ Reenter \subseteq Operations
    /\ MayCrash \in BOOLEAN

VARIABLES
    state,        \* opencsv_operations.state
    funding,      \* .funding_txid and .funding_vout, never cleared
    export,       \* .pending_json: the coin that the proof spends
    acked,        \* .backup_acked
    ready,        \* .receipt_json, its delivery_ready
    reservation,  \* opencsv_utxo_reservations: the outpoint of an operation's row
    lease,        \* opencsv_account_meta: active_proof_operation
    locked,       \* outpoints locked in the BDK wallet
    unspent,      \* outpoints that the BDK wallet lists as unspent
    pending,      \* memory: pending_by_operation and the wallet's pending entry
    spent,        \* memory: coins that the wallet has marked spent
    job,          \* memory: the proof that a thread is computing
    step,         \* memory: the call in progress and the writes that it still owes
    relayed       \* operations whose transaction was given to the network

rows == <<state, funding, export, acked, ready>>
claims == <<reservation, lease, locked, unspent>>
memory == <<pending, spent, job>>
vars == <<rows, claims, memory, step, relayed>>

\* The call in progress is for op (proved by thread t) and its next write is w; each
\* write names the one that follows it.
Owes(op, t, w) == [op |-> op, thread |-> t, write |-> w]
Idle == Owes(None, None, None)

\* States of an operation whose transaction may have left the wallet.
Signed == {"signed_persisted", "broadcast_unobserved", "mempool"}

TypeOK ==
    /\ state \in [Operations -> States]
    /\ funding \in [Operations -> Outpoints \cup {None}]
    /\ export \in [Operations -> Coins \cup {None}]
    /\ acked \in [Operations -> BOOLEAN]
    /\ ready \in [Operations -> BOOLEAN]
    /\ reservation \in [Operations -> Outpoints \cup {None}]
    /\ lease \in Operations \cup {None}
    /\ locked \subseteq Outpoints
    /\ unspent \subseteq Outpoints
    /\ pending \in [Operations -> Coins \cup {None}]
    /\ spent \subseteq Coins
    /\ job \in [Threads -> [op : Operations, outpoint : Outpoints, coin : Coins \cup {None}]
                           \cup {None}]
    /\ step \in [op : Operations \cup {None}, thread : Threads \cup {None}, write : Writes \cup {None}]
    /\ relayed \subseteq Operations

Init ==
    /\ state = [op \in Operations |-> "none"]
    /\ funding = [op \in Operations |-> None]
    /\ export = [op \in Operations |-> None]
    /\ acked = [op \in Operations |-> FALSE]
    /\ ready = [op \in Operations |-> FALSE]
    /\ reservation = [op \in Operations |-> None]
    /\ lease = None
    /\ locked = {}
    /\ unspent = Outpoints
    /\ pending = [op \in Operations |-> None]
    /\ spent = {}
    /\ job = [t \in Threads |-> None]
    /\ step = Idle
    /\ relayed = {}

-----------------------------------------------------------------------------
(* Shared pieces of the calls.                                             *)

SetState(op, s) == state' = [state EXCEPT ![op] = s]

\* The account mutex is free: no call is between two of its writes.
Unlocked == step = Idle

\* reject_prebroadcast_operation drops the in-memory proof and then owes the
\* three writes of release_fee_reservation and the state.  It does not look at
\* the state that the operation is in.
RejectPrebroadcast(op) ==
    /\ pending' = [pending EXCEPT ![op] = None]
    /\ step' = Owes(op, None, "unlock")

\* select_transfer_inputs on the snapshot that a job is given: coins that are
\* neither spent nor promised to another pending transaction.
FreeCoins == Coins \ (spent \cup {pending[op] : op \in Operations})
SnapshotCoins == IF FreeCoins = {} THEN {None} ELSE FreeCoins

StartJob(t, op, coin) ==
    job' = [job EXCEPT ![t] = [op |-> op, outpoint |-> funding[op], coin |-> coin]]

\* Mutant: the reservation rows of other operations are not looked at.
UnlockedOutpoints == unspent \ locked

\* reserve_fee_utxo: unlocked outputs, minus those the INSERT OR IGNORE finds taken
\* (the row's primary key is the outpoint).
FreeOutpoints == (unspent \ locked) \ {reservation[op] : op \in Operations}

\* reserved_funding_for_operation, and the same two checks before signing.  The lock
\* says that the outpoint is reserved, not by which operation.
FundingUsable(op) == funding[op] \in locked /\ funding[op] \in unspent

-----------------------------------------------------------------------------
(* Planning and proving.                                                   *)

TransferPlan(op) ==
    /\ Unlocked
    /\ state[op] = "none"
    /\ SetState(op, "planned")
    /\ UNCHANGED <<funding, export, acked, ready, claims, memory, step, relayed>>

\* Guards of begin_proof_job that every branch below shares.
MayBegin(t, op) ==
    /\ Unlocked
    /\ job[t] = None
    /\ (\E u \in Threads : job[u] # None /\ job[u].op = op) => op \in Reenter
    /\ lease \in {None, op}

BeginReserve(t, op) ==
    /\ MayBegin(t, op)
    /\ state[op] = "planned"
    /\ \E o \in FreeOutpoints :
        /\ reservation' = [reservation EXCEPT ![op] = o]
        /\ funding' = [funding EXCEPT ![op] = o]
    /\ SetState(op, "fee_reserved")
    /\ step' = Owes(op, t, "lock")
    /\ UNCHANGED <<export, acked, ready, lease, locked, unspent, memory, relayed>>

\* Mutant: a planned operation is proved as if its fee were reserved.
BeginUnreserved(t, op) ==
    /\ MayBegin(t, op)
    /\ state[op] \in {"planned", "fee_reserved"}
    /\ lease' = op
    /\ \E coin \in SnapshotCoins : StartJob(t, op, coin)
    /\ UNCHANGED <<rows, reservation, locked, unspent, pending, spent, step, relayed>>

BeginResume(t, op) ==
    /\ MayBegin(t, op)
    /\ state[op] = "fee_reserved"
    /\ FundingUsable(op)
    /\ lease' = op
    /\ \E coin \in SnapshotCoins : StartJob(t, op, coin)
    /\ UNCHANGED <<rows, reservation, locked, unspent, pending, spent, step, relayed>>

BeginRejected(t, op) ==
    /\ MayBegin(t, op)
    /\ \/ state[op] = "planned" /\ FreeOutpoints = {}
       \/ state[op] = "fee_reserved" /\ ~FundingUsable(op)
    /\ RejectPrebroadcast(op)
    /\ UNCHANGED <<rows, claims, spent, job, relayed>>

WriteLock ==
    /\ step.write = "lock"
    /\ locked' = locked \cup {funding[step.op]}
    /\ step' = [step EXCEPT !.write = "lease"]
    /\ UNCHANGED <<rows, reservation, lease, unspent, memory, relayed>>

WriteLease ==
    /\ step.write = "lease"
    /\ lease' = step.op
    /\ \E coin \in SnapshotCoins : StartJob(step.thread, step.op, coin)
    /\ step' = Idle
    /\ UNCHANGED <<rows, reservation, locked, unspent, pending, spent, relayed>>

\* Mutant: the coin is not checked again when the job comes back.
JobUnchanged(j) ==
    /\ state[j.op] = "fee_reserved"
    /\ funding[j.op] = j.outpoint

\* The live state still agrees with what the job was given: the operation and its fee
\* outpoint are unchanged, and its coin is neither spent nor promised meanwhile.
JobCurrent(j) ==
    /\ state[j.op] = "fee_reserved"
    /\ funding[j.op] = j.outpoint
    /\ j.coin \in FreeCoins

FinishAlreadyReady(t) ==
    /\ Unlocked
    /\ job[t] # None /\ job[t].coin # None
    /\ state[job[t].op] = "proof_ready"
    /\ lease' = None
    /\ job' = [job EXCEPT ![t] = None]
    /\ UNCHANGED <<rows, reservation, locked, unspent, pending, spent, step, relayed>>

FinishStale(t) ==
    /\ Unlocked
    /\ job[t] # None /\ job[t].coin # None
    /\ state[job[t].op] # "proof_ready"
    /\ lease # job[t].op
    /\ job' = [job EXCEPT ![t] = None]
    /\ UNCHANGED <<rows, claims, pending, spent, step, relayed>>

FinishInstall(t) ==
    /\ Unlocked
    /\ job[t] # None /\ job[t].coin # None
    /\ lease = job[t].op
    /\ JobCurrent(job[t])
    /\ pending' = [pending EXCEPT ![job[t].op] = job[t].coin]
    /\ export' = [export EXCEPT ![job[t].op] = job[t].coin]
    /\ SetState(job[t].op, "proof_ready")
    /\ step' = Owes(job[t].op, None, "drop_lease")
    /\ job' = [job EXCEPT ![t] = None]
    /\ UNCHANGED <<funding, acked, ready, claims, spent, relayed>>

FinishRejected(t) ==
    /\ Unlocked
    /\ job[t] # None /\ job[t].coin # None
    /\ state[job[t].op] # "proof_ready"
    /\ lease = job[t].op
    /\ ~JobCurrent(job[t])
    /\ lease' = None
    /\ RejectPrebroadcast(job[t].op)
    /\ job' = [job EXCEPT ![t] = None]
    /\ UNCHANGED <<rows, reservation, locked, unspent, spent, relayed>>

\* fail_proof_job after an outage: only the lease goes, whoever holds it.
FailRetryable(t) ==
    /\ Unlocked
    /\ job[t] # None
    /\ lease' = None
    /\ job' = [job EXCEPT ![t] = None]
    /\ UNCHANGED <<rows, reservation, locked, unspent, pending, spent, step, relayed>>

\* fail_proof_job after a contradiction: fail_prebroadcast, whatever has become of
\* the operation while the proof ran.
FailTerminal(t) ==
    /\ Unlocked
    /\ job[t] # None
    /\ lease' = None
    /\ RejectPrebroadcast(job[t].op)
    /\ job' = [job EXCEPT ![t] = None]
    /\ UNCHANGED <<rows, reservation, locked, unspent, spent, relayed>>

WriteDropLease ==
    /\ step.write = "drop_lease"
    /\ lease' = None
    /\ step' = [step EXCEPT !.write = "stage"]
    /\ UNCHANGED <<rows, reservation, locked, unspent, memory, relayed>>

\* prepared_receipt: a fresh checkpoint is staged and no backup has acknowledged it.
WriteStage ==
    /\ step.write = "stage"
    /\ acked' = [acked EXCEPT ![step.op] = FALSE]
    /\ step' = Idle
    /\ UNCHANGED <<state, funding, export, ready, claims, memory, relayed>>

-----------------------------------------------------------------------------
(* Cancellation.                                                           *)

\* Mutant: a signed operation that was not yet recorded as broadcast is cancelled.
CancelSigned(op) ==
    /\ Unlocked
    /\ state[op] \in {"planned", "fee_reserved", "proof_ready", "signed_persisted"}
    /\ lease' = IF lease = op THEN None ELSE lease
    /\ RejectPrebroadcast(op)
    /\ UNCHANGED <<rows, reservation, locked, unspent, spent, job, relayed>>

CancelOperation(op) ==
    /\ Unlocked
    /\ state[op] \in {"planned", "fee_reserved", "proof_ready"}
    /\ lease' = IF lease = op THEN None ELSE lease
    /\ RejectPrebroadcast(op)
    /\ UNCHANGED <<rows, reservation, locked, unspent, spent, job, relayed>>

\* release_fee_reservation unlocks the outpoint in the operation's own columns, also
\* when the operation no longer has a reservation.
WriteUnlock ==
    /\ step.write = "unlock"
    /\ locked' = locked \ {funding[step.op]}
    /\ step' = [step EXCEPT !.write = "delete_row"]
    /\ UNCHANGED <<rows, reservation, lease, unspent, memory, relayed>>

WriteDeleteRow ==
    /\ step.write = "delete_row"
    /\ reservation' = [reservation EXCEPT ![step.op] = None]
    /\ step' = [step EXCEPT !.write = "cancel"]
    /\ UNCHANGED <<rows, lease, locked, unspent, memory, relayed>>

WriteCancel ==
    /\ step.write = "cancel"
    /\ SetState(step.op, "cancelled")
    /\ step' = Idle
    /\ UNCHANGED <<funding, export, acked, ready, claims, memory, relayed>>

-----------------------------------------------------------------------------
(* Backup acknowledgement, signature, broadcast.                           *)

AcknowledgeOperationBackup(op) ==
    /\ Unlocked
    /\ state[op] = "proof_ready"
    /\ acked' = [acked EXCEPT ![op] = TRUE]
    /\ UNCHANGED <<state, funding, export, ready, claims, memory, step, relayed>>

MaySign(op) ==
    /\ Unlocked
    /\ state[op] = "proof_ready"
    /\ acked[op]
    /\ FundingUsable(op)
    /\ pending[op] # None

SignAndBroadcast(op) ==
    /\ MaySign(op)
    /\ SetState(op, "signed_persisted")
    /\ step' = Owes(op, None, "apply")
    /\ UNCHANGED <<funding, export, acked, ready, claims, memory, relayed>>

\* The scan contradicts the proof's input: verify_protocol_inputs_unspent.
SignRejected(op) ==
    /\ MaySign(op)
    /\ RejectPrebroadcast(op)
    /\ UNCHANGED <<rows, claims, spent, job, relayed>>

WriteApply ==
    /\ step.write = "apply"
    /\ unspent' = unspent \ {funding[step.op]}
    /\ step' = [step EXCEPT !.write = "relay"]
    /\ UNCHANGED <<rows, reservation, lease, locked, memory, relayed>>

WriteRelay ==
    /\ step.write = "relay"
    /\ relayed' = relayed \cup {step.op}
    /\ step' = [step EXCEPT !.write = "record"]
    /\ UNCHANGED <<rows, claims, memory>>

WriteRecord ==
    /\ step.write = "record"
    /\ SetState(step.op, "broadcast_unobserved")
    /\ step' = Idle
    /\ UNCHANGED <<funding, export, acked, ready, claims, memory, relayed>>

ResumeOperation(op) ==
    /\ Unlocked
    /\ state[op] \in {"signed_persisted", "broadcast_unobserved"}
    /\ step' = Owes(op, None, "relay")
    /\ UNCHANGED <<rows, claims, memory, relayed>>

-----------------------------------------------------------------------------
(* Observation and reopening.                                              *)

\* finalize_observed_operation: the pending proof becomes the consignment and its
\* coin is spent.
Observe(op) ==
    /\ Unlocked
    /\ op \in relayed
    /\ state[op] \in {"signed_persisted", "broadcast_unobserved"}
    /\ pending[op] # None
    /\ SetState(op, "mempool")
    /\ ready' = [ready EXCEPT ![op] = TRUE]
    /\ pending' = [pending EXCEPT ![op] = None]
    /\ spent' = spent \cup {pending[op]}
    /\ UNCHANGED <<funding, export, acked, claims, job, step, relayed>>

\* refresh_operation: the transaction is back and its consignment was already made.
ObserveAgain(op) ==
    /\ Unlocked
    /\ op \in relayed
    /\ state[op] \in {"signed_persisted", "broadcast_unobserved"}
    /\ ready[op]
    /\ SetState(op, "mempool")
    /\ UNCHANGED <<funding, export, acked, ready, claims, memory, step, relayed>>

\* refresh_operation: the explorer no longer returns the transaction.
LoseSight(op) ==
    /\ Unlocked
    /\ state[op] \in Signed
    /\ SetState(op, "broadcast_unobserved")
    /\ UNCHANGED <<funding, export, acked, ready, claims, memory, step, relayed>>

\* Mutant: only signed operations get their proof back.
RestoredSigned(op) ==
    IF state[op] \in {"signed_persisted", "broadcast_unobserved"} THEN export[op] ELSE None

\* restore_pending_operations.
RestoredPending(op) ==
    IF state[op] \in {"proof_ready", "signed_persisted", "broadcast_unobserved"}
    THEN export[op] ELSE None

\* The process ends, between calls or (MayCrash) inside one, and AccountWallet::open
\* rebuilds the memory: finalized operations spend their coin again, signed or proved
\* ones hold it, and every reservation row is locked again.
Reopen ==
    /\ (~Unlocked \/ \E t \in Threads : job[t] # None) => MayCrash
    /\ spent' = {export[op] : op \in {o \in Operations : state[o] = "mempool"}}
    /\ pending' = [op \in Operations |-> RestoredPending(op)]
    /\ locked' = locked \cup ({reservation[op] : op \in Operations} \ {None})
    /\ job' = [t \in Threads |-> None]
    /\ step' = Idle
    /\ UNCHANGED <<rows, reservation, lease, unspent, relayed>>

-----------------------------------------------------------------------------

\* A thread comes back from its proof.
JobEnds(t) == FinishAlreadyReady(t) \/ FinishStale(t) \/ FinishInstall(t)
              \/ FinishRejected(t) \/ FailRetryable(t) \/ FailTerminal(t)

\* The call in progress makes its next write.
NextWrite == WriteLock \/ WriteLease \/ WriteDropLease \/ WriteStage \/ WriteUnlock
             \/ WriteDeleteRow \/ WriteCancel \/ WriteApply \/ WriteRelay \/ WriteRecord

Next ==
    \/ \E op \in Operations :
        \/ TransferPlan(op)
        \/ CancelOperation(op)
        \/ AcknowledgeOperationBackup(op)
        \/ SignAndBroadcast(op)
        \/ SignRejected(op)
        \/ ResumeOperation(op)
        \/ Observe(op)
        \/ ObserveAgain(op)
        \/ LoseSight(op)
    \/ \E t \in Threads, op \in Operations :
        BeginReserve(t, op) \/ BeginResume(t, op) \/ BeginRejected(t, op)
    \/ \E t \in Threads : JobEnds(t)
    \/ NextWrite
    \/ Reopen

Spec == Init /\ [][Next]_vars

-----------------------------------------------------------------------------
(* Properties.                                                             *)

\* No coin is promised to two payments (pending_spend_conflicts, pending_spends_available;
\* restore_pending_operations and restore_finalized_operations after a restart): proofs
\* made from snapshots, by threads that finish in any order, and memory rebuilt in any
\* state never let a second operation hold a coin that a proved or signed one holds.
CoinExclusive ==
    \A a, b \in {op \in Operations : state[op] \in Signed \cup {"proof_ready"}} :
        a # b => export[a] # export[b]

\* What is on the network is what the journal says was signed (sign_and_broadcast
\* commits SignedPersisted before any socket or HTTP write, and cancellation is for
\* operations that no broadcast was attempted for): a relayed operation is in a
\* signed state, whatever crashes and late proof jobs do.  The exception is an operation
\* that two threads prove: the thread that fails late cancels what the other one signed.
PublishedIsSigned ==
    \A op \in relayed \ Reenter : state[op] \in Signed

\* sign_and_broadcast signs with a fee outpoint that is reserved for this operation and
\* for no other one, although all that it checks is that some operation has the outpoint
\* locked (reserve_fee_utxo_matching, release_fee_reservation).  The exception is an
\* operation that lost its row to a cancellation which a crash cut short.
SignsOwnReservation ==
    [][\A op \in Operations :
         (state[op] = "proof_ready" /\ state'[op] = "signed_persisted" /\ reservation[op] # None)
            => \A other \in Operations : reservation[other] = funding[op] <=> other = op]_vars

-----------------------------------------------------------------------------
(* What documents or comments promise and the code does not keep; TLC       *)
(* refutes it in the run transfer_lease (README, Findings).                 *)

\* A lease that a crashed prover left behind can be freed (begin_proof_job,
\* cancel_operation): while nothing runs, the operation that holds it can still be proved
\* again or cancelled, and does not keep every other operation from being proved for ever.
LeaseReclaimable ==
    Unlocked /\ lease # None /\ (\A t \in Threads : job[t] = None)
        => state[lease] \in {"planned", "fee_reserved", "proof_ready"}
=============================================================================
