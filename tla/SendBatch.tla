------------------------------ MODULE SendBatch ------------------------------
(***************************************************************************)
(* Send batches of the account wallet (opencsv-ffi::account): transfers    *)
(* collected in a two-second window, frozen, proved together outside the   *)
(* account mutex, backed up, signed as one transaction, and settled; with  *)
(* the stock that BatchReserves maintains.                                 *)
(*                                                                         *)
(* The host may also prove, sign or cancel a member through the calls for  *)
(* a single operation, which do not look at batch membership.  A call that *)
(* writes member after member may stop at one of them, by an error or by   *)
(* the end of the process (Die); the writes before it stay.                *)
(***************************************************************************)
EXTENDS BatchReserves, Sequences, Functions

CONSTANTS
    Operations,     \* operation ids
    Coins,          \* OpenCSV coins of the wallet
    Threads,        \* host threads that call opencsv_send_batch_prove
    MaxRecipients,  \* MAX_LOCAL_BATCH_RECIPIENTS
    MaxMishaps      \* bound: ends of the process, failed calls, calls for one member

ASSUME SendBatchAssumption ==
    /\ Operations \cap (Reserves \cup Batches) = {}
    /\ None \notin Coins

BatchStates == {"none", "collecting", "solo", "frozen", "proof_ready", "signed_persisted",
                "broadcast_unobserved", "mempool", "confirmed", "cancelled"}
SignedStates == {"signed_persisted", "broadcast_unobserved", "mempool", "confirmed"}
OperationStates == {"none", "planned", "fee_reserved", "proof_ready", "cancelled"} \cup SignedStates

VARIABLES
    batch,      \* opencsv_send_batches
    members,    \* opencsv_send_batch_members in ordinal order
    op,         \* opencsv_operations of the members, and their fee reservations
    active,     \* opencsv_account_meta: active_send_batch
    lease,      \* opencsv_account_meta: active_batch_proof
    clock,      \* per batch: 0 in its window, 1 past its deadline, 2 past its expiry height
    pending,    \* memory: operations in pending_by_operation
    final,      \* memory: operations whose spends the protocol wallet has applied
    job,        \* memory: the batch proof that a thread computes
    solo,       \* memory: the proof of a single operation in another thread
    exported,   \* the checkpoint in the last completed Secure Backup export
    backed,     \* batches whose proofs some completed export held
    signed,     \* transactions signed so far, with what they spend
    mishaps

durable == <<batch, members, op, active, lease>>
memory == <<pending, final, job, solo>>
host == <<clock, exported, backed, mishaps>>
vars == <<reserveVars, durable, memory, host, signed>>

\* A checkpoint is told apart by the batches whose proofs it carries.
Checkpoint == {b \in Batches : batch[b].state = "proof_ready"}

Transactions == ((Reserves \cup Batches) \X Epochs) \cup (Operations \X {0})
BatchRows == [state : BatchStates, epoch : Epochs \cup {None}, acked : BOOLEAN,
              prepared : SUBSET Batches, replaces : Epochs \cup {None}]
OperationRows == [state : OperationStates, coin : Coins \cup {None}, acked : BOOLEAN,
                  fee : {"none", "reserved", "signature_released"}, tx : Transactions \cup {None},
                  ready : Epochs \cup {None}, prior : Epochs \cup {None}]
Jobs == [batch : Batches,
         coins : (UNION {[ops -> Coins] : ops \in SUBSET Operations}) \cup {None}]
Signatures == [tx : Transactions, ops : SUBSET Operations, coins : SUBSET Coins,
               stocks : SUBSET StockIds]

TypeOK ==
    /\ ReserveTypeOK
    /\ relayed \subseteq Transactions /\ mined \subseteq Transactions
    /\ batch \in [Batches -> BatchRows]
    /\ members \in [Batches -> Seq(Operations)]
    /\ op \in [Operations -> OperationRows]
    /\ active \in Batches \cup {None}
    /\ lease \in Batches \cup {None}
    /\ clock \in [Batches -> 0..2]
    /\ pending \subseteq Operations /\ final \subseteq Operations
    /\ job \in [Threads -> Jobs \cup {None}]
    /\ solo \in [op : Operations, coin : Coins] \cup {None}
    /\ exported \subseteq Batches /\ backed \subseteq Batches
    /\ signed \subseteq Signatures
    /\ mishaps \in Nat

Init ==
    /\ ReserveInit
    /\ batch = [b \in Batches |-> [state |-> "none", epoch |-> None, acked |-> FALSE,
                                   prepared |-> {}, replaces |-> None]]
    /\ members = [b \in Batches |-> <<>>]
    /\ op = [o \in Operations |-> [state |-> "none", coin |-> None, acked |-> FALSE, fee |-> "none",
                                   tx |-> None, ready |-> None, prior |-> None]]
    /\ active = None
    /\ lease = None
    /\ clock = [b \in Batches |-> 0]
    /\ pending = {}
    /\ final = {}
    /\ job = [t \in Threads |-> None]
    /\ solo = None
    /\ exported = {}
    /\ backed = {}
    /\ signed = {}
    /\ mishaps = 0

MemberSet(b) == Range(members[b])

Mishap == mishaps < MaxMishaps /\ mishaps' = mishaps + 1

\* restore_finalized_operations and restore_pending_operations at the next open; threads
\* and their jobs are gone.
Die ==
    /\ Mishap
    /\ pending' = {o \in Operations :
                    op'[o].coin # None /\ op'[o].state \in {"proof_ready", "signed_persisted",
                                                            "broadcast_unobserved"}}
    /\ final' = {o \in Operations : op'[o].state \in {"mempool", "confirmed"}}
    /\ job' = [t \in Threads |-> None]
    /\ solo' = None

\* The process goes on; a fee bump has imported the proofs of finalized members again.
Survive(reopened) == pending' = pending \cup reopened /\ UNCHANGED <<final, job, solo>>

\* What a signing call leaves in memory: an error of the relay ends the call, not the process.
AfterCut(cut, reopened) ==
    \/ cut = "done" /\ Survive(reopened) /\ UNCHANGED mishaps
    \/ cut = "persisted" /\ Survive(reopened) /\ Mishap
    \/ cut # "done" /\ Die

Reserve ==
    \E cut \in Cuts :
        /\ ReserveNext(cut)
        /\ UNCHANGED <<durable, signed, clock, exported, backed>>
        /\ AfterCut(cut, {})

-----------------------------------------------------------------------------
(* Collecting and freezing.                                                *)

\* The window that a request without a batch id joins.
OpenWindow(b) ==
    /\ batch[b].state = "collecting"
    /\ clock[b] = 0
    /\ Len(members[b]) < MaxRecipients

PlanMember(b, o) ==
    /\ op[o].state = "none"
    /\ op' = [op EXCEPT ![o].state = "planned"]
    /\ members' = [members EXCEPT ![b] = Append(@, o)]

\* plan_batched_transfer into an open batch, found by active_send_batch or named by
\* transfer_batch_add_recipient.
AddRecipient(b, o) ==
    /\ OpenWindow(b)
    /\ PlanMember(b, o)
    /\ UNCHANGED <<reserveVars, batch, active, lease, memory, host, signed>>

\* plan_batched_transfer without an open window starts a batch.
TransferBatchPlan(b, o) ==
    /\ ~\E w \in Batches : active = w /\ OpenWindow(w)
    /\ batch[b].state = "none"
    /\ batch' = [batch EXCEPT ![b].state = "collecting"]
    /\ PlanMember(b, o)
    /\ active' = b
    /\ UNCHANGED <<reserveVars, lease, memory, host, signed>>

FreezeSendBatch(b) ==
    /\ batch[b].state = "collecting"
    /\ batch' = [batch EXCEPT ![b].state = IF Len(members[b]) = 1 THEN "solo" ELSE "frozen"]
    /\ active' = IF active = b THEN None ELSE active
    /\ UNCHANGED <<reserveVars, members, op, lease, memory, host, signed>>

\* The deadline of the window passes; the proposal's expiry height passes.
Late(b) ==
    /\ \/ batch[b].state = "collecting" /\ clock[b] = 0
       \/ batch[b].state \in {"proof_ready", "mempool"} /\ clock[b] < 2
    /\ clock' = [clock EXCEPT ![b] = IF batch[b].state = "collecting" THEN 1 ELSE 2]
    /\ Mishap
    /\ UNCHANGED <<reserveVars, durable, memory, exported, backed, signed>>

-----------------------------------------------------------------------------
(* Cancellation.                                                           *)

CancelledRow(row) == [row EXCEPT !.state = "cancelled", !.fee = "none"]

\* cancel_operation by the host, of one member.  It clears the lease of its proof.
Cancellable(o) == op[o].state \in {"planned", "fee_reserved", "proof_ready"}

CancelOperation(o) ==
    /\ Mishap
    /\ Cancellable(o)
    /\ op' = [op EXCEPT ![o] = CancelledRow(@)]
    /\ pending' = pending \ {o}
    /\ solo' = IF solo # None /\ solo.op = o THEN None ELSE solo
    /\ UNCHANGED <<reserveVars, batch, members, active, lease, final, job, clock, exported, backed, signed>>

\* The members that cancel_send_batch gets through before one forbids cancellation.
CancelReach(b) ==
    LET stops == {i \in DOMAIN members[b] : op[members[b][i]].state \in SignedStates}
    IN IF stops = {} THEN Len(members[b]) ELSE CHOOSE i \in 0..Len(members[b]) :
            i + 1 \in stops /\ \A j \in stops : i + 1 <= j

FirstMembers(b, k) == {members[b][i] : i \in 1..k}

FreedStock(b) ==
    [s \in StockIds |-> IF stock[s].by = b /\ stock[s].state = "reserved"
                        THEN [stock[s] EXCEPT !.state = "available", !.by = None] ELSE stock[s]]

\* Mutant: the batch is cancelled before its stock is released.
CancelWritesBatchFirst(b, k, cut, heldLease) ==
    /\ lease' = IF heldLease = b THEN None ELSE heldLease
    /\ op' = [o \in Operations |-> IF o \in FirstMembers(b, k) THEN CancelledRow(op[o]) ELSE op[o]]
    /\ stock' = IF cut = "done" THEN FreedStock(b) ELSE stock
    /\ active' = IF cut \in {"stock", "done"} /\ active = b THEN None ELSE active
    /\ batch' = IF cut \in {"stock", "done"} THEN [batch EXCEPT ![b].state = "cancelled"] ELSE batch
    /\ UNCHANGED <<reserve, bumps, relayed, mined, members, clock, exported, backed, signed>>

\* The writes of cancel_send_batch, in their order: the lease, the first k members, and,
\* when no member stops it, the stock (cut "stock") and the batch (cut "done").
CancelWrites(b, k, cut, heldLease) ==
    /\ lease' = IF heldLease = b THEN None ELSE heldLease
    /\ op' = [o \in Operations |-> IF o \in FirstMembers(b, k) THEN CancelledRow(op[o]) ELSE op[o]]
    /\ stock' = IF cut \in {"stock", "done"} THEN FreedStock(b) ELSE stock
    /\ active' = IF cut = "done" /\ active = b THEN None ELSE active
    /\ batch' = IF cut = "done" THEN [batch EXCEPT ![b].state = "cancelled"] ELSE batch
    /\ UNCHANGED <<reserve, bumps, relayed, mined, members, clock, exported, backed, signed>>

BatchCancellable(b) == batch[b].state \notin SignedStates \cup {"none", "cancelled"}

CancelEnd(b) == IF CancelReach(b) = Len(members[b]) THEN "done" ELSE "members"

CancelReturns(b, heldLease) ==
    /\ CancelWrites(b, CancelReach(b), CancelEnd(b), heldLease)
    /\ pending' = pending \ FirstMembers(b, CancelReach(b))
    /\ UNCHANGED final
    /\ solo' = IF solo # None /\ solo.op \in FirstMembers(b, CancelReach(b)) THEN None ELSE solo

\* cancel_send_batch; begin and sign call it too when the reviewed policy has changed.
CancelSendBatch(b) ==
    /\ BatchCancellable(b)
    /\ \/ CancelReturns(b, lease) /\ UNCHANGED <<job, mishaps>>
       \/ \E k \in 0..CancelReach(b) : CancelWrites(b, k, "members", lease) /\ Die
       \/ CancelEnd(b) = "done" /\ CancelWrites(b, Len(members[b]), "stock", lease) /\ Die

-----------------------------------------------------------------------------
(* Proving.                                                                *)

\* Coins that no pending or finalized operation of the protocol wallet spends.
FreeCoins == Coins \ {op[o].coin : o \in pending \cup final}

\* reserve_batch_stock: the batch's own row, or any available one.
StockOf(b) == {s \in StockIds : stock[s].by = b}
AvailableStock == {s \in StockIds : stock[s].state = "available"}

ReserveStock(b) ==
    IF StockOf(b) # {} THEN stock' = stock
    ELSE \E s \in AvailableStock : stock' = [stock EXCEPT ![s] = [@ EXCEPT !.state = "reserved", !.by = b]]

ReserveFees(b, k) ==
    op' = [o \in Operations |->
        IF o \in FirstMembers(b, k) THEN [op[o] EXCEPT !.state = "fee_reserved", !.fee = "reserved"]
        ELSE op[o]]

Reservable(o) == op[o].state \in {"planned", "fee_reserved"}

MayBegin(b, t) ==
    /\ batch[b].state = "frozen"
    /\ job[t] = None
    /\ lease \in {None, b}

\* The proofs of the members take distinct coins of the snapshot; None when it has too few.
CoinChoices(b) ==
    LET choices == {f \in [MemberSet(b) -> FreeCoins] : \A o, p \in MemberSet(b) : f[o] = f[p] => o = p}
    IN IF choices = {} THEN {None} ELSE choices

\* begin_send_batch_proof: stock, one fee output after another, the lease, then the job.
BeginSendBatchProof(b, t) ==
    /\ MayBegin(b, t)
    /\ \A o \in MemberSet(b) : Reservable(o)
    /\ ReserveStock(b)
    /\ ReserveFees(b, Len(members[b]))
    /\ lease' = b
    /\ \E f \in CoinChoices(b) : job' = [job EXCEPT ![t] = [batch |-> b, coins |-> f]]
    /\ UNCHANGED <<reserve, bumps, relayed, mined, batch, members, active, pending, final, solo, host, signed>>

\* It stops at a member without a fee output or in another state, or the process ends.
BeginStops(b, t) ==
    /\ MayBegin(b, t)
    /\ ReserveStock(b)
    /\ \E k \in 0..Len(members[b]) - 1 :
        /\ \A o \in FirstMembers(b, k) : Reservable(o)
        /\ ReserveFees(b, k)
    /\ \/ Mishap /\ UNCHANGED memory
       \/ Die
    /\ UNCHANGED <<reserve, bumps, relayed, mined, batch, members, active, lease, clock, exported, backed, signed>>

EndJob(t) == job' = [job EXCEPT ![t] = None]

\* Mutant: the coins are not checked again.
InstallUnchecked(b, coins) ==
    /\ batch[b].state = "frozen" /\ lease = b
    /\ \E s \in StockOf(b) : stock[s].state = "reserved"
    /\ \A o \in MemberSet(b) : op[o].state = "fee_reserved"

\* What finish_send_batch_proof checks under the mutex: lease, stock, members, coins.
Installable(b, coins) ==
    /\ batch[b].state = "frozen" /\ lease = b
    /\ \E s \in StockOf(b) : stock[s].state = "reserved"
    /\ \A o \in MemberSet(b) : op[o].state = "fee_reserved" /\ coins[o] \in FreeCoins

\* It installs all members, with the checkpoint that Secure Backup has to acknowledge.
FinishSendBatchProof(t) ==
    /\ job[t] # None
    /\ LET b == job[t].batch coins == job[t].coins IN
        /\ coins # None
        /\ IF Installable(b, coins)
           THEN /\ op' = [o \in Operations |-> IF o \in MemberSet(b)
                        THEN [op[o] EXCEPT !.state = "proof_ready", !.coin = coins[o], !.acked = FALSE]
                        ELSE op[o]]
                /\ batch' = [batch EXCEPT ![b] = [@ EXCEPT !.state = "proof_ready", !.acked = FALSE,
                                                                   !.prepared = Checkpoint \cup {b}]]
                /\ lease' = None
                /\ pending' = pending \cup MemberSet(b)
           ELSE /\ lease' = IF batch[b].state = "proof_ready" THEN None ELSE lease
                /\ UNCHANGED <<op, batch, pending>>
    /\ EndJob(t)
    /\ UNCHANGED <<reserveVars, members, active, final, solo, host, signed>>

\* fail_send_batch_proof: whoever holds the lease loses it; an error that is not retryable
\* closes the batch.
FailSendBatchProof(t) ==
    /\ job[t] # None
    /\ EndJob(t)
    /\ Mishap
    /\ \/ /\ lease' = None
          /\ UNCHANGED <<reserveVars, batch, members, op, active, pending, final, solo, clock, exported, backed, signed>>
       \/ BatchCancellable(job[t].batch) /\ CancelReturns(job[t].batch, None)

\* A member proved on its own (begin_proof_job, finish_proof_job; see TransferOperation).
ProveOperation(o) ==
    /\ Mishap
    /\ solo = None
    /\ Reservable(o)
    /\ op' = [op EXCEPT ![o] = [@ EXCEPT !.state = "fee_reserved", !.fee = "reserved"]]
    /\ \E c \in FreeCoins : solo' = [op |-> o, coin |-> c]
    /\ UNCHANGED <<reserveVars, batch, members, active, lease, pending, final, job, clock, exported, backed, signed>>

FinishProof ==
    /\ solo # None
    /\ IF op[solo.op].state = "fee_reserved" /\ solo.coin \in FreeCoins
       THEN /\ op' = [op EXCEPT ![solo.op] = [@ EXCEPT !.state = "proof_ready", !.coin = solo.coin,
                                                          !.acked = FALSE]]
            /\ pending' = pending \cup {solo.op}
       ELSE UNCHANGED <<op, pending>>
    /\ solo' = None
    /\ UNCHANGED <<reserveVars, batch, members, active, lease, final, job, host, signed>>

-----------------------------------------------------------------------------
(* Backup and signing.                                                     *)

\* Signal completes the export of the wallet's present checkpoint.
Export ==
    /\ exported # Checkpoint
    /\ exported' = Checkpoint
    /\ backed' = backed \cup Checkpoint
    /\ UNCHANGED <<reserveVars, durable, memory, clock, mishaps, signed>>

\* The acknowledged hash is the batch's own prepared checkpoint or the current one.
AckMatches(b) == exported \in {batch[b].prepared, Checkpoint}

AcknowledgeSendBatchBackup(b) ==
    /\ batch[b].state = "proof_ready"
    /\ AckMatches(b)
    /\ batch' = [batch EXCEPT ![b] = [@ EXCEPT !.acked = TRUE, !.prepared = exported]]
    /\ op' = [o \in Operations |-> IF o \in MemberSet(b) THEN [op[o] EXCEPT !.acked = TRUE] ELSE op[o]]
    /\ UNCHANGED <<reserveVars, members, active, lease, memory, host, signed>>

\* acknowledge_backup for one operation.
AcknowledgeBackup(o) ==
    /\ op[o].state = "proof_ready" /\ ~op[o].acked
    /\ op' = [op EXCEPT ![o].acked = TRUE]
    /\ UNCHANGED <<reserveVars, batch, members, active, lease, memory, host, signed>>

\* What a checkpoint holds of send batches: those that are not cancelled, the operations that
\* are not, and every stock row.
BackupBatches == {b \in Batches : batch[b].state \notin {"none", "cancelled"}}
BackupOperations == {o \in Operations : op[o].state \notin {"none", "cancelled"}}
BackupStocks == {s \in StockIds : stock[s].state # "absent"}

\* restore_checkpoint refuses the whole checkpoint for stock that two rows have for one batch,
\* or that is reserved by a batch it does not hold.
StockAccepted(s) ==
    stock[s].by # None =>
        /\ stock[s].by \in BackupBatches
        /\ stock[s].state \in {"reserved", "signature_released"}
        /\ \A t \in BackupStocks : stock[t].by = stock[s].by => t = s

\* It also wants one window at most that is collecting, members that it holds, and no
\* operation in two batches.
BatchesAccepted == Cardinality({b \in BackupBatches : batch[b].state = "collecting"}) <= 1

MembersAccepted ==
    \A b \in BackupBatches :
        /\ MemberSet(b) # {} /\ MemberSet(b) \subseteq BackupOperations
        /\ \A c \in BackupBatches : b # c => MemberSet(b) \cap MemberSet(c) = {}

Signature(tx, ops, stocks) ==
    [tx |-> tx, ops |-> ops, coins |-> {op[o].coin : o \in ops}, stocks |-> stocks]

\* sign_and_broadcast_send_batch: the batch, its stock, and every member once more.
Signable(b) ==
    /\ batch[b].state = "proof_ready" /\ batch[b].acked /\ clock[b] < 2
    /\ \E s \in StockOf(b) : stock[s].state = "reserved" /\ stock[s].tx \in mined
    /\ \A o \in MemberSet(b) :
        op[o].state = "proof_ready" /\ op[o].acked /\ op[o].fee = "reserved" /\ o \in pending

SignedMembers(b, epoch, state) ==
    [o \in Operations |-> IF o \in MemberSet(b)
        THEN [op[o] EXCEPT !.state = state, !.tx = <<b, epoch>>, !.fee = "signature_released"]
        ELSE op[o]]

PendingStock(tx) == [tx |-> tx, state |-> "pending", by |-> None]

\* The stock is spent, and output 2 of the batch is the successor.
SignedStocks(b) ==
    [s \in StockIds |->
        CASE s \in StockOf(b) -> [stock[s] EXCEPT !.state = "signature_released"]
          [] s = <<b, 0>> -> PendingStock(<<b, 0>>)
          [] OTHER -> stock[s]]

SignAndBroadcastSendBatch(b, cut) ==
    /\ Signable(b)
    /\ batch' = [batch EXCEPT ![b] = [@ EXCEPT !.state = BroadcastState(cut), !.epoch = 0]]
    /\ op' = SignedMembers(b, 0, BroadcastState(cut))
    /\ stock' = SignedStocks(b)
    /\ signed' = signed \cup {Signature(<<b, 0>>, MemberSet(b), StockOf(b))}
    /\ Broadcast(<<b, 0>>, cut)
    /\ AfterCut(cut, {})
    /\ UNCHANGED <<reserve, bumps, mined, members, active, lease, clock, exported, backed>>

\* sign_and_broadcast of one operation, member of a batch or not.
SignAndBroadcast(o) ==
    /\ op[o].state = "proof_ready" /\ op[o].acked /\ op[o].fee = "reserved" /\ o \in pending
    /\ op' = [op EXCEPT ![o] = [@ EXCEPT !.state = "broadcast_unobserved", !.tx = <<o, 0>>,
                                          !.fee = "signature_released"]]
    /\ signed' = signed \cup {Signature(<<o, 0>>, {o}, {})}
    /\ relayed' = relayed \cup {<<o, 0>>}
    /\ UNCHANGED <<reserve, stock, bumps, mined, batch, members, active, lease, memory, host>>

-----------------------------------------------------------------------------
(* Observation, replacement and settlement.                                *)

BatchTx(b) == <<b, batch[b].epoch>>

\* finalize_observed_operation on the first k members.
FinalizeMembers(b, k, state) ==
    /\ op' = [o \in Operations |-> IF o \in FirstMembers(b, k)
        THEN [op[o] EXCEPT !.state = state, !.ready = batch[b].epoch] ELSE op[o]]

\* observe_send_batch_unconfirmed: members one by one, each a transaction of its own, and
\* then the batch.  A member without its pending proof stops it.
ObserveSendBatch(b) ==
    /\ batch[b].state \in {"signed_persisted", "broadcast_unobserved"}
    /\ BatchTx(b) \in relayed
    /\ SourceMined(b) => BatchTx(b) \in mined
    /\ \E k \in 0..Len(members[b]) :
        /\ FirstMembers(b, k) \subseteq pending
        /\ FinalizeMembers(b, k, "mempool")
        /\ \/ /\ k = Len(members[b])
              /\ batch' = [batch EXCEPT ![b].state = "mempool"]
              /\ pending' = pending \ MemberSet(b)
              /\ final' = final \cup MemberSet(b)
              /\ UNCHANGED <<job, solo, mishaps>>
           \/ /\ k < Len(members[b]) /\ members[b][k + 1] \notin pending
              /\ pending' = pending \ FirstMembers(b, k)
              /\ final' = final \cup FirstMembers(b, k)
              /\ UNCHANGED <<batch, job, solo, mishaps>>
           \/ UNCHANGED batch /\ Die
    /\ UNCHANGED <<reserveVars, members, active, lease, clock, exported, backed, signed>>

\* What fee_bump_send_batch asks of the batch: every input is unspent in blocks.
BumpableBatch(b) ==
    /\ batch[b].state \in {"broadcast_unobserved", "mempool"}
    /\ clock[b] < 2
    /\ ~SourceMined(b)
    /\ \E s \in StockOf(b) : stock[s].state = "signature_released"

\* And of each member; its proof is imported again when it was finalized.
BumpableMember(o) == op[o].state \in {"broadcast_unobserved", "mempool"}

\* The consignments of the replaced transaction are dropped and kept aside.
BumpedMembers(b, epoch, state) ==
    [o \in Operations |-> IF o \in MemberSet(b)
        THEN [op[o] EXCEPT !.state = state, !.tx = <<b, epoch>>, !.ready = None,
                           !.prior = IF op[o].ready = None THEN op[o].prior ELSE op[o].ready]
        ELSE op[o]]

\* Its successor stock gives way to the new one.
BumpedStocks(b, epoch) ==
    [s \in StockIds |->
        CASE s = <<b, epoch>> -> PendingStock(<<b, epoch>>)
          [] s # <<b, epoch>> /\ stock[s].tx = BatchTx(b) /\ stock[s].state = "pending"
                -> [stock[s] EXCEPT !.state = "invalidated"]
          [] OTHER -> stock[s]]

FeeBumpSendBatch(b, cut) ==
    /\ BumpableBatch(b)
    /\ \A o \in MemberSet(b) : BumpableMember(o)
    /\ bumps < MaxBumps
    /\ bumps' = bumps + 1
    /\ batch' = [batch EXCEPT ![b] = [@ EXCEPT !.state = BroadcastState(cut), !.epoch = bumps + 1,
                                                       !.replaces = batch[b].epoch]]
    /\ op' = BumpedMembers(b, bumps + 1, BroadcastState(cut))
    /\ stock' = BumpedStocks(b, bumps + 1)
    /\ signed' = signed \cup {Signature(<<b, bumps + 1>>, MemberSet(b), StockOf(b))}
    /\ Broadcast(<<b, bumps + 1>>, cut)
    /\ AfterCut(cut, MemberSet(b))
    /\ UNCHANGED <<reserve, mined, members, active, lease, clock, exported, backed>>

ReplacedMined(b) == batch[b].replaces # None /\ <<b, batch[b].replaces>> \in mined

\* The successor rows after the replaced transaction won.
RestoredStocks(b) ==
    [s \in StockIds |->
        CASE stock[s].tx = BatchTx(b) /\ stock[s].state = "pending"
                -> [stock[s] EXCEPT !.state = "invalidated"]
          [] stock[s].tx = <<b, batch[b].replaces>> /\ stock[s].state = "invalidated"
                -> [stock[s] EXCEPT !.state = "pending"]
          [] OTHER -> stock[s]]

\* Mutant: the members keep naming the replacement.
KeptMembers(b) == op

\* Mutant: a consignment of the replacement survives where there was none before it.
KeptConsignments(b) ==
    [o \in Operations |-> IF o \in MemberSet(b)
        THEN [op[o] EXCEPT !.state = "broadcast_unobserved", !.tx = <<b, batch[b].replaces>>,
                           !.ready = IF op[o].prior = None THEN op[o].ready ELSE op[o].prior,
                           !.prior = None]
        ELSE op[o]]

\* The members after the replaced transaction won: their earlier consignments come back.
RestoredMembers(b) ==
    [o \in Operations |-> IF o \in MemberSet(b)
        THEN [op[o] EXCEPT !.state = "broadcast_unobserved", !.tx = <<b, batch[b].replaces>>,
                           !.ready = op[o].prior, !.prior = None]
        ELSE op[o]]

RestoredBatch(b, state) ==
    [batch EXCEPT ![b] = [@ EXCEPT !.state = state, !.epoch = batch[b].replaces, !.replaces = None]]

\* reconcile_confirmed_send_batch_replacement, from resume or refresh.
ReconcileSendBatch(b) ==
    /\ batch[b].state \in {"signed_persisted", "broadcast_unobserved"}
    /\ ReplacedMined(b)
    /\ \A o \in MemberSet(b) : op[o].tx = BatchTx(b)
    /\ batch' = RestoredBatch(b, "broadcast_unobserved")
    /\ op' = RestoredMembers(b)
    /\ stock' = RestoredStocks(b)
    /\ UNCHANGED <<reserve, bumps, relayed, mined, members, active, lease, memory, host, signed>>

\* resume_send_batch: relay again, and put the batch and all its members back to
\* broadcast_unobserved.
ResumeSendBatch(b, cut) ==
    /\ batch[b].state \in {"signed_persisted", "broadcast_unobserved"}
    /\ ~ReplacedMined(b)
    /\ Broadcast(BatchTx(b), cut)
    /\ IF cut = "done"
       THEN /\ batch' = [batch EXCEPT ![b].state = "broadcast_unobserved"]
            /\ op' = [o \in Operations |-> IF o \in MemberSet(b)
                    THEN [op[o] EXCEPT !.state = "broadcast_unobserved"] ELSE op[o]]
       ELSE UNCHANGED <<batch, op>>
    /\ AfterCut(cut, {})
    /\ UNCHANGED <<reserve, stock, bumps, mined, members, active, lease, clock, exported, backed, signed>>

\* refresh_send_batch_spv of an observed batch: every member's consignment is scanned, and
\* when all are settled the batch and its successor stock are.
RefreshSendBatchSpv(b) ==
    /\ batch[b].state = "mempool"
    /\ BatchTx(b) \in mined
    /\ op' = [o \in Operations |-> IF o \in MemberSet(b) THEN [op[o] EXCEPT !.state = "confirmed"] ELSE op[o]]
    /\ batch' = [batch EXCEPT ![b].state = "confirmed"]
    /\ stock' = [s \in StockIds |->
        IF stock[s].tx = BatchTx(b) /\ stock[s].state = "pending" /\ s[1] = b
        THEN [stock[s] EXCEPT !.state = "confirmed"] ELSE stock[s]]
    /\ UNCHANGED <<reserve, bumps, relayed, mined, members, active, lease, memory, host, signed>>

-----------------------------------------------------------------------------
(* The Bitcoin network (external).                                         *)

\* Two signed transactions conflict when they spend a fee output, a stock or an input of
\* one reserve split in common.
SpentBy(tx) == {s \in signed : s.tx = tx}
Conflict(t, u) ==
    \/ t[1] = u[1]
    \/ \E a \in SpentBy(t), c \in SpentBy(u) : a.ops \cap c.ops # {} \/ a.stocks \cap c.stocks # {}

Mine ==
    /\ \E tx \in relayed \ mined :
        /\ \A u \in mined : ~Conflict(tx, u)
        /\ \A a \in SpentBy(tx) : \A s \in a.stocks : stock[s].tx \in mined
        /\ mined' = mined \cup {tx}
    /\ UNCHANGED <<reserve, stock, bumps, relayed, durable, memory, host, signed>>

Stop == UNCHANGED <<reserveVars, durable, clock, exported, backed, signed>> /\ Die

-----------------------------------------------------------------------------

SendBatchStep(b) ==
    \/ \E o \in Operations : AddRecipient(b, o) \/ TransferBatchPlan(b, o)
    \/ FreezeSendBatch(b)
    \/ Late(b)
    \/ CancelSendBatch(b)
    \/ \E t \in Threads : BeginSendBatchProof(b, t) \/ BeginStops(b, t)
    \/ AcknowledgeSendBatchBackup(b)
    \/ \E cut \in Cuts :
        \/ SignAndBroadcastSendBatch(b, cut) \/ FeeBumpSendBatch(b, cut) \/ ResumeSendBatch(b, cut)
    \/ ObserveSendBatch(b)
    \/ ReconcileSendBatch(b)
    \/ RefreshSendBatchSpv(b)

OperationStep(o) ==
    CancelOperation(o) \/ ProveOperation(o) \/ AcknowledgeBackup(o) \/ SignAndBroadcast(o)

Next ==
    \/ Reserve
    \/ \E b \in Batches : SendBatchStep(b)
    \/ \E t \in Threads : FinishSendBatchProof(t) \/ FailSendBatchProof(t)
    \/ \E o \in Operations : OperationStep(o)
    \/ FinishProof
    \/ Export
    \/ Mine
    \/ Stop

Spec == Init /\ [][Next]_vars

-----------------------------------------------------------------------------
(* Properties.                                                             *)

\* "All inputs, payloads, protected outputs, member identities, and output positions are
\* fixed": once a batch is signed, every member names the transaction that the batch names
\* and has its fee signature released, through partial observations, resumes, replacements
\* and a replaced transaction that is mined after all.
MembersShareTransaction ==
    \A b \in Batches : batch[b].state \in SignedStates =>
        \A o \in MemberSet(b) : op[o].tx = BatchTx(b) /\ op[o].fee = "signature_released"

\* No coin, member or stock is in two transactions other than the versions of one batch,
\* although members can be proved and signed on their own while the batch is being proved.
SignedOnce ==
    \A a, c \in signed : a.tx[1] # c.tx[1] =>
        a.ops \cap c.ops = {} /\ a.coins \cap c.coins = {} /\ a.stocks \cap c.stocks = {}

\* "An arbitrary older checkpoint can never unlock signing" (acknowledge_send_batch_backup):
\* a batch that was signed had its proofs in a Secure Backup export that completed.
SignedIsBackedUp ==
    \A b \in Batches : batch[b].state \in SignedStates => b \in backed

\* A consignment that a member offers for delivery names the batch's present transaction.
ConsignmentsNameBatch ==
    \A b \in Batches : \A o \in MemberSet(b) :
        op[o].ready # None /\ op[o].tx # None /\ op[o].tx[1] = b => op[o].ready = batch[b].epoch

\* Stock that a batch can draw or has drawn is an output of a mined transaction, although
\* the split that made it may have been replaced and the replaced version mined; and a
\* backup of it can be restored, wherever a cancellation or a proof stopped half way: it is
\* held by one batch at most, and never by one that is cancelled.
StockUsable ==
    \A s \in BackupStocks :
        /\ stock[s].state \in {"available", "reserved"} => stock[s].tx \in mined
        /\ StockAccepted(s)

\* At most one successor row of a batch is alive, and it is the output of the transaction
\* that the batch names.
SuccessorFollows ==
    \A b \in Batches : \A e \in Epochs :
        stock[<<b, e>>].state \in {"pending", "confirmed"} => e = batch[b].epoch

\* What was cancelled is never signed: a cancelled operation stays so, and its batch takes
\* no signature.
CancelledIsFinal ==
    [][\A o \in Operations : op[o].state = "cancelled" =>
        /\ op'[o].state = "cancelled"
        /\ \A a \in signed' \ signed : o \notin a.ops]_vars

-----------------------------------------------------------------------------
(* What documents or comments promise and the code does not keep; TLC       *)
(* refutes it on the instance of the module's run (README, Findings).       *)

\* plan_batched_transfer leaves a window behind that has expired, and cancel_operation a
\* member: a backup made then should still be one that a clean restore imports.
BackupImports == BatchesAccepted /\ MembersAccepted /\ \A s \in BackupStocks : StockAccepted(s)
=============================================================================
