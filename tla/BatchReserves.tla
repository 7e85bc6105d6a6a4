---------------------------- MODULE BatchReserves ----------------------------
(***************************************************************************)
(* Reserve maintenance of the account wallet (opencsv-ffi::account): the   *)
(* transactions that split wallet funds into batching stock, and the rows  *)
(* of opencsv_batch_stocks that send batches draw from.                    *)
(*                                                                         *)
(* A transaction is <<source, epoch>>: the maintenance operation or the    *)
(* batch that signed it, and how often its fee had been raised.  All       *)
(* epochs of a source spend the same inputs, so at most one is mined.      *)
(*                                                                         *)
(* A call that signs commits first, then relays, then records the relay.   *)
(* `cut` says how far it came: an error of the relay or the end of the     *)
(* process leaves "persisted", the end of the process leaves "relayed".    *)
(* Fee cells are left to TransferOperation.                                *)
(***************************************************************************)
EXTENDS Naturals, FiniteSets

CONSTANTS
    Reserves,     \* maintenance ids, all for one participant count
    Vouts,        \* stock outputs of one split (three in the code)
    Batches,      \* batch_local_ids of the send batches
    MaxBumps,     \* bound: fee bumps of reserves and batches together
    None

ASSUME ReserveAssumption ==
    /\ MaxBumps \in Nat
    /\ Reserves \cap Batches = {}
    /\ None \notin Reserves \cup Batches

Epochs == 0..MaxBumps
Cuts == {"persisted", "relayed", "done"}
StockStates == {"absent", "pending", "available", "reserved", "signature_released",
                "confirmed", "invalidated"}

\* A stock row is named by the split and its vout, or by the batch transaction whose output
\* 2 it is.
StockIds == (Reserves \X Vouts) \cup (Batches \X Epochs)

VARIABLES
    reserve,      \* opencsv_batch_reserve_operations
    stock,        \* opencsv_batch_stocks
    bumps,        \* fee bumps so far
    relayed,      \* transactions given to the network
    mined         \* transactions in blocks that the verifier accepts

reserveVars == <<reserve, stock, bumps, relayed, mined>>

InFlight == {"signed_persisted", "broadcast_unobserved", "mempool"}

ReserveRows == [state : InFlight \cup {"none", "confirmed"}, epoch : Epochs, candidates : SUBSET Epochs]
StockRows == [tx : ((Reserves \cup Batches) \X Epochs) \cup {None}, state : StockStates,
              by : Batches \cup {None}]

ReserveTypeOK ==
    /\ reserve \in [Reserves -> ReserveRows]
    /\ stock \in [StockIds -> StockRows]
    /\ bumps \in 0..MaxBumps

ReserveInit ==
    /\ reserve = [r \in Reserves |-> [state |-> "none", epoch |-> 0, candidates |-> {}]]
    /\ stock = [s \in StockIds |-> [tx |-> None, state |-> "absent", by |-> None]]
    /\ bumps = 0
    /\ relayed = {}
    /\ mined = {}

SourceMined(source) == \E tx \in mined : tx[1] = source

\* UPDATE opencsv_batch_stocks SET txid = new WHERE txid = old AND state = 'pending'.
Retarget(old, new) ==
    stock' = [s \in StockIds |->
        IF stock[s].tx = old /\ stock[s].state = "pending" THEN [stock[s] EXCEPT !.tx = new]
        ELSE stock[s]]

\* The relay of a committed transaction and the record of it.
BroadcastState(cut) == IF cut = "done" THEN "broadcast_unobserved" ELSE "signed_persisted"
Broadcast(tx, cut) == relayed' = IF cut = "persisted" THEN relayed ELSE relayed \cup {tx}

-----------------------------------------------------------------------------

\* While a split is unfinished, prepare_batch_reserves only returns that one.
MayPrepare(r) ==
    /\ \A q \in Reserves : reserve[q].state \notin InFlight
    /\ reserve[r].state = "none"

\* The outputs of the split that are stock.
SplitStocks(r) ==
    [s \in StockIds |->
        IF s \in {r} \X Vouts THEN [tx |-> <<r, 0>>, state |-> "pending", by |-> None]
        ELSE stock[s]]

PrepareBatchReserves(r, cut) ==
    /\ MayPrepare(r)
    /\ reserve' = [reserve EXCEPT ![r].state = BroadcastState(cut)]
    /\ stock' = SplitStocks(r)
    /\ Broadcast(<<r, 0>>, cut)
    /\ UNCHANGED <<bumps, mined>>

\* fee_bump_batch_reserves: the BDK wallet need not know yet that a version is mined.
BumpableReserve(r) == reserve[r].state \in {"broadcast_unobserved", "mempool"}

\* The replaced version joins the candidates, and the pending stocks move to the new one.
FeeBumpBatchReserves(r, cut) ==
    /\ BumpableReserve(r)
    /\ bumps < MaxBumps
    /\ bumps' = bumps + 1
    /\ reserve' = [reserve EXCEPT ![r] =
        [state |-> BroadcastState(cut), epoch |-> bumps + 1,
         candidates |-> @.candidates \cup {@.epoch}]]
    /\ Retarget(<<r, reserve[r].epoch>>, <<r, bumps + 1>>)
    /\ Broadcast(<<r, bumps + 1>>, cut)
    /\ UNCHANGED mined

\* Superseded candidates that the explorer reports and the verifier confirms.
MinedCandidates(r) == {e \in reserve[r].candidates : <<r, e>> \in mined}

\* reconcile_confirmed_batch_reserve_replacement, from resume or from a refresh that then
\* fails to verify a stock.
ReconcileBatchReserve(r) ==
    /\ reserve[r].state \in InFlight
    /\ \E e \in MinedCandidates(r) :
        /\ reserve' = [reserve EXCEPT ![r] =
            [state |-> "broadcast_unobserved", epoch |-> e, candidates |-> {}]]
        /\ Retarget(<<r, reserve[r].epoch>>, <<r, e>>)
    /\ UNCHANGED <<bumps, relayed, mined>>

\* observe_batch_reserve_unconfirmed: the required raw observers return the exact bytes.
ObserveBatchReserve(r) ==
    /\ reserve[r].state \in InFlight
    /\ <<r, reserve[r].epoch>> \in relayed
    /\ SourceMined(r) => <<r, reserve[r].epoch>> \in mined
    /\ reserve' = [reserve EXCEPT ![r].state = "mempool"]
    /\ UNCHANGED <<stock, bumps, relayed, mined>>

\* resume_batch_reserves relays again, also when the reconciliation is unavailable.
ResumeBatchReserves(r, cut) ==
    /\ reserve[r].state \in {"signed_persisted", "broadcast_unobserved"}
    /\ reserve' = [reserve EXCEPT ![r].state = IF cut = "done" THEN "broadcast_unobserved" ELSE @]
    /\ Broadcast(<<r, reserve[r].epoch>>, cut)
    /\ UNCHANGED <<stock, bumps, mined>>

\* Mutant: the latest version is taken for the mined one.
LatestEpoch(r) == IF SourceMined(r) THEN {reserve[r].epoch} ELSE {}

\* The version whose stocks the verifier finds in a block and unspent: a superseded one
\* before the latest.
VerifiedEpoch(r) ==
    IF MinedCandidates(r) # {} THEN MinedCandidates(r)
    ELSE {e \in {reserve[r].epoch} : <<r, e>> \in mined}

\* refresh_batch_reserves, its reconciliation included, promotes the stocks.
RefreshBatchReserves(r) ==
    /\ reserve[r].state \in InFlight
    /\ \E e \in VerifiedEpoch(r) :
        /\ reserve' = [reserve EXCEPT ![r] =
            [state |-> "confirmed", epoch |-> e,
             candidates |-> IF e \in @.candidates THEN {} ELSE @.candidates]]
        /\ stock' = [s \in StockIds |->
            IF stock[s].tx = <<r, reserve[r].epoch>> /\ stock[s].state = "pending"
            THEN [stock[s] EXCEPT !.tx = <<r, e>>, !.state = "available"]
            ELSE stock[s]]
    /\ UNCHANGED <<bumps, relayed, mined>>

ReserveNext(cut) ==
    \E r \in Reserves :
        \/ PrepareBatchReserves(r, cut)
        \/ FeeBumpBatchReserves(r, cut)
        \/ ResumeBatchReserves(r, cut)
        \/ cut = "done" /\ ReconcileBatchReserve(r)
        \/ cut = "done" /\ ObserveBatchReserve(r)
        \/ cut = "done" /\ RefreshBatchReserves(r)
=============================================================================
