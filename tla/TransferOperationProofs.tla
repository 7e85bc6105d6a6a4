----------------------- MODULE TransferOperationProofs -----------------------
(***************************************************************************)
(* Theorems about TransferOperation, for any sets of operations, fee       *)
(* outpoints, coins and threads: type correctness, the exclusivity of      *)
(* coins and, for hosts that do not prove one operation twice at a time,   *)
(* the agreement of the network with the journal. In its second part,      *)
(* theorems about what becomes of a relayed transaction                    *)
(* (OperationSettlement), for any number of fee bumps.                     *)
(***************************************************************************)
EXTENDS TransferOperation, Naturals, TLAPS

USE DEF Writes, Signed, States

\* A call between two writes knows its operation; one that is starting a proof also knows
\* its thread and the operation's fee outpoint (begin_proof_job); one that is relaying a
\* transaction has signed it (sign_and_broadcast, resume_operation).
StepInv ==
    /\ step.write # None => step.op \in Operations
    /\ step.write \in {"lock", "lease"} =>
         step.thread \in Threads /\ funding[step.op] \in Outpoints
    /\ step.write \in {"apply", "relay", "record"} => state[step.op] \in Signed

\* The operations that hold a coin, and the coin is in their durable export.
Holding == {op \in Operations : state[op] \in Signed \cup {"proof_ready"}}
ExportInv == \A op \in Holding : export[op] \in Coins

TypeInv == TypeOK /\ StepInv /\ ExportInv

\* Initially nothing is planned, reserved or running.
LEMMA TypeInit == Init => TypeInv
BY TransferAssumption DEF Init, TypeInv, TypeOK, StepInv, ExportInv, Holding, Idle, Owes

\* reserve_fee_utxo offers outpoints of the wallet, select_transfer_inputs its coins.
LEMMA Offers ==
    ASSUME TypeInv
    PROVE  /\ FreeOutpoints \subseteq Outpoints
           /\ FreeCoins \subseteq Coins
           /\ SnapshotCoins \subseteq Coins \cup {None}
BY DEF TypeInv, TypeOK, FreeOutpoints, FreeCoins, SnapshotCoins

\* Every call, write, proof result and reopening keeps the state well typed.
LEMMA TypeStep == TypeInv /\ [Next]_vars => TypeInv'
<1> SUFFICES ASSUME TypeInv, [Next]_vars PROVE TypeInv'
  OBVIOUS
<1> USE TransferAssumption DEF TypeInv, TypeOK, StepInv, ExportInv, Holding, Unlocked, Idle, Owes,
                               rows, claims, memory
<1>o. /\ FreeOutpoints \subseteq Outpoints
      /\ FreeCoins \subseteq Coins
      /\ SnapshotCoins \subseteq Coins \cup {None}
  BY Offers
<1>1. ASSUME NEW op \in Operations, TransferPlan(op) PROVE TypeInv'
  BY <1>1 DEF TransferPlan, SetState
<1>2. ASSUME NEW op \in Operations, CancelOperation(op) PROVE TypeInv'
  BY <1>2 DEF CancelOperation, RejectPrebroadcast
<1>3. ASSUME NEW op \in Operations, AcknowledgeOperationBackup(op) PROVE TypeInv'
  BY <1>3 DEF AcknowledgeOperationBackup
<1>4. ASSUME NEW op \in Operations, SignAndBroadcast(op) PROVE TypeInv'
  BY <1>4 DEF SignAndBroadcast, MaySign, SetState
<1>5. ASSUME NEW op \in Operations, SignRejected(op) PROVE TypeInv'
  BY <1>5 DEF SignRejected, MaySign, RejectPrebroadcast
<1>6. ASSUME NEW op \in Operations, ResumeOperation(op) PROVE TypeInv'
  BY <1>6 DEF ResumeOperation
<1>7. ASSUME NEW op \in Operations, Observe(op) PROVE TypeInv'
  BY <1>7 DEF Observe, SetState
<1>8. ASSUME NEW op \in Operations, ObserveAgain(op) PROVE TypeInv'
  BY <1>8 DEF ObserveAgain, SetState
<1>9. ASSUME NEW op \in Operations, LoseSight(op) PROVE TypeInv'
  BY <1>9 DEF LoseSight, SetState
<1>10. ASSUME NEW t \in Threads, NEW op \in Operations, BeginReserve(t, op) PROVE TypeInv'
  BY <1>10, <1>o DEF BeginReserve, MayBegin, SetState
<1>11. ASSUME NEW t \in Threads, NEW op \in Operations, BeginResume(t, op) PROVE TypeInv'
  BY <1>11, <1>o DEF BeginResume, MayBegin, FundingUsable, StartJob
<1>12. ASSUME NEW t \in Threads, NEW op \in Operations, BeginRejected(t, op) PROVE TypeInv'
  BY <1>12 DEF BeginRejected, MayBegin, RejectPrebroadcast
<1>13. ASSUME NEW t \in Threads, JobEnds(t) PROVE TypeInv'
  <2>1. CASE FinishAlreadyReady(t)
    BY <2>1 DEF FinishAlreadyReady
  <2>2. CASE FinishStale(t)
    BY <2>2 DEF FinishStale
  <2>3. CASE FinishInstall(t)
    BY <2>3 DEF FinishInstall, SetState
  <2>4. CASE FinishRejected(t)
    BY <2>4 DEF FinishRejected, RejectPrebroadcast
  <2>5. CASE FailRetryable(t)
    BY <2>5 DEF FailRetryable
  <2>6. CASE FailTerminal(t)
    BY <2>6 DEF FailTerminal, RejectPrebroadcast
  <2> QED BY <1>13, <2>1, <2>2, <2>3, <2>4, <2>5, <2>6 DEF JobEnds
<1>14. CASE NextWrite
  <2>1. CASE WriteLock
    BY <2>1 DEF WriteLock
  <2>2. CASE WriteLease
    BY <2>2, <1>o DEF WriteLease, StartJob
  <2>3. CASE WriteDropLease
    BY <2>3 DEF WriteDropLease
  <2>4. CASE WriteStage
    BY <2>4 DEF WriteStage
  <2>5. CASE WriteUnlock
    BY <2>5 DEF WriteUnlock
  <2>6. CASE WriteDeleteRow
    BY <2>6 DEF WriteDeleteRow
  <2>7. CASE WriteCancel
    BY <2>7 DEF WriteCancel, SetState
  <2>8. CASE WriteApply
    BY <2>8 DEF WriteApply
  <2>9. CASE WriteRelay
    BY <2>9 DEF WriteRelay
  <2>10. CASE WriteRecord
    BY <2>10 DEF WriteRecord, SetState
  <2> QED BY <1>14, <2>1, <2>2, <2>3, <2>4, <2>5, <2>6, <2>7, <2>8, <2>9, <2>10 DEF NextWrite
<1>15. CASE Reopen
  BY <1>15 DEF Reopen, RestoredPending
<1>16. CASE UNCHANGED vars
  BY <1>16 DEF vars
<1> QED
  BY <1>1, <1>2, <1>3, <1>4, <1>5, <1>6, <1>7, <1>8, <1>9, <1>10, <1>11, <1>12, <1>13,
     <1>14, <1>15, <1>16 DEF Next

\* The journal, the reservations and the memory of the account stay well typed.
THEOREM TransferTypeCorrect == Spec => []TypeOK
<1>1. TypeInv => TypeOK
  BY DEF TypeInv
<1> QED
  BY TypeInit, TypeStep, <1>1, PTL DEF Spec

-----------------------------------------------------------------------------
(* Coins.                                                                  *)

\* An operation that holds a coin keeps it out of the selection: the coin is in a pending
\* entry or marked spent, except while the operation is being rejected, when no other
\* call can run.
CoinInv ==
    /\ CoinExclusive
    /\ \A op \in Holding :
         \/ pending[op] = export[op]
         \/ export[op] \in spent
         \/ step.op = op /\ step.write \in {"unlock", "delete_row", "cancel"}

\* The only step that commits a coin is FinishInstall, and what it commits is free.
LEMMA CoinStep == TypeInv /\ CoinInv /\ [Next]_vars => CoinInv'
<1> SUFFICES ASSUME TypeInv, CoinInv, [Next]_vars PROVE CoinInv'
  OBVIOUS
<1> USE TransferAssumption DEF CoinInv, CoinExclusive, TypeInv, TypeOK, StepInv, ExportInv, Holding,
                               Unlocked, Idle, Owes, rows, claims, memory
<1>1. ASSUME NEW op \in Operations, TransferPlan(op) PROVE CoinInv'
  BY <1>1 DEF TransferPlan, SetState
<1>2. ASSUME NEW op \in Operations, CancelOperation(op) PROVE CoinInv'
  BY <1>2 DEF CancelOperation, RejectPrebroadcast
<1>3. ASSUME NEW op \in Operations, AcknowledgeOperationBackup(op) PROVE CoinInv'
  BY <1>3 DEF AcknowledgeOperationBackup
<1>4. ASSUME NEW op \in Operations, SignAndBroadcast(op) PROVE CoinInv'
  BY <1>4 DEF SignAndBroadcast, MaySign, SetState
<1>5. ASSUME NEW op \in Operations, SignRejected(op) PROVE CoinInv'
  BY <1>5 DEF SignRejected, MaySign, RejectPrebroadcast
<1>6. ASSUME NEW op \in Operations, ResumeOperation(op) PROVE CoinInv'
  BY <1>6 DEF ResumeOperation
<1>7. ASSUME NEW op \in Operations, Observe(op) PROVE CoinInv'
  BY <1>7 DEF Observe, SetState
<1>8. ASSUME NEW op \in Operations, ObserveAgain(op) PROVE CoinInv'
  BY <1>8 DEF ObserveAgain, SetState
<1>9. ASSUME NEW op \in Operations, LoseSight(op) PROVE CoinInv'
  BY <1>9 DEF LoseSight, SetState
<1>10. ASSUME NEW t \in Threads, NEW op \in Operations, BeginReserve(t, op) PROVE CoinInv'
  BY <1>10 DEF BeginReserve, MayBegin, SetState
<1>11. ASSUME NEW t \in Threads, NEW op \in Operations, BeginResume(t, op) PROVE CoinInv'
  BY <1>11 DEF BeginResume, MayBegin, StartJob
<1>12. ASSUME NEW t \in Threads, NEW op \in Operations, BeginRejected(t, op) PROVE CoinInv'
  BY <1>12 DEF BeginRejected, MayBegin, RejectPrebroadcast
<1>13. ASSUME NEW t \in Threads, JobEnds(t) PROVE CoinInv'
  <2>1. CASE FinishAlreadyReady(t)
    BY <2>1 DEF FinishAlreadyReady
  <2>2. CASE FinishStale(t)
    BY <2>2 DEF FinishStale
  <2>3. CASE FinishInstall(t)
    BY <2>3 DEF FinishInstall, JobCurrent, FreeCoins, SetState
  <2>4. CASE FinishRejected(t)
    BY <2>4 DEF FinishRejected, RejectPrebroadcast
  <2>5. CASE FailRetryable(t)
    BY <2>5 DEF FailRetryable
  <2>6. CASE FailTerminal(t)
    BY <2>6 DEF FailTerminal, RejectPrebroadcast
  <2> QED BY <1>13, <2>1, <2>2, <2>3, <2>4, <2>5, <2>6 DEF JobEnds
<1>14. CASE NextWrite
  <2>1. CASE WriteLock
    BY <2>1 DEF WriteLock
  <2>2. CASE WriteLease
    BY <2>2 DEF WriteLease, StartJob
  <2>3. CASE WriteDropLease
    BY <2>3 DEF WriteDropLease
  <2>4. CASE WriteStage
    BY <2>4 DEF WriteStage
  <2>5. CASE WriteUnlock
    BY <2>5 DEF WriteUnlock
  <2>6. CASE WriteDeleteRow
    BY <2>6 DEF WriteDeleteRow
  <2>7. CASE WriteCancel
    BY <2>7 DEF WriteCancel, SetState
  <2>8. CASE WriteApply
    BY <2>8 DEF WriteApply
  <2>9. CASE WriteRelay
    BY <2>9 DEF WriteRelay
  <2>10. CASE WriteRecord
    BY <2>10 DEF WriteRecord, SetState
  <2> QED BY <1>14, <2>1, <2>2, <2>3, <2>4, <2>5, <2>6, <2>7, <2>8, <2>9, <2>10 DEF NextWrite
<1>15. CASE Reopen
  BY <1>15 DEF Reopen, RestoredPending
<1>16. CASE UNCHANGED vars
  BY <1>16 DEF vars
<1> QED
  BY <1>1, <1>2, <1>3, <1>4, <1>5, <1>6, <1>7, <1>8, <1>9, <1>10, <1>11, <1>12, <1>13,
     <1>14, <1>15, <1>16 DEF Next

\* No coin is ever promised to two payments (pending_spend_conflicts and
\* pending_spends_available at finish_proof_job, restore_pending_operations and
\* restore_finalized_operations at open), however threads and crashes interleave.
THEOREM CoinsExclusive == Spec => []CoinExclusive
<1>1. Init => CoinInv
  BY DEF Init, CoinInv, CoinExclusive, Holding
<1>2. CoinInv => CoinExclusive
  BY DEF CoinInv
<1> QED
  BY TypeInit, TypeStep, CoinStep, <1>1, <1>2, PTL DEF Spec

-----------------------------------------------------------------------------
(* The journal and the network.                                            *)

\* An operation that no host thread re-enters has at most one job and is unproved as long
\* as it has one, so a job that fails late finds nothing signed to cancel.
PublishInv ==
    /\ PublishedIsSigned
    /\ step.write \in {"unlock", "delete_row", "cancel"} =>
         step.op \in Reenter \/ state[step.op] \notin Signed
    /\ \A t \in Threads : job[t] # None /\ job[t].op \notin Reenter =>
         state[job[t].op] \in {"fee_reserved", "cancelled"}
    /\ \A t, u \in Threads : job[t] # None /\ job[u] # None /\ t # u =>
         job[t].op # job[u].op \/ job[t].op \in Reenter
    /\ step.write \in {"lock", "lease"} /\ step.op \notin Reenter =>
         /\ state[step.op] = "fee_reserved"
         /\ \A t \in Threads : job[t] # None => job[t].op # step.op

\* Every step keeps that, whatever happens to the operations that are re-entered.
LEMMA PublishStep == TypeInv /\ PublishInv /\ [Next]_vars => PublishInv'
<1> SUFFICES ASSUME TypeInv, PublishInv, [Next]_vars PROVE PublishInv'
  OBVIOUS
<1> USE TransferAssumption DEF PublishInv, PublishedIsSigned, TypeInv, TypeOK, StepInv,
                               Unlocked, Idle, Owes, rows, claims, memory
<1>1. ASSUME NEW op \in Operations, TransferPlan(op) PROVE PublishInv'
  BY <1>1 DEF TransferPlan, SetState
<1>2. ASSUME NEW op \in Operations, CancelOperation(op) PROVE PublishInv'
  BY <1>2 DEF CancelOperation, RejectPrebroadcast
<1>3. ASSUME NEW op \in Operations, AcknowledgeOperationBackup(op) PROVE PublishInv'
  BY <1>3 DEF AcknowledgeOperationBackup
<1>4. ASSUME NEW op \in Operations, SignAndBroadcast(op) PROVE PublishInv'
  BY <1>4 DEF SignAndBroadcast, MaySign, SetState
<1>5. ASSUME NEW op \in Operations, SignRejected(op) PROVE PublishInv'
  BY <1>5 DEF SignRejected, MaySign, RejectPrebroadcast
<1>6. ASSUME NEW op \in Operations, ResumeOperation(op) PROVE PublishInv'
  BY <1>6 DEF ResumeOperation
<1>7. ASSUME NEW op \in Operations, Observe(op) PROVE PublishInv'
  BY <1>7 DEF Observe, SetState
<1>8. ASSUME NEW op \in Operations, ObserveAgain(op) PROVE PublishInv'
  BY <1>8 DEF ObserveAgain, SetState
<1>9. ASSUME NEW op \in Operations, LoseSight(op) PROVE PublishInv'
  BY <1>9 DEF LoseSight, SetState
<1>10. ASSUME NEW t \in Threads, NEW op \in Operations, BeginReserve(t, op) PROVE PublishInv'
  BY <1>10 DEF BeginReserve, MayBegin, SetState
<1>11. ASSUME NEW t \in Threads, NEW op \in Operations, BeginResume(t, op) PROVE PublishInv'
  BY <1>11 DEF BeginResume, MayBegin, StartJob
<1>12. ASSUME NEW t \in Threads, NEW op \in Operations, BeginRejected(t, op) PROVE PublishInv'
  BY <1>12 DEF BeginRejected, MayBegin, RejectPrebroadcast
<1>13. ASSUME NEW t \in Threads, JobEnds(t) PROVE PublishInv'
  <2>1. CASE FinishAlreadyReady(t)
    BY <2>1 DEF FinishAlreadyReady
  <2>2. CASE FinishStale(t)
    BY <2>2 DEF FinishStale
  <2>3. CASE FinishInstall(t)
    BY <2>3 DEF FinishInstall, JobCurrent, FreeCoins, SetState
  <2>4. CASE FinishRejected(t)
    BY <2>4 DEF FinishRejected, RejectPrebroadcast
  <2>5. CASE FailRetryable(t)
    BY <2>5 DEF FailRetryable
  <2>6. CASE FailTerminal(t)
    BY <2>6 DEF FailTerminal, RejectPrebroadcast
  <2> QED BY <1>13, <2>1, <2>2, <2>3, <2>4, <2>5, <2>6 DEF JobEnds
<1>14. CASE NextWrite
  <2>1. CASE WriteLock
    BY <2>1 DEF WriteLock
  <2>2. CASE WriteLease
    BY <2>2 DEF WriteLease, StartJob
  <2>3. CASE WriteDropLease
    BY <2>3 DEF WriteDropLease
  <2>4. CASE WriteStage
    BY <2>4 DEF WriteStage
  <2>5. CASE WriteUnlock
    BY <2>5 DEF WriteUnlock
  <2>6. CASE WriteDeleteRow
    BY <2>6 DEF WriteDeleteRow
  <2>7. CASE WriteCancel
    BY <2>7 DEF WriteCancel, SetState
  <2>8. CASE WriteApply
    BY <2>8 DEF WriteApply
  <2>9. CASE WriteRelay
    BY <2>9 DEF WriteRelay
  <2>10. CASE WriteRecord
    BY <2>10 DEF WriteRecord, SetState
  <2> QED BY <1>14, <2>1, <2>2, <2>3, <2>4, <2>5, <2>6, <2>7, <2>8, <2>9, <2>10 DEF NextWrite
<1>15. CASE Reopen
  BY <1>15 DEF Reopen, RestoredPending
<1>16. CASE UNCHANGED vars
  BY <1>16 DEF vars
<1> QED
  BY <1>1, <1>2, <1>3, <1>4, <1>5, <1>6, <1>7, <1>8, <1>9, <1>10, <1>11, <1>12, <1>13,
     <1>14, <1>15, <1>16 DEF Next

\* What is on the network is signed in the journal (sign_and_broadcast writes ahead,
\* cancel_operation and fail_proof_job cancel only what was never relayed), with crashes
\* between any two writes, for every operation that is not proved from two threads.
THEOREM PublishedSigned == Spec => []PublishedIsSigned
<1>1. Init => PublishInv
  BY TransferAssumption DEF Init, PublishInv, PublishedIsSigned, Idle, Owes
<1>2. PublishInv => PublishedIsSigned
  BY DEF PublishInv
<1> QED
  BY TypeInit, TypeStep, PublishStep, <1>1, <1>2, PTL DEF Spec

-----------------------------------------------------------------------------
(* Fee reservations.                                                       *)

\* A row of opencsv_utxo_reservations is for the outpoint in its operation's own columns, and
\* no outpoint has two rows.
ReserveInv ==
    /\ \A op \in Operations : reservation[op] # None => reservation[op] = funding[op]
    /\ \A a, b \in Operations : a # b /\ reservation[a] # None => reservation[a] # reservation[b]

\* Only begin_proof_job writes a row and the columns, and only release_fee_reservation deletes
\* one; everything else leaves both alone.
LEMMA ReserveSteps ==
    ASSUME TypeInv, [Next]_vars
    PROVE  \/ UNCHANGED <<reservation, funding>>
           \/ \E t \in Threads, op \in Operations : BeginReserve(t, op)
           \/ WriteDeleteRow
<1> USE DEF rows, claims
<1>1. ASSUME NEW op \in Operations,
             \/ TransferPlan(op) \/ CancelOperation(op) \/ AcknowledgeOperationBackup(op)
             \/ SignAndBroadcast(op) \/ SignRejected(op) \/ ResumeOperation(op)
             \/ Observe(op) \/ ObserveAgain(op) \/ LoseSight(op)
      PROVE  UNCHANGED <<reservation, funding>>
  BY <1>1 DEF TransferPlan, CancelOperation, AcknowledgeOperationBackup, SignAndBroadcast, SignRejected,
              ResumeOperation, Observe, ObserveAgain, LoseSight
<1>2. ASSUME NEW t \in Threads, NEW op \in Operations, BeginResume(t, op) \/ BeginRejected(t, op)
      PROVE  UNCHANGED <<reservation, funding>>
  BY <1>2 DEF BeginResume, BeginRejected
<1>3. ASSUME NEW t \in Threads, JobEnds(t) PROVE UNCHANGED <<reservation, funding>>
  BY <1>3 DEF JobEnds, FinishAlreadyReady, FinishStale, FinishInstall, FinishRejected, FailRetryable,
              FailTerminal
<1>4. ASSUME NextWrite, ~WriteDeleteRow PROVE UNCHANGED <<reservation, funding>>
  BY <1>4 DEF NextWrite, WriteLock, WriteLease, WriteDropLease, WriteStage, WriteUnlock, WriteCancel,
              WriteApply, WriteRelay, WriteRecord
<1>5. ASSUME Reopen \/ UNCHANGED vars PROVE UNCHANGED <<reservation, funding>>
  BY <1>5 DEF Reopen, vars
<1> QED
  BY <1>1, <1>2, <1>3, <1>4, <1>5 DEF Next

\* The rows stay disjoint and agree with the columns.
LEMMA ReserveStep == TypeInv /\ ReserveInv /\ [Next]_vars => ReserveInv'
<1> SUFFICES ASSUME TypeInv, ReserveInv, [Next]_vars PROVE ReserveInv'
  OBVIOUS
<1>0. /\ reservation \in [Operations -> Outpoints \cup {None}]
      /\ funding \in [Operations -> Outpoints \cup {None}]
  BY DEF TypeInv, TypeOK
<1>1. CASE UNCHANGED <<reservation, funding>>
  BY <1>1 DEF ReserveInv
<1>2. ASSUME NEW t \in Threads, NEW op \in Operations, BeginReserve(t, op) PROVE ReserveInv'
  <2>1. PICK o \in FreeOutpoints : /\ reservation' = [reservation EXCEPT ![op] = o]
                                   /\ funding' = [funding EXCEPT ![op] = o]
    BY <1>2 DEF BeginReserve
  <2>2. \A x \in Operations : reservation[x] # o
    BY DEF FreeOutpoints
  <2> QED
    BY <1>0, <2>1, <2>2 DEF ReserveInv
<1>3. CASE WriteDeleteRow
  <2>1. reservation' = [reservation EXCEPT ![step.op] = None] /\ funding' = funding
    BY <1>3 DEF WriteDeleteRow, rows
  <2> QED
    BY <1>0, <2>1 DEF ReserveInv
<1> QED
  BY <1>1, <1>2, <1>3, ReserveSteps

\* sign_and_broadcast signs with an outpoint that is reserved for its operation and for no other
\* one, although it asks only whether the outpoint is locked: INSERT OR IGNORE on the
\* outpoint's row keeps the reservations apart, through crashes between any two writes.
THEOREM SignaturesOwnTheirReservation == Spec => SignsOwnReservation
<1> DEFINE Own == \A op \in Operations :
               (state[op] = "proof_ready" /\ state'[op] = "signed_persisted" /\ reservation[op] # None)
                  => \A other \in Operations : reservation[other] = funding[op] <=> other = op
<1>1. Init => ReserveInv
  BY DEF Init, ReserveInv
<1>2. ReserveInv => Own
  BY DEF ReserveInv
<1>3. ReserveInv /\ [Next]_vars => [Own]_vars
  BY <1>2
<1> QED
  BY TypeInit, TypeStep, ReserveStep, <1>1, <1>3, PTL DEF Spec, SignsOwnReservation

-----------------------------------------------------------------------------
(* The settlement of one operation, for any number of fee bumps and both   *)
(* observation policies: the types, what a delivered replacement has had   *)
(* sent, and, up to the first bump, the agreement of the consignment with  *)
(* the transaction.  A second bump breaks that one (README, Findings), so  *)
(* it is stated of the states before it.  The variables that the two       *)
(* modules share stand for the same columns; no theorem is about both.     *)

CONSTANTS MaxBumps, RawRequired
VARIABLES tx, nonce, receipt, backup, last, seen, mined, sent

Settle == INSTANCE OperationSettlement

\* No version and no nonce is ahead of the last one signed.
VersionInv ==
    /\ tx <= last /\ nonce <= last
    /\ \A m \in sent : m.nonce <= last
    /\ receipt.replaces # None => receipt.replaces <= last
    /\ receipt.prior # None => receipt.prior.nonce <= last

\* An operation that was observed or settled has its consignment.
ObservedInv == state \notin Settle!Resumable => receipt.consignment # None

\* A replacement is the last version signed, with the nonce that was drawn for it: whatever
\* was sent under that nonce is its own consignment.
ReplacementInv ==
    receipt.replaces # None =>
        /\ tx = last /\ nonce = last
        /\ receipt.consignment \in {None, tx}
        /\ \A m \in sent : m.nonce = last => m.consignment = tx
        /\ receipt.delivered => receipt.consignment # None /\ \E m \in sent : m.nonce = last

SettlementInv == Settle!TypeOK /\ VersionInv /\ ObservedInv /\ ReplacementInv

\* Until the second bump, the delivery that a replacement keeps aside is that of the version
\* it replaces.
FirstBumpInv ==
    last <= 1 =>
        /\ receipt.consignment \in {None, tx}
        /\ last = 0 => receipt.replaces = None /\ receipt.prior = None
        /\ receipt.prior # None => receipt.prior.consignment = receipt.replaces

\* The first version has just been signed.
LEMMA SettlementInit ==
    ASSUME Settle!SettlementAssumption
    PROVE  Settle!Init => SettlementInv /\ FirstBumpInv
<1> SUFFICES ASSUME Settle!Init PROVE SettlementInv /\ FirstBumpInv
  OBVIOUS
<1> USE DEF Settle!SettlementAssumption, Settle!Init, Settle!Versions, Settle!Resumable, Settle!Settled
<1>1. Settle!TypeOK
  BY DEF Settle!TypeOK
<1> QED
  BY <1>1 DEF SettlementInv, VersionInv, ObservedInv, ReplacementInv, FirstBumpInv

\* The type of an operation's receipt.
Receipts == [replaces : Settle!Versions \cup {None}, consignment : Settle!Versions \cup {None},
             delivered : BOOLEAN, prior : Settle!Deliveries \cup {None}]

\* Every step keeps the state well typed.
LEMMA SettlementTypes ==
    ASSUME Settle!SettlementAssumption
    PROVE  Settle!TypeOK /\ [Settle!Next]_(Settle!vars) => Settle!TypeOK'
<1> SUFFICES ASSUME Settle!TypeOK, [Settle!Next]_(Settle!vars) PROVE Settle!TypeOK'
  OBVIOUS
<1>0. receipt \in Receipts
  BY DEF Settle!TypeOK, Receipts
<1>1. CASE Settle!NextWrite
  BY <1>1 DEF Settle!NextWrite, Settle!WriteRelay, Settle!WriteRecord, Settle!row, Settle!network, Settle!TypeOK, Settle!Resumable
<1>2. CASE Settle!FeeBump
  <2>1. last + 1 \in Settle!Versions
    BY <1>2 DEF Settle!SettlementAssumption, Settle!FeeBump, Settle!TypeOK, Settle!Versions
  <2>2. Settle!ReplacementReceipt \in Receipts
    <3>1. receipt.consignment # None =>
            [consignment |-> receipt.consignment, nonce |-> nonce, delivered |-> receipt.delivered] \in Settle!Deliveries
      BY <1>0 DEF Settle!TypeOK, Receipts, Settle!Deliveries
    <3> QED
      BY <1>0, <3>1 DEF Settle!TypeOK, Receipts, Settle!ReplacementReceipt
  <2> QED
    BY <1>2, <2>1, <2>2 DEF Settle!FeeBump, Settle!ReplacementNonce, Settle!network, Settle!TypeOK, Receipts, Settle!Resumable
<1>3. CASE Settle!ResumeReconcile
  <2>1. receipt.replaces \in Settle!Versions
    BY <1>0, <1>3 DEF Settle!ResumeReconcile, Settle!ReplacedMined, Receipts
  <2>2. receipt.prior # None => receipt.prior \in Settle!Deliveries
    BY <1>0 DEF Receipts
  <2>3. Settle!RestoredReceipt \in Receipts
    BY <2>2 DEF Settle!RestoredReceipt, Receipts, Settle!Deliveries
  <2>4. receipt.prior # None => receipt.prior.nonce \in Settle!Versions
    BY <2>2 DEF Settle!Deliveries
  <2> QED
    BY <1>3, <2>1, <2>3, <2>4 DEF Settle!ResumeReconcile, Settle!network, Settle!TypeOK, Receipts, Settle!Resumable
<1>4. CASE Settle!ResumeRelay
  BY <1>4 DEF Settle!ResumeRelay, Settle!row, Settle!network, Settle!TypeOK
<1>5. CASE Settle!Finalize /\ UNCHANGED <<tx, nonce, backup, step, last, Settle!network>> /\ state' \in {"mempool", "confirmed"}
  <2>1. receipt' \in Receipts
    BY <1>0, <1>5 DEF Settle!Finalize, Settle!TypeOK, Receipts
  <2> QED
    BY <1>5, <2>1 DEF Settle!Finalize, Settle!network, Settle!TypeOK, Receipts, Settle!Settled
<1>6. CASE Settle!RefreshOperation
  BY <1>5, <1>6 DEF Settle!RefreshOperation, Settle!RefreshUnobserved, Settle!RefreshFinalized, Settle!RefreshFinalizes, Settle!network,
                    Settle!TypeOK, Settle!Resumable
<1>7. CASE Settle!RefreshSpv
  BY <1>5, <1>7 DEF Settle!RefreshSpv, Settle!RefreshSpvSettles, Settle!RefreshSpvInstalls, Settle!RefreshSpvDemotes, Settle!network,
                    Settle!TypeOK, Settle!Resumable, Settle!Settled
<1>8. CASE Settle!ObserveUnconfirmed
  BY <1>5, <1>8 DEF Settle!ObserveUnconfirmed
<1>9. CASE Settle!Send
  <2>1. [consignment |-> receipt.consignment, nonce |-> nonce] \in [consignment : Settle!Versions, nonce : Settle!Versions]
    BY <1>0, <1>9 DEF Settle!Send, Settle!TypeOK, Receipts
  <2> QED
    BY <1>9, <2>1 DEF Settle!Send, Settle!row, Settle!TypeOK
<1>10. CASE Settle!MarkConsignmentDelivered
  <2>1. receipt' \in Receipts
    BY <1>0, <1>10 DEF Settle!MarkConsignmentDelivered, Receipts
  <2> QED
    BY <1>10, <2>1 DEF Settle!MarkConsignmentDelivered, Settle!network, Settle!TypeOK, Receipts, Settle!Settled
<1>11. CASE Settle!SetBackupState \/ Settle!Reopen
  <2>1. CASE Settle!SetBackupState
    BY <2>1 DEF Settle!SetBackupState, Settle!row, Settle!network, Settle!TypeOK
  <2>2. CASE Settle!Reopen
    <3>1. pending' = (state \in Settle!Resumable)
      BY <2>2 DEF Settle!Reopen
    <3>2. pending' \in BOOLEAN
      BY <3>1
    <3> QED
      BY <2>2, <3>2 DEF Settle!Reopen, Settle!row, Settle!network, Settle!TypeOK
  <2> QED
    BY <1>11, <2>1, <2>2
<1>12. CASE Settle!Relay \/ Settle!Mine \/ Settle!Reorg
  BY <1>12 DEF Settle!Relay, Settle!Mine, Settle!Reorg, Settle!row, Settle!TypeOK
<1>13. CASE UNCHANGED Settle!vars
  BY <1>13 DEF Settle!vars, Settle!row, Settle!network, Settle!TypeOK
<1> QED
  BY <1>1, <1>2, <1>3, <1>4, <1>6, <1>7, <1>8, <1>9, <1>10, <1>11, <1>12, <1>13 DEF Settle!Next, Settle!ResumeOperation

\* A step that leaves the receipt, the versions and the messages alone.
LEMMA SettlementQuiet ==
    ASSUME Settle!SettlementAssumption, SettlementInv, FirstBumpInv, UNCHANGED <<tx, nonce, receipt, last, sent>>,
           state' \in Settle!Resumable \/ receipt.consignment # None
    PROVE  VersionInv' /\ ObservedInv' /\ ReplacementInv' /\ FirstBumpInv'
  BY DEF SettlementInv, FirstBumpInv, VersionInv, ObservedInv, ReplacementInv

\* finalize_observed_operation: the consignment becomes that of the transaction held.
LEMMA SettlementFinalizes ==
    ASSUME Settle!SettlementAssumption, SettlementInv, FirstBumpInv, Settle!Finalize, UNCHANGED <<tx, nonce, last, sent>>
    PROVE  VersionInv' /\ ObservedInv' /\ ReplacementInv' /\ FirstBumpInv'
<1>0. receipt \in Receipts
  BY DEF SettlementInv, Settle!TypeOK, Receipts
<1>1. /\ receipt'.replaces = receipt.replaces /\ receipt'.consignment = tx
      /\ receipt'.delivered = receipt.delivered /\ receipt'.prior = receipt.prior
  BY <1>0 DEF Settle!Finalize, Receipts
<1>2. tx # None
  BY DEF Settle!SettlementAssumption, SettlementInv, Settle!TypeOK
<1> QED
  BY <1>1, <1>2 DEF SettlementInv, FirstBumpInv, VersionInv, ObservedInv, ReplacementInv

\* Every call, write, poll and event of the network keeps the invariant.
LEMMA SettlementStep ==
    ASSUME Settle!SettlementAssumption
    PROVE  SettlementInv /\ FirstBumpInv /\ [Settle!Next]_(Settle!vars) => SettlementInv' /\ FirstBumpInv'
<1> SUFFICES ASSUME SettlementInv, FirstBumpInv, [Settle!Next]_(Settle!vars)
             PROVE  VersionInv' /\ ObservedInv' /\ ReplacementInv' /\ FirstBumpInv'
  BY SettlementTypes DEF SettlementInv
<1>0. /\ receipt \in Receipts /\ last \in Nat /\ tx \in Nat /\ nonce \in Nat
      /\ tx # None /\ \A m \in sent : m.nonce \in Nat
  BY DEF Settle!SettlementAssumption, SettlementInv, Settle!TypeOK, Receipts, Settle!Versions
<1>1. CASE Settle!NextWrite
  BY <1>1, SettlementQuiet DEF Settle!NextWrite, Settle!WriteRelay, Settle!WriteRecord, Settle!row, Settle!network, Settle!Resumable, SettlementInv, ObservedInv
<1>2. CASE Settle!FeeBump
  <2>1. /\ last' = last + 1 /\ tx' = last + 1 /\ nonce' = last + 1
        /\ state' \in Settle!Resumable /\ sent' = sent
        /\ receipt' = Settle!ReplacementReceipt
    BY <1>2 DEF Settle!FeeBump, Settle!ReplacementNonce, Settle!network, Settle!Resumable
  <2>2. /\ receipt'.replaces = tx /\ receipt'.consignment = None /\ receipt'.delivered = FALSE
        /\ receipt'.prior = IF receipt.consignment = None THEN receipt.prior
                            ELSE [consignment |-> receipt.consignment, nonce |-> nonce,
                                  delivered |-> receipt.delivered]
    BY <2>1 DEF Settle!ReplacementReceipt
  <2>3. \A m \in sent : m.nonce <= last /\ m.nonce # last + 1
    BY <1>0 DEF SettlementInv, VersionInv
  <2>4. VersionInv'
    BY <1>0, <2>1, <2>2, <2>3 DEF Settle!SettlementAssumption, SettlementInv, VersionInv, Settle!TypeOK, Settle!Deliveries, Settle!Versions
  <2>5. ObservedInv'
    BY <2>1 DEF ObservedInv
  <2>6. ReplacementInv'
    BY <2>1, <2>2, <2>3 DEF ReplacementInv
  <2>7. FirstBumpInv'
    <3> SUFFICES ASSUME last' <= 1 PROVE /\ receipt'.consignment \in {None, tx'}
                                         /\ last' = 0 => receipt'.replaces = None /\ receipt'.prior = None
                                         /\ receipt'.prior # None => receipt'.prior.consignment = receipt'.replaces
      BY DEF FirstBumpInv
    <3>1. last = 0 /\ last' # 0
      BY <1>0, <2>1
    <3>2. receipt.prior = None /\ receipt.consignment \in {None, tx}
      BY <3>1 DEF FirstBumpInv
    <3> QED
      BY <2>2, <3>1, <3>2
  <2> QED
    BY <2>4, <2>5, <2>6, <2>7
<1>3. CASE Settle!ResumeReconcile
  <2>1. /\ tx' = receipt.replaces /\ receipt' = Settle!RestoredReceipt /\ state' \in Settle!Resumable
        /\ nonce' = IF receipt.prior = None THEN nonce ELSE receipt.prior.nonce
        /\ last' = last /\ sent' = sent /\ receipt.replaces # None
    BY <1>3 DEF Settle!ResumeReconcile, Settle!ReplacedMined, Settle!network, Settle!Resumable
  <2>2. /\ receipt'.replaces = None /\ receipt'.prior = None
        /\ receipt'.consignment = IF receipt.prior = None THEN None ELSE receipt.prior.consignment
    BY <2>1 DEF Settle!RestoredReceipt
  <2>3. receipt.replaces <= last
    BY <2>1 DEF SettlementInv, VersionInv
  <2> QED
    BY <2>1, <2>2, <2>3 DEF SettlementInv, FirstBumpInv, VersionInv, ObservedInv, ReplacementInv
<1>4. CASE Settle!ResumeRelay
  BY <1>4, SettlementQuiet DEF Settle!ResumeRelay, Settle!row, Settle!network, SettlementInv, ObservedInv
<1>6. CASE Settle!RefreshOperation
  <2>1. CASE Settle!RefreshUnobserved
    BY <2>1, SettlementQuiet DEF Settle!RefreshUnobserved, Settle!network, Settle!Resumable
  <2>2. CASE Settle!RefreshFinalized
    BY <2>2, SettlementQuiet DEF Settle!RefreshFinalized, Settle!network
  <2>3. CASE Settle!RefreshFinalizes
    BY <2>3, SettlementFinalizes DEF Settle!RefreshFinalizes, Settle!network
  <2> QED
    BY <1>6, <2>1, <2>2, <2>3 DEF Settle!RefreshOperation
<1>7. CASE Settle!RefreshSpv
  <2>1. CASE Settle!RefreshSpvSettles
    BY <2>1, SettlementQuiet DEF Settle!RefreshSpvSettles, Settle!network
  <2>2. CASE Settle!RefreshSpvInstalls
    BY <2>2, SettlementFinalizes DEF Settle!RefreshSpvInstalls, Settle!network
  <2>3. CASE Settle!RefreshSpvDemotes
    BY <2>3, SettlementQuiet DEF Settle!RefreshSpvDemotes, Settle!network
  <2> QED
    BY <1>7, <2>1, <2>2, <2>3 DEF Settle!RefreshSpv
<1>8. CASE Settle!ObserveUnconfirmed
  BY <1>8, SettlementFinalizes DEF Settle!ObserveUnconfirmed, Settle!network
<1>9. CASE Settle!Send
  <2>1. /\ sent' = sent \cup {[consignment |-> receipt.consignment, nonce |-> nonce]}
        /\ receipt.consignment # None
        /\ UNCHANGED <<state, tx, nonce, receipt, last>>
    BY <1>9 DEF Settle!Send, Settle!row
  <2> QED
    BY <2>1 DEF SettlementInv, FirstBumpInv, VersionInv, ObservedInv, ReplacementInv
<1>10. CASE Settle!MarkConsignmentDelivered
  <2>1. /\ receipt' = [receipt EXCEPT !.delivered = TRUE] /\ state \notin Settle!Resumable
        /\ UNCHANGED <<tx, nonce, last, sent>> /\ \E m \in sent : m.nonce = nonce
    BY <1>10 DEF Settle!MarkConsignmentDelivered, Settle!network, Settle!Resumable
  <2>2. /\ receipt'.replaces = receipt.replaces /\ receipt'.consignment = receipt.consignment
        /\ receipt'.prior = receipt.prior
    BY <1>0, <2>1 DEF Receipts
  <2>3. receipt.consignment # None
    BY <2>1 DEF SettlementInv, ObservedInv
  <2> QED
    BY <2>1, <2>2, <2>3 DEF SettlementInv, FirstBumpInv, VersionInv, ObservedInv, ReplacementInv
<1>11. CASE Settle!SetBackupState \/ Settle!Reopen
  BY <1>11, SettlementQuiet DEF Settle!SetBackupState, Settle!Reopen, Settle!row, Settle!network, SettlementInv, ObservedInv
<1>12. CASE Settle!Relay \/ Settle!Mine \/ Settle!Reorg
  BY <1>12, SettlementQuiet DEF Settle!Relay, Settle!Mine, Settle!Reorg, Settle!row, Settle!network, SettlementInv, ObservedInv
<1>13. CASE UNCHANGED Settle!vars
  BY <1>13, SettlementQuiet DEF Settle!vars, Settle!row, Settle!network, SettlementInv, ObservedInv
<1> QED
  BY <1>1, <1>2, <1>3, <1>4, <1>6, <1>7, <1>8, <1>9, <1>10, <1>11, <1>12, <1>13 DEF Settle!Next, Settle!ResumeOperation

\* The invariant is one.
LEMMA SettlementInvariant ==
    ASSUME Settle!SettlementAssumption
    PROVE  Settle!Spec => [](SettlementInv /\ FirstBumpInv)
  BY SettlementInit, SettlementStep, PTL DEF Settle!Spec

-----------------------------------------------------------------------------
(* Results.                                                                *)

\* The row of the operation and what the network knows of it stay well typed.
THEOREM SettlementTypeCorrect ==
    ASSUME Settle!SettlementAssumption
    PROVE  Settle!Spec => []Settle!TypeOK
<1>1. SettlementInv => Settle!TypeOK
  BY DEF SettlementInv
<1> QED
  BY <1>1, SettlementInvariant, PTL

\* However many times the fee is raised, a replacement that is recorded as delivered has had
\* exactly its present consignment sent: persist_signed_replacement draws a nonce that no
\* message was ever sent under, so that no late acknowledgement can name it.
THEOREM DeliveriesWereSent ==
    ASSUME Settle!SettlementAssumption
    PROVE  Settle!Spec => []Settle!DeliveredWasSent
<1>1. SettlementInv => Settle!DeliveredWasSent
  <2> SUFFICES ASSUME SettlementInv, receipt.replaces # None, receipt.delivered
               PROVE  [consignment |-> receipt.consignment, nonce |-> nonce] \in sent
    BY DEF Settle!DeliveredWasSent
  <2>1. PICK m \in sent : m.nonce = last
    BY DEF SettlementInv, ReplacementInv
  <2>2. m.consignment = receipt.consignment /\ m.nonce = nonce
    BY <2>1 DEF SettlementInv, ReplacementInv
  <2>3. m = [consignment |-> m.consignment, nonce |-> m.nonce]
    BY <2>1 DEF SettlementInv, Settle!TypeOK
  <2> QED
    BY <2>1, <2>2, <2>3
<1> QED
  BY <1>1, SettlementInvariant, PTL

\* Until the fee is raised a second time the consignment that is delivered, and replayed when
\* the account opens, names the transaction that the operation waits for, through
\* observations that are withdrawn, replaced versions that are mined after all, and reorgs.
THEOREM ConsignmentsNameTransactions ==
    ASSUME Settle!SettlementAssumption
    PROVE  Settle!Spec => [](last <= 1 => Settle!ConsignmentNamesTx)
<1>1. FirstBumpInv => (last <= 1 => Settle!ConsignmentNamesTx)
  BY DEF FirstBumpInv, Settle!ConsignmentNamesTx
<1> QED
  BY <1>1, SettlementInvariant, PTL

\* Until then only the verified scan settles: the transaction that becomes confirmed is the
\* one in the chain (refresh_operation_spv; an acknowledgement settles nothing).
THEOREM OnlyTheScanSettles ==
    ASSUME Settle!SettlementAssumption, MaxBumps <= 1
    PROVE  Settle!Spec => Settle!SettlesWhatIsMined
<1>1. ASSUME SettlementInv, FirstBumpInv, [Settle!Next]_(Settle!vars)
      PROVE  state \notin Settle!Settled /\ state' \in Settle!Settled => mined = tx
  <2> SUFFICES ASSUME state \notin Settle!Settled, state' \in Settle!Settled PROVE mined = tx
    OBVIOUS
  <2>1. last <= 1
    BY <1>1 DEF Settle!SettlementAssumption, SettlementInv, Settle!TypeOK, Settle!Versions
  <2>2. CASE Settle!RefreshSpvSettles
    BY <1>1, <2>1, <2>2 DEF Settle!RefreshSpvSettles, Settle!ScanVerifies, FirstBumpInv
  <2>3. CASE Settle!RefreshSpvInstalls
    BY <2>3 DEF Settle!RefreshSpvInstalls, Settle!ScanVerifies
  <2>4. CASE ~(Settle!RefreshSpvSettles \/ Settle!RefreshSpvInstalls)
    BY <1>1, <2>4 DEF Settle!Next, Settle!NextWrite, Settle!WriteRelay, Settle!WriteRecord, Settle!FeeBump, Settle!ResumeOperation, Settle!ResumeReconcile,
                      Settle!ResumeRelay, Settle!ObserveUnconfirmed, Settle!RefreshOperation, Settle!RefreshUnobserved,
                      Settle!RefreshFinalized, Settle!RefreshFinalizes, Settle!RefreshSpv, Settle!RefreshSpvDemotes, Settle!Send,
                      Settle!MarkConsignmentDelivered, Settle!SetBackupState, Settle!Reopen, Settle!Relay, Settle!Mine, Settle!Reorg, Settle!vars, Settle!row,
                      Settle!Settled
  <2> QED
    BY <2>2, <2>3, <2>4
<1>2. SettlementInv /\ FirstBumpInv /\ [Settle!Next]_(Settle!vars)
        => [state \notin Settle!Settled /\ state' \in Settle!Settled => mined = tx]_(Settle!vars)
  BY <1>1
<1> QED
  BY <1>2, SettlementInvariant, PTL DEF Settle!Spec, Settle!SettlesWhatIsMined
==============================================================================
