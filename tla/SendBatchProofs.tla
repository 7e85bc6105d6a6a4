--------------------------- MODULE SendBatchProofs ---------------------------
(***************************************************************************)
(* Theorems about SendBatch and the reserves under it, for any sets of     *)
(* batches, operations, coins, threads and reserves and any bounds on fee  *)
(* bumps and mishaps.                                                      *)
(***************************************************************************)
EXTENDS SendBatch, SequenceTheorems, WellFoundedInduction, TLAPS

\* The states in which an operation keeps its coin.
Holding == {"proof_ready"} \cup SignedStates

-----------------------------------------------------------------------------
(* The inductive invariant.                                                *)

\* An operation is planned once, into one batch.
MemberInv ==
    /\ \A b, c \in Batches : b # c => MemberSet(b) \cap MemberSet(c) = {}
    /\ \A b \in Batches : \A o \in MemberSet(b) : op[o].state # "none"

\* The members of a signed batch are signed, by the batch's present transaction.
ShareInv ==
    \A b \in Batches : batch[b].state \in SignedStates =>
        \A o \in MemberSet(b) :
            op[o].state \in SignedStates /\ op[o].tx = BatchTx(b) /\ op[o].fee = "signature_released"

\* A signed batch names a version of its transaction.
EpochInv == \A b \in Batches : batch[b].state \in SignedStates => batch[b].epoch \in Epochs

\* The checkpoint that a batch waits for holds its proofs, and was exported once acknowledged.
BackupInv ==
    /\ exported \subseteq backed
    /\ \A b \in Batches :
        /\ batch[b].state = "proof_ready" => b \in batch[b].prepared
        /\ batch[b].state = "proof_ready" /\ batch[b].acked => b \in backed
        /\ batch[b].state \in SignedStates => b \in backed

\* The protocol wallet knows the coin of every operation that holds one.
HoldInv ==
    /\ \A o \in Operations : op[o].state \in Holding => o \in pending \cup final /\ op[o].coin \in Coins
    /\ \A o, p \in Operations :
        o # p /\ op[o].state \in Holding /\ op[p].state \in Holding => op[o].coin # op[p].coin

\* A proof job is for the members that its batch was frozen with, and for different coins.
JobOK(t) ==
    job[t] # None =>
        /\ batch[job[t].batch].state \notin {"none", "collecting"}
        /\ job[t].coins # None =>
            /\ job[t].coins \in [MemberSet(job[t].batch) -> Coins]
            /\ \A o, p \in MemberSet(job[t].batch) : job[t].coins[o] = job[t].coins[p] => o = p
JobInv == \A t \in Threads : JobOK(t)

\* The outputs of splits are stock; the output of a batch becomes none.
SplitOK(s) ==
    /\ stock[s].state \in {"absent", "pending", "available", "reserved", "signature_released"}
    /\ stock[s].state # "absent" => stock[s].tx[1] = s[1]
    /\ reserve[s[1]].state = "none" => stock[s].state = "absent"
SuccessorOK(s) ==
    /\ stock[s].state \in {"absent", "pending", "confirmed", "invalidated"}
    /\ stock[s].state # "absent" => stock[s].tx = s
StockOK(s) ==
    /\ s \in Reserves \X Vouts => SplitOK(s)
    /\ s \in Batches \X Epochs => SuccessorOK(s)
    /\ stock[s].state \in {"available", "reserved"} => stock[s].tx \in mined
StockInv == \A s \in StockIds : StockOK(s)

\* A row that a batch drew is reserved, or spent by its signature.
DrawInv ==
    /\ \A s \in StockIds : stock[s].by # None =>
        /\ stock[s].state \in {"reserved", "signature_released"}
        /\ batch[stock[s].by].state \notin {"none", "collecting", "cancelled"}
        /\ stock[s].state = "signature_released" => batch[stock[s].by].state \in SignedStates
    /\ \A s, t \in StockIds : stock[s].by # None /\ stock[s].by = stock[t].by => s = t

\* A signature stays with what it was made for.
SignedOK(a) ==
    /\ \A o \in a.ops : op[o].state \in SignedStates /\ op[o].tx[1] = a.tx[1]
    /\ a.coins = {op[o].coin : o \in a.ops}
    /\ \A s \in a.stocks :
        a.tx[1] \in Batches /\ stock[s].by = a.tx[1] /\ batch[a.tx[1]].state \in SignedStates
SignedInv == \A a \in signed : SignedOK(a)

Inv == /\ TypeOK /\ MemberInv /\ ShareInv /\ EpochInv /\ BackupInv /\ HoldInv /\ JobInv /\ StockInv
       /\ DrawInv /\ SignedInv

\* With one fee bump at most, a consignment is of the present transaction of its batch, and one
\* that was put aside is of the replaced one.
ConsignmentOK(b, o) ==
    /\ op[o].ready # None => batch[b].state \in SignedStates /\ op[o].ready = batch[b].epoch
    /\ op[o].prior # None =>
        batch[b].state \in SignedStates /\ op[o].prior = batch[b].replaces /\ bumps > 0
ConsignmentInv ==
    /\ \A b \in Batches : \A o \in MemberSet(b) : ConsignmentOK(b, o)
    /\ \A o \in Operations : op[o].state = "none" => op[o].ready = None /\ op[o].prior = None

-----------------------------------------------------------------------------
(* What the definitions mean, as far as the proofs need it.                *)

\* A planned member joins the ones before it.
LEMMA AppendMember ==
    ASSUME NEW seq \in Seq(Operations), NEW o \in Operations
    PROVE  Range(Append(seq, o)) = Range(seq) \cup {o}
<1>1. /\ Append(seq, o) \in Seq(Operations)
      /\ Len(Append(seq, o)) = Len(seq) + 1
      /\ \A i \in 1..Len(seq) : Append(seq, o)[i] = seq[i]
      /\ Append(seq, o)[Len(seq) + 1] = o
  BY AppendProperties
<1>2. DOMAIN seq = 1..Len(seq) /\ DOMAIN Append(seq, o) = 1..(Len(seq) + 1) /\ Len(seq) \in Nat
  BY <1>1
<1>3. 1..(Len(seq) + 1) = (1..Len(seq)) \cup {Len(seq) + 1}
  BY <1>2
<1> QED
  BY <1>1, <1>2, <1>3 DEF Range

\* Members are operations, and a call that writes some of them in order writes members.
LEMMA Prefixes ==
    ASSUME TypeOK, NEW b \in Batches
    PROVE  /\ MemberSet(b) \subseteq Operations
           /\ Len(members[b]) \in Nat
           /\ FirstMembers(b, Len(members[b])) = MemberSet(b)
           /\ \A k \in 0..Len(members[b]) : FirstMembers(b, k) \subseteq MemberSet(b)
<1>1. members[b] \in Seq(Operations)
  BY DEF TypeOK
<1>2. DOMAIN members[b] = 1..Len(members[b]) /\ Len(members[b]) \in Nat
  BY <1>1
<1>3. \A i \in 1..Len(members[b]) : members[b][i] \in Operations
  BY <1>1
<1> QED
  BY <1>2, <1>3 DEF FirstMembers, MemberSet, Range

\* cancel_send_batch stops at the first member that was signed on its own.
LEMMA CancelPrefix ==
    ASSUME TypeOK, NEW b \in Batches
    PROVE  /\ CancelReach(b) \in 0..Len(members[b])
           /\ \A k \in 0..CancelReach(b) : \A o \in FirstMembers(b, k) :
                o \in MemberSet(b) /\ op[o].state \notin SignedStates
<1> DEFINE stops == {i \in DOMAIN members[b] : op[members[b][i]].state \in SignedStates}
           n == Len(members[b])
<1>1. DOMAIN members[b] = 1..n /\ n \in Nat
  BY DEF TypeOK
<1>2. CASE stops = {}
  <2>1. CancelReach(b) = n
    BY <1>2 DEF CancelReach
  <2> QED
    BY <1>1, <1>2, <2>1, Prefixes DEF FirstMembers
<1>3. CASE stops # {}
  <2>1. PICK m \in stops : \A j \in stops : m <= j
    <3> DEFINE Less == {ss \in Nat \X Nat : ss[1] < ss[2]}
    <3>0. IsWellFoundedOn(Less, Nat)
      BY NatLessThanWellFounded, Zenon DEF OpToRel
    <3>1. PICK m \in stops : \A j \in stops : ~(<<j, m>> \in Less)
      <4>1. stops \subseteq Nat
        BY <1>1
      <4> HIDE DEF stops, Less
      <4> QED
        BY <1>3, <3>0, <4>1, WFMin
    <3>2. ASSUME NEW j \in stops PROVE ~(j < m)
      <4>1. j \in Nat /\ m \in Nat
        BY <1>1
      <4>2. <<j, m>> \in Nat \X Nat /\ <<j, m>>[1] = j /\ <<j, m>>[2] = m
        BY <4>1
      <4>3. ~(<<j, m>>[1] < <<j, m>>[2])
        BY <3>1, <4>2
      <4> QED
        BY <4>2, <4>3
    <3> QED
      BY <1>1, <3>2
  <2>2. m - 1 \in 0..n /\ (m - 1) + 1 \in stops /\ \A j \in stops : (m - 1) + 1 <= j
    BY <1>1, <2>1
  <2>3. CancelReach(b) = CHOOSE i \in 0..n : i + 1 \in stops /\ \A j \in stops : i + 1 <= j
    BY <1>3 DEF CancelReach
  <2>4. CancelReach(b) \in 0..n /\ \A j \in stops : CancelReach(b) + 1 <= j
    <3> HIDE DEF stops, n
    <3> QED BY <2>2, <2>3
  <2> QED
    BY <1>1, <2>4, Prefixes DEF FirstMembers
<1> QED
  BY <1>2, <1>3

\* What a cancellation leaves, wherever it ends: the members F are cancelled, then the stock is
\* freed, then the batch is cancelled.
Cancels(b, F) ==
    /\ F \subseteq MemberSet(b) /\ \A o \in F : op[o].state \notin SignedStates
    /\ op' = [o \in Operations |-> IF o \in F THEN CancelledRow(op[o]) ELSE op[o]]
    /\ \/ stock' = stock /\ batch' = batch
       \/ stock' = FreedStock(b) /\ batch' = batch
       \/ stock' = FreedStock(b) /\ batch' = [batch EXCEPT ![b].state = "cancelled"]
    /\ lease' \in {lease, None} /\ active' \in {active, None}
    /\ UNCHANGED <<reserve, bumps, relayed, mined, members, clock, exported, backed, signed>>

\* And in memory, when the process goes on.
Forgets(F) == pending' = pending \ F /\ final' = final /\ solo' \in {solo, None}

\* The writes of a cancellation, however far it comes.
LEMMA CancelWritten ==
    ASSUME TypeOK, NEW b \in Batches, NEW k \in 0..CancelReach(b),
           NEW cut \in {"members", "stock", "done"}, NEW held \in {lease, None},
           CancelWrites(b, k, cut, held)
    PROVE  Cancels(b, FirstMembers(b, k))
<1>1. /\ FirstMembers(b, k) \subseteq MemberSet(b)
      /\ \A o \in FirstMembers(b, k) : op[o].state \notin SignedStates
  BY CancelPrefix
<1> QED
  BY <1>1 DEF CancelWrites, Cancels

\* A cancellation that returns.
LEMMA CancelReturned ==
    ASSUME TypeOK, NEW b \in Batches, NEW held \in {lease, None}, CancelReturns(b, held)
    PROVE  \E F \in SUBSET Operations : Cancels(b, F) /\ Forgets(F)
<1>1. CancelReach(b) \in 0..CancelReach(b) /\ CancelEnd(b) \in {"members", "stock", "done"}
  BY CancelPrefix, Prefixes DEF CancelEnd
<1>2. Cancels(b, FirstMembers(b, CancelReach(b)))
  BY <1>1, CancelWritten DEF CancelReturns
<1>3. FirstMembers(b, CancelReach(b)) \in SUBSET Operations
  BY <1>2, Prefixes DEF Cancels
<1>4. Forgets(FirstMembers(b, CancelReach(b)))
  BY DEF CancelReturns, Forgets
<1> QED
  BY <1>2, <1>3, <1>4

\* cancel_send_batch
LEMMA CancelCalled ==
    ASSUME TypeOK, NEW b \in Batches, CancelSendBatch(b)
    PROVE  /\ BatchCancellable(b)
           /\ \E F \in SUBSET Operations :
                Cancels(b, F) /\ (Die \/ (Forgets(F) /\ UNCHANGED <<job, mishaps>>))
<1>1. CASE CancelReturns(b, lease) /\ UNCHANGED <<job, mishaps>>
  BY <1>1, CancelReturned DEF CancelSendBatch
<1>2. ASSUME NEW k \in 0..CancelReach(b), CancelWrites(b, k, "members", lease), Die
      PROVE  \E F \in SUBSET Operations : Cancels(b, F) /\ Die
  <2>1. Cancels(b, FirstMembers(b, k))
    BY <1>2, CancelWritten
  <2> QED
    BY <1>2, <2>1, Prefixes DEF Cancels
<1>3. ASSUME CancelEnd(b) = "done", CancelWrites(b, Len(members[b]), "stock", lease), Die
      PROVE  \E F \in SUBSET Operations : Cancels(b, F) /\ Die
  <2>1. Len(members[b]) \in 0..CancelReach(b)
    BY <1>3, CancelPrefix, Prefixes DEF CancelEnd
  <2>2. Cancels(b, FirstMembers(b, Len(members[b])))
    BY <1>3, <2>1, CancelWritten
  <2> QED
    BY <1>3, <2>2, Prefixes DEF Cancels
<1> QED
  BY <1>1, <1>2, <1>3 DEF CancelSendBatch

\* fail_send_batch_proof: the lease is lost, or the batch cancelled as well.
LEMMA CancelFailed ==
    ASSUME TypeOK, NEW t \in Threads, FailSendBatchProof(t)
    PROVE  \/ UNCHANGED <<reserveVars, batch, members, op, active, pending, final, solo, clock,
                          exported, backed, signed>>
           \/ /\ job[t].batch \in Batches /\ BatchCancellable(job[t].batch)
              /\ \E F \in SUBSET Operations : Cancels(job[t].batch, F) /\ Forgets(F)
<1>1. job[t].batch \in Batches
  BY DEF FailSendBatchProof, TypeOK, Jobs
<1> QED
  BY <1>1, CancelReturned DEF FailSendBatchProof

-----------------------------------------------------------------------------
(* Types.                                                                  *)

MemoryOK ==
    /\ pending \subseteq Operations /\ final \subseteq Operations
    /\ job \in [Threads -> Jobs \cup {None}]
    /\ solo \in [op : Operations, coin : Coins] \cup {None}
    /\ mishaps \in Nat

\* The memory of the next process, and of one that goes on, is well typed.
LEMMA DieTypes ==
    ASSUME TypeOK, Die
    PROVE  MemoryOK'
BY DEF TypeOK, Die, Mishap, MemoryOK

\* The same for the memory after a signing call.
LEMMA CutTypes ==
    ASSUME TypeOK, NEW cut \in Cuts, NEW reopened \in SUBSET Operations, AfterCut(cut, reopened)
    PROVE  MemoryOK'
BY DieTypes DEF TypeOK, AfterCut, Survive, Mishap, MemoryOK

\* Bumps are numbered.
LEMMA NextEpoch ==
    ASSUME TypeOK
    PROVE  0 \in Epochs /\ (bumps < MaxBumps => bumps + 1 \in Epochs)
<1>1. bumps \in 0..MaxBumps
  BY DEF TypeOK, ReserveTypeOK
<1> QED
  BY <1>1, ReserveAssumption DEF Epochs

\* A signing call leaves the signed state that it came to.
LEMMA BroadcastStates ==
    ASSUME NEW cut
    PROVE  BroadcastState(cut) \in SignedStates
BY DEF BroadcastState, SignedStates

\* The writes to a batch row.
LEMMA BatchRowWrites ==
    ASSUME NEW row \in BatchRows, NEW state \in BatchStates
    PROVE  /\ [row EXCEPT !.state = state] \in BatchRows
           /\ [row EXCEPT !.state = state, !.epoch = row.replaces, !.replaces = None] \in BatchRows
           /\ \A p \in SUBSET Batches :
                /\ [row EXCEPT !.acked = TRUE, !.prepared = p] \in BatchRows
                /\ [row EXCEPT !.state = state, !.acked = FALSE, !.prepared = p] \in BatchRows
           /\ \A e \in Epochs :
                /\ [row EXCEPT !.state = state, !.epoch = e] \in BatchRows
                /\ [row EXCEPT !.state = state, !.epoch = e, !.replaces = row.epoch] \in BatchRows
BY DEF BatchRows

\* Every call writes a batch row of its type.
LEMMA BatchTypes == TypeOK /\ [Next]_vars => (batch \in [Batches -> BatchRows])'
<1> SUFFICES ASSUME TypeOK, [Next]_vars PROVE (batch \in [Batches -> BatchRows])'
  OBVIOUS
<1> USE DEF BatchStates, reserveVars, durable, memory, host
<1> batch \in [Batches -> BatchRows] /\ exported \in SUBSET Batches
  BY DEF TypeOK
<1> 0 \in Epochs /\ (bumps < MaxBumps => bumps + 1 \in Epochs)
  BY NextEpoch
<1> \A cut : BroadcastState(cut) \in BatchStates
  BY BroadcastStates DEF SignedStates
<1>1. ASSUME NEW b \in Batches, NEW o \in Operations, TransferBatchPlan(b, o)
      PROVE (batch \in [Batches -> BatchRows])'
  BY <1>1 DEF TransferBatchPlan, BatchRows
<1>2. ASSUME NEW b \in Batches, FreezeSendBatch(b) PROVE (batch \in [Batches -> BatchRows])'
  BY <1>2 DEF FreezeSendBatch, BatchRows
<1>3. ASSUME NEW b \in Batches, CancelSendBatch(b) PROVE (batch \in [Batches -> BatchRows])'
  BY <1>3, CancelCalled DEF Cancels, BatchRows
<1>4. ASSUME NEW b \in Batches, AcknowledgeSendBatchBackup(b)
      PROVE (batch \in [Batches -> BatchRows])'
  BY <1>4 DEF AcknowledgeSendBatchBackup, BatchRows
<1>5. ASSUME NEW b \in Batches, NEW cut \in Cuts, SignAndBroadcastSendBatch(b, cut)
      PROVE (batch \in [Batches -> BatchRows])'
  BY <1>5, BatchRowWrites DEF SignAndBroadcastSendBatch
<1>6. ASSUME NEW b \in Batches, NEW cut \in Cuts, FeeBumpSendBatch(b, cut)
      PROVE (batch \in [Batches -> BatchRows])'
  BY <1>6, BatchRowWrites DEF FeeBumpSendBatch
<1>7. ASSUME NEW b \in Batches, NEW cut \in Cuts, ResumeSendBatch(b, cut)
      PROVE (batch \in [Batches -> BatchRows])'
  BY <1>7 DEF ResumeSendBatch, BatchRows
<1>8. ASSUME NEW b \in Batches, ObserveSendBatch(b) PROVE (batch \in [Batches -> BatchRows])'
  BY <1>8 DEF ObserveSendBatch, BatchRows
<1>9. ASSUME NEW b \in Batches, ReconcileSendBatch(b) PROVE (batch \in [Batches -> BatchRows])'
  BY <1>9, BatchRowWrites DEF ReconcileSendBatch, RestoredBatch
<1>10. ASSUME NEW b \in Batches, RefreshSendBatchSpv(b) PROVE (batch \in [Batches -> BatchRows])'
  BY <1>10 DEF RefreshSendBatchSpv, BatchRows
<1>11. ASSUME NEW t \in Threads, FinishSendBatchProof(t) PROVE (batch \in [Batches -> BatchRows])'
  <2>1. job[t].batch \in Batches
    BY <1>11 DEF FinishSendBatchProof, TypeOK, Jobs
  <2>2. Checkpoint \cup {job[t].batch} \in SUBSET Batches
    BY <2>1 DEF Checkpoint
  <2> QED
    <3>1. CASE UNCHANGED batch
      BY <3>1
    <3>2. CASE batch' = [batch EXCEPT ![job[t].batch] =
                  [@ EXCEPT !.state = "proof_ready", !.acked = FALSE,
                            !.prepared = Checkpoint \cup {job[t].batch}]]
      BY <2>1, <2>2, <3>2, BatchRowWrites
    <3> QED
      BY <1>11, <3>1, <3>2 DEF FinishSendBatchProof
<1>12. ASSUME NEW t \in Threads, FailSendBatchProof(t) PROVE (batch \in [Batches -> BatchRows])'
  <2>1. CASE UNCHANGED batch
    BY <2>1
  <2>2. ASSUME job[t].batch \in Batches, NEW F, Cancels(job[t].batch, F)
        PROVE (batch \in [Batches -> BatchRows])'
    BY <2>2 DEF Cancels, BatchRows
  <2> QED
    BY <1>12, <2>1, <2>2, CancelFailed
<1>13. ASSUME NEW cut \in Cuts, ReserveNext(cut),
             UNCHANGED <<durable, signed, clock, exported, backed>>, AfterCut(cut, {})
      PROVE  (batch \in [Batches -> BatchRows])'
  BY <1>13
<1>14. ASSUME NEW b \in Batches, NEW o \in Operations,
             AddRecipient(b, o)
      PROVE  (batch \in [Batches -> BatchRows])'
  BY <1>14 DEF AddRecipient
<1>15. ASSUME NEW b \in Batches,
             Late(b)
      PROVE  (batch \in [Batches -> BatchRows])'
  BY <1>15 DEF Late
<1>16. ASSUME NEW b \in Batches, NEW t \in Threads,
             BeginSendBatchProof(b, t) \/ BeginStops(b, t)
      PROVE  (batch \in [Batches -> BatchRows])'
  BY <1>16 DEF BeginSendBatchProof, BeginStops
<1>17. ASSUME NEW o \in Operations,
             CancelOperation(o) \/ ProveOperation(o) \/ AcknowledgeBackup(o) \/ SignAndBroadcast(o)
      PROVE  (batch \in [Batches -> BatchRows])'
  BY <1>17 DEF CancelOperation, ProveOperation, AcknowledgeBackup, SignAndBroadcast
<1>18. CASE FinishProof \/ Export \/ Mine \/ Stop
  BY <1>18 DEF FinishProof, Export, Mine, Stop
<1>19. CASE UNCHANGED vars
  BY <1>19 DEF vars
<1> QED
  BY <1>1, <1>2, <1>3, <1>4, <1>5, <1>6, <1>7, <1>8, <1>9, <1>10, <1>11, <1>12, <1>13, <1>14,
     <1>15, <1>16, <1>17, <1>18, <1>19
  DEF Next, Reserve, SendBatchStep, OperationStep

\* The writes to an operation row.
LEMMA OperationRowWrites ==
    ASSUME NEW row \in OperationRows
    PROVE  /\ \A state \in OperationStates :
                /\ [row EXCEPT !.state = state] \in OperationRows
                /\ [row EXCEPT !.state = state, !.fee = "reserved"] \in OperationRows
                /\ \A e \in Epochs \cup {None} :
                    [row EXCEPT !.state = state, !.ready = e] \in OperationRows
                /\ \A c \in Coins :
                    [row EXCEPT !.state = state, !.coin = c, !.acked = FALSE] \in OperationRows
                /\ \A tx \in Transactions :
                    /\ [row EXCEPT !.state = state, !.tx = tx,
                      !.fee = "signature_released"] \in OperationRows
                    /\ [row EXCEPT !.state = state, !.tx = tx, !.ready = None,
                            !.prior = IF row.ready = None THEN row.prior ELSE row.ready] \in OperationRows
                    /\ [row EXCEPT !.state = state, !.tx = tx, !.ready = row.prior,
                                   !.prior = None] \in OperationRows
           /\ [row EXCEPT !.acked = TRUE] \in OperationRows
           /\ CancelledRow(row) \in OperationRows
<1> USE DEF OperationRows
<1>1. ASSUME NEW state \in OperationStates
      PROVE  /\ [row EXCEPT !.state = state] \in OperationRows
             /\ [row EXCEPT !.state = state, !.fee = "reserved"] \in OperationRows
  OBVIOUS
<1>2. ASSUME NEW state \in OperationStates, NEW e \in Epochs \cup {None}
      PROVE  [row EXCEPT !.state = state, !.ready = e] \in OperationRows
  OBVIOUS
<1>3. ASSUME NEW state \in OperationStates, NEW c \in Coins
      PROVE  [row EXCEPT !.state = state, !.coin = c, !.acked = FALSE] \in OperationRows
  OBVIOUS
<1>4. ASSUME NEW state \in OperationStates, NEW tx \in Transactions
      PROVE  [row EXCEPT !.state = state, !.tx = tx, !.fee = "signature_released"] \in OperationRows
  OBVIOUS
<1>5. ASSUME NEW state \in OperationStates, NEW tx \in Transactions
      PROVE  /\ [row EXCEPT !.state = state, !.tx = tx, !.ready = None,
                     !.prior = IF row.ready = None THEN row.prior ELSE row.ready] \in OperationRows
             /\ [row EXCEPT !.state = state, !.tx = tx, !.ready = row.prior,
                            !.prior = None] \in OperationRows
  OBVIOUS
<1>6. [row EXCEPT !.acked = TRUE] \in OperationRows /\ CancelledRow(row) \in OperationRows
  BY DEF CancelledRow, OperationStates
<1> HIDE DEF OperationRows
<1> QED
  BY <1>1, <1>2, <1>3, <1>4, <1>5, <1>6

\* The name of a transaction of a batch.
LEMMA BatchTransactions ==
    ASSUME NEW b \in Batches, NEW e \in Epochs
    PROVE  <<b, e>> \in Transactions
BY DEF Transactions

\* Every call writes operation rows of their type.
LEMMA OperationTypes == TypeOK /\ [Next]_vars => (op \in [Operations -> OperationRows])'
<1> SUFFICES ASSUME TypeOK, [Next]_vars PROVE (op \in [Operations -> OperationRows])'
  OBVIOUS
<1> USE DEF OperationStates, SignedStates, reserveVars, durable, memory, host
<1> op \in [Operations -> OperationRows] /\ batch \in [Batches -> BatchRows]
  BY DEF TypeOK
<1> 0 \in Epochs /\ (bumps < MaxBumps => bumps + 1 \in Epochs)
  BY NextEpoch
<1>1. ASSUME NEW b \in Batches, NEW o \in Operations, AddRecipient(b, o)
      PROVE (op \in [Operations -> OperationRows])'
  BY <1>1 DEF AddRecipient, PlanMember, OperationRows
<1>2. ASSUME NEW b \in Batches, NEW o \in Operations, TransferBatchPlan(b, o)
      PROVE (op \in [Operations -> OperationRows])'
  BY <1>2 DEF TransferBatchPlan, PlanMember, OperationRows
<1>3. ASSUME NEW b \in Batches, CancelSendBatch(b) PROVE (op \in [Operations -> OperationRows])'
  <2>1. PICK F : Cancels(b, F)
    BY <1>3, CancelCalled
  <2> QED
    BY <2>1, OperationRowWrites DEF Cancels
<1>4. ASSUME NEW b \in Batches, NEW t \in Threads, BeginSendBatchProof(b, t)
      PROVE (op \in [Operations -> OperationRows])'
  BY <1>4, OperationRowWrites DEF BeginSendBatchProof, ReserveFees
<1>5. ASSUME NEW b \in Batches, NEW t \in Threads, BeginStops(b, t)
      PROVE (op \in [Operations -> OperationRows])'
  <2>1. PICK k : ReserveFees(b, k)
    BY <1>5 DEF BeginStops
  <2> QED
    BY <2>1, OperationRowWrites DEF ReserveFees
<1>6. ASSUME NEW b \in Batches, AcknowledgeSendBatchBackup(b)
      PROVE (op \in [Operations -> OperationRows])'
  BY <1>6, OperationRowWrites DEF AcknowledgeSendBatchBackup
<1>7. ASSUME NEW b \in Batches, NEW cut \in Cuts, SignAndBroadcastSendBatch(b, cut)
      PROVE (op \in [Operations -> OperationRows])'
  BY <1>7, OperationRowWrites, BatchTransactions, BroadcastStates DEF SignAndBroadcastSendBatch,
     SignedMembers
<1>8. ASSUME NEW b \in Batches, NEW cut \in Cuts, FeeBumpSendBatch(b, cut)
      PROVE (op \in [Operations -> OperationRows])'
  <2>1. <<b, bumps + 1>> \in Transactions /\ BroadcastState(cut) \in OperationStates
    BY <1>8, BatchTransactions, BroadcastStates DEF FeeBumpSendBatch
  <2> QED
    BY <1>8, <2>1, OperationRowWrites DEF FeeBumpSendBatch, BumpedMembers
<1>9. ASSUME NEW b \in Batches, NEW cut \in Cuts, ResumeSendBatch(b, cut)
      PROVE (op \in [Operations -> OperationRows])'
  <2>1. CASE UNCHANGED op
    BY <2>1
  <2>2. CASE op' = [o \in Operations |-> IF o \in MemberSet(b)
                      THEN [op[o] EXCEPT !.state = "broadcast_unobserved"] ELSE op[o]]
    BY <2>2, OperationRowWrites
  <2> QED
    BY <1>9, <2>1, <2>2 DEF ResumeSendBatch
<1>10. ASSUME NEW b \in Batches, ObserveSendBatch(b) PROVE (op \in [Operations -> OperationRows])'
  <2>1. batch[b].epoch \in Epochs \cup {None}
    BY DEF BatchRows
  <2>2. PICK k : FinalizeMembers(b, k, "mempool")
    BY <1>10 DEF ObserveSendBatch
  <2> QED
    BY <2>1, <2>2, OperationRowWrites DEF FinalizeMembers
<1>11. ASSUME NEW b \in Batches, ReconcileSendBatch(b) PROVE (op \in [Operations -> OperationRows])'
  <2>1. batch[b].replaces \in Epochs
    BY <1>11 DEF ReconcileSendBatch, ReplacedMined, BatchRows
  <2> QED
    BY <1>11, <2>1, OperationRowWrites, BatchTransactions DEF ReconcileSendBatch, RestoredMembers
<1>12. ASSUME NEW b \in Batches,
              RefreshSendBatchSpv(b) PROVE (op \in [Operations -> OperationRows])'
  BY <1>12, OperationRowWrites DEF RefreshSendBatchSpv
<1>13. ASSUME NEW t \in Threads,
              FinishSendBatchProof(t) PROVE (op \in [Operations -> OperationRows])'
  <2>1. ASSUME job[t].coins # None, Installable(job[t].batch, job[t].coins)
        PROVE  \A o \in MemberSet(job[t].batch) : job[t].coins[o] \in Coins
    BY <2>1 DEF Installable, FreeCoins
  <2>2. CASE UNCHANGED op
    BY <2>2
  <2>3. CASE Installable(job[t].batch, job[t].coins)
    <3>1. op' = [o \in Operations |-> IF o \in MemberSet(job[t].batch)
                  THEN [op[o] EXCEPT !.state = "proof_ready", !.coin = job[t].coins[o],
                    !.acked = FALSE]
                  ELSE op[o]]
      BY <1>13, <2>3 DEF FinishSendBatchProof
    <3>2. \A o \in MemberSet(job[t].batch) : job[t].coins[o] \in Coins
      BY <1>13, <2>1, <2>3 DEF FinishSendBatchProof
    <3> QED
      BY <3>1, <3>2, OperationRowWrites
  <2> QED
    BY <1>13, <2>2, <2>3 DEF FinishSendBatchProof
<1>14. ASSUME NEW t \in Threads, FailSendBatchProof(t) PROVE (op \in [Operations -> OperationRows])'
  <2>1. CASE UNCHANGED op
    BY <2>1
  <2>2. ASSUME NEW F, Cancels(job[t].batch, F) PROVE (op \in [Operations -> OperationRows])'
    BY <2>2, OperationRowWrites DEF Cancels
  <2> QED
    BY <1>14, <2>1, <2>2, CancelFailed
<1>15. ASSUME NEW o \in Operations, CancelOperation(o) PROVE (op \in [Operations -> OperationRows])'
  BY <1>15, OperationRowWrites DEF CancelOperation
<1>16. ASSUME NEW o \in Operations, ProveOperation(o) PROVE (op \in [Operations -> OperationRows])'
  BY <1>16, OperationRowWrites DEF ProveOperation
<1>17. ASSUME NEW o \in Operations,
              AcknowledgeBackup(o) PROVE (op \in [Operations -> OperationRows])'
  <2>1. op' = [op EXCEPT ![o] = [op[o] EXCEPT !.acked = TRUE]] /\ op[o] \in OperationRows
    BY <1>17 DEF AcknowledgeBackup
  <2>2. [op[o] EXCEPT !.acked = TRUE] \in OperationRows
    BY <2>1 DEF OperationRows
  <2> QED
    BY <2>1, <2>2
<1>18. ASSUME NEW o \in Operations,
              SignAndBroadcast(o) PROVE (op \in [Operations -> OperationRows])'
  BY <1>18, OperationRowWrites DEF SignAndBroadcast, Transactions
<1>19. CASE FinishProof
  <2>1. solo # None => solo.op \in Operations /\ solo.coin \in Coins
    BY DEF TypeOK
  <2> QED
    <3>1. CASE UNCHANGED op
      BY <3>1
    <3>2. CASE op' = [op EXCEPT ![solo.op] = [op[solo.op] EXCEPT !.state = "proof_ready",
                                                !.coin = solo.coin, !.acked = FALSE]]
      BY <1>19, <2>1, <3>2, OperationRowWrites DEF FinishProof
    <3> QED
      BY <1>19, <3>1, <3>2 DEF FinishProof
<1>20. ASSUME NEW cut \in Cuts, ReserveNext(cut),
             UNCHANGED <<durable, signed, clock, exported, backed>>, AfterCut(cut, {})
      PROVE  (op \in [Operations -> OperationRows])'
  BY <1>20
<1>21. ASSUME NEW b \in Batches,
             FreezeSendBatch(b) \/ Late(b)
      PROVE  (op \in [Operations -> OperationRows])'
  BY <1>21 DEF FreezeSendBatch, Late
<1>22. CASE Export \/ Mine \/ Stop
  BY <1>22 DEF Export, Mine, Stop
<1>23. CASE UNCHANGED vars
  BY <1>23 DEF vars
<1> QED
  BY <1>1, <1>2, <1>3, <1>4, <1>5, <1>6, <1>7, <1>8, <1>9, <1>10, <1>11, <1>12, <1>13, <1>14,
     <1>15, <1>16, <1>17, <1>18, <1>19, <1>20, <1>21, <1>22, <1>23
  DEF Next, Reserve, SendBatchStep, OperationStep

\* The writes to a stock row.
LEMMA StockRowWrites ==
    ASSUME NEW row \in StockRows
    PROVE  /\ \A state \in StockStates :
                /\ [row EXCEPT !.state = state] \in StockRows
                /\ \A by \in Batches \cup {None} : [row EXCEPT !.state = state,
                  !.by = by] \in StockRows
                /\ \A tx \in (Reserves \cup Batches) \X Epochs :
                    [row EXCEPT !.tx = tx, !.state = state] \in StockRows
           /\ \A tx \in (Reserves \cup Batches) \X Epochs :
                /\ [row EXCEPT !.tx = tx] \in StockRows
                /\ PendingStock(tx) \in StockRows
<1> USE DEF StockRows
<1>1. ASSUME NEW state \in StockStates
      PROVE  [row EXCEPT !.state = state] \in StockRows
  OBVIOUS
<1>2. ASSUME NEW state \in StockStates, NEW by \in Batches \cup {None}
      PROVE  [row EXCEPT !.state = state, !.by = by] \in StockRows
  OBVIOUS
<1>3. ASSUME NEW state \in StockStates, NEW tx \in (Reserves \cup Batches) \X Epochs
      PROVE  [row EXCEPT !.tx = tx, !.state = state] \in StockRows
  OBVIOUS
<1>4. ASSUME NEW tx \in (Reserves \cup Batches) \X Epochs
      PROVE  [row EXCEPT !.tx = tx] \in StockRows /\ PendingStock(tx) \in StockRows
  BY DEF PendingStock, StockStates
<1> HIDE DEF StockRows
<1> QED
  BY <1>1, <1>2, <1>3, <1>4

\* A version of a split or of a batch that is relayed is a transaction.
LEMMA BroadcastTypes ==
    ASSUME relayed \subseteq Transactions, NEW tx \in (Reserves \cup Batches) \X Epochs, NEW cut,
           Broadcast(tx, cut)
    PROVE  relayed' \subseteq Transactions
BY DEF Broadcast, Transactions

\* The calls for reserves write rows of their types.
LEMMA ReserveTypes ==
    ASSUME TypeOK, NEW cut \in Cuts, ReserveNext(cut)
    PROVE  ReserveTypeOK' /\ relayed' \subseteq Transactions
<1> DEFINE Goal == ReserveTypeOK' /\ relayed' \subseteq Transactions
<1>t. /\ reserve \in [Reserves -> ReserveRows] /\ stock \in [StockIds -> StockRows]
      /\ bumps \in 0..MaxBumps /\ relayed \subseteq Transactions
  BY DEF TypeOK, ReserveTypeOK
<1>e. 0 \in Epochs /\ (bumps < MaxBumps => bumps + 1 \in Epochs /\ bumps + 1 \in 0..MaxBumps)
  BY NextEpoch DEF Epochs
<1>b. BroadcastState(cut) \in InFlight
  BY DEF BroadcastState, InFlight
<1>r. \A r \in Reserves : /\ reserve[r].epoch \in Epochs /\ reserve[r].candidates \subseteq Epochs
                          /\ \A e \in Epochs : <<r, e>> \in (Reserves \cup Batches) \X Epochs
  BY <1>t DEF ReserveRows
<1>m. ASSUME NEW old, NEW r \in Reserves, NEW e \in Epochs, Retarget(old, <<r, e>>)
      PROVE  stock' \in [StockIds -> StockRows]
  BY <1>t, <1>r, <1>m, StockRowWrites DEF Retarget
<1>1. ASSUME NEW r \in Reserves, PrepareBatchReserves(r, cut) PROVE Goal
  <2>1. reserve' \in [Reserves -> ReserveRows]
    BY <1>1, <1>t, <1>b DEF PrepareBatchReserves, ReserveRows
  <2>2. [tx |-> <<r, 0>>, state |-> "pending", by |-> None] \in StockRows
    BY <1>e DEF StockRows, StockStates
  <2>3. stock' \in [StockIds -> StockRows]
    BY <1>1, <1>t, <2>2 DEF PrepareBatchReserves, SplitStocks
  <2>4. relayed' \subseteq Transactions
    BY <1>1, <1>t, <1>r, <1>e, BroadcastTypes DEF PrepareBatchReserves
  <2> QED
    BY <1>1, <1>t, <2>1, <2>3, <2>4 DEF PrepareBatchReserves, ReserveTypeOK
<1>2. ASSUME NEW r \in Reserves, FeeBumpBatchReserves(r, cut) PROVE Goal
  <2>0. bumps + 1 \in Epochs /\ bumps' \in 0..MaxBumps
    BY <1>2, <1>e DEF FeeBumpBatchReserves
  <2>1. [state |-> BroadcastState(cut), epoch |-> bumps + 1,
         candidates |-> reserve[r].candidates \cup {reserve[r].epoch}] \in ReserveRows
    BY <1>b, <1>r, <2>0 DEF ReserveRows
  <2>2. reserve' \in [Reserves -> ReserveRows]
    BY <1>2, <1>t, <2>1 DEF FeeBumpBatchReserves
  <2>3. stock' \in [StockIds -> StockRows]
    BY <1>2, <1>m, <2>0 DEF FeeBumpBatchReserves
  <2>4. relayed' \subseteq Transactions
    BY <1>2, <1>t, <1>r, <2>0, BroadcastTypes DEF FeeBumpBatchReserves
  <2> QED
    BY <2>0, <2>2, <2>3, <2>4 DEF ReserveTypeOK
<1>3. ASSUME NEW r \in Reserves, ResumeBatchReserves(r, cut) PROVE Goal
  <2>1. reserve' \in [Reserves -> ReserveRows]
    BY <1>3, <1>t DEF ResumeBatchReserves, ReserveRows, InFlight
  <2>2. relayed' \subseteq Transactions
    BY <1>3, <1>t, <1>r, BroadcastTypes DEF ResumeBatchReserves
  <2> QED
    BY <1>3, <1>t, <2>1, <2>2 DEF ResumeBatchReserves, ReserveTypeOK
<1>4. ASSUME NEW r \in Reserves, ReconcileBatchReserve(r) PROVE Goal
  <2>1. PICK e \in MinedCandidates(r) :
          /\ reserve' = [reserve EXCEPT ![r] = [state |-> "broadcast_unobserved", epoch |-> e,
                                                candidates |-> {}]]
          /\ Retarget(<<r, reserve[r].epoch>>, <<r, e>>)
    BY <1>4 DEF ReconcileBatchReserve
  <2>2. e \in Epochs
    BY <1>r DEF MinedCandidates
  <2>3. [state |-> "broadcast_unobserved", epoch |-> e, candidates |-> {}] \in ReserveRows
    BY <2>2 DEF ReserveRows, InFlight
  <2>4. reserve' \in [Reserves -> ReserveRows] /\ stock' \in [StockIds -> StockRows]
    BY <1>t, <1>m, <2>1, <2>2, <2>3
  <2> QED
    BY <1>4, <1>t, <2>4 DEF ReconcileBatchReserve, ReserveTypeOK
<1>5. ASSUME NEW r \in Reserves, ObserveBatchReserve(r) PROVE Goal
  <2>1. reserve' \in [Reserves -> ReserveRows]
    BY <1>5, <1>t DEF ObserveBatchReserve, ReserveRows, InFlight
  <2> QED
    BY <1>5, <1>t, <2>1 DEF ObserveBatchReserve, ReserveTypeOK
<1>6. ASSUME NEW r \in Reserves, RefreshBatchReserves(r) PROVE Goal
  <2>1. PICK e \in VerifiedEpoch(r) :
          /\ reserve' = [reserve EXCEPT ![r] =
                [state |-> "confirmed", epoch |-> e,
                 candidates |-> IF e \in reserve[r].candidates THEN {} ELSE reserve[r].candidates]]
          /\ stock' = [s \in StockIds |->
                IF stock[s].tx = <<r, reserve[r].epoch>> /\ stock[s].state = "pending"
                THEN [stock[s] EXCEPT !.tx = <<r, e>>, !.state = "available"] ELSE stock[s]]
    BY <1>6 DEF RefreshBatchReserves
  <2>2. e \in Epochs
    BY <1>r DEF VerifiedEpoch, MinedCandidates
  <2>3. [state |-> "confirmed", epoch |-> e,
         candidates |-> IF e \in reserve[r].candidates THEN {} ELSE reserve[r].candidates] \in ReserveRows
    BY <1>r, <2>2 DEF ReserveRows
  <2>4. reserve' \in [Reserves -> ReserveRows]
    BY <1>t, <2>1, <2>3
  <2>5. "available" \in StockStates
    BY DEF StockStates
  <2>6. stock' \in [StockIds -> StockRows]
    BY <1>t, <1>r, <2>1, <2>2, <2>5, StockRowWrites
  <2> QED
    BY <1>6, <1>t, <2>4, <2>6 DEF RefreshBatchReserves, ReserveTypeOK
<1> QED
  BY <1>1, <1>2, <1>3, <1>4, <1>5, <1>6 DEF ReserveNext

\* The transaction of a signed batch.
LEMMA SignedEpoch ==
    ASSUME EpochInv, NEW b \in Batches, batch[b].state \in SignedStates
    PROVE  BatchTx(b) \in (Reserves \cup Batches) \X Epochs
BY DEF EpochInv, BatchTx

\* The stock rows, the fee bumps and the transactions that are known.
StoreOK == ReserveTypeOK /\ relayed \subseteq Transactions /\ mined \subseteq Transactions

\* reserve_batch_stock and the release of a stock write rows of its type.
LEMMA DrawTypes ==
    ASSUME stock \in [StockIds -> StockRows], NEW b \in Batches
    PROVE  /\ FreedStock(b) \in [StockIds -> StockRows]
           /\ ReserveStock(b) => stock' \in [StockIds -> StockRows]
<1> "available" \in StockStates /\ "reserved" \in StockStates
  BY DEF StockStates
<1>1. FreedStock(b) \in [StockIds -> StockRows]
  BY StockRowWrites DEF FreedStock
<1>2. ASSUME NEW s \in AvailableStock,
             stock' = [stock EXCEPT ![s] = [stock[s] EXCEPT !.state = "reserved", !.by = b]]
      PROVE  stock' \in [StockIds -> StockRows]
  BY <1>2, StockRowWrites DEF AvailableStock
<1> QED
  BY <1>1, <1>2 DEF ReserveStock

\* Every call writes stock rows of their type and relays transactions.
LEMMA StoreTypes == TypeOK /\ EpochInv /\ [Next]_vars => StoreOK'
<1> SUFFICES ASSUME TypeOK /\ EpochInv, [Next]_vars PROVE StoreOK'
  OBVIOUS
<1> USE DEF StoreOK, reserveVars, durable, memory, host
<1> /\ stock \in [StockIds -> StockRows] /\ reserve \in [Reserves -> ReserveRows]
    /\ bumps \in 0..MaxBumps /\ relayed \subseteq Transactions /\ mined \subseteq Transactions
  BY DEF TypeOK, ReserveTypeOK
<1> 0 \in Epochs /\ (bumps < MaxBumps => bumps + 1 \in Epochs)
  BY NextEpoch
<1>1. ASSUME NEW cut \in Cuts, ReserveNext(cut),
             UNCHANGED <<durable, signed, clock, exported, backed>>, AfterCut(cut, {})
      PROVE  StoreOK'
  BY <1>1, ReserveTypes DEF ReserveNext, PrepareBatchReserves, FeeBumpBatchReserves,
     ResumeBatchReserves, ReconcileBatchReserve, ObserveBatchReserve, RefreshBatchReserves
<1>2. ASSUME NEW b \in Batches, CancelSendBatch(b) PROVE StoreOK'
  <2>1. PICK F : Cancels(b, F)
    BY <1>2, CancelCalled
  <2> QED
    BY <2>1, DrawTypes DEF Cancels, ReserveTypeOK
<1>3. ASSUME NEW b \in Batches, NEW t \in Threads, BeginSendBatchProof(b, t) PROVE StoreOK'
  BY <1>3, DrawTypes DEF BeginSendBatchProof, ReserveTypeOK
<1>4. ASSUME NEW b \in Batches, NEW t \in Threads, BeginStops(b, t) PROVE StoreOK'
  BY <1>4, DrawTypes DEF BeginStops, ReserveTypeOK
<1>5. ASSUME NEW b \in Batches, NEW cut \in Cuts, SignAndBroadcastSendBatch(b, cut) PROVE StoreOK'
  <2>1. <<b, 0>> \in (Reserves \cup Batches) \X Epochs /\ "signature_released" \in StockStates
    BY DEF StockStates
  <2>2. stock' \in [StockIds -> StockRows]
    BY <1>5, <2>1, StockRowWrites DEF SignAndBroadcastSendBatch, SignedStocks
  <2>3. relayed' \subseteq Transactions
    BY <1>5, <2>1, BroadcastTypes DEF SignAndBroadcastSendBatch
  <2> QED
    BY <1>5, <2>2, <2>3 DEF SignAndBroadcastSendBatch, ReserveTypeOK
<1>6. ASSUME NEW b \in Batches, NEW cut \in Cuts, FeeBumpSendBatch(b, cut) PROVE StoreOK'
  <2>1. <<b, bumps + 1>> \in (Reserves \cup Batches) \X Epochs /\ "invalidated" \in StockStates
    BY <1>6 DEF FeeBumpSendBatch, StockStates
  <2>2. stock' \in [StockIds -> StockRows]
    BY <1>6, <2>1, StockRowWrites DEF FeeBumpSendBatch, BumpedStocks
  <2>3. relayed' \subseteq Transactions
    BY <1>6, <2>1, BroadcastTypes DEF FeeBumpSendBatch
  <2>4. bumps' \in 0..MaxBumps
    BY <1>6 DEF FeeBumpSendBatch, Epochs
  <2> QED
    BY <1>6, <2>2, <2>3, <2>4 DEF FeeBumpSendBatch, ReserveTypeOK
<1>7. ASSUME NEW b \in Batches, NEW cut \in Cuts, ResumeSendBatch(b, cut) PROVE StoreOK'
  <2>1. BatchTx(b) \in (Reserves \cup Batches) \X Epochs
    BY <1>7, SignedEpoch DEF ResumeSendBatch, SignedStates
  <2>2. relayed' \subseteq Transactions
    BY <1>7, <2>1, BroadcastTypes DEF ResumeSendBatch
  <2> QED
    BY <1>7, <2>2 DEF ResumeSendBatch, ReserveTypeOK
<1>8. ASSUME NEW b \in Batches, ReconcileSendBatch(b) PROVE StoreOK'
  <2>1. "pending" \in StockStates /\ "invalidated" \in StockStates
    BY DEF StockStates
  <2>2. stock' \in [StockIds -> StockRows]
    BY <1>8, <2>1, StockRowWrites DEF ReconcileSendBatch, RestoredStocks
  <2> QED
    BY <1>8, <2>2 DEF ReconcileSendBatch, ReserveTypeOK
<1>9. ASSUME NEW b \in Batches, RefreshSendBatchSpv(b) PROVE StoreOK'
  <2>1. "confirmed" \in StockStates
    BY DEF StockStates
  <2>2. stock' \in [StockIds -> StockRows]
    BY <1>9, <2>1, StockRowWrites DEF RefreshSendBatchSpv
  <2> QED
    BY <1>9, <2>2 DEF RefreshSendBatchSpv, ReserveTypeOK
<1>10. ASSUME NEW t \in Threads, FailSendBatchProof(t) PROVE StoreOK'
  <2>1. CASE UNCHANGED reserveVars
    BY <2>1 DEF ReserveTypeOK
  <2>2. ASSUME job[t].batch \in Batches, NEW F, Cancels(job[t].batch, F) PROVE StoreOK'
    BY <2>2, DrawTypes DEF Cancels, ReserveTypeOK
  <2> QED
    BY <1>10, <2>1, <2>2, CancelFailed
<1>11. ASSUME NEW o \in Operations, SignAndBroadcast(o) PROVE StoreOK'
  BY <1>11 DEF SignAndBroadcast, Transactions, ReserveTypeOK
<1>12. CASE Mine
  BY <1>12 DEF Mine, ReserveTypeOK
<1>13. ASSUME NEW b \in Batches, NEW o \in Operations,
             AddRecipient(b, o) \/ TransferBatchPlan(b, o)
      PROVE  StoreOK'
  BY <1>13 DEF AddRecipient, TransferBatchPlan, ReserveTypeOK
<1>14. ASSUME NEW b \in Batches,
             FreezeSendBatch(b) \/ Late(b) \/ AcknowledgeSendBatchBackup(b) \/ ObserveSendBatch(b)
      PROVE  StoreOK'
  BY <1>14 DEF FreezeSendBatch, Late, AcknowledgeSendBatchBackup, ObserveSendBatch, ReserveTypeOK
<1>15. ASSUME NEW t \in Threads,
             FinishSendBatchProof(t)
      PROVE  StoreOK'
  BY <1>15 DEF FinishSendBatchProof, ReserveTypeOK
<1>16. ASSUME NEW o \in Operations,
             CancelOperation(o) \/ ProveOperation(o) \/ AcknowledgeBackup(o)
      PROVE  StoreOK'
  BY <1>16 DEF CancelOperation, ProveOperation, AcknowledgeBackup, ReserveTypeOK
<1>17. CASE FinishProof \/ Export \/ Stop
  BY <1>17 DEF FinishProof, Export, Stop, ReserveTypeOK
<1>18. CASE UNCHANGED vars
  BY <1>18 DEF vars, ReserveTypeOK
<1> QED
  BY <1>1, <1>2, <1>3, <1>4, <1>5, <1>6, <1>7, <1>8, <1>9, <1>10, <1>11, <1>12, <1>13, <1>14,
     <1>15, <1>16, <1>17, <1>18
  DEF Next, Reserve, SendBatchStep, OperationStep

\* The members of the batches, and what the account meta rows and the host know.
HostOK ==
    /\ members \in [Batches -> Seq(Operations)]
    /\ active \in Batches \cup {None} /\ lease \in Batches \cup {None}
    /\ clock \in [Batches -> 0..2]
    /\ exported \subseteq Batches /\ backed \subseteq Batches

\* Every call keeps them so.
LEMMA HostTypes == TypeOK /\ [Next]_vars => HostOK'
<1> SUFFICES ASSUME TypeOK, [Next]_vars PROVE HostOK'
  OBVIOUS
<1> USE DEF HostOK, reserveVars, durable, memory, host
<1> /\ members \in [Batches -> Seq(Operations)]
    /\ active \in Batches \cup {None} /\ lease \in Batches \cup {None}
    /\ clock \in [Batches -> 0..2]
    /\ exported \subseteq Batches /\ backed \subseteq Batches
  BY DEF TypeOK
<1>1. ASSUME NEW b \in Batches, NEW o \in Operations, AddRecipient(b, o) PROVE HostOK'
  BY <1>1, AppendProperties DEF AddRecipient, PlanMember
<1>2. ASSUME NEW b \in Batches, NEW o \in Operations, TransferBatchPlan(b, o) PROVE HostOK'
  BY <1>2, AppendProperties DEF TransferBatchPlan, PlanMember
<1>3. ASSUME NEW b \in Batches, Late(b) PROVE HostOK'
  <2>1. clock' \in [Batches -> 0..2]
    BY <1>3 DEF Late
  <2> QED
    BY <1>3, <2>1 DEF Late
<1>4. ASSUME NEW b \in Batches, CancelSendBatch(b) PROVE HostOK'
  BY <1>4, CancelCalled DEF Cancels
<1>5. ASSUME NEW t \in Threads, FailSendBatchProof(t) PROVE HostOK'
  <2>1. CASE UNCHANGED <<reserveVars, batch, members, op, active, pending, final, solo, clock,
                         exported, backed, signed>>
    BY <1>5, <2>1 DEF FailSendBatchProof, CancelReturns, CancelWrites
  <2> QED
    BY <1>5, <2>1, CancelFailed DEF Cancels
<1>6. CASE Export
  BY <1>6 DEF Export, Checkpoint
<1>7. ASSUME NEW cut \in Cuts, ReserveNext(cut),
             UNCHANGED <<durable, signed, clock, exported, backed>>, AfterCut(cut, {})
      PROVE  HostOK'
  BY <1>7
<1>8. ASSUME NEW b \in Batches,
             FreezeSendBatch(b) \/ AcknowledgeSendBatchBackup(b) \/ ObserveSendBatch(b) \/
             ReconcileSendBatch(b) \/ RefreshSendBatchSpv(b)
      PROVE  HostOK'
  BY <1>8 DEF FreezeSendBatch, AcknowledgeSendBatchBackup, ObserveSendBatch, ReconcileSendBatch,
     RefreshSendBatchSpv
<1>9. ASSUME NEW b \in Batches, NEW t \in Threads,
             BeginSendBatchProof(b, t) \/ BeginStops(b, t)
      PROVE  HostOK'
  BY <1>9 DEF BeginSendBatchProof, BeginStops
<1>10. ASSUME NEW b \in Batches, NEW cut \in Cuts,
             SignAndBroadcastSendBatch(b, cut) \/ FeeBumpSendBatch(b, cut) \/
             ResumeSendBatch(b, cut)
      PROVE  HostOK'
  BY <1>10 DEF SignAndBroadcastSendBatch, FeeBumpSendBatch, ResumeSendBatch
<1>11. ASSUME NEW t \in Threads,
             FinishSendBatchProof(t)
      PROVE  HostOK'
  BY <1>11 DEF FinishSendBatchProof
<1>12. ASSUME NEW o \in Operations,
             CancelOperation(o) \/ ProveOperation(o) \/ AcknowledgeBackup(o) \/ SignAndBroadcast(o)
      PROVE  HostOK'
  BY <1>12 DEF CancelOperation, ProveOperation, AcknowledgeBackup, SignAndBroadcast
<1>13. CASE FinishProof \/ Mine \/ Stop
  BY <1>13 DEF FinishProof, Mine, Stop
<1>14. CASE UNCHANGED vars
  BY <1>14 DEF vars
<1> QED
  BY <1>1, <1>2, <1>3, <1>4, <1>5, <1>6, <1>7, <1>8, <1>9, <1>10, <1>11, <1>12, <1>13, <1>14
  DEF Next, Reserve, SendBatchStep, OperationStep

\* The calls and the ends of the process leave well-typed memory.
LEMMA MemoryTypes == TypeOK /\ [Next]_vars => MemoryOK'
<1> SUFFICES ASSUME TypeOK, [Next]_vars PROVE MemoryOK'
  OBVIOUS
<1> USE DEF reserveVars, durable, memory, host
<1> /\ pending \subseteq Operations /\ final \subseteq Operations
    /\ job \in [Threads -> Jobs \cup {None}] /\ mishaps \in Nat
    /\ solo \in [op : Operations, coin : Coins] \cup {None}
  BY DEF TypeOK
<1>1. ASSUME NEW cut \in Cuts, ReserveNext(cut),
             UNCHANGED <<durable, signed, clock, exported, backed>>, AfterCut(cut, {})
      PROVE  MemoryOK'
  BY <1>1, CutTypes
<1>2. ASSUME NEW b \in Batches, Late(b) PROVE MemoryOK'
  BY <1>2 DEF Late, Mishap, MemoryOK
<1>3. ASSUME NEW b \in Batches, CancelSendBatch(b) PROVE MemoryOK'
  <2>1. CASE Die
    BY <2>1, DieTypes
  <2>2. ASSUME NEW F, Forgets(F), UNCHANGED <<job, mishaps>> PROVE MemoryOK'
    BY <2>2 DEF Forgets, MemoryOK
  <2> QED
    BY <1>3, <2>1, <2>2, CancelCalled
<1>4. ASSUME NEW b \in Batches, NEW t \in Threads, BeginSendBatchProof(b, t) PROVE MemoryOK'
  <2>1. PICK f \in CoinChoices(b) : job' = [job EXCEPT ![t] = [batch |-> b, coins |-> f]]
    BY <1>4 DEF BeginSendBatchProof
  <2>2. f = None \/ f \in [MemberSet(b) -> Coins]
    BY DEF CoinChoices, FreeCoins
  <2>3. f \in (UNION {[ops -> Coins] : ops \in SUBSET Operations}) \cup {None}
    BY <2>2, Prefixes
  <2>4. [batch |-> b, coins |-> f] \in Jobs
    BY <2>3 DEF Jobs
  <2> QED
    BY <1>4, <2>1, <2>4 DEF BeginSendBatchProof, MemoryOK
<1>5. ASSUME NEW b \in Batches, NEW t \in Threads, BeginStops(b, t) PROVE MemoryOK'
  <2>1. CASE Die
    BY <2>1, DieTypes
  <2>2. CASE Mishap /\ UNCHANGED memory
    BY <2>2 DEF Mishap, MemoryOK
  <2> QED
    BY <1>5, <2>1, <2>2 DEF BeginStops
<1>6. ASSUME NEW b \in Batches, NEW cut \in Cuts, SignAndBroadcastSendBatch(b, cut) PROVE MemoryOK'
  BY <1>6, CutTypes DEF SignAndBroadcastSendBatch
<1>7. ASSUME NEW b \in Batches, NEW cut \in Cuts, FeeBumpSendBatch(b, cut) PROVE MemoryOK'
  BY <1>7, CutTypes, Prefixes DEF FeeBumpSendBatch
<1>8. ASSUME NEW b \in Batches, NEW cut \in Cuts, ResumeSendBatch(b, cut) PROVE MemoryOK'
  BY <1>8, CutTypes DEF ResumeSendBatch
<1>9. ASSUME NEW b \in Batches, ObserveSendBatch(b) PROVE MemoryOK'
  <2>1. CASE Die
    BY <2>1, DieTypes
  <2>2. ASSUME NEW k \in 0..Len(members[b]), pending' = pending \ FirstMembers(b, k),
               final' = final \cup FirstMembers(b, k), UNCHANGED <<job, solo, mishaps>>
        PROVE  MemoryOK'
    BY <2>2, Prefixes DEF MemoryOK
  <2> QED
    BY <1>9, <2>1, <2>2, Prefixes DEF ObserveSendBatch
<1>10. ASSUME NEW t \in Threads, FinishSendBatchProof(t) PROVE MemoryOK'
  <2>1. job[t].batch \in Batches
    BY <1>10 DEF FinishSendBatchProof, Jobs
  <2> QED
    BY <1>10, <2>1, Prefixes DEF FinishSendBatchProof, EndJob, MemoryOK
<1>11. ASSUME NEW t \in Threads, FailSendBatchProof(t) PROVE MemoryOK'
  <2>1. job' \in [Threads -> Jobs \cup {None}] /\ mishaps' \in Nat
    BY <1>11 DEF FailSendBatchProof, EndJob, Mishap
  <2> QED
    BY <1>11, <2>1, CancelFailed DEF Forgets, MemoryOK
<1>12. ASSUME NEW o \in Operations, CancelOperation(o) PROVE MemoryOK'
  BY <1>12 DEF CancelOperation, Mishap, MemoryOK
<1>13. ASSUME NEW o \in Operations, ProveOperation(o) PROVE MemoryOK'
  BY <1>13 DEF ProveOperation, Mishap, MemoryOK, FreeCoins
<1>14. CASE FinishProof
  BY <1>14 DEF FinishProof, MemoryOK
<1>15. CASE Stop
  BY <1>15, DieTypes DEF Stop
<1>16. ASSUME NEW b \in Batches, NEW o \in Operations,
             AddRecipient(b, o) \/ TransferBatchPlan(b, o)
      PROVE  MemoryOK'
  BY <1>16 DEF AddRecipient, TransferBatchPlan, MemoryOK
<1>17. ASSUME NEW b \in Batches,
             FreezeSendBatch(b) \/ AcknowledgeSendBatchBackup(b) \/ ReconcileSendBatch(b) \/
             RefreshSendBatchSpv(b)
      PROVE  MemoryOK'
  BY <1>17 DEF FreezeSendBatch, AcknowledgeSendBatchBackup, ReconcileSendBatch,
     RefreshSendBatchSpv, MemoryOK
<1>18. ASSUME NEW o \in Operations,
             AcknowledgeBackup(o) \/ SignAndBroadcast(o)
      PROVE  MemoryOK'
  BY <1>18 DEF AcknowledgeBackup, SignAndBroadcast, MemoryOK
<1>19. CASE Export \/ Mine
  BY <1>19 DEF Export, Mine, MemoryOK
<1>20. CASE UNCHANGED vars
  BY <1>20 DEF vars, MemoryOK
<1> QED
  BY <1>1, <1>2, <1>3, <1>4, <1>5, <1>6, <1>7, <1>8, <1>9, <1>10, <1>11, <1>12, <1>13, <1>14,
     <1>15, <1>16, <1>17, <1>18, <1>19, <1>20
  DEF Next, Reserve, SendBatchStep, OperationStep

\* A signature for operations that hold their coins is well typed.
LEMMA SignatureTypes ==
    ASSUME TypeOK, HoldInv, NEW tx \in Transactions, NEW ops \in SUBSET Operations,
           NEW stocks \in SUBSET StockIds, \A o \in ops : op[o].state \in Holding
    PROVE  Signature(tx, ops, stocks) \in Signatures
<1>1. {op[o].coin : o \in ops} \subseteq Coins
  BY DEF HoldInv
<1> QED
  BY <1>1 DEF Signature, Signatures

\* Every signature is one for operations that hold their coins.
LEMMA SignatureStep == TypeOK /\ HoldInv /\ [Next]_vars => (signed \subseteq Signatures)'
<1> SUFFICES ASSUME TypeOK /\ HoldInv, [Next]_vars PROVE (signed \subseteq Signatures)'
  OBVIOUS
<1> USE DEF reserveVars, durable, memory, host
<1> signed \subseteq Signatures
  BY DEF TypeOK
<1>1. ASSUME NEW b \in Batches, CancelSendBatch(b) PROVE (signed \subseteq Signatures)'
  BY <1>1, CancelCalled DEF Cancels
<1>2. ASSUME NEW b \in Batches, NEW cut \in Cuts, SignAndBroadcastSendBatch(b, cut)
      PROVE (signed \subseteq Signatures)'
  <2>1. Signature(<<b, 0>>, MemberSet(b), StockOf(b)) \in Signatures
    BY <1>2, SignatureTypes, BatchTransactions, NextEpoch, Prefixes DEF SignAndBroadcastSendBatch,
       Signable, Holding, StockOf
  <2> QED
    BY <1>2, <2>1 DEF SignAndBroadcastSendBatch
<1>3. ASSUME NEW b \in Batches, NEW cut \in Cuts, FeeBumpSendBatch(b, cut)
      PROVE (signed \subseteq Signatures)'
  <2>0. <<b, bumps + 1>> \in Transactions
    BY <1>3, BatchTransactions, NextEpoch DEF FeeBumpSendBatch
  <2>1. \A o \in MemberSet(b) : op[o].state \in Holding
    BY <1>3 DEF FeeBumpSendBatch, BumpableMember, Holding, SignedStates
  <2>2. Signature(<<b, bumps + 1>>, MemberSet(b), StockOf(b)) \in Signatures
    BY <2>0, <2>1, SignatureTypes, Prefixes DEF StockOf
  <2> QED
    BY <1>3, <2>2 DEF FeeBumpSendBatch
<1>4. ASSUME NEW t \in Threads, FailSendBatchProof(t) PROVE (signed \subseteq Signatures)'
  BY <1>4, CancelFailed DEF Cancels
<1>5. ASSUME NEW o \in Operations, SignAndBroadcast(o) PROVE (signed \subseteq Signatures)'
  <2>1. Signature(<<o, 0>>, {o}, {}) \in Signatures
    BY <1>5, SignatureTypes DEF SignAndBroadcast, Transactions, Holding
  <2> QED
    BY <1>5, <2>1 DEF SignAndBroadcast
<1>6. ASSUME NEW cut \in Cuts, ReserveNext(cut),
             UNCHANGED <<durable, signed, clock, exported, backed>>, AfterCut(cut, {})
      PROVE  (signed \subseteq Signatures)'
  BY <1>6
<1>7. ASSUME NEW b \in Batches, NEW o \in Operations,
             AddRecipient(b, o) \/ TransferBatchPlan(b, o)
      PROVE  (signed \subseteq Signatures)'
  BY <1>7 DEF AddRecipient, TransferBatchPlan
<1>8. ASSUME NEW b \in Batches,
             FreezeSendBatch(b) \/ Late(b) \/ AcknowledgeSendBatchBackup(b) \/
             ObserveSendBatch(b) \/ ReconcileSendBatch(b) \/ RefreshSendBatchSpv(b)
      PROVE  (signed \subseteq Signatures)'
  BY <1>8 DEF FreezeSendBatch, Late, AcknowledgeSendBatchBackup, ObserveSendBatch,
     ReconcileSendBatch, RefreshSendBatchSpv
<1>9. ASSUME NEW b \in Batches, NEW t \in Threads,
             BeginSendBatchProof(b, t) \/ BeginStops(b, t)
      PROVE  (signed \subseteq Signatures)'
  BY <1>9 DEF BeginSendBatchProof, BeginStops
<1>10. ASSUME NEW b \in Batches, NEW cut \in Cuts,
             ResumeSendBatch(b, cut)
      PROVE  (signed \subseteq Signatures)'
  BY <1>10 DEF ResumeSendBatch
<1>11. ASSUME NEW t \in Threads,
             FinishSendBatchProof(t)
      PROVE  (signed \subseteq Signatures)'
  BY <1>11 DEF FinishSendBatchProof
<1>12. ASSUME NEW o \in Operations,
             CancelOperation(o) \/ ProveOperation(o) \/ AcknowledgeBackup(o)
      PROVE  (signed \subseteq Signatures)'
  BY <1>12 DEF CancelOperation, ProveOperation, AcknowledgeBackup
<1>13. CASE FinishProof \/ Export \/ Mine \/ Stop
  BY <1>13 DEF FinishProof, Export, Mine, Stop
<1>14. CASE UNCHANGED vars
  BY <1>14 DEF vars
<1> QED
  BY <1>1, <1>2, <1>3, <1>4, <1>5, <1>6, <1>7, <1>8, <1>9, <1>10, <1>11, <1>12, <1>13, <1>14
  DEF Next, Reserve, SendBatchStep, OperationStep

\* Together they are the type invariant.
LEMMA TypeStep == Inv /\ [Next]_vars => TypeOK'
<1> SUFFICES ASSUME Inv, [Next]_vars PROVE TypeOK'
  OBVIOUS
<1>1. StoreOK' /\ HostOK' /\ MemoryOK' /\ signed' \subseteq Signatures
  BY StoreTypes, HostTypes, MemoryTypes, SignatureStep DEF Inv
<1>2. batch' \in [Batches -> BatchRows] /\ op' \in [Operations -> OperationRows]
  BY BatchTypes, OperationTypes DEF Inv
<1> QED
  BY <1>1, <1>2 DEF TypeOK, StoreOK, HostOK, MemoryOK

\* The first state.
LEMMA InvInit == Init => Inv
<1> SUFFICES ASSUME Init PROVE Inv
  OBVIOUS
<1> USE DEF Init, ReserveInit
<1>0. \A b \in Batches : MemberSet(b) = {}
  BY DEF MemberSet, Range
<1>1. ReserveTypeOK
  BY ReserveAssumption DEF ReserveTypeOK, ReserveRows, StockRows, StockStates, InFlight, Epochs
<1>2. batch \in [Batches -> BatchRows] /\ op \in [Operations -> OperationRows]
  BY DEF BatchRows, OperationRows, BatchStates, OperationStates
<1>3. TypeOK
  <2>1. members \in [Batches -> Seq(Operations)]
    OBVIOUS
  <2>2. job \in [Threads -> Jobs \cup {None}] /\ clock \in [Batches -> 0..2]
    OBVIOUS
  <2> QED
    BY <1>1, <1>2, <2>1, <2>2 DEF TypeOK
<1>4. MemberInv /\ ShareInv /\ EpochInv /\ BackupInv /\ HoldInv
  BY <1>0 DEF MemberInv, ShareInv, EpochInv, BackupInv, HoldInv, SignedStates, Holding
<1>5. JobInv /\ SignedInv
  BY DEF JobInv, JobOK, SignedInv
<1>6. StockInv /\ DrawInv
  BY DEF StockInv, StockOK, SplitOK, SuccessorOK, DrawInv, StockIds
<1> QED
  BY <1>3, <1>4, <1>5, <1>6 DEF Inv

-----------------------------------------------------------------------------
(* What a step may do to a row.                                            *)

\* An operation does not return to "none", leave "cancelled", or lose a signature, its coin or
\* the source of its transaction.
OperationMoves(o) ==
    /\ op[o].state # "none" => op'[o].state # "none"
    /\ op[o].state = "cancelled" => op'[o].state = "cancelled"
    /\ op[o].state \in SignedStates =>
        /\ op'[o].state \in SignedStates /\ op'[o].fee = op[o].fee
        /\ op'[o].coin = op[o].coin /\ op'[o].tx[1] = op[o].tx[1]

\* No call moves an operation otherwise.
LEMMA OperationStepMoves == Inv /\ [Next]_vars => (\A p \in Operations : OperationMoves(p))
<1> SUFFICES ASSUME Inv, [Next]_vars PROVE (\A p \in Operations : OperationMoves(p))
  OBVIOUS
<1> USE DEF OperationMoves, SignedStates, reserveVars, durable, memory, host
<1> TypeOK /\ ShareInv /\ op \in [Operations -> OperationRows]
  BY DEF Inv, TypeOK
<1> \A row \in OperationRows :
    DOMAIN row = {"state", "coin", "acked", "fee", "tx", "ready", "prior"}
  BY DEF OperationRows
<1>1. ASSUME NEW b \in Batches, NEW o \in Operations, AddRecipient(b, o)
      PROVE (\A p \in Operations : OperationMoves(p))
  BY <1>1 DEF AddRecipient, PlanMember
<1>2. ASSUME NEW b \in Batches, NEW o \in Operations, TransferBatchPlan(b, o)
      PROVE (\A p \in Operations : OperationMoves(p))
  BY <1>2 DEF TransferBatchPlan, PlanMember
<1>3. ASSUME NEW b \in Batches, CancelSendBatch(b) PROVE (\A p \in Operations : OperationMoves(p))
  <2>1. PICK F : Cancels(b, F)
    BY <1>3, CancelCalled
  <2> QED
    BY <2>1 DEF Cancels, CancelledRow
<1>4. ASSUME NEW b \in Batches, NEW t \in Threads, BeginSendBatchProof(b, t)
      PROVE (\A p \in Operations : OperationMoves(p))
  <2>1. \A o \in FirstMembers(b, Len(members[b])) : Reservable(o)
    BY <1>4, Prefixes DEF BeginSendBatchProof
  <2>2. ReserveFees(b, Len(members[b]))
    BY <1>4 DEF BeginSendBatchProof
  <2> QED
    BY <2>1, <2>2 DEF ReserveFees, Reservable
<1>5. ASSUME NEW b \in Batches, NEW t \in Threads, BeginStops(b, t)
      PROVE (\A p \in Operations : OperationMoves(p))
  <2>1. PICK k : ReserveFees(b, k) /\ \A o \in FirstMembers(b, k) : Reservable(o)
    BY <1>5 DEF BeginStops
  <2> QED
    BY <2>1 DEF ReserveFees, Reservable
<1>6. ASSUME NEW b \in Batches, AcknowledgeSendBatchBackup(b)
      PROVE (\A p \in Operations : OperationMoves(p))
  BY <1>6 DEF AcknowledgeSendBatchBackup
<1>7. ASSUME NEW b \in Batches, NEW cut \in Cuts, SignAndBroadcastSendBatch(b, cut)
      PROVE (\A p \in Operations : OperationMoves(p))
  <2>1. op' = SignedMembers(b, 0, BroadcastState(cut))
    BY <1>7 DEF SignAndBroadcastSendBatch
  <2>2. \A p \in MemberSet(b) : op[p].state = "proof_ready"
    BY <1>7 DEF SignAndBroadcastSendBatch, Signable
  <2>3. \A p \in Operations : p \notin MemberSet(b) => op'[p] = op[p]
    BY <2>1 DEF SignedMembers
  <2>4. \A p \in Operations : p \in MemberSet(b) => op'[p].state = BroadcastState(cut)
    BY <2>1 DEF SignedMembers
  <2>5. BroadcastState(cut) # "none"
    BY DEF BroadcastState
  <2> QED
    BY <2>2, <2>3, <2>4, <2>5
<1>8. ASSUME NEW b \in Batches, NEW cut \in Cuts, FeeBumpSendBatch(b, cut)
      PROVE (\A p \in Operations : OperationMoves(p))
  <2>1. \A o \in MemberSet(b) : op[o].tx = BatchTx(b) /\ BumpableMember(o)
    BY <1>8 DEF FeeBumpSendBatch, BumpableBatch, ShareInv
  <2>2. op' = BumpedMembers(b, bumps + 1,
    BroadcastState(cut)) /\ BroadcastState(cut) \in SignedStates
    BY <1>8, BroadcastStates DEF FeeBumpSendBatch
  <2>3. \A p \in Operations \ MemberSet(b) : op'[p] = op[p]
    BY <2>2 DEF BumpedMembers
  <2>4. ASSUME NEW p \in Operations, p \in MemberSet(b) PROVE OperationMoves(p)
    <3>1. op'[p].state \in SignedStates /\ op'[p].tx = <<b, bumps + 1>>
      BY <2>2, <2>4 DEF BumpedMembers
    <3>2. op'[p].coin = op[p].coin /\ op'[p].fee = op[p].fee
      BY <2>2, <2>4 DEF BumpedMembers
    <3> QED
      BY <2>1, <2>4, <3>1, <3>2 DEF BumpableMember, BatchTx
  <2> QED
    BY <2>3, <2>4
<1>9. ASSUME NEW b \in Batches, NEW cut \in Cuts, ResumeSendBatch(b, cut)
      PROVE (\A p \in Operations : OperationMoves(p))
  <2>1. \A o \in MemberSet(b) : op[o].state \in SignedStates
    BY <1>9 DEF ResumeSendBatch, ShareInv
  <2>2. CASE UNCHANGED op
    BY <2>2
  <2>3. CASE op' = [o \in Operations |-> IF o \in MemberSet(b)
                      THEN [op[o] EXCEPT !.state = "broadcast_unobserved"] ELSE op[o]]
    BY <2>1, <2>3
  <2> QED
    BY <1>9, <2>2, <2>3 DEF ResumeSendBatch
<1>10. ASSUME NEW b \in Batches, ObserveSendBatch(b) PROVE (\A p \in Operations : OperationMoves(p))
  <2>1. \A o \in MemberSet(b) : op[o].state \in SignedStates
    BY <1>10 DEF ObserveSendBatch, ShareInv
  <2>2. PICK k \in 0..Len(members[b]) : FinalizeMembers(b, k, "mempool")
    BY <1>10 DEF ObserveSendBatch
  <2>3. FirstMembers(b, k) \subseteq MemberSet(b)
    BY Prefixes
  <2> QED
    BY <2>1, <2>2, <2>3 DEF FinalizeMembers
<1>11. ASSUME NEW b \in Batches,
              ReconcileSendBatch(b) PROVE (\A p \in Operations : OperationMoves(p))
  <2>1. \A o \in MemberSet(b) : op[o].tx = BatchTx(b) /\ op[o].state \in SignedStates
    BY <1>11 DEF ReconcileSendBatch, ShareInv
  <2>2. op' = RestoredMembers(b)
    BY <1>11 DEF ReconcileSendBatch
  <2>3. \A p \in Operations \ MemberSet(b) : op'[p] = op[p]
    BY <2>2 DEF RestoredMembers
  <2>4. ASSUME NEW p \in Operations, p \in MemberSet(b) PROVE OperationMoves(p)
    <3>1. op'[p].state = "broadcast_unobserved" /\ op'[p].tx = <<b, batch[b].replaces>>
      BY <2>2, <2>4 DEF RestoredMembers
    <3>2. op'[p].coin = op[p].coin /\ op'[p].fee = op[p].fee
      BY <2>2, <2>4 DEF RestoredMembers
    <3> QED
      BY <2>1, <2>4, <3>1, <3>2 DEF BatchTx
  <2> QED
    BY <2>3, <2>4
<1>12. ASSUME NEW b \in Batches,
              RefreshSendBatchSpv(b) PROVE (\A p \in Operations : OperationMoves(p))
  <2>1. \A o \in MemberSet(b) : op[o].state \in SignedStates
    BY <1>12 DEF RefreshSendBatchSpv, ShareInv
  <2> QED
    BY <1>12, <2>1 DEF RefreshSendBatchSpv
<1>13. ASSUME NEW t \in Threads,
              FinishSendBatchProof(t) PROVE (\A p \in Operations : OperationMoves(p))
  <2>1. CASE UNCHANGED op
    BY <2>1
  <2>2. CASE Installable(job[t].batch, job[t].coins)
    <3>1. op' = [o \in Operations |-> IF o \in MemberSet(job[t].batch)
                  THEN [op[o] EXCEPT !.state = "proof_ready", !.coin = job[t].coins[o],
                    !.acked = FALSE]
                  ELSE op[o]]
      BY <1>13, <2>2 DEF FinishSendBatchProof
    <3>2. \A o \in MemberSet(job[t].batch) : op[o].state = "fee_reserved"
      BY <2>2 DEF Installable
    <3> QED
      BY <3>1, <3>2
  <2> QED
    BY <1>13, <2>1, <2>2 DEF FinishSendBatchProof
<1>14. ASSUME NEW t \in Threads,
              FailSendBatchProof(t) PROVE (\A p \in Operations : OperationMoves(p))
  <2>1. CASE UNCHANGED op
    BY <2>1
  <2>2. ASSUME NEW F, Cancels(job[t].batch, F) PROVE \A p \in Operations : OperationMoves(p)
    <3>1. /\ \A p \in F : op[p].state \notin SignedStates
          /\ op' = [p \in Operations |-> IF p \in F THEN CancelledRow(op[p]) ELSE op[p]]
      BY <2>2 DEF Cancels
    <3>2. \A p \in Operations : p \in F => op'[p].state = "cancelled"
      BY <3>1 DEF CancelledRow
    <3>3. \A p \in Operations : p \notin F => op'[p] = op[p]
      BY <3>1
    <3> QED
      BY <3>1, <3>2, <3>3
  <2> QED
    BY <1>14, <2>1, <2>2, CancelFailed
<1>15. ASSUME NEW o \in Operations,
              CancelOperation(o) PROVE (\A p \in Operations : OperationMoves(p))
  BY <1>15 DEF CancelOperation, Cancellable, CancelledRow
<1>16. ASSUME NEW o \in Operations,
              ProveOperation(o) PROVE (\A p \in Operations : OperationMoves(p))
  BY <1>16 DEF ProveOperation, Reservable
<1>17. ASSUME NEW o \in Operations,
              AcknowledgeBackup(o) PROVE (\A p \in Operations : OperationMoves(p))
  BY <1>17 DEF AcknowledgeBackup
<1>18. ASSUME NEW o \in Operations,
              SignAndBroadcast(o) PROVE (\A p \in Operations : OperationMoves(p))
  BY <1>18 DEF SignAndBroadcast
<1>19. CASE FinishProof
  BY <1>19 DEF FinishProof
<1>20. ASSUME NEW cut \in Cuts, ReserveNext(cut),
             UNCHANGED <<durable, signed, clock, exported, backed>>, AfterCut(cut, {})
      PROVE  (\A p \in Operations : OperationMoves(p))
  BY <1>20
<1>21. ASSUME NEW b \in Batches,
             FreezeSendBatch(b) \/ Late(b)
      PROVE  (\A p \in Operations : OperationMoves(p))
  BY <1>21 DEF FreezeSendBatch, Late
<1>22. CASE Export \/ Mine \/ Stop
  BY <1>22 DEF Export, Mine, Stop
<1>23. CASE UNCHANGED vars
  BY <1>23 DEF vars
<1> QED
  BY <1>1, <1>2, <1>3, <1>4, <1>5, <1>6, <1>7, <1>8, <1>9, <1>10, <1>11, <1>12, <1>13, <1>14,
     <1>15, <1>16, <1>17, <1>18, <1>19, <1>20, <1>21, <1>22, <1>23
  DEF Next, Reserve, SendBatchStep, OperationStep

\* A batch does not reopen, leave "cancelled" or lose a signature, and its members are fixed when
\* it leaves "collecting".
BatchMoves(b) ==
    /\ batch[b].state \notin {"none", "collecting"} =>
        batch'[b].state \notin {"none", "collecting"} /\ members'[b] = members[b]
    /\ batch[b].state = "cancelled" => batch'[b].state = "cancelled"
    /\ batch[b].state \in SignedStates => batch'[b].state \in SignedStates

\* No call moves a batch otherwise.
LEMMA BatchStepMoves == Inv /\ [Next]_vars => (\A c \in Batches : BatchMoves(c))
<1> SUFFICES ASSUME Inv, [Next]_vars PROVE (\A c \in Batches : BatchMoves(c))
  OBVIOUS
<1> USE DEF BatchMoves, SignedStates, reserveVars, durable, memory, host
<1> TypeOK /\ batch \in [Batches -> BatchRows] /\ members \in [Batches -> Seq(Operations)]
  BY DEF Inv, TypeOK
<1> \A row \in BatchRows : DOMAIN row = {"state", "epoch", "acked", "prepared", "replaces"}
  BY DEF BatchRows
<1>1. ASSUME NEW b \in Batches, NEW o \in Operations, AddRecipient(b, o)
      PROVE (\A c \in Batches : BatchMoves(c))
  BY <1>1 DEF AddRecipient, PlanMember, OpenWindow
<1>2. ASSUME NEW b \in Batches, NEW o \in Operations, TransferBatchPlan(b, o)
      PROVE (\A c \in Batches : BatchMoves(c))
  BY <1>2 DEF TransferBatchPlan, PlanMember
<1>3. ASSUME NEW b \in Batches, FreezeSendBatch(b) PROVE (\A c \in Batches : BatchMoves(c))
  BY <1>3 DEF FreezeSendBatch
<1>4. ASSUME NEW b \in Batches, CancelSendBatch(b) PROVE (\A c \in Batches : BatchMoves(c))
  <2>1. PICK F : Cancels(b, F)
    BY <1>4, CancelCalled
  <2>2. batch' = batch \/ batch' = [batch EXCEPT ![b].state = "cancelled"]
    BY <2>1 DEF Cancels
  <2>3. members' = members /\ batch[b].state \notin SignedStates
    BY <1>4, <2>1 DEF Cancels, CancelSendBatch, BatchCancellable
  <2>4. CASE batch' = batch
    BY <2>3, <2>4
  <2>5. CASE batch' = [batch EXCEPT ![b].state = "cancelled"]
    BY <2>3, <2>5
  <2> QED
    BY <2>2, <2>4, <2>5
<1>5. ASSUME NEW b \in Batches, AcknowledgeSendBatchBackup(b)
      PROVE (\A c \in Batches : BatchMoves(c))
  BY <1>5 DEF AcknowledgeSendBatchBackup
<1>6. ASSUME NEW b \in Batches, NEW cut \in Cuts, SignAndBroadcastSendBatch(b, cut)
      PROVE (\A c \in Batches : BatchMoves(c))
  BY <1>6 DEF SignAndBroadcastSendBatch, Signable, BroadcastState
<1>7. ASSUME NEW b \in Batches, NEW cut \in Cuts, FeeBumpSendBatch(b, cut)
      PROVE (\A c \in Batches : BatchMoves(c))
  BY <1>7 DEF FeeBumpSendBatch, BumpableBatch, BroadcastState
<1>8. ASSUME NEW b \in Batches, NEW cut \in Cuts, ResumeSendBatch(b, cut)
      PROVE (\A c \in Batches : BatchMoves(c))
  <2>1. batch' = batch \/ batch' = [batch EXCEPT ![b].state = "broadcast_unobserved"]
    BY <1>8 DEF ResumeSendBatch
  <2> QED
    BY <1>8, <2>1 DEF ResumeSendBatch
<1>9. ASSUME NEW b \in Batches, ObserveSendBatch(b) PROVE (\A c \in Batches : BatchMoves(c))
  BY <1>9 DEF ObserveSendBatch
<1>10. ASSUME NEW b \in Batches, ReconcileSendBatch(b) PROVE (\A c \in Batches : BatchMoves(c))
  BY <1>10 DEF ReconcileSendBatch, RestoredBatch
<1>11. ASSUME NEW b \in Batches, RefreshSendBatchSpv(b) PROVE (\A c \in Batches : BatchMoves(c))
  BY <1>11 DEF RefreshSendBatchSpv
<1>12. ASSUME NEW t \in Threads, FinishSendBatchProof(t) PROVE (\A c \in Batches : BatchMoves(c))
  <2>1. CASE UNCHANGED batch
    BY <1>12, <2>1 DEF FinishSendBatchProof
  <2>2. CASE Installable(job[t].batch, job[t].coins)
    <3>1. batch' = [batch EXCEPT ![job[t].batch] = [batch[job[t].batch] EXCEPT
                        !.state = "proof_ready", !.acked = FALSE,
                          !.prepared = Checkpoint \cup {job[t].batch}]]
      BY <1>12, <2>2 DEF FinishSendBatchProof
    <3>2. batch[job[t].batch].state = "frozen" /\ job[t].batch \in Batches /\ members' = members
      BY <1>12, <2>2 DEF FinishSendBatchProof, Installable, TypeOK, Jobs
    <3> QED
      BY <3>1, <3>2
  <2> QED
    BY <1>12, <2>1, <2>2 DEF FinishSendBatchProof
<1>13. ASSUME NEW t \in Threads, FailSendBatchProof(t) PROVE (\A c \in Batches : BatchMoves(c))
  <2>1. CASE UNCHANGED <<batch, members>>
    BY <2>1
  <2>2. ASSUME NEW F, Cancels(job[t].batch, F), BatchCancellable(job[t].batch)
        PROVE  \A c \in Batches : BatchMoves(c)
    <3>1. batch' = batch \/ batch' = [batch EXCEPT ![job[t].batch].state = "cancelled"]
      BY <2>2 DEF Cancels
    <3>2. members' = members /\ batch[job[t].batch].state \notin SignedStates
      BY <2>2 DEF Cancels, BatchCancellable
    <3>3. CASE batch' = batch
      BY <3>2, <3>3
    <3>4. CASE batch' = [batch EXCEPT ![job[t].batch].state = "cancelled"]
      BY <3>2, <3>4
    <3> QED
      BY <3>1, <3>3, <3>4
  <2> QED
    BY <1>13, <2>1, <2>2, CancelFailed
<1>14. ASSUME NEW cut \in Cuts, ReserveNext(cut),
             UNCHANGED <<durable, signed, clock, exported, backed>>, AfterCut(cut, {})
      PROVE  (\A c \in Batches : BatchMoves(c))
  BY <1>14
<1>15. ASSUME NEW b \in Batches,
             Late(b)
      PROVE  (\A c \in Batches : BatchMoves(c))
  BY <1>15 DEF Late
<1>16. ASSUME NEW b \in Batches, NEW t \in Threads,
             BeginSendBatchProof(b, t) \/ BeginStops(b, t)
      PROVE  (\A c \in Batches : BatchMoves(c))
  BY <1>16 DEF BeginSendBatchProof, BeginStops
<1>17. ASSUME NEW o \in Operations,
             CancelOperation(o) \/ ProveOperation(o) \/ AcknowledgeBackup(o) \/ SignAndBroadcast(o)
      PROVE  (\A c \in Batches : BatchMoves(c))
  BY <1>17 DEF CancelOperation, ProveOperation, AcknowledgeBackup, SignAndBroadcast
<1>18. CASE FinishProof \/ Export \/ Mine \/ Stop
  BY <1>18 DEF FinishProof, Export, Mine, Stop
<1>19. CASE UNCHANGED vars
  BY <1>19 DEF vars
<1> QED
  BY <1>1, <1>2, <1>3, <1>4, <1>5, <1>6, <1>7, <1>8, <1>9, <1>10, <1>11, <1>12, <1>13, <1>14,
     <1>15, <1>16, <1>17, <1>18, <1>19
  DEF Next, Reserve, SendBatchStep, OperationStep

\* Only the plan of a transfer adds a member.
LEMMA MembersMove == Inv /\ [Next]_vars => (UNCHANGED members \/
\E c \in Batches, p \in Operations : PlanMember(c, p))
<1> SUFFICES ASSUME Inv, [Next]_vars PROVE (UNCHANGED members \/ \E c \in Batches,
    p \in Operations : PlanMember(c, p))
  OBVIOUS
<1> USE DEF reserveVars, durable, memory, host
<1> TypeOK
  BY DEF Inv
<1>1. ASSUME NEW b \in Batches, NEW o \in Operations, AddRecipient(b, o)
      PROVE (UNCHANGED members \/ \E c \in Batches, p \in Operations : PlanMember(c, p))
  BY <1>1 DEF AddRecipient
<1>2. ASSUME NEW b \in Batches, NEW o \in Operations, TransferBatchPlan(b, o)
      PROVE (UNCHANGED members \/ \E c \in Batches, p \in Operations : PlanMember(c, p))
  BY <1>2 DEF TransferBatchPlan
<1>3. ASSUME NEW b \in Batches, CancelSendBatch(b) PROVE (UNCHANGED members \/ \E c \in Batches,
             p \in Operations : PlanMember(c, p))
  BY <1>3, CancelCalled DEF Cancels
<1>4. ASSUME NEW t \in Threads, FailSendBatchProof(t) PROVE (UNCHANGED members \/ \E c \in Batches,
             p \in Operations : PlanMember(c, p))
  BY <1>4, CancelFailed DEF Cancels
<1>5. ASSUME NEW cut \in Cuts, ReserveNext(cut),
             UNCHANGED <<durable, signed, clock, exported, backed>>, AfterCut(cut, {})
      PROVE  (UNCHANGED members \/ \E c \in Batches, p \in Operations : PlanMember(c, p))
  BY <1>5
<1>6. ASSUME NEW b \in Batches,
             FreezeSendBatch(b) \/ Late(b) \/ AcknowledgeSendBatchBackup(b) \/
             ObserveSendBatch(b) \/ ReconcileSendBatch(b) \/ RefreshSendBatchSpv(b)
      PROVE  (UNCHANGED members \/ \E c \in Batches, p \in Operations : PlanMember(c, p))
  BY <1>6 DEF FreezeSendBatch, Late, AcknowledgeSendBatchBackup, ObserveSendBatch,
     ReconcileSendBatch, RefreshSendBatchSpv
<1>7. ASSUME NEW b \in Batches, NEW t \in Threads,
             BeginSendBatchProof(b, t) \/ BeginStops(b, t)
      PROVE  (UNCHANGED members \/ \E c \in Batches, p \in Operations : PlanMember(c, p))
  BY <1>7 DEF BeginSendBatchProof, BeginStops
<1>8. ASSUME NEW b \in Batches, NEW cut \in Cuts,
             SignAndBroadcastSendBatch(b, cut) \/ FeeBumpSendBatch(b, cut) \/
             ResumeSendBatch(b, cut)
      PROVE  (UNCHANGED members \/ \E c \in Batches, p \in Operations : PlanMember(c, p))
  BY <1>8 DEF SignAndBroadcastSendBatch, FeeBumpSendBatch, ResumeSendBatch
<1>9. ASSUME NEW t \in Threads,
             FinishSendBatchProof(t)
      PROVE  (UNCHANGED members \/ \E c \in Batches, p \in Operations : PlanMember(c, p))
  BY <1>9 DEF FinishSendBatchProof
<1>10. ASSUME NEW o \in Operations,
             CancelOperation(o) \/ ProveOperation(o) \/ AcknowledgeBackup(o) \/ SignAndBroadcast(o)
      PROVE  (UNCHANGED members \/ \E c \in Batches, p \in Operations : PlanMember(c, p))
  BY <1>10 DEF CancelOperation, ProveOperation, AcknowledgeBackup, SignAndBroadcast
<1>11. CASE FinishProof \/ Export \/ Mine \/ Stop
  BY <1>11 DEF FinishProof, Export, Mine, Stop
<1>12. CASE UNCHANGED vars
  BY <1>12 DEF vars
<1> QED
  BY <1>1, <1>2, <1>3, <1>4, <1>5, <1>6, <1>7, <1>8, <1>9, <1>10, <1>11, <1>12
  DEF Next, Reserve, SendBatchStep, OperationStep

\* A planned operation was in no batch before.
LEMMA MemberStep == Inv /\ [Next]_vars => MemberInv'
<1> SUFFICES ASSUME Inv, [Next]_vars PROVE MemberInv'
  OBVIOUS
<1>0. TypeOK /\ MemberInv /\ \A p \in Operations : OperationMoves(p)
  BY OperationStepMoves DEF Inv
<1>1. CASE UNCHANGED members
  BY <1>0, <1>1, Prefixes DEF MemberInv, MemberSet, OperationMoves
<1>2. ASSUME NEW c \in Batches, NEW p \in Operations, PlanMember(c, p) PROVE MemberInv'
  <2>1. /\ \A b \in Batches \ {c} : MemberSet(b)' = MemberSet(b)
        /\ MemberSet(c)' = MemberSet(c) \cup {p}
    BY <1>0, <1>2, AppendMember DEF PlanMember, MemberSet, TypeOK
  <2>2. \A b \in Batches : p \notin MemberSet(b)
    BY <1>0, <1>2 DEF PlanMember, MemberInv
  <2>3. \A b \in Batches : MemberSet(b) \subseteq Operations
    BY <1>0, Prefixes
  <2>4. op'[p].state = "planned"
    BY <1>0, <1>2 DEF PlanMember, TypeOK, OperationRows
  <2>5. \A o \in Operations : op[o].state # "none" => op'[o].state # "none"
    BY <1>0 DEF OperationMoves
  <2>6. \A b, d \in Batches : b # d => MemberSet(b)' \cap MemberSet(d)' = {}
    BY <1>0, <2>1, <2>2 DEF MemberInv
  <2>7. \A b \in Batches : \A o \in MemberSet(b)' : op'[o].state # "none"
    BY <1>0, <2>1, <2>3, <2>4, <2>5 DEF MemberInv
  <2> QED
    BY <2>6, <2>7 DEF MemberInv
<1> QED
  BY <1>1, <1>2, MembersMove

\* A batch is signed by sign_and_broadcast_send_batch only.
SigningMoves(c) ==
    batch'[c].state \in SignedStates =>
        batch[c].state \in SignedStates \/ \E x \in Cuts : SignAndBroadcastSendBatch(c, x)

\* No other call signs a batch.
LEMMA SignedBySigning == Inv /\ [Next]_vars => (\A c \in Batches : SigningMoves(c))
<1> SUFFICES ASSUME Inv, [Next]_vars PROVE (\A c \in Batches : SigningMoves(c))
  OBVIOUS
<1> USE DEF SigningMoves, SignedStates, reserveVars, durable, memory, host
<1> TypeOK /\ batch \in [Batches -> BatchRows]
  BY DEF Inv, TypeOK
<1> \A row \in BatchRows : DOMAIN row = {"state", "epoch", "acked", "prepared", "replaces"}
  BY DEF BatchRows
<1>1. ASSUME NEW b \in Batches, NEW o \in Operations, TransferBatchPlan(b, o)
      PROVE (\A c \in Batches : SigningMoves(c))
  BY <1>1 DEF TransferBatchPlan
<1>2. ASSUME NEW b \in Batches, FreezeSendBatch(b) PROVE (\A c \in Batches : SigningMoves(c))
  BY <1>2 DEF FreezeSendBatch
<1>3. ASSUME NEW b \in Batches, CancelSendBatch(b) PROVE (\A c \in Batches : SigningMoves(c))
  <2>1. PICK F : Cancels(b, F)
    BY <1>3, CancelCalled
  <2> QED
    BY <2>1 DEF Cancels
<1>4. ASSUME NEW b \in Batches, AcknowledgeSendBatchBackup(b)
      PROVE (\A c \in Batches : SigningMoves(c))
  BY <1>4 DEF AcknowledgeSendBatchBackup
<1>5. ASSUME NEW b \in Batches, NEW cut \in Cuts, SignAndBroadcastSendBatch(b, cut)
      PROVE (\A c \in Batches : SigningMoves(c))
  <2>1. \A c \in Batches \ {b} : batch'[c] = batch[c]
    BY <1>5 DEF SignAndBroadcastSendBatch
  <2> QED
    BY <1>5, <2>1
<1>6. ASSUME NEW b \in Batches, NEW cut \in Cuts, FeeBumpSendBatch(b, cut)
      PROVE (\A c \in Batches : SigningMoves(c))
  <2>1. batch[b].state \in SignedStates /\ \A c \in Batches \ {b} : batch'[c] = batch[c]
    BY <1>6 DEF FeeBumpSendBatch, BumpableBatch
  <2> QED
    BY <2>1
<1>7. ASSUME NEW b \in Batches, NEW cut \in Cuts, ResumeSendBatch(b, cut)
      PROVE (\A c \in Batches : SigningMoves(c))
  <2>1. batch[b].state \in SignedStates /\ \A c \in Batches \ {b} : batch'[c] = batch[c]
    BY <1>7 DEF ResumeSendBatch
  <2> QED
    BY <2>1
<1>8. ASSUME NEW b \in Batches, ObserveSendBatch(b) PROVE (\A c \in Batches : SigningMoves(c))
  <2>1. batch[b].state \in SignedStates /\ \A c \in Batches \ {b} : batch'[c] = batch[c]
    BY <1>8 DEF ObserveSendBatch
  <2> QED
    BY <2>1
<1>9. ASSUME NEW b \in Batches, ReconcileSendBatch(b) PROVE (\A c \in Batches : SigningMoves(c))
  <2>1. batch[b].state \in SignedStates /\ \A c \in Batches \ {b} : batch'[c] = batch[c]
    BY <1>9 DEF ReconcileSendBatch, RestoredBatch
  <2> QED
    BY <2>1
<1>10. ASSUME NEW b \in Batches, RefreshSendBatchSpv(b) PROVE (\A c \in Batches : SigningMoves(c))
  BY <1>10 DEF RefreshSendBatchSpv
<1>11. ASSUME NEW t \in Threads, FinishSendBatchProof(t) PROVE (\A c \in Batches : SigningMoves(c))
  <2>1. CASE UNCHANGED batch
    BY <2>1
  <2>2. CASE batch' = [batch EXCEPT ![job[t].batch] = [batch[job[t].batch] EXCEPT
                        !.state = "proof_ready", !.acked = FALSE,
                          !.prepared = Checkpoint \cup {job[t].batch}]]
    BY <2>2
  <2> QED
    BY <1>11, <2>1, <2>2 DEF FinishSendBatchProof
<1>12. ASSUME NEW t \in Threads, FailSendBatchProof(t) PROVE (\A c \in Batches : SigningMoves(c))
  <2>1. CASE UNCHANGED batch
    BY <2>1
  <2>2. ASSUME NEW F, Cancels(job[t].batch, F)
        PROVE  \A c \in Batches : SigningMoves(c)
    BY <2>2 DEF Cancels
  <2> QED
    BY <1>12, <2>1, <2>2, CancelFailed
<1>13. ASSUME NEW cut \in Cuts, ReserveNext(cut),
             UNCHANGED <<durable, signed, clock, exported, backed>>, AfterCut(cut, {})
      PROVE  (\A c \in Batches : SigningMoves(c))
  BY <1>13
<1>14. ASSUME NEW b \in Batches, NEW o \in Operations,
             AddRecipient(b, o)
      PROVE  (\A c \in Batches : SigningMoves(c))
  BY <1>14 DEF AddRecipient
<1>15. ASSUME NEW b \in Batches,
             Late(b)
      PROVE  (\A c \in Batches : SigningMoves(c))
  BY <1>15 DEF Late
<1>16. ASSUME NEW b \in Batches, NEW t \in Threads,
             BeginSendBatchProof(b, t) \/ BeginStops(b, t)
      PROVE  (\A c \in Batches : SigningMoves(c))
  BY <1>16 DEF BeginSendBatchProof, BeginStops
<1>17. ASSUME NEW o \in Operations,
             CancelOperation(o) \/ ProveOperation(o) \/ AcknowledgeBackup(o) \/ SignAndBroadcast(o)
      PROVE  (\A c \in Batches : SigningMoves(c))
  BY <1>17 DEF CancelOperation, ProveOperation, AcknowledgeBackup, SignAndBroadcast
<1>18. CASE FinishProof \/ Export \/ Mine \/ Stop
  BY <1>18 DEF FinishProof, Export, Mine, Stop
<1>19. CASE UNCHANGED vars
  BY <1>19 DEF vars
<1> QED
  BY <1>1, <1>2, <1>3, <1>4, <1>5, <1>6, <1>7, <1>8, <1>9, <1>10, <1>11, <1>12, <1>13, <1>14,
     <1>15, <1>16, <1>17, <1>18, <1>19
  DEF Next, Reserve, SendBatchStep, OperationStep

\* A cancellation changes the state and the fee reservation of the members it comes to.
LEMMA CancelledMembers ==
    ASSUME TypeOK, NEW b, NEW F, Cancels(b, F), NEW p \in Operations
    PROVE  /\ op'[p].tx = op[p].tx /\ op'[p].coin = op[p].coin
           /\ op'[p].ready = op[p].ready /\ op'[p].prior = op[p].prior
           /\ p \in F => op'[p].state = "cancelled" /\ op[p].state \notin SignedStates
           /\ p \notin F => op'[p] = op[p]
<1>1. op[p] \in OperationRows /\ op'[p] = IF p \in F THEN CancelledRow(op[p]) ELSE op[p]
  BY DEF Cancels, TypeOK
<1>2. p \in F => op[p].state \notin SignedStates
  BY DEF Cancels
<1> QED
  BY <1>1, <1>2 DEF CancelledRow, OperationRows

\* The members of a signed batch get another transaction with the batch, by a fee bump or when
\* the replaced transaction won.
VersionMoves(c) ==
    batch[c].state \in SignedStates =>
        \/ \E x \in Cuts : FeeBumpSendBatch(c, x)
        \/ ReconcileSendBatch(c)
        \/ /\ batch'[c].epoch = batch[c].epoch /\ batch'[c].replaces = batch[c].replaces
           /\ \A p \in MemberSet(c) : op'[p].tx = op[p].tx

\* No other call gives it to them.
LEMMA VersionStep == Inv /\ [Next]_vars => (\A c \in Batches : VersionMoves(c))
<1> SUFFICES ASSUME Inv, [Next]_vars PROVE (\A c \in Batches : VersionMoves(c))
  OBVIOUS
<1> USE DEF VersionMoves, SignedStates, reserveVars, durable, memory, host
<1> TypeOK /\ ShareInv /\ batch \in [Batches -> BatchRows] /\ op \in [Operations -> OperationRows]
  BY DEF Inv, TypeOK
<1> \A row \in BatchRows : DOMAIN row = {"state", "epoch", "acked", "prepared", "replaces"}
  BY DEF BatchRows
<1> \A row \in OperationRows :
    DOMAIN row = {"state", "coin", "acked", "fee", "tx", "ready", "prior"}
  BY DEF OperationRows
<1> \A c \in Batches : MemberSet(c) \subseteq Operations
  BY Prefixes
<1> \A c, d \in Batches : c # d => MemberSet(c) \cap MemberSet(d) = {}
  BY DEF Inv, MemberInv
<1>1. ASSUME NEW b \in Batches, NEW o \in Operations, AddRecipient(b, o)
      PROVE (\A c \in Batches : VersionMoves(c))
  BY <1>1 DEF AddRecipient, PlanMember
<1>2. ASSUME NEW b \in Batches, NEW o \in Operations, TransferBatchPlan(b, o)
      PROVE (\A c \in Batches : VersionMoves(c))
  BY <1>2 DEF TransferBatchPlan, PlanMember
<1>3. ASSUME NEW b \in Batches, FreezeSendBatch(b) PROVE (\A c \in Batches : VersionMoves(c))
  BY <1>3 DEF FreezeSendBatch
<1>4. ASSUME NEW b \in Batches, CancelSendBatch(b) PROVE (\A c \in Batches : VersionMoves(c))
  <2>1. PICK F : Cancels(b, F)
    BY <1>4, CancelCalled
  <2>2. \A p \in Operations : op'[p].tx = op[p].tx
    BY <2>1, CancelledMembers
  <2>3. batch' = batch \/ batch' = [batch EXCEPT ![b].state = "cancelled"]
    BY <2>1 DEF Cancels
  <2> QED
    BY <2>2, <2>3
<1>5. ASSUME NEW b \in Batches, NEW t \in Threads, BeginSendBatchProof(b, t)
      PROVE (\A c \in Batches : VersionMoves(c))
  <2>1. ReserveFees(b, Len(members[b])) /\ batch' = batch
    BY <1>5 DEF BeginSendBatchProof
  <2>2. \A p \in Operations : op'[p].tx = op[p].tx
    BY <2>1 DEF ReserveFees
  <2> QED
    BY <2>1, <2>2
<1>6. ASSUME NEW b \in Batches, NEW t \in Threads, BeginStops(b, t)
      PROVE (\A c \in Batches : VersionMoves(c))
  <2>1. PICK k : ReserveFees(b, k)
    BY <1>6 DEF BeginStops
  <2>2. batch' = batch
    BY <1>6 DEF BeginStops
  <2>3. \A p \in Operations : op'[p].tx = op[p].tx
    BY <2>1 DEF ReserveFees
  <2> QED
    BY <2>2, <2>3
<1>7. ASSUME NEW b \in Batches, AcknowledgeSendBatchBackup(b)
      PROVE (\A c \in Batches : VersionMoves(c))
  BY <1>7 DEF AcknowledgeSendBatchBackup
<1>8. ASSUME NEW b \in Batches, NEW cut \in Cuts, SignAndBroadcastSendBatch(b, cut)
      PROVE (\A c \in Batches : VersionMoves(c))
  <2>1. batch[b].state \notin SignedStates /\ \A c \in Batches \ {b} : batch'[c] = batch[c]
    BY <1>8 DEF SignAndBroadcastSendBatch, Signable
  <2>2. \A p \in Operations \ MemberSet(b) : op'[p] = op[p]
    BY <1>8 DEF SignAndBroadcastSendBatch, SignedMembers
  <2> QED
    BY <2>1, <2>2
<1>9. ASSUME NEW b \in Batches, NEW cut \in Cuts, FeeBumpSendBatch(b, cut)
      PROVE (\A c \in Batches : VersionMoves(c))
  <2>1. \A c \in Batches \ {b} : batch'[c] = batch[c]
    BY <1>9 DEF FeeBumpSendBatch
  <2>2. \A p \in Operations \ MemberSet(b) : op'[p] = op[p]
    BY <1>9 DEF FeeBumpSendBatch, BumpedMembers
  <2> QED
    BY <1>9, <2>1, <2>2
<1>10. ASSUME NEW b \in Batches, NEW cut \in Cuts, ResumeSendBatch(b, cut)
       PROVE (\A c \in Batches : VersionMoves(c))
  <2>1. CASE UNCHANGED <<batch, op>>
    BY <2>1
  <2>2. CASE /\ batch' = [batch EXCEPT ![b].state = "broadcast_unobserved"]
             /\ op' = [o \in Operations |-> IF o \in MemberSet(b)
                        THEN [op[o] EXCEPT !.state = "broadcast_unobserved"] ELSE op[o]]
    BY <2>2
  <2> QED
    BY <1>10, <2>1, <2>2 DEF ResumeSendBatch
<1>11. ASSUME NEW b \in Batches, ObserveSendBatch(b) PROVE (\A c \in Batches : VersionMoves(c))
  <2>1. PICK k : FinalizeMembers(b, k, "mempool")
    BY <1>11 DEF ObserveSendBatch
  <2>2. batch' = batch \/ batch' = [batch EXCEPT ![b].state = "mempool"]
    BY <1>11 DEF ObserveSendBatch
  <2>3. \A p \in Operations : op'[p].tx = op[p].tx
    BY <2>1 DEF FinalizeMembers
  <2> QED
    BY <2>2, <2>3
<1>12. ASSUME NEW b \in Batches, ReconcileSendBatch(b) PROVE (\A c \in Batches : VersionMoves(c))
  <2>1. \A c \in Batches \ {b} : batch'[c] = batch[c]
    BY <1>12 DEF ReconcileSendBatch, RestoredBatch
  <2>2. \A p \in Operations \ MemberSet(b) : op'[p] = op[p]
    BY <1>12 DEF ReconcileSendBatch, RestoredMembers
  <2> QED
    BY <1>12, <2>1, <2>2
<1>13. ASSUME NEW b \in Batches, RefreshSendBatchSpv(b) PROVE (\A c \in Batches : VersionMoves(c))
  BY <1>13 DEF RefreshSendBatchSpv
<1>14. ASSUME NEW t \in Threads, FinishSendBatchProof(t) PROVE (\A c \in Batches : VersionMoves(c))
  <2>1. CASE UNCHANGED <<batch, op>>
    BY <2>1
  <2>2. CASE Installable(job[t].batch, job[t].coins)
    <3>1. /\ op' = [o \in Operations |-> IF o \in MemberSet(job[t].batch)
                  THEN [op[o] EXCEPT !.state = "proof_ready", !.coin = job[t].coins[o],
                    !.acked = FALSE]
                  ELSE op[o]]
          /\ batch' = [batch EXCEPT ![job[t].batch] = [batch[job[t].batch] EXCEPT
                !.state = "proof_ready", !.acked = FALSE,
                  !.prepared = Checkpoint \cup {job[t].batch}]]
      BY <1>14, <2>2 DEF FinishSendBatchProof
    <3> QED
      BY <3>1
  <2> QED
    BY <1>14, <2>1, <2>2 DEF FinishSendBatchProof
<1>15. ASSUME NEW t \in Threads, FailSendBatchProof(t) PROVE (\A c \in Batches : VersionMoves(c))
  <2>1. CASE UNCHANGED <<batch, op>>
    BY <2>1
  <2>2. ASSUME NEW F, Cancels(job[t].batch, F) PROVE \A c \in Batches : VersionMoves(c)
    <3>1. \A p \in Operations : op'[p].tx = op[p].tx
      BY <2>2, CancelledMembers
    <3>2. batch' = batch \/ batch' = [batch EXCEPT ![job[t].batch].state = "cancelled"]
      BY <2>2 DEF Cancels
    <3> QED
      BY <3>1, <3>2
  <2> QED
    BY <1>15, <2>1, <2>2, CancelFailed
<1>16. ASSUME NEW o \in Operations, CancelOperation(o) PROVE (\A c \in Batches : VersionMoves(c))
  BY <1>16 DEF CancelOperation, CancelledRow
<1>17. ASSUME NEW o \in Operations, ProveOperation(o) PROVE (\A c \in Batches : VersionMoves(c))
  BY <1>17 DEF ProveOperation
<1>18. ASSUME NEW o \in Operations, AcknowledgeBackup(o) PROVE (\A c \in Batches : VersionMoves(c))
  BY <1>18 DEF AcknowledgeBackup
<1>19. ASSUME NEW o \in Operations, SignAndBroadcast(o) PROVE (\A c \in Batches : VersionMoves(c))
  <2>1. batch' = batch /\ \A p \in Operations \ {o} : op'[p] = op[p]
    BY <1>19 DEF SignAndBroadcast
  <2>2. op[o].state \notin SignedStates
    BY <1>19 DEF SignAndBroadcast
  <2> QED
    BY <2>1, <2>2 DEF ShareInv
<1>20. CASE FinishProof
  <2>1. batch' = batch /\ solo.op \in Operations
    BY <1>20 DEF FinishProof, TypeOK
  <2>2. \A p \in Operations : op'[p].tx = op[p].tx
    <3>1. CASE UNCHANGED op
      BY <3>1
    <3>2. CASE op' = [op EXCEPT ![solo.op] = [op[solo.op] EXCEPT !.state = "proof_ready",
                                                !.coin = solo.coin, !.acked = FALSE]]
      BY <2>1, <3>2
    <3> QED
      BY <1>20, <3>1, <3>2 DEF FinishProof
  <2> QED
    BY <2>1, <2>2
<1>21. ASSUME NEW cut \in Cuts, ReserveNext(cut),
             UNCHANGED <<durable, signed, clock, exported, backed>>, AfterCut(cut, {})
      PROVE  (\A c \in Batches : VersionMoves(c))
  BY <1>21
<1>22. ASSUME NEW b \in Batches,
             Late(b)
      PROVE  (\A c \in Batches : VersionMoves(c))
  BY <1>22 DEF Late
<1>23. CASE Export \/ Mine \/ Stop
  BY <1>23 DEF Export, Mine, Stop
<1>24. CASE UNCHANGED vars
  BY <1>24 DEF vars
<1> QED
  BY <1>1, <1>2, <1>3, <1>4, <1>5, <1>6, <1>7, <1>8, <1>9, <1>10, <1>11, <1>12, <1>13, <1>14,
     <1>15, <1>16, <1>17, <1>18, <1>19, <1>20, <1>21, <1>22, <1>23, <1>24
  DEF Next, Reserve, SendBatchStep, OperationStep

-----------------------------------------------------------------------------
(* The invariant is kept.                                                  *)

\* The members of a signed batch keep to its transaction.
LEMMA ShareStep == Inv /\ [Next]_vars => ShareInv' /\ EpochInv'
<1> SUFFICES ASSUME Inv, [Next]_vars, NEW c \in Batches, batch'[c].state \in SignedStates
             PROVE  /\ \A p \in MemberSet(c)' : /\ op'[p].state \in SignedStates
                                                /\ op'[p].tx = <<c, batch'[c].epoch>>
                                                /\ op'[p].fee = "signature_released"
                    /\ batch'[c].epoch \in Epochs
  BY DEF ShareInv, EpochInv, BatchTx
<1> DEFINE Goal == /\ \A p \in MemberSet(c) : /\ op'[p].state \in SignedStates
                                              /\ op'[p].tx = <<c, batch'[c].epoch>>
                                              /\ op'[p].fee = "signature_released"
                   /\ batch'[c].epoch \in Epochs
<1> TypeOK /\ ShareInv /\ EpochInv
  BY DEF Inv
<1> batch \in [Batches -> BatchRows] /\ op \in [Operations -> OperationRows]
  BY DEF Inv, TypeOK
<1> \A row \in BatchRows : DOMAIN row = {"state", "epoch", "acked", "prepared", "replaces"}
  BY DEF BatchRows
<1> \A row \in OperationRows :
    DOMAIN row = {"state", "coin", "acked", "fee", "tx", "ready", "prior"}
  BY DEF OperationRows
<1>1. MemberSet(c) \subseteq Operations
  BY Prefixes
<1>2. 0 \in Epochs /\ (bumps < MaxBumps => bumps + 1 \in Epochs)
  BY NextEpoch
<1>3. ASSUME NEW x \in Cuts, SignAndBroadcastSendBatch(c, x) PROVE Goal
  <2>1. batch' = [batch EXCEPT ![c] = [batch[c] EXCEPT !.state = BroadcastState(x), !.epoch = 0]]
    BY <1>3 DEF SignAndBroadcastSendBatch
  <2>2. op' = SignedMembers(c, 0, BroadcastState(x)) /\ BroadcastState(x) \in SignedStates
    BY <1>3, BroadcastStates DEF SignAndBroadcastSendBatch
  <2>3. batch'[c].epoch = 0
    BY <2>1
  <2> QED
    BY <1>1, <1>2, <2>2, <2>3 DEF SignedMembers
<1>4. ASSUME batch[c].state \in SignedStates PROVE Goal
  <2>1. \A p \in MemberSet(c) : /\ op'[p].state \in SignedStates
                                /\ op[p].tx = <<c, batch[c].epoch>>
                                /\ op'[p].fee = "signature_released"
    BY <1>1, <1>4, OperationStepMoves DEF ShareInv, OperationMoves, BatchTx
  <2>2. ASSUME NEW x \in Cuts, FeeBumpSendBatch(c, x) PROVE Goal
    <3>1. batch'[c].epoch = bumps + 1 /\ bumps + 1 \in Epochs
      BY <1>2, <2>2 DEF FeeBumpSendBatch
    <3>2. \A p \in MemberSet(c) : op'[p].tx = <<c, bumps + 1>>
      BY <1>1, <2>2 DEF FeeBumpSendBatch, BumpedMembers
    <3> QED
      BY <2>1, <3>1, <3>2
  <2>3. CASE ReconcileSendBatch(c)
    <3>1. batch'[c].epoch = batch[c].replaces /\ batch[c].replaces \in Epochs
      BY <2>3 DEF ReconcileSendBatch, RestoredBatch, ReplacedMined, BatchRows
    <3>2. \A p \in MemberSet(c) : op'[p].tx = <<c, batch[c].replaces>>
      BY <1>1, <2>3 DEF ReconcileSendBatch, RestoredMembers
    <3> QED
      BY <2>1, <3>1, <3>2
  <2>4. CASE batch'[c].epoch = batch[c].epoch /\ \A p \in MemberSet(c) : op'[p].tx = op[p].tx
    BY <1>4, <2>1, <2>4 DEF EpochInv
  <2> QED
    BY <1>4, <2>2, <2>3, <2>4, VersionStep DEF VersionMoves
<1>5. batch[c].state \in SignedStates \/ \E x \in Cuts : SignAndBroadcastSendBatch(c, x)
  BY SignedBySigning DEF SigningMoves
<1>6. MemberSet(c)' = MemberSet(c)
  <2>1. batch[c].state \notin {"none", "collecting"}
    BY <1>5 DEF SignAndBroadcastSendBatch, Signable, SignedStates
  <2> QED
    BY <2>1, BatchStepMoves DEF BatchMoves, MemberSet
<1> QED
  BY <1>3, <1>4, <1>5, <1>6

\* A signature waits for an acknowledged backup that holds the proofs.
LEMMA BackupStep == Inv /\ [Next]_vars => BackupInv'
<1> SUFFICES ASSUME Inv, [Next]_vars PROVE BackupInv'
  OBVIOUS
<1> USE DEF BackupInv, SignedStates, reserveVars, durable, memory, host
<1> TypeOK /\ BackupInv /\ batch \in [Batches -> BatchRows]
  BY DEF Inv, TypeOK
<1> \A row \in BatchRows : DOMAIN row = {"state", "epoch", "acked", "prepared", "replaces"}
  BY DEF BatchRows
<1>1. ASSUME NEW b \in Batches, NEW o \in Operations, TransferBatchPlan(b, o) PROVE BackupInv'
  BY <1>1 DEF TransferBatchPlan
<1>2. ASSUME NEW b \in Batches, FreezeSendBatch(b) PROVE BackupInv'
  BY <1>2 DEF FreezeSendBatch
<1>3. ASSUME NEW b \in Batches, CancelSendBatch(b) PROVE BackupInv'
  <2>1. PICK F : Cancels(b, F)
    BY <1>3, CancelCalled
  <2> QED
    BY <2>1 DEF Cancels
<1>4. ASSUME NEW b \in Batches, AcknowledgeSendBatchBackup(b) PROVE BackupInv'
  BY <1>4 DEF AcknowledgeSendBatchBackup, AckMatches, Checkpoint
<1>5. ASSUME NEW b \in Batches, NEW cut \in Cuts, SignAndBroadcastSendBatch(b, cut) PROVE BackupInv'
  BY <1>5 DEF SignAndBroadcastSendBatch, Signable, BroadcastState
<1>6. ASSUME NEW b \in Batches, NEW cut \in Cuts, FeeBumpSendBatch(b, cut) PROVE BackupInv'
  BY <1>6 DEF FeeBumpSendBatch, BumpableBatch, BroadcastState
<1>7. ASSUME NEW b \in Batches, NEW cut \in Cuts, ResumeSendBatch(b, cut) PROVE BackupInv'
  <2>1. batch' = batch \/ batch' = [batch EXCEPT ![b].state = "broadcast_unobserved"]
    BY <1>7 DEF ResumeSendBatch
  <2> QED
    BY <1>7, <2>1 DEF ResumeSendBatch
<1>8. ASSUME NEW b \in Batches, ObserveSendBatch(b) PROVE BackupInv'
  BY <1>8 DEF ObserveSendBatch
<1>9. ASSUME NEW b \in Batches, ReconcileSendBatch(b) PROVE BackupInv'
  BY <1>9 DEF ReconcileSendBatch, RestoredBatch
<1>10. ASSUME NEW b \in Batches, RefreshSendBatchSpv(b) PROVE BackupInv'
  BY <1>10 DEF RefreshSendBatchSpv
<1>11. ASSUME NEW t \in Threads, FinishSendBatchProof(t) PROVE BackupInv'
  <2>0. UNCHANGED <<exported, backed>> /\ job[t].batch \in Batches
    BY <1>11 DEF FinishSendBatchProof, TypeOK, Jobs
  <2>1. CASE UNCHANGED batch
    BY <2>0, <2>1
  <2>2. CASE batch' = [batch EXCEPT ![job[t].batch] = [batch[job[t].batch] EXCEPT
                        !.state = "proof_ready", !.acked = FALSE,
                          !.prepared = Checkpoint \cup {job[t].batch}]]
    BY <2>0, <2>2
  <2> QED
    BY <1>11, <2>1, <2>2 DEF FinishSendBatchProof
<1>12. ASSUME NEW t \in Threads, FailSendBatchProof(t) PROVE BackupInv'
  <2>1. CASE UNCHANGED <<batch, exported, backed>>
    BY <2>1
  <2>2. ASSUME NEW F, Cancels(job[t].batch, F) PROVE BackupInv'
    BY <2>2 DEF Cancels
  <2> QED
    BY <1>12, <2>1, <2>2, CancelFailed
<1>13. CASE Export
  BY <1>13 DEF Export, Checkpoint
<1>14. ASSUME NEW cut \in Cuts, ReserveNext(cut),
             UNCHANGED <<durable, signed, clock, exported, backed>>, AfterCut(cut, {})
      PROVE  BackupInv'
  BY <1>14
<1>15. ASSUME NEW b \in Batches, NEW o \in Operations,
             AddRecipient(b, o)
      PROVE  BackupInv'
  BY <1>15 DEF AddRecipient
<1>16. ASSUME NEW b \in Batches,
             Late(b)
      PROVE  BackupInv'
  BY <1>16 DEF Late
<1>17. ASSUME NEW b \in Batches, NEW t \in Threads,
             BeginSendBatchProof(b, t) \/ BeginStops(b, t)
      PROVE  BackupInv'
  BY <1>17 DEF BeginSendBatchProof, BeginStops
<1>18. ASSUME NEW o \in Operations,
             CancelOperation(o) \/ ProveOperation(o) \/ AcknowledgeBackup(o) \/ SignAndBroadcast(o)
      PROVE  BackupInv'
  BY <1>18 DEF CancelOperation, ProveOperation, AcknowledgeBackup, SignAndBroadcast
<1>19. CASE FinishProof \/ Mine \/ Stop
  BY <1>19 DEF FinishProof, Mine, Stop
<1>20. CASE UNCHANGED vars
  BY <1>20 DEF vars
<1> QED
  BY <1>1, <1>2, <1>3, <1>4, <1>5, <1>6, <1>7, <1>8, <1>9, <1>10, <1>11, <1>12, <1>13, <1>14,
     <1>15, <1>16, <1>17, <1>18, <1>19, <1>20
  DEF Next, Reserve, SendBatchStep, OperationStep

\* A step that gives no operation a coin, and forgets none that holds one.
KeepsHolders ==
    \A p \in Operations : op'[p].state \in Holding =>
        op[p].state \in Holding /\ op'[p].coin = op[p].coin
KnowsHolders ==
    Die \/ \A p \in Operations :
            op'[p].state \in Holding /\ p \in pending \cup final => p \in pending' \cup final'

\* Such a step keeps the coins with their operations.
LEMMA HoldersKept ==
    ASSUME HoldInv, KeepsHolders, KnowsHolders
    PROVE  HoldInv'
<1>1. ASSUME NEW p \in Operations, op'[p].state \in Holding
      PROVE  op'[p].coin \in Coins /\ p \in pending' \cup final'
  <2>1. op[p].state \in Holding /\ op'[p].coin = op[p].coin
    BY <1>1 DEF KeepsHolders
  <2>2. p \in pending \cup final /\ op[p].coin \in Coins
    BY <2>1 DEF HoldInv
  <2>3. CASE Die
    BY <1>1, <2>1, <2>2, <2>3, SendBatchAssumption DEF Die, Holding, SignedStates
  <2> QED
    BY <1>1, <2>1, <2>2, <2>3 DEF KnowsHolders
<1>2. ASSUME NEW o \in Operations, NEW p \in Operations, o # p, op'[o].state \in Holding,
             op'[p].state \in Holding
      PROVE  op'[o].coin # op'[p].coin
  BY <1>2 DEF KeepsHolders, HoldInv
<1> QED
  BY <1>1, <1>2 DEF HoldInv

\* The memory after a signing call knows the holders.
LEMMA CutKnows ==
    ASSUME NEW cut, NEW reopened, AfterCut(cut, reopened)
    PROVE  KnowsHolders
BY DEF AfterCut, Survive, KnowsHolders

\* The proofs that are installed take coins that no holder has, and different ones.
LEMMA NewHolders ==
    ASSUME HoldInv, NEW F \in SUBSET Operations,
    NEW coins, pending' = pending \cup F, final' = final,
           \A o \in F : coins[o] \in FreeCoins,
           \A o, p \in F : coins[o] = coins[p] => o = p,
           \A p \in Operations : op'[p].state \in Holding =>
             IF p \in F THEN op'[p].coin = coins[p]
             ELSE op[p].state \in Holding /\ op'[p].coin = op[p].coin
    PROVE  HoldInv'
<1>1. ASSUME NEW p \in Operations, op'[p].state \in Holding
      PROVE  op'[p].coin \in Coins /\ p \in pending' \cup final'
  BY <1>1 DEF HoldInv, FreeCoins
<1>2. ASSUME NEW p \in Operations, op[p].state \in Holding
      PROVE  op[p].coin \notin FreeCoins
  BY <1>2 DEF HoldInv, FreeCoins
<1>3. ASSUME NEW o \in Operations, NEW p \in Operations, o # p, op'[o].state \in Holding,
             op'[p].state \in Holding
      PROVE  op'[o].coin # op'[p].coin
  BY <1>2, <1>3 DEF HoldInv
<1> QED
  BY <1>1, <1>3 DEF HoldInv

\* Coins go to one operation each.
LEMMA HoldStep == Inv /\ [Next]_vars => HoldInv'
<1> SUFFICES ASSUME Inv, [Next]_vars PROVE HoldInv'
  OBVIOUS
<1> USE DEF Holding, SignedStates, reserveVars, durable, memory, host
<1> TypeOK /\ HoldInv /\ ShareInv /\ op \in [Operations -> OperationRows]
  BY DEF Inv, TypeOK
<1> \A row \in OperationRows :
    DOMAIN row = {"state", "coin", "acked", "fee", "tx", "ready", "prior"}
  BY DEF OperationRows
<1>1. ASSUME NEW cut \in Cuts, ReserveNext(cut),
             UNCHANGED <<durable, signed, clock, exported, backed>>, AfterCut(cut, {})
      PROVE  HoldInv'
  <2>1. KeepsHolders
    BY <1>1 DEF KeepsHolders
  <2>2. KnowsHolders
    BY <1>1, CutKnows
  <2> QED
    BY <2>1, <2>2, HoldersKept
<1>2. ASSUME NEW b \in Batches, NEW o \in Operations, AddRecipient(b, o) PROVE HoldInv'
  <2>1. KeepsHolders
    BY <1>2 DEF AddRecipient, PlanMember, KeepsHolders
  <2>2. KnowsHolders
    BY <1>2 DEF AddRecipient, KnowsHolders
  <2> QED
    BY <2>1, <2>2, HoldersKept
<1>3. ASSUME NEW b \in Batches, NEW o \in Operations, TransferBatchPlan(b, o) PROVE HoldInv'
  <2>1. KeepsHolders
    BY <1>3 DEF TransferBatchPlan, PlanMember, KeepsHolders
  <2>2. KnowsHolders
    BY <1>3 DEF TransferBatchPlan, KnowsHolders
  <2> QED
    BY <2>1, <2>2, HoldersKept
<1>4. ASSUME NEW b \in Batches, CancelSendBatch(b) PROVE HoldInv'
  <2>0. PICK F : Cancels(b, F) /\ (Die \/ Forgets(F))
    BY <1>4, CancelCalled
  <2>1. KeepsHolders
    BY <2>0, CancelledMembers DEF KeepsHolders
  <2>2. KnowsHolders
    BY <2>0, CancelledMembers DEF KnowsHolders, Forgets
  <2> QED
    BY <2>1, <2>2, HoldersKept
<1>5. ASSUME NEW b \in Batches, NEW t \in Threads, BeginSendBatchProof(b, t) PROVE HoldInv'
  <2>0. ReserveFees(b, Len(members[b]))
    BY <1>5 DEF BeginSendBatchProof
  <2>1. KeepsHolders
    BY <2>0 DEF ReserveFees, KeepsHolders
  <2>2. KnowsHolders
    BY <1>5 DEF BeginSendBatchProof, KnowsHolders
  <2> QED
    BY <2>1, <2>2, HoldersKept
<1>6. ASSUME NEW b \in Batches, NEW t \in Threads, BeginStops(b, t) PROVE HoldInv'
  <2>0. PICK k : ReserveFees(b, k)
    BY <1>6 DEF BeginStops
  <2>1. KeepsHolders
    BY <2>0 DEF ReserveFees, KeepsHolders
  <2>2. KnowsHolders
    BY <1>6 DEF BeginStops, KnowsHolders
  <2> QED
    BY <2>1, <2>2, HoldersKept
<1>7. ASSUME NEW b \in Batches, AcknowledgeSendBatchBackup(b) PROVE HoldInv'
  <2>1. KeepsHolders
    BY <1>7 DEF AcknowledgeSendBatchBackup, KeepsHolders
  <2>2. KnowsHolders
    BY <1>7 DEF AcknowledgeSendBatchBackup, KnowsHolders
  <2> QED
    BY <2>1, <2>2, HoldersKept
<1>8. ASSUME NEW b \in Batches, NEW cut \in Cuts, SignAndBroadcastSendBatch(b, cut) PROVE HoldInv'
  <2>0. op' = SignedMembers(b, 0, BroadcastState(cut)) /\
    \A o \in MemberSet(b) : op[o].state \in Holding
    BY <1>8 DEF SignAndBroadcastSendBatch, Signable
  <2>1. KeepsHolders
    BY <2>0 DEF SignedMembers, KeepsHolders
  <2>2. KnowsHolders
    BY <1>8, CutKnows DEF SignAndBroadcastSendBatch
  <2> QED
    BY <2>1, <2>2, HoldersKept
<1>9. ASSUME NEW b \in Batches, NEW cut \in Cuts, FeeBumpSendBatch(b, cut) PROVE HoldInv'
  <2>0. op' = BumpedMembers(b, bumps + 1, BroadcastState(cut)) /\
    \A o \in MemberSet(b) : op[o].state \in Holding
    BY <1>9 DEF FeeBumpSendBatch, BumpableMember
  <2>1. KeepsHolders
    BY <2>0 DEF BumpedMembers, KeepsHolders
  <2>2. KnowsHolders
    BY <1>9, CutKnows DEF FeeBumpSendBatch
  <2> QED
    BY <2>1, <2>2, HoldersKept
<1>10. ASSUME NEW b \in Batches, NEW cut \in Cuts, ResumeSendBatch(b, cut) PROVE HoldInv'
  <2>0. \A o \in MemberSet(b) : op[o].state \in Holding
    BY <1>10 DEF ResumeSendBatch, ShareInv
  <2>1. KeepsHolders
    <3>1. CASE UNCHANGED op
      BY <3>1 DEF KeepsHolders
    <3>2. CASE op' = [o \in Operations |-> IF o \in MemberSet(b)
                        THEN [op[o] EXCEPT !.state = "broadcast_unobserved"] ELSE op[o]]
      BY <2>0, <3>2 DEF KeepsHolders
    <3> QED
      BY <1>10, <3>1, <3>2 DEF ResumeSendBatch
  <2>2. KnowsHolders
    BY <1>10, CutKnows DEF ResumeSendBatch
  <2> QED
    BY <2>1, <2>2, HoldersKept
<1>11. ASSUME NEW b \in Batches, ObserveSendBatch(b) PROVE HoldInv'
  <2>0. \A o \in MemberSet(b) : op[o].state \in Holding
    BY <1>11 DEF ObserveSendBatch, ShareInv
  <2>1. KeepsHolders
    <3>1. PICK k \in 0..Len(members[b]) : FinalizeMembers(b, k, "mempool")
      BY <1>11 DEF ObserveSendBatch
    <3>2. FirstMembers(b, k) \subseteq MemberSet(b)
      BY Prefixes
    <3> QED
      BY <2>0, <3>1, <3>2 DEF FinalizeMembers, KeepsHolders
  <2>2. KnowsHolders
    BY <1>11 DEF ObserveSendBatch, KnowsHolders
  <2> QED
    BY <2>1, <2>2, HoldersKept
<1>12. ASSUME NEW b \in Batches, ReconcileSendBatch(b) PROVE HoldInv'
  <2>0. op' = RestoredMembers(b) /\ \A o \in MemberSet(b) : op[o].state \in Holding
    BY <1>12 DEF ReconcileSendBatch, ShareInv
  <2>1. KeepsHolders
    BY <2>0 DEF RestoredMembers, KeepsHolders
  <2>2. KnowsHolders
    BY <1>12 DEF ReconcileSendBatch, KnowsHolders
  <2> QED
    BY <2>1, <2>2, HoldersKept
<1>13. ASSUME NEW b \in Batches, RefreshSendBatchSpv(b) PROVE HoldInv'
  <2>0. \A o \in MemberSet(b) : op[o].state \in Holding
    BY <1>13 DEF RefreshSendBatchSpv, ShareInv
  <2>1. KeepsHolders
    BY <1>13, <2>0 DEF RefreshSendBatchSpv, KeepsHolders
  <2>2. KnowsHolders
    BY <1>13 DEF RefreshSendBatchSpv, KnowsHolders
  <2> QED
    BY <2>1, <2>2, HoldersKept
<1>14. ASSUME NEW t \in Threads, FinishSendBatchProof(t) PROVE HoldInv'
  <2> DEFINE jb == job[t].batch
             coins == job[t].coins
  <2>1. CASE UNCHANGED <<op, pending, final>>
    <3>1. KeepsHolders /\ KnowsHolders
      BY <2>1 DEF KeepsHolders, KnowsHolders
    <3> QED
      BY <3>1, HoldersKept
  <2>2. CASE Installable(jb, coins)
    <3>1. op' = [o \in Operations |-> IF o \in MemberSet(jb)
                  THEN [op[o] EXCEPT !.state = "proof_ready", !.coin = coins[o], !.acked = FALSE]
                  ELSE op[o]]
      BY <1>14, <2>2 DEF FinishSendBatchProof
    <3>2. pending' = pending \cup MemberSet(jb) /\ final' = final
      BY <1>14, <2>2 DEF FinishSendBatchProof
    <3>3. \A o \in MemberSet(jb) : coins[o] \in FreeCoins
      BY <2>2 DEF Installable
    <3>4. MemberSet(jb) \in SUBSET Operations
      BY <1>14, Prefixes DEF FinishSendBatchProof, TypeOK, Jobs
    <3>5. \A o, p \in MemberSet(jb) : coins[o] = coins[p] => o = p
      BY <1>14 DEF FinishSendBatchProof, Inv, JobInv, JobOK
    <3>6. \A p \in Operations : op'[p].state \in Holding =>
             IF p \in MemberSet(jb) THEN op'[p].coin = coins[p]
             ELSE op[p].state \in Holding /\ op'[p].coin = op[p].coin
      BY <3>1
    <3> HIDE DEF jb, coins
    <3> QED
      BY <3>2, <3>3, <3>4, <3>5, <3>6, NewHolders
  <2> QED
    BY <1>14, <2>1, <2>2 DEF FinishSendBatchProof
<1>15. ASSUME NEW t \in Threads, FailSendBatchProof(t) PROVE HoldInv'
  <2>1. CASE UNCHANGED <<op, pending, final>>
    <3>1. KeepsHolders /\ KnowsHolders
      BY <2>1 DEF KeepsHolders, KnowsHolders
    <3> QED
      BY <3>1, HoldersKept
  <2>2. ASSUME NEW F, Cancels(job[t].batch, F), Forgets(F) PROVE HoldInv'
    <3>1. KeepsHolders
      BY <2>2, CancelledMembers DEF KeepsHolders
    <3>2. KnowsHolders
      BY <2>2, CancelledMembers DEF KnowsHolders, Forgets
    <3> QED
      BY <3>1, <3>2, HoldersKept
  <2> QED
    BY <1>15, <2>1, <2>2, CancelFailed
<1>16. ASSUME NEW o \in Operations, CancelOperation(o) PROVE HoldInv'
  <2>1. KeepsHolders
    BY <1>16 DEF CancelOperation, CancelledRow, KeepsHolders
  <2>2. KnowsHolders
    BY <1>16 DEF CancelOperation, CancelledRow, KnowsHolders
  <2> QED
    BY <2>1, <2>2, HoldersKept
<1>17. ASSUME NEW o \in Operations, ProveOperation(o) PROVE HoldInv'
  <2>1. KeepsHolders
    BY <1>17 DEF ProveOperation, KeepsHolders
  <2>2. KnowsHolders
    BY <1>17 DEF ProveOperation, KnowsHolders
  <2> QED
    BY <2>1, <2>2, HoldersKept
<1>18. ASSUME NEW o \in Operations, AcknowledgeBackup(o) PROVE HoldInv'
  <2>1. KeepsHolders
    BY <1>18 DEF AcknowledgeBackup, KeepsHolders
  <2>2. KnowsHolders
    BY <1>18 DEF AcknowledgeBackup, KnowsHolders
  <2> QED
    BY <2>1, <2>2, HoldersKept
<1>19. ASSUME NEW o \in Operations, SignAndBroadcast(o) PROVE HoldInv'
  <2>1. KeepsHolders
    BY <1>19 DEF SignAndBroadcast, KeepsHolders
  <2>2. KnowsHolders
    BY <1>19 DEF SignAndBroadcast, KnowsHolders
  <2> QED
    BY <2>1, <2>2, HoldersKept
<1>20. CASE FinishProof
  <2>1. CASE UNCHANGED <<op, pending, final>>
    <3>1. KeepsHolders /\ KnowsHolders
      BY <2>1 DEF KeepsHolders, KnowsHolders
    <3> QED
      BY <3>1, HoldersKept
  <2>2. CASE op[solo.op].state = "fee_reserved" /\ solo.coin \in FreeCoins
    <3> DEFINE coins == [o \in {solo.op} |-> solo.coin]
    <3>1. solo.op \in Operations /\ final' = final /\ pending' = pending \cup {solo.op}
      BY <1>20, <2>2 DEF FinishProof, TypeOK
    <3>2. op' = [op EXCEPT ![solo.op] = [op[solo.op] EXCEPT !.state = "proof_ready",
                                           !.coin = solo.coin, !.acked = FALSE]]
      BY <1>20, <2>2 DEF FinishProof
    <3>3. \A p \in Operations : op'[p].state \in Holding =>
             IF p \in {solo.op} THEN op'[p].coin = coins[p]
             ELSE op[p].state \in Holding /\ op'[p].coin = op[p].coin
      BY <3>1, <3>2
    <3>4. \A o \in {solo.op} : coins[o] \in FreeCoins
      BY <2>2
    <3>5. /\ {solo.op} \in SUBSET Operations
          /\ \A o, p \in {solo.op} : coins[o] = coins[p] => o = p
      BY <3>1
    <3> DEFINE taken == {solo.op}
    <3>6. /\ taken \in SUBSET Operations /\ pending' = pending \cup taken /\ final' = final
          /\ \A o \in taken : coins[o] \in FreeCoins
          /\ \A o, p \in taken : coins[o] = coins[p] => o = p
          /\ \A p \in Operations : op'[p].state \in Holding =>
               IF p \in taken THEN op'[p].coin = coins[p]
               ELSE op[p].state \in Holding /\ op'[p].coin = op[p].coin
      BY <3>1, <3>3, <3>4, <3>5
    <3> HIDE DEF coins, taken
    <3> QED
      BY <3>6, NewHolders
  <2> QED
    BY <1>20, <2>1, <2>2 DEF FinishProof
<1>21. CASE Stop
  <2>1. KeepsHolders /\ KnowsHolders
    BY <1>21 DEF Stop, KeepsHolders, KnowsHolders
  <2> QED
    BY <2>1, HoldersKept
<1>22. ASSUME NEW b \in Batches,
             FreezeSendBatch(b) \/ Late(b)
      PROVE  HoldInv'
  BY <1>22 DEF FreezeSendBatch, Late, HoldInv
<1>23. CASE Export \/ Mine
  BY <1>23 DEF Export, Mine, HoldInv
<1>24. CASE UNCHANGED vars
  BY <1>24 DEF vars, HoldInv
<1> QED
  BY <1>1, <1>2, <1>3, <1>4, <1>5, <1>6, <1>7, <1>8, <1>9, <1>10, <1>11, <1>12, <1>13, <1>14,
     <1>15, <1>16, <1>17, <1>18, <1>19, <1>20, <1>21, <1>22, <1>23, <1>24
  DEF Next, Reserve, SendBatchStep, OperationStep

\* The batch of a job keeps its members.
LEMMA JobKept ==
    ASSUME Inv, [Next]_vars, NEW t \in Threads, job'[t] \in {job[t], None}
    PROVE  JobOK(t)'
<1>1. CASE job'[t] = None
  BY <1>1 DEF JobOK
<1>2. CASE job'[t] = job[t] /\ job[t] # None
  <2> DEFINE c == job[t].batch
  <2>1. c \in Batches
    BY <1>2 DEF Inv, TypeOK, Jobs
  <2>2. batch[c].state \notin {"none", "collecting"}
    BY <1>2 DEF Inv, JobInv, JobOK
  <2>3. batch'[c].state \notin {"none", "collecting"} /\ members'[c] = members[c]
    BY <2>1, <2>2, BatchStepMoves DEF BatchMoves
  <2> QED
    BY <1>2, <2>3 DEF Inv, JobInv, JobOK, MemberSet
<1> QED
  BY <1>1, <1>2

\* A call that starts no job keeps the invariant of the others.
JobsEnd == \A t \in Threads : job'[t] \in {job[t], None}

\* begin_send_batch_proof is the call that starts a job.
LEMMA JobsMove == TypeOK /\ [Next]_vars => (JobsEnd \/
\E c \in Batches, u \in Threads : BeginSendBatchProof(c, u))
<1> SUFFICES ASSUME TypeOK, [Next]_vars PROVE (JobsEnd \/ \E c \in Batches,
    u \in Threads : BeginSendBatchProof(c, u))
  OBVIOUS
<1> USE DEF Die, Survive, AfterCut, EndJob, reserveVars, durable, memory, host
<1> job \in [Threads -> Jobs \cup {None}]
  BY DEF TypeOK
<1>1. ASSUME NEW cut \in Cuts, ReserveNext(cut),
             UNCHANGED <<durable, signed, clock, exported, backed>>, AfterCut(cut, {})
      PROVE  (JobsEnd \/ \E c \in Batches, u \in Threads : BeginSendBatchProof(c, u))
  BY <1>1 DEF JobsEnd
<1>2. ASSUME NEW b \in Batches, CancelSendBatch(b) PROVE (JobsEnd \/ \E c \in Batches,
             u \in Threads : BeginSendBatchProof(c, u))
  BY <1>2, CancelCalled DEF JobsEnd
<1>3. ASSUME NEW b \in Batches, NEW t \in Threads, BeginSendBatchProof(b, t)
      PROVE (JobsEnd \/ \E c \in Batches, u \in Threads : BeginSendBatchProof(c, u))
  BY <1>3
<1>4. ASSUME NEW b \in Batches, NEW o \in Operations,
             AddRecipient(b, o) \/ TransferBatchPlan(b, o)
      PROVE  (JobsEnd \/ \E c \in Batches, u \in Threads : BeginSendBatchProof(c, u))
  BY <1>4 DEF AddRecipient, TransferBatchPlan, JobsEnd
<1>5. ASSUME NEW b \in Batches,
             FreezeSendBatch(b) \/ Late(b) \/ AcknowledgeSendBatchBackup(b) \/
             ObserveSendBatch(b) \/ ReconcileSendBatch(b) \/ RefreshSendBatchSpv(b)
      PROVE  (JobsEnd \/ \E c \in Batches, u \in Threads : BeginSendBatchProof(c, u))
  BY <1>5 DEF FreezeSendBatch, Late, AcknowledgeSendBatchBackup, ObserveSendBatch,
     ReconcileSendBatch, RefreshSendBatchSpv, JobsEnd
<1>6. ASSUME NEW b \in Batches, NEW t \in Threads,
             BeginStops(b, t)
      PROVE  (JobsEnd \/ \E c \in Batches, u \in Threads : BeginSendBatchProof(c, u))
  BY <1>6 DEF BeginStops, JobsEnd
<1>7. ASSUME NEW b \in Batches, NEW cut \in Cuts,
             SignAndBroadcastSendBatch(b, cut) \/ FeeBumpSendBatch(b, cut) \/
             ResumeSendBatch(b, cut)
      PROVE  (JobsEnd \/ \E c \in Batches, u \in Threads : BeginSendBatchProof(c, u))
  BY <1>7 DEF SignAndBroadcastSendBatch, FeeBumpSendBatch, ResumeSendBatch, JobsEnd
<1>8. ASSUME NEW t \in Threads,
             FinishSendBatchProof(t) \/ FailSendBatchProof(t)
      PROVE  (JobsEnd \/ \E c \in Batches, u \in Threads : BeginSendBatchProof(c, u))
  BY <1>8 DEF FinishSendBatchProof, FailSendBatchProof, JobsEnd
<1>9. ASSUME NEW o \in Operations,
             CancelOperation(o) \/ ProveOperation(o) \/ AcknowledgeBackup(o) \/ SignAndBroadcast(o)
      PROVE  (JobsEnd \/ \E c \in Batches, u \in Threads : BeginSendBatchProof(c, u))
  BY <1>9 DEF CancelOperation, ProveOperation, AcknowledgeBackup, SignAndBroadcast, JobsEnd
<1>10. CASE FinishProof \/ Export \/ Mine \/ Stop
  BY <1>10 DEF FinishProof, Export, Mine, Stop, JobsEnd
<1>11. CASE UNCHANGED vars
  BY <1>11 DEF vars, JobsEnd
<1> QED
  BY <1>1, <1>2, <1>3, <1>4, <1>5, <1>6, <1>7, <1>8, <1>9, <1>10, <1>11
  DEF Next, Reserve, SendBatchStep, OperationStep

\* The members of a batch that is being proved are fixed.
LEMMA JobStep == Inv /\ [Next]_vars => JobInv'
<1> SUFFICES ASSUME Inv, [Next]_vars, NEW t \in Threads PROVE JobOK(t)'
  BY DEF JobInv
<1>1. CASE JobsEnd
  BY <1>1, JobKept DEF JobsEnd
<1>2. ASSUME NEW c \in Batches, NEW u \in Threads, BeginSendBatchProof(c, u) PROVE JobOK(t)'
  <2>0. job \in [Threads -> Jobs \cup {None}]
    BY DEF Inv, TypeOK
  <2>1. PICK f \in CoinChoices(c) : job' = [job EXCEPT ![u] = [batch |-> c, coins |-> f]]
    BY <1>2 DEF BeginSendBatchProof
  <2>2. CASE t = u
    <3>1. job'[t].batch = c /\ job'[t].coins = f
      BY <2>0, <2>1, <2>2
    <3>2. batch'[c].state = "frozen" /\ members' = members
      BY <1>2 DEF BeginSendBatchProof, MayBegin
    <3>3. f # None => /\ f \in [MemberSet(c) -> Coins]
                      /\ \A o, p \in MemberSet(c) : f[o] = f[p] => o = p
      BY DEF CoinChoices, FreeCoins
    <3> QED
      BY <3>1, <3>2, <3>3 DEF JobOK, MemberSet
  <2>3. CASE t # u
    BY <2>0, <2>1, <2>3, JobKept
  <2> QED
    BY <2>2, <2>3
<1> QED
  BY <1>1, <1>2, JobsMove DEF Inv

\* The rows of a split are not those of a batch, and are told apart by their transactions.
LEMMA StockKinds ==
    ASSUME Inv, NEW s \in StockIds
    PROVE  /\ s \in Reserves \X Vouts => s[1] \in Reserves /\ s[1] \notin Batches
           /\ s \in Batches \X Epochs => s[1] \in Batches /\ s[1] \notin Reserves
           /\ stock[s].state # "absent" => stock[s].tx[1] = s[1]
           /\ \/ stock[s].state \in {"available", "reserved", "signature_released"}
              \/ stock[s].by # None
              => s \in Reserves \X Vouts
<1>1. /\ s \in Reserves \X Vouts => s[1] \in Reserves /\ s[1] \notin Batches
      /\ s \in Batches \X Epochs => s[1] \in Batches /\ s[1] \notin Reserves
  BY ReserveAssumption
<1>2. s \in Reserves \X Vouts \/ s \in Batches \X Epochs
  BY DEF StockIds
<1>3. StockOK(s)
  BY DEF Inv, StockInv
<1>4. stock[s].by # None => stock[s].state \in {"reserved", "signature_released"}
  BY DEF Inv, DrawInv
<1> QED
  BY <1>1, <1>2, <1>3, <1>4 DEF StockOK, SplitOK, SuccessorOK

\* A pending row that moves to another version of its split.
LEMMA RetargetKept ==
    ASSUME Inv, NEW r \in Reserves, NEW e, NEW f, Retarget(<<r, e>>, <<r, f>>),
           mined' = mined, NEW s \in StockIds,
           s \in Reserves \X Vouts =>
                reserve'[s[1]].state # "none" \/ reserve'[s[1]] = reserve[s[1]]
    PROVE  StockOK(s)'
<1> stock \in [StockIds -> StockRows] /\ reserve \in [Reserves -> ReserveRows]
  BY DEF Inv, TypeOK, ReserveTypeOK
<1> \A row \in StockRows : DOMAIN row = {"tx", "state", "by"}
  BY DEF StockRows
<1> \A row \in ReserveRows : DOMAIN row = {"state", "epoch", "candidates"}
  BY DEF ReserveRows
<1>1. StockOK(s)
  BY DEF Inv, StockInv
<1>2. CASE stock[s].tx = <<r, e>> /\ stock[s].state = "pending"
  <2>1. stock[s].state # "absent" /\ stock[s].tx[1] = r
    BY <1>2
  <2>2. s[1] = r /\ s \notin Batches \X Epochs
    BY <2>1, StockKinds, ReserveAssumption
  <2>3. stock'[s] = [stock[s] EXCEPT !.tx = <<r, f>>]
    BY <1>2 DEF Retarget
  <2>4. stock'[s].state = "pending" /\ stock'[s].tx[1] = r
    BY <1>2, <2>3
  <2> QED
    BY <1>1, <1>2, <2>2, <2>4 DEF StockOK, SplitOK
<1>3. CASE ~(stock[s].tx = <<r, e>> /\ stock[s].state = "pending")
  <2>1. stock'[s] = stock[s]
    BY <1>3 DEF Retarget
  <2> QED
    BY <1>1, <2>1 DEF StockOK, SplitOK, SuccessorOK
<1> QED
  BY <1>2, <1>3

\* The calls for reserves.
LEMMA ReserveStocks ==
    ASSUME Inv, NEW cut \in Cuts, ReserveNext(cut)
    PROVE  StockInv'
<1> SUFFICES ASSUME NEW s \in StockIds PROVE StockOK(s)'
  BY DEF StockInv
<1> StockOK(s)
  BY DEF Inv, StockInv
<1> stock \in [StockIds -> StockRows] /\ reserve \in [Reserves -> ReserveRows]
  BY DEF Inv, TypeOK, ReserveTypeOK
<1> \A row \in StockRows : DOMAIN row = {"tx", "state", "by"}
  BY DEF StockRows
<1> \A row \in ReserveRows : DOMAIN row = {"state", "epoch", "candidates"}
  BY DEF ReserveRows
<1>k. s \in Reserves \X Vouts => s[1] \in Reserves
  OBVIOUS
<1>1. ASSUME NEW r \in Reserves, PrepareBatchReserves(r, cut) PROVE StockOK(s)'
  <2>1. \A q \in Reserves \ {r} : reserve'[q] = reserve[q]
    BY <1>1 DEF PrepareBatchReserves
  <2>2. reserve'[r].state # "none" /\ mined' = mined
    BY <1>1 DEF PrepareBatchReserves, BroadcastState
  <2>3. CASE s \in {r} \X Vouts
    <3>1. stock'[s] = [tx |-> <<r, 0>>, state |-> "pending", by |-> None]
      BY <1>1, <2>3 DEF PrepareBatchReserves, SplitStocks
    <3>2. s \notin Batches \X Epochs /\ s[1] = r
      BY <2>3, ReserveAssumption
    <3> QED
      BY <2>2, <3>1, <3>2 DEF StockOK, SplitOK
  <2>4. CASE s \notin {r} \X Vouts
    <3>1. stock'[s] = stock[s]
      BY <1>1, <2>4 DEF PrepareBatchReserves, SplitStocks
    <3>2. s \in Reserves \X Vouts => s[1] # r
      BY <2>4
    <3> QED
      BY <1>k, <2>1, <2>2, <3>1, <3>2 DEF StockOK, SplitOK, SuccessorOK
  <2> QED
    BY <2>3, <2>4
<1>2. ASSUME NEW r \in Reserves, FeeBumpBatchReserves(r, cut) PROVE StockOK(s)'
  <2>1. \A q \in Reserves : reserve'[q].state # "none" \/ reserve'[q] = reserve[q]
    BY <1>2 DEF FeeBumpBatchReserves, BroadcastState
  <2> QED
    BY <1>2, <1>k, <2>1, RetargetKept DEF FeeBumpBatchReserves
<1>3. ASSUME NEW r \in Reserves, ResumeBatchReserves(r, cut) PROVE StockOK(s)'
  <2>1. \A q \in Reserves : reserve'[q].state # "none" \/ reserve'[q] = reserve[q]
    BY <1>3 DEF ResumeBatchReserves
  <2> QED
    BY <1>3, <1>k, <2>1 DEF ResumeBatchReserves, StockOK, SplitOK, SuccessorOK
<1>4. ASSUME NEW r \in Reserves, ReconcileBatchReserve(r) PROVE StockOK(s)'
  <2>1. PICK e \in MinedCandidates(r) :
          /\ reserve' = [reserve EXCEPT ![r] = [state |-> "broadcast_unobserved", epoch |-> e,
                                                candidates |-> {}]]
          /\ Retarget(<<r, reserve[r].epoch>>, <<r, e>>)
    BY <1>4 DEF ReconcileBatchReserve
  <2>2. \A q \in Reserves : reserve'[q].state # "none" \/ reserve'[q] = reserve[q]
    BY <2>1
  <2> QED
    BY <1>4, <1>k, <2>1, <2>2, RetargetKept DEF ReconcileBatchReserve
<1>5. ASSUME NEW r \in Reserves, ObserveBatchReserve(r) PROVE StockOK(s)'
  <2>1. \A q \in Reserves : reserve'[q].state # "none" \/ reserve'[q] = reserve[q]
    BY <1>5 DEF ObserveBatchReserve
  <2> QED
    BY <1>5, <1>k, <2>1 DEF ObserveBatchReserve, StockOK, SplitOK, SuccessorOK
<1>6. ASSUME NEW r \in Reserves, RefreshBatchReserves(r) PROVE StockOK(s)'
  <2>1. PICK e \in VerifiedEpoch(r) :
          /\ reserve' = [reserve EXCEPT ![r] =
                [state |-> "confirmed", epoch |-> e,
                 candidates |-> IF e \in reserve[r].candidates THEN {} ELSE reserve[r].candidates]]
          /\ stock' = [x \in StockIds |->
                IF stock[x].tx = <<r, reserve[r].epoch>> /\ stock[x].state = "pending"
                THEN [stock[x] EXCEPT !.tx = <<r, e>>, !.state = "available"] ELSE stock[x]]
    BY <1>6 DEF RefreshBatchReserves
  <2>2. <<r, e>> \in mined /\ mined' = mined
    BY <1>6 DEF RefreshBatchReserves, VerifiedEpoch, MinedCandidates
  <2>3. \A q \in Reserves : reserve'[q].state # "none" \/ reserve'[q] = reserve[q]
    BY <2>1
  <2>4. CASE stock[s].tx = <<r, reserve[r].epoch>> /\ stock[s].state = "pending"
    <3>1. stock[s].tx[1] = r
      BY <2>4
    <3>2. s[1] = r /\ s \notin Batches \X Epochs
      BY <2>4, <3>1, StockKinds, ReserveAssumption
    <3>3. stock'[s] = [stock[s] EXCEPT !.tx = <<r, e>>, !.state = "available"]
      BY <2>1, <2>4
    <3>4. stock'[s].state = "available" /\ stock'[s].tx = <<r, e>>
      BY <3>3
    <3>5. s \in Reserves \X Vouts => reserve'[s[1]].state # "none"
      BY <1>6, <2>1, <3>2
    <3> QED
      BY <2>2, <3>2, <3>4, <3>5 DEF StockOK, SplitOK
  <2>5. CASE ~(stock[s].tx = <<r, reserve[r].epoch>> /\ stock[s].state = "pending")
    <3>1. stock'[s] = stock[s]
      BY <2>1, <2>5
    <3> QED
      BY <1>k, <2>2, <2>3, <3>1 DEF StockOK, SplitOK, SuccessorOK
  <2> QED
    BY <2>4, <2>5
<1> QED
  BY <1>1, <1>2, <1>3, <1>4, <1>5, <1>6 DEF ReserveNext

\* A batch draws and frees outputs of splits.
LEMMA DrawnStocks ==
    ASSUME Inv, NEW b \in Batches, UNCHANGED <<reserve, mined>>,
           stock' = stock \/ stock' = FreedStock(b) \/ ReserveStock(b)
    PROVE  StockInv'
<1> SUFFICES ASSUME NEW s \in StockIds PROVE StockOK(s)'
  BY DEF StockInv
<1> StockOK(s)
  BY DEF Inv, StockInv
<1> stock \in [StockIds -> StockRows] /\ reserve \in [Reserves -> ReserveRows]
  BY DEF Inv, TypeOK, ReserveTypeOK
<1> \A row \in StockRows : DOMAIN row = {"tx", "state", "by"}
  BY DEF StockRows
<1> \A row \in ReserveRows : DOMAIN row = {"state", "epoch", "candidates"}
  BY DEF ReserveRows
<1>1. CASE stock'[s] = stock[s]
  BY <1>1 DEF StockOK, SplitOK, SuccessorOK
<1>2. CASE /\ stock[s].state \in {"available", "reserved"} /\ stock'[s].tx = stock[s].tx
           /\ stock'[s].state \in {"available", "reserved"}
  <2>1. s \in Reserves \X Vouts /\ s \notin Batches \X Epochs
    BY <1>2, StockKinds
  <2> QED
    BY <1>2, <2>1 DEF StockOK, SplitOK
<1>3. CASE stock' = FreedStock(b)
  BY <1>1, <1>2, <1>3 DEF FreedStock
<1>4. ASSUME NEW x \in AvailableStock,
             stock' = [stock EXCEPT ![x] = [stock[x] EXCEPT !.state = "reserved", !.by = b]]
      PROVE  StockOK(s)'
  BY <1>1, <1>2, <1>4 DEF AvailableStock
<1> QED
  BY <1>1, <1>3, <1>4 DEF ReserveStock

\* A batch spends its stock and leaves an output that never becomes stock.
LEMMA SpentStocks ==
    ASSUME Inv, NEW b \in Batches, UNCHANGED <<reserve, mined>>, NEW s \in StockIds, NEW tx,
           \/ stock'[s] = stock[s]
           \/ stock[s].by = b /\ stock'[s] = [stock[s] EXCEPT !.state = "signature_released"]
           \/ /\ s = tx /\ tx \in Batches \X Epochs /\ stock'[s] = PendingStock(tx)
           \/ /\ stock[s].tx = tx /\ tx[1] = b /\ stock[s].state \in {"pending", "invalidated"}
              /\ \/ stock'[s] = [stock[s] EXCEPT !.state = "invalidated"]
                 \/ stock'[s] = [stock[s] EXCEPT !.state = "pending"]
                 \/ stock'[s] = [stock[s] EXCEPT !.state = "confirmed"]
    PROVE  StockOK(s)'
<1> StockOK(s)
  BY DEF Inv, StockInv
<1> stock \in [StockIds -> StockRows] /\ reserve \in [Reserves -> ReserveRows]
  BY DEF Inv, TypeOK, ReserveTypeOK
<1> \A row \in StockRows : DOMAIN row = {"tx", "state", "by"}
  BY DEF StockRows
<1> \A row \in ReserveRows : DOMAIN row = {"state", "epoch", "candidates"}
  BY DEF ReserveRows
<1>1. CASE stock'[s] = stock[s]
  BY <1>1 DEF StockOK, SplitOK, SuccessorOK
<1>2. CASE stock[s].by = b /\ stock'[s] = [stock[s] EXCEPT !.state = "signature_released"]
  <2>1. stock[s].by # None
    BY <1>2, ReserveAssumption
  <2>2. s \in Reserves \X Vouts /\ s \notin Batches \X Epochs
    BY <2>1, StockKinds
  <2>3. stock[s].state # "absent"
    BY <2>1 DEF Inv, DrawInv
  <2>4. stock'[s].state = "signature_released" /\ stock'[s].tx = stock[s].tx
    BY <1>2
  <2> QED
    BY <2>2, <2>3, <2>4 DEF StockOK, SplitOK
<1>3. CASE s = tx /\ tx \in Batches \X Epochs /\ stock'[s] = PendingStock(tx)
  <2>1. s \notin Reserves \X Vouts
    BY <1>3, ReserveAssumption
  <2>2. stock'[s].tx = s /\ stock'[s].state = "pending"
    BY <1>3 DEF PendingStock
  <2> QED
    BY <2>1, <2>2 DEF StockOK, SuccessorOK
<1>4. CASE /\ stock[s].tx = tx /\ tx[1] = b /\ stock[s].state \in {"pending", "invalidated"}
           /\ \/ stock'[s] = [stock[s] EXCEPT !.state = "invalidated"]
              \/ stock'[s] = [stock[s] EXCEPT !.state = "pending"]
              \/ stock'[s] = [stock[s] EXCEPT !.state = "confirmed"]
  <2>1. s[1] = b
    BY <1>4, StockKinds
  <2>2. s \notin Reserves \X Vouts
    BY <2>1, StockKinds
  <2>3. stock'[s].tx = stock[s].tx /\ stock'[s].state \in {"pending", "invalidated", "confirmed"}
    BY <1>4
  <2> QED
    BY <1>4, <2>2, <2>3 DEF StockOK, SuccessorOK
<1> QED
  BY <1>1, <1>2, <1>3, <1>4

\* Stock that can be drawn is the output of a mined split.
LEMMA StockStep == Inv /\ [Next]_vars => StockInv'
<1> SUFFICES ASSUME Inv, [Next]_vars PROVE StockInv'
  OBVIOUS
<1> USE DEF reserveVars, durable, memory, host
<1> TypeOK /\ StockInv
  BY DEF Inv
<1>1. ASSUME NEW cut \in Cuts, ReserveNext(cut),
             UNCHANGED <<durable, signed, clock, exported, backed>>, AfterCut(cut, {})
      PROVE  StockInv'
  BY <1>1, ReserveStocks
<1>2. ASSUME NEW b \in Batches, CancelSendBatch(b) PROVE StockInv'
  <2>1. UNCHANGED <<reserve, mined>> /\ (stock' = stock \/ stock' = FreedStock(b))
    BY <1>2, CancelCalled DEF Inv, Cancels
  <2> QED
    BY <2>1, DrawnStocks
<1>3. ASSUME NEW b \in Batches, NEW t \in Threads, BeginSendBatchProof(b, t) PROVE StockInv'
  BY <1>3, DrawnStocks DEF BeginSendBatchProof
<1>4. ASSUME NEW b \in Batches, NEW t \in Threads, BeginStops(b, t) PROVE StockInv'
  BY <1>4, DrawnStocks DEF BeginStops
<1>5. ASSUME NEW b \in Batches, NEW cut \in Cuts, SignAndBroadcastSendBatch(b, cut) PROVE StockInv'
  <2> SUFFICES ASSUME NEW s \in StockIds PROVE StockOK(s)'
    BY DEF StockInv
  <2>1. UNCHANGED <<reserve, mined>> /\ stock' = SignedStocks(b)
    BY <1>5 DEF SignAndBroadcastSendBatch
  <2>2. <<b, 0>> \in Batches \X Epochs
    BY NextEpoch DEF Inv
  <2>3. CASE s \in StockOf(b)
    <3>1. s # <<b, 0>>
      BY <2>2, <2>3, StockKinds, ReserveAssumption DEF StockOf
    <3>2. stock[s].by = b /\ stock'[s] = [stock[s] EXCEPT !.state = "signature_released"]
      BY <2>1, <2>3, <3>1 DEF SignedStocks, StockOf
    <3> QED
      BY <2>1, <3>2, SpentStocks
  <2>4. CASE s \notin StockOf(b) /\ s = <<b, 0>>
    <3>1. stock'[s] = PendingStock(<<b, 0>>)
      BY <2>1, <2>4 DEF SignedStocks
    <3> QED
      BY <2>1, <2>2, <2>4, <3>1, SpentStocks
  <2>5. CASE s \notin StockOf(b) /\ s # <<b, 0>>
    <3>1. stock'[s] = stock[s]
      BY <2>1, <2>5 DEF SignedStocks
    <3> QED
      BY <2>1, <3>1, SpentStocks
  <2> QED
    BY <2>3, <2>4, <2>5
<1>6. ASSUME NEW b \in Batches, NEW cut \in Cuts, FeeBumpSendBatch(b, cut) PROVE StockInv'
  <2> SUFFICES ASSUME NEW s \in StockIds PROVE StockOK(s)'
    BY DEF StockInv
  <2>1. UNCHANGED <<reserve, mined>> /\ stock' = BumpedStocks(b, bumps + 1)
    BY <1>6 DEF FeeBumpSendBatch
  <2>2. <<b, bumps + 1>> \in Batches \X Epochs
    BY <1>6, NextEpoch DEF FeeBumpSendBatch, Inv
  <2>3. CASE s = <<b, bumps + 1>>
    <3>1. stock'[s] = PendingStock(<<b, bumps + 1>>)
      BY <2>1, <2>3 DEF BumpedStocks
    <3> QED
      BY <2>1, <2>2, <2>3, <3>1, SpentStocks
  <2>4. CASE s # <<b, bumps + 1>> /\ stock[s].tx = BatchTx(b) /\ stock[s].state = "pending"
    <3>1. stock'[s] = [stock[s] EXCEPT !.state = "invalidated"] /\ BatchTx(b)[1] = b
      BY <2>1, <2>4 DEF BumpedStocks, BatchTx
    <3> QED
      BY <2>1, <2>4, <3>1, SpentStocks
  <2>5. CASE s # <<b, bumps + 1>> /\ ~(stock[s].tx = BatchTx(b) /\ stock[s].state = "pending")
    <3>1. stock'[s] = stock[s]
      BY <2>1, <2>5 DEF BumpedStocks
    <3> QED
      BY <2>1, <3>1, SpentStocks
  <2> QED
    BY <2>3, <2>4, <2>5
<1>7. ASSUME NEW b \in Batches, ReconcileSendBatch(b) PROVE StockInv'
  <2> SUFFICES ASSUME NEW s \in StockIds PROVE StockOK(s)'
    BY DEF StockInv
  <2> DEFINE old == <<b, batch[b].replaces>>
  <2>1. UNCHANGED <<reserve, mined>> /\ stock' = RestoredStocks(b)
    BY <1>7 DEF ReconcileSendBatch
  <2>2. BatchTx(b)[1] = b /\ old[1] = b
    BY DEF BatchTx
  <2>3. CASE stock[s].tx = BatchTx(b) /\ stock[s].state = "pending"
    <3>1. stock'[s] = [stock[s] EXCEPT !.state = "invalidated"]
      BY <2>1, <2>3 DEF RestoredStocks
    <3> QED
      BY <2>1, <2>2, <2>3, <3>1, SpentStocks
  <2>4. CASE stock[s].tx = old /\ stock[s].state = "invalidated"
    <3>1. stock'[s] = [stock[s] EXCEPT !.state = "pending"]
      BY <2>1, <2>4 DEF RestoredStocks
    <3> QED
      BY <2>1, <2>2, <2>4, <3>1, SpentStocks
  <2>5. CASE /\ ~(stock[s].tx = BatchTx(b) /\ stock[s].state = "pending")
             /\ ~(stock[s].tx = old /\ stock[s].state = "invalidated")
    <3>1. stock'[s] = stock[s]
      BY <2>1, <2>5 DEF RestoredStocks
    <3> QED
      BY <2>1, <3>1, SpentStocks
  <2> QED
    BY <2>3, <2>4, <2>5
<1>8. ASSUME NEW b \in Batches, RefreshSendBatchSpv(b) PROVE StockInv'
  <2> SUFFICES ASSUME NEW s \in StockIds PROVE StockOK(s)'
    BY DEF StockInv
  <2>1. UNCHANGED <<reserve, mined>>
    BY <1>8 DEF RefreshSendBatchSpv
  <2>2. CASE stock[s].tx = BatchTx(b) /\ stock[s].state = "pending" /\ s[1] = b
    <3>1. stock'[s] = [stock[s] EXCEPT !.state = "confirmed"] /\ BatchTx(b)[1] = b
      BY <1>8, <2>2 DEF RefreshSendBatchSpv, BatchTx
    <3> QED
      BY <2>1, <2>2, <3>1, SpentStocks
  <2>3. CASE ~(stock[s].tx = BatchTx(b) /\ stock[s].state = "pending" /\ s[1] = b)
    <3>1. stock'[s] = stock[s]
      BY <1>8, <2>3 DEF RefreshSendBatchSpv
    <3> QED
      BY <2>1, <3>1, SpentStocks
  <2> QED
    BY <2>2, <2>3
<1>9. ASSUME NEW t \in Threads, FailSendBatchProof(t) PROVE StockInv'
  <2>1. CASE UNCHANGED reserveVars
    BY <2>1 DEF StockInv, StockOK, SplitOK, SuccessorOK
  <2>2. ASSUME job[t].batch \in Batches, NEW F, Cancels(job[t].batch, F) PROVE StockInv'
    BY <2>2, DrawnStocks DEF Cancels
  <2> QED
    BY <1>9, <2>1, <2>2, CancelFailed DEF Inv
<1>10. ASSUME NEW b \in Batches, NEW o \in Operations,
             AddRecipient(b, o) \/ TransferBatchPlan(b, o)
      PROVE  StockInv'
  BY <1>10 DEF AddRecipient, TransferBatchPlan, StockInv, StockOK, SplitOK, SuccessorOK
<1>11. ASSUME NEW b \in Batches,
             FreezeSendBatch(b) \/ Late(b) \/ AcknowledgeSendBatchBackup(b) \/ ObserveSendBatch(b)
      PROVE  StockInv'
  BY <1>11 DEF FreezeSendBatch, Late, AcknowledgeSendBatchBackup, ObserveSendBatch, StockInv,
     StockOK, SplitOK, SuccessorOK
<1>12. ASSUME NEW b \in Batches, NEW cut \in Cuts,
             ResumeSendBatch(b, cut)
      PROVE  StockInv'
  BY <1>12 DEF ResumeSendBatch, StockInv, StockOK, SplitOK, SuccessorOK
<1>13. ASSUME NEW t \in Threads,
             FinishSendBatchProof(t)
      PROVE  StockInv'
  BY <1>13 DEF FinishSendBatchProof, StockInv, StockOK, SplitOK, SuccessorOK
<1>14. ASSUME NEW o \in Operations,
             CancelOperation(o) \/ ProveOperation(o) \/ AcknowledgeBackup(o) \/ SignAndBroadcast(o)
      PROVE  StockInv'
  BY <1>14 DEF CancelOperation, ProveOperation, AcknowledgeBackup, SignAndBroadcast, StockInv,
     StockOK, SplitOK, SuccessorOK
<1>15. CASE FinishProof \/ Export \/ Mine \/ Stop
  BY <1>15 DEF FinishProof, Export, Mine, Stop, StockInv, StockOK, SplitOK, SuccessorOK
<1>16. CASE UNCHANGED vars
  BY <1>16 DEF vars, StockInv, StockOK, SplitOK, SuccessorOK
<1> QED
  BY <1>1, <1>2, <1>3, <1>4, <1>5, <1>6, <1>7, <1>8, <1>9, <1>10, <1>11, <1>12, <1>13, <1>14,
     <1>15, <1>16
  DEF Next, Reserve, SendBatchStep, OperationStep

\* A row with a batch keeps it, unless the batch is cancelled.
LEMMA DrawsKept ==
    ASSUME Inv, [Next]_vars,
           \A s \in StockIds : stock'[s].by # None =>
                /\ stock'[s].by = stock[s].by /\ stock'[s].state = stock[s].state
                /\ batch'[stock[s].by].state # "cancelled"
    PROVE  DrawInv'
<1>1. ASSUME NEW s \in StockIds, stock'[s].by # None
      PROVE  /\ stock'[s].state \in {"reserved", "signature_released"}
             /\ batch'[stock'[s].by].state \notin {"none", "collecting", "cancelled"}
             /\ stock'[s].state = "signature_released" => batch'[stock'[s].by].state \in SignedStates
  <2>1. stock[s].by \in Batches /\ stock'[s].by = stock[s].by
    BY <1>1 DEF Inv, TypeOK, ReserveTypeOK, StockRows
  <2>2. BatchMoves(stock[s].by)
    BY <2>1, BatchStepMoves
  <2>3. /\ stock[s].state \in {"reserved", "signature_released"}
        /\ batch[stock[s].by].state \notin {"none", "collecting", "cancelled"}
        /\ stock[s].state = "signature_released" => batch[stock[s].by].state \in SignedStates
    BY <1>1 DEF Inv, DrawInv
  <2> QED
    BY <1>1, <2>1, <2>2, <2>3 DEF BatchMoves
<1>2. ASSUME NEW s \in StockIds,
    NEW t \in StockIds, stock'[s].by # None, stock'[s].by = stock'[t].by
      PROVE  s = t
  BY <1>2 DEF Inv, DrawInv
<1> QED
  BY <1>1, <1>2 DEF DrawInv

\* The stock that is reserved for a batch is its only one.
LEMMA DrawsReserved ==
    ASSUME Inv, [Next]_vars,
    NEW b \in Batches, ReserveStock(b), batch' = batch, batch[b].state = "frozen"
    PROVE  DrawInv'
<1> stock \in [StockIds -> StockRows] /\ reserve \in [Reserves -> ReserveRows]
  BY DEF Inv, TypeOK, ReserveTypeOK
<1> \A row \in StockRows : DOMAIN row = {"tx", "state", "by"}
  BY DEF StockRows
<1> \A row \in ReserveRows : DOMAIN row = {"state", "epoch", "candidates"}
  BY DEF ReserveRows
<1> DrawInv
  BY DEF Inv
<1>1. CASE stock' = stock
  BY <1>1 DEF DrawInv
<1>2. ASSUME NEW x \in AvailableStock, StockOf(b) = {},
             stock' = [stock EXCEPT ![x] = [stock[x] EXCEPT !.state = "reserved", !.by = b]]
      PROVE  DrawInv'
  <2>1. x \in StockIds /\ stock'[x].by = b /\ stock'[x].state = "reserved"
    BY <1>2 DEF AvailableStock
  <2>2. \A s \in StockIds \ {x} : stock'[s] = stock[s] /\ stock'[s].by # b
    BY <1>2 DEF StockOf
  <2>3. ASSUME NEW s \in StockIds, stock'[s].by # None
        PROVE  /\ stock'[s].state \in {"reserved", "signature_released"}
               /\ batch'[stock'[s].by].state \notin {"none", "collecting", "cancelled"}
               /\ stock'[s].state = "signature_released" => batch'[stock'[s].by].state \in SignedStates
    BY <2>1, <2>2, <2>3 DEF DrawInv
  <2>4. ASSUME NEW s \in StockIds,
  NEW t \in StockIds, stock'[s].by # None, stock'[s].by = stock'[t].by
        PROVE  s = t
    BY <2>1, <2>2, <2>4 DEF DrawInv
  <2> QED
    BY <2>3, <2>4 DEF DrawInv
<1> QED
  BY <1>1, <1>2 DEF ReserveStock

\* The signature of a batch spends its stock.
LEMMA DrawsSpent ==
    ASSUME Inv, [Next]_vars, NEW b \in Batches, NEW cut \in Cuts, SignAndBroadcastSendBatch(b, cut)
    PROVE  DrawInv'
<1> stock \in [StockIds -> StockRows] /\ reserve \in [Reserves -> ReserveRows]
  BY DEF Inv, TypeOK, ReserveTypeOK
<1> \A row \in StockRows : DOMAIN row = {"tx", "state", "by"}
  BY DEF StockRows
<1> \A row \in ReserveRows : DOMAIN row = {"state", "epoch", "candidates"}
  BY DEF ReserveRows
<1> DrawInv
  BY DEF Inv
<1>1. stock' = SignedStocks(b) /\ \A c \in Batches \ {b} : batch'[c] = batch[c]
  BY DEF SignAndBroadcastSendBatch, Inv, TypeOK
<1>2. batch'[b].state \in SignedStates /\ batch'[b].state \notin {"none", "collecting", "cancelled"}
  BY BroadcastStates DEF SignAndBroadcastSendBatch, Inv, TypeOK, BatchRows, SignedStates
<1>3. <<b, 0>> \in StockIds /\ <<b, 0>> \notin StockOf(b)
  <2>1. <<b, 0>> \in Batches \X Epochs
    BY NextEpoch DEF Inv
  <2> QED
    BY <2>1, StockKinds, ReserveAssumption DEF StockOf, StockIds
<1>4. ASSUME NEW s \in StockIds
      PROVE  /\ stock[s].by = b => stock'[s].by = b /\ stock'[s].state = "signature_released"
             /\ stock[s].by # b => stock'[s].by = None \/ stock'[s] = stock[s]
  <2>1. CASE stock[s].by = b
    <3>1. s \in StockOf(b) /\ s # <<b, 0>>
      BY <1>3, <2>1 DEF StockOf
    <3>2. stock'[s] = [stock[s] EXCEPT !.state = "signature_released"]
      BY <1>1, <3>1 DEF SignedStocks
    <3> QED
      BY <2>1, <3>2
  <2>2. CASE stock[s].by # b
    BY <1>1, <2>2 DEF SignedStocks, StockOf, PendingStock
  <2> QED
    BY <2>1, <2>2
<1>5. \A s \in StockIds : stock[s].by # None => stock[s].by \in Batches
  BY DEF StockRows
<1>6. ASSUME NEW s \in StockIds, stock'[s].by # None
      PROVE  /\ stock'[s].state \in {"reserved", "signature_released"}
             /\ batch'[stock'[s].by].state \notin {"none", "collecting", "cancelled"}
             /\ stock'[s].state = "signature_released" => batch'[stock'[s].by].state \in SignedStates
  BY <1>1, <1>2, <1>4, <1>5, <1>6 DEF DrawInv
<1>7. ASSUME NEW s \in StockIds,
    NEW t \in StockIds, stock'[s].by # None, stock'[s].by = stock'[t].by
      PROVE  s = t
  BY <1>4, <1>7, ReserveAssumption DEF DrawInv
<1> QED
  BY <1>6, <1>7 DEF DrawInv

\* A cancelled batch has freed its stock.
LEMMA DrawsFreed ==
    ASSUME Inv, [Next]_vars, NEW b \in Batches, NEW F, Cancels(b, F), BatchCancellable(b)
    PROVE  DrawInv'
<1> stock \in [StockIds -> StockRows] /\ reserve \in [Reserves -> ReserveRows]
  BY DEF Inv, TypeOK, ReserveTypeOK
<1> \A row \in StockRows : DOMAIN row = {"tx", "state", "by"}
  BY DEF StockRows
<1> \A row \in ReserveRows : DOMAIN row = {"state", "epoch", "candidates"}
  BY DEF ReserveRows
<1> SUFFICES ASSUME NEW s \in StockIds, stock'[s].by # None
             PROVE  /\ stock'[s].by = stock[s].by /\ stock'[s].state = stock[s].state
                    /\ batch'[stock[s].by].state # "cancelled"
  BY DrawsKept
<1>1. stock[s].by # None => /\ stock[s].by \in Batches
                            /\ batch[stock[s].by].state # "cancelled"
                            /\ stock[s].state = "reserved" \/ batch[stock[s].by].state \in SignedStates
  BY DEF StockRows, Inv, DrawInv
<1>2. batch \in [Batches -> BatchRows]
  BY DEF Inv, TypeOK
<1>3. CASE stock' = stock /\ batch' = batch
  BY <1>1, <1>3
<1>4. CASE stock' = FreedStock(b)
  <2>1. stock'[s] = stock[s] /\ ~(stock[s].by = b /\ stock[s].state = "reserved")
    BY <1>4 DEF FreedStock
  <2>2. stock[s].by # b
    BY <1>1, <2>1 DEF BatchCancellable
  <2>3. batch'[stock[s].by] = batch[stock[s].by]
    BY <1>1, <1>2, <2>1, <2>2 DEF Cancels
  <2> QED
    BY <1>1, <2>1, <2>3
<1> QED
  BY <1>3, <1>4 DEF Cancels

\* A step that cancels no batch and gives none a row.
CancelsNone == \A c \in Batches : batch[c].state # "cancelled" => batch'[c].state # "cancelled"
DrawsNone == \A s \in StockIds : stock'[s].by # None =>
                stock'[s].by = stock[s].by /\ stock'[s].state = stock[s].state

\* Such a step keeps every row with its batch.
LEMMA DrawsStay ==
    ASSUME Inv, [Next]_vars, CancelsNone, DrawsNone
    PROVE  DrawInv'
<1> SUFFICES ASSUME NEW s \in StockIds, stock'[s].by # None
             PROVE  /\ stock'[s].by = stock[s].by /\ stock'[s].state = stock[s].state
                    /\ batch'[stock[s].by].state # "cancelled"
  BY DrawsKept
<1>1. stock'[s].by = stock[s].by /\ stock'[s].state = stock[s].state
  BY DEF DrawsNone
<1>2. stock[s].by \in Batches /\ batch[stock[s].by].state # "cancelled"
  BY <1>1 DEF Inv, DrawInv, TypeOK, ReserveTypeOK, StockRows
<1> QED
  BY <1>1, <1>2 DEF CancelsNone

\* The calls for reserves touch rows that no batch has drawn.
LEMMA ReserveDraws ==
    ASSUME Inv, NEW cut \in Cuts, ReserveNext(cut)
    PROVE  DrawsNone
<1> stock \in [StockIds -> StockRows] /\ reserve \in [Reserves -> ReserveRows]
  BY DEF Inv, TypeOK, ReserveTypeOK
<1> \A row \in StockRows : DOMAIN row = {"tx", "state", "by"}
  BY DEF StockRows
<1> \A row \in ReserveRows : DOMAIN row = {"state", "epoch", "candidates"}
  BY DEF ReserveRows
<1>0. \A s \in StockIds : stock[s].by # None => stock[s].state \notin {"absent", "pending"}
  BY DEF Inv, DrawInv
<1>m. ASSUME NEW old, NEW new, Retarget(old, new) PROVE DrawsNone
  BY <1>0, <1>m DEF Retarget, DrawsNone
<1>1. ASSUME NEW r \in Reserves, PrepareBatchReserves(r, cut) PROVE DrawsNone
  BY <1>1 DEF PrepareBatchReserves, SplitStocks, DrawsNone
<1>2. ASSUME NEW r \in Reserves, FeeBumpBatchReserves(r, cut) PROVE DrawsNone
  BY <1>2, <1>m DEF FeeBumpBatchReserves
<1>3. ASSUME NEW r \in Reserves,
             ResumeBatchReserves(r, cut) \/ ObserveBatchReserve(r)
      PROVE  DrawsNone
  BY <1>3 DEF ResumeBatchReserves, ObserveBatchReserve, DrawsNone
<1>4. ASSUME NEW r \in Reserves, ReconcileBatchReserve(r) PROVE DrawsNone
  BY <1>4, <1>m DEF ReconcileBatchReserve
<1>5. ASSUME NEW r \in Reserves, RefreshBatchReserves(r) PROVE DrawsNone
  <2>1. PICK e : stock' = [x \in StockIds |->
                IF stock[x].tx = <<r, reserve[r].epoch>> /\ stock[x].state = "pending"
                THEN [stock[x] EXCEPT !.tx = <<r, e>>, !.state = "available"] ELSE stock[x]]
    BY <1>5 DEF RefreshBatchReserves
  <2> QED
    BY <1>0, <2>1 DEF DrawsNone
<1> QED
  BY <1>1, <1>2, <1>3, <1>4, <1>5 DEF ReserveNext

\* A batch has one stock at most, from its proof on.
LEMMA DrawStep == Inv /\ [Next]_vars => DrawInv'
<1> SUFFICES ASSUME Inv, [Next]_vars PROVE DrawInv'
  OBVIOUS
<1> USE DEF reserveVars, durable, memory, host
<1> TypeOK /\ DrawInv /\ batch \in [Batches -> BatchRows] /\ stock \in [StockIds -> StockRows]
  BY DEF Inv, TypeOK, ReserveTypeOK
<1> \A row \in BatchRows : DOMAIN row = {"state", "epoch", "acked", "prepared", "replaces"}
  BY DEF BatchRows
<1> \A row \in StockRows : DOMAIN row = {"tx", "state", "by"}
  BY DEF StockRows
<1>1. ASSUME NEW cut \in Cuts, ReserveNext(cut),
             UNCHANGED <<durable, signed, clock, exported, backed>>, AfterCut(cut, {})
      PROVE  DrawInv'
  <2>1. CancelsNone
    BY <1>1 DEF CancelsNone
  <2>2. DrawsNone
    BY <1>1, ReserveDraws
  <2> QED
    BY <2>1, <2>2, DrawsStay
<1>2. ASSUME NEW b \in Batches, NEW o \in Operations, TransferBatchPlan(b, o) PROVE DrawInv'
  <2>1. CancelsNone
    BY <1>2 DEF TransferBatchPlan, CancelsNone
  <2>2. DrawsNone
    BY <1>2 DEF TransferBatchPlan, DrawsNone
  <2> QED
    BY <2>1, <2>2, DrawsStay
<1>3. ASSUME NEW b \in Batches, FreezeSendBatch(b) PROVE DrawInv'
  <2>1. CancelsNone
    BY <1>3 DEF FreezeSendBatch, CancelsNone
  <2>2. DrawsNone
    BY <1>3 DEF FreezeSendBatch, DrawsNone
  <2> QED
    BY <2>1, <2>2, DrawsStay
<1>4. ASSUME NEW b \in Batches, CancelSendBatch(b) PROVE DrawInv'
  <2>1. PICK F : Cancels(b, F) /\ BatchCancellable(b)
    BY <1>4, CancelCalled
  <2> QED
    BY <2>1, DrawsFreed
<1>5. ASSUME NEW b \in Batches, NEW t \in Threads, BeginSendBatchProof(b, t) PROVE DrawInv'
  BY <1>5, DrawsReserved DEF BeginSendBatchProof, MayBegin
<1>6. ASSUME NEW b \in Batches, NEW t \in Threads, BeginStops(b, t) PROVE DrawInv'
  BY <1>6, DrawsReserved DEF BeginStops, MayBegin
<1>7. ASSUME NEW b \in Batches, AcknowledgeSendBatchBackup(b) PROVE DrawInv'
  <2>1. CancelsNone
    BY <1>7 DEF AcknowledgeSendBatchBackup, CancelsNone
  <2>2. DrawsNone
    BY <1>7 DEF AcknowledgeSendBatchBackup, DrawsNone
  <2> QED
    BY <2>1, <2>2, DrawsStay
<1>8. ASSUME NEW b \in Batches, NEW cut \in Cuts, SignAndBroadcastSendBatch(b, cut) PROVE DrawInv'
  BY <1>8, DrawsSpent
<1>9. ASSUME NEW b \in Batches, NEW cut \in Cuts, FeeBumpSendBatch(b, cut) PROVE DrawInv'
  <2>1. CancelsNone
    BY <1>9 DEF FeeBumpSendBatch, BroadcastState, CancelsNone
  <2>2. DrawsNone
    <3>1. stock' = BumpedStocks(b, bumps + 1)
      BY <1>9 DEF FeeBumpSendBatch
    <3>2. \A s \in StockIds : stock[s].by # None => stock[s].state # "pending"
      BY DEF DrawInv
    <3> QED
      BY <3>1, <3>2 DEF BumpedStocks, PendingStock, DrawsNone
  <2> QED
    BY <2>1, <2>2, DrawsStay
<1>10. ASSUME NEW b \in Batches, NEW cut \in Cuts, ResumeSendBatch(b, cut) PROVE DrawInv'
  <2>1. CancelsNone
    <3>1. batch' = batch \/ batch' = [batch EXCEPT ![b].state = "broadcast_unobserved"]
      BY <1>10 DEF ResumeSendBatch
    <3> QED
      BY <3>1 DEF CancelsNone
  <2>2. DrawsNone
    BY <1>10 DEF ResumeSendBatch, DrawsNone
  <2> QED
    BY <2>1, <2>2, DrawsStay
<1>11. ASSUME NEW b \in Batches, ObserveSendBatch(b) PROVE DrawInv'
  <2>1. CancelsNone
    BY <1>11 DEF ObserveSendBatch, CancelsNone
  <2>2. DrawsNone
    BY <1>11 DEF ObserveSendBatch, DrawsNone
  <2> QED
    BY <2>1, <2>2, DrawsStay
<1>12. ASSUME NEW b \in Batches, ReconcileSendBatch(b) PROVE DrawInv'
  <2>1. CancelsNone
    BY <1>12 DEF ReconcileSendBatch, RestoredBatch, CancelsNone
  <2>2. DrawsNone
    <3>1. stock' = RestoredStocks(b)
      BY <1>12 DEF ReconcileSendBatch
    <3>2. \A s \in StockIds : stock[s].by # None => stock[s].state \notin {"pending", "invalidated"}
      BY DEF DrawInv
    <3> QED
      BY <3>1, <3>2 DEF RestoredStocks, DrawsNone
  <2> QED
    BY <2>1, <2>2, DrawsStay
<1>13. ASSUME NEW b \in Batches, RefreshSendBatchSpv(b) PROVE DrawInv'
  <2>1. CancelsNone
    BY <1>13 DEF RefreshSendBatchSpv, CancelsNone
  <2>2. DrawsNone
    <3>1. \A s \in StockIds : stock[s].by # None => stock[s].state # "pending"
      BY DEF DrawInv
    <3> QED
      BY <1>13, <3>1 DEF RefreshSendBatchSpv, DrawsNone
  <2> QED
    BY <2>1, <2>2, DrawsStay
<1>14. ASSUME NEW t \in Threads, FinishSendBatchProof(t) PROVE DrawInv'
  <2>1. CancelsNone
    <3>1. CASE UNCHANGED batch
      BY <3>1 DEF CancelsNone
    <3>2. CASE batch' = [batch EXCEPT ![job[t].batch] = [batch[job[t].batch] EXCEPT
                        !.state = "proof_ready", !.acked = FALSE,
                          !.prepared = Checkpoint \cup {job[t].batch}]]
      BY <3>2 DEF CancelsNone
    <3> QED
      BY <1>14, <3>1, <3>2 DEF FinishSendBatchProof
  <2>2. DrawsNone
    BY <1>14 DEF FinishSendBatchProof, DrawsNone
  <2> QED
    BY <2>1, <2>2, DrawsStay
<1>15. ASSUME NEW t \in Threads, FailSendBatchProof(t) PROVE DrawInv'
  <2>1. CASE UNCHANGED <<stock, batch>>
    BY <2>1 DEF DrawInv
  <2>2. ASSUME job[t].batch \in Batches,
  NEW F, Cancels(job[t].batch, F), BatchCancellable(job[t].batch)
        PROVE  DrawInv'
    BY <2>2, DrawsFreed
  <2> QED
    BY <1>15, <2>1, <2>2, CancelFailed
<1>16. ASSUME NEW b \in Batches, NEW o \in Operations,
             AddRecipient(b, o)
      PROVE  DrawInv'
  BY <1>16 DEF AddRecipient, DrawInv
<1>17. ASSUME NEW b \in Batches,
             Late(b)
      PROVE  DrawInv'
  BY <1>17 DEF Late, DrawInv
<1>18. ASSUME NEW o \in Operations,
             CancelOperation(o) \/ ProveOperation(o) \/ AcknowledgeBackup(o) \/ SignAndBroadcast(o)
      PROVE  DrawInv'
  BY <1>18 DEF CancelOperation, ProveOperation, AcknowledgeBackup, SignAndBroadcast, DrawInv
<1>19. CASE FinishProof \/ Export \/ Mine \/ Stop
  BY <1>19 DEF FinishProof, Export, Mine, Stop, DrawInv
<1>20. CASE UNCHANGED vars
  BY <1>20 DEF vars, DrawInv
<1> QED
  BY <1>1, <1>2, <1>3, <1>4, <1>5, <1>6, <1>7, <1>8, <1>9, <1>10, <1>11, <1>12, <1>13, <1>14,
     <1>15, <1>16, <1>17, <1>18, <1>19, <1>20
  DEF Next, Reserve, SendBatchStep, OperationStep

\* The stock that a signed batch has spent stays with it.
SpentMoves(s) ==
    stock[s].by # None /\ batch[stock[s].by].state \in SignedStates => stock'[s].by = stock[s].by

\* The reservation of a stock leaves it too.
LEMMA DrawnMoves ==
    ASSUME Inv, NEW b \in Batches, ReserveStock(b), NEW s \in StockIds
    PROVE  SpentMoves(s)
<1> stock \in [StockIds -> StockRows] /\ reserve \in [Reserves -> ReserveRows]
  BY DEF Inv, TypeOK, ReserveTypeOK
<1> \A row \in StockRows : DOMAIN row = {"tx", "state", "by"}
  BY DEF StockRows
<1> \A row \in ReserveRows : DOMAIN row = {"state", "epoch", "candidates"}
  BY DEF ReserveRows
<1>1. \A x \in AvailableStock : stock[x].by = None
  BY DEF AvailableStock, Inv, DrawInv
<1> QED
  BY <1>1 DEF ReserveStock, SpentMoves

\* No call takes it away.
LEMMA SpentStep == Inv /\ [Next]_vars => (\A s \in StockIds : SpentMoves(s))
<1> SUFFICES ASSUME Inv, [Next]_vars PROVE (\A s \in StockIds : SpentMoves(s))
  OBVIOUS
<1> USE DEF SpentMoves, reserveVars, durable, memory, host
<1> TypeOK /\ DrawInv /\ stock \in [StockIds -> StockRows]
  BY DEF Inv, TypeOK, ReserveTypeOK
<1> \A row \in StockRows : DOMAIN row = {"tx", "state", "by"}
  BY DEF StockRows
<1>1. ASSUME NEW cut \in Cuts, ReserveNext(cut),
             UNCHANGED <<durable, signed, clock, exported, backed>>, AfterCut(cut, {})
      PROVE  (\A s \in StockIds : SpentMoves(s))
  <2>0. \A s \in StockIds : stock[s].by # None => stock[s].state # "absent" /\ s \in Reserves \X Vouts
    BY StockKinds DEF DrawInv
  <2>m. ASSUME NEW old, NEW new, Retarget(old, new) PROVE \A s \in StockIds : SpentMoves(s)
    BY <2>m DEF Retarget
  <2>1. ASSUME NEW r \in Reserves, PrepareBatchReserves(r, cut)
        PROVE \A s \in StockIds : SpentMoves(s)
    <3>1. \A s \in StockIds : s \in {r} \X Vouts => stock[s].by = None
      BY <2>0, <2>1 DEF PrepareBatchReserves, MayPrepare, Inv, StockInv, StockOK, SplitOK
    <3> QED
      BY <2>1, <3>1 DEF PrepareBatchReserves, SplitStocks
  <2>2. ASSUME NEW r \in Reserves, FeeBumpBatchReserves(r, cut)
        PROVE \A s \in StockIds : SpentMoves(s)
    BY <2>2, <2>m DEF FeeBumpBatchReserves
  <2>3. ASSUME NEW r \in Reserves, ResumeBatchReserves(r, cut) \/ ObserveBatchReserve(r)
        PROVE  \A s \in StockIds : SpentMoves(s)
    BY <2>3 DEF ResumeBatchReserves, ObserveBatchReserve
  <2>4. ASSUME NEW r \in Reserves, ReconcileBatchReserve(r) PROVE \A s \in StockIds : SpentMoves(s)
    BY <2>4, <2>m DEF ReconcileBatchReserve
  <2>5. ASSUME NEW r \in Reserves, RefreshBatchReserves(r) PROVE \A s \in StockIds : SpentMoves(s)
    <3>1. PICK e : stock' = [x \in StockIds |->
                  IF stock[x].tx = <<r, reserve[r].epoch>> /\ stock[x].state = "pending"
                  THEN [stock[x] EXCEPT !.tx = <<r, e>>, !.state = "available"] ELSE stock[x]]
      BY <2>5 DEF RefreshBatchReserves
    <3> QED
      BY <3>1
  <2> QED
    BY <1>1, <2>1, <2>2, <2>3, <2>4, <2>5 DEF ReserveNext
<1>2. ASSUME NEW b \in Batches, CancelSendBatch(b) PROVE (\A s \in StockIds : SpentMoves(s))
  <2>1. stock' = stock \/ stock' = FreedStock(b)
    BY <1>2, CancelCalled DEF Cancels
  <2>2. batch[b].state \notin SignedStates
    BY <1>2, CancelCalled DEF BatchCancellable
  <2> QED
    BY <2>1, <2>2 DEF FreedStock
<1>3. ASSUME NEW b \in Batches, NEW t \in Threads, BeginSendBatchProof(b, t)
      PROVE (\A s \in StockIds : SpentMoves(s))
  BY <1>3, DrawnMoves DEF BeginSendBatchProof
<1>4. ASSUME NEW b \in Batches, NEW t \in Threads, BeginStops(b, t)
      PROVE (\A s \in StockIds : SpentMoves(s))
  BY <1>4, DrawnMoves DEF BeginStops
<1>5. ASSUME NEW b \in Batches, NEW cut \in Cuts, SignAndBroadcastSendBatch(b, cut)
      PROVE (\A s \in StockIds : SpentMoves(s))
  <2>1. \A s \in StockIds : stock[s].by # None => s \notin Batches \X Epochs
    BY StockKinds, ReserveAssumption
  <2>2. <<b, 0>> \in Batches \X Epochs
    BY NextEpoch
  <2> QED
    BY <1>5, <2>1, <2>2 DEF SignAndBroadcastSendBatch, SignedStocks
<1>6. ASSUME NEW b \in Batches, NEW cut \in Cuts, FeeBumpSendBatch(b, cut)
      PROVE (\A s \in StockIds : SpentMoves(s))
  <2>1. \A s \in StockIds : stock[s].by # None => s \notin Batches \X Epochs
    BY StockKinds, ReserveAssumption
  <2>2. <<b, bumps + 1>> \in Batches \X Epochs
    BY <1>6, NextEpoch DEF FeeBumpSendBatch
  <2>3. stock' = BumpedStocks(b, bumps + 1)
    BY <1>6 DEF FeeBumpSendBatch
  <2> QED
    BY <2>1, <2>2, <2>3 DEF BumpedStocks
<1>7. ASSUME NEW b \in Batches, ReconcileSendBatch(b) PROVE (\A s \in StockIds : SpentMoves(s))
  BY <1>7 DEF ReconcileSendBatch, RestoredStocks
<1>8. ASSUME NEW b \in Batches, RefreshSendBatchSpv(b) PROVE (\A s \in StockIds : SpentMoves(s))
  BY <1>8 DEF RefreshSendBatchSpv
<1>9. ASSUME NEW t \in Threads, FailSendBatchProof(t) PROVE (\A s \in StockIds : SpentMoves(s))
  <2>1. CASE stock' = stock
    BY <2>1
  <2>2. ASSUME NEW F, Cancels(job[t].batch, F), BatchCancellable(job[t].batch)
        PROVE  \A s \in StockIds : SpentMoves(s)
    BY <2>2 DEF Cancels, BatchCancellable, FreedStock
  <2> QED
    BY <1>9, <2>1, <2>2, CancelFailed
<1>10. ASSUME NEW b \in Batches, NEW o \in Operations,
             AddRecipient(b, o) \/ TransferBatchPlan(b, o)
      PROVE  (\A s \in StockIds : SpentMoves(s))
  BY <1>10 DEF AddRecipient, TransferBatchPlan
<1>11. ASSUME NEW b \in Batches,
             FreezeSendBatch(b) \/ Late(b) \/ AcknowledgeSendBatchBackup(b) \/ ObserveSendBatch(b)
      PROVE  (\A s \in StockIds : SpentMoves(s))
  BY <1>11 DEF FreezeSendBatch, Late, AcknowledgeSendBatchBackup, ObserveSendBatch
<1>12. ASSUME NEW b \in Batches, NEW cut \in Cuts,
             ResumeSendBatch(b, cut)
      PROVE  (\A s \in StockIds : SpentMoves(s))
  BY <1>12 DEF ResumeSendBatch
<1>13. ASSUME NEW t \in Threads,
             FinishSendBatchProof(t)
      PROVE  (\A s \in StockIds : SpentMoves(s))
  BY <1>13 DEF FinishSendBatchProof
<1>14. ASSUME NEW o \in Operations,
             CancelOperation(o) \/ ProveOperation(o) \/ AcknowledgeBackup(o) \/ SignAndBroadcast(o)
      PROVE  (\A s \in StockIds : SpentMoves(s))
  BY <1>14 DEF CancelOperation, ProveOperation, AcknowledgeBackup, SignAndBroadcast
<1>15. CASE FinishProof \/ Export \/ Mine \/ Stop
  BY <1>15 DEF FinishProof, Export, Mine, Stop
<1>16. CASE UNCHANGED vars
  BY <1>16 DEF vars
<1> QED
  BY <1>1, <1>2, <1>3, <1>4, <1>5, <1>6, <1>7, <1>8, <1>9, <1>10, <1>11, <1>12, <1>13, <1>14,
     <1>15, <1>16
  DEF Next, Reserve, SendBatchStep, OperationStep

\* Three calls sign.
SigningCall ==
    \/ \E c \in Batches, x \in Cuts : SignAndBroadcastSendBatch(c, x) \/ FeeBumpSendBatch(c, x)
    \/ \E p \in Operations : SignAndBroadcast(p)

\* No other call does.
LEMMA SignaturesMove == Inv /\ [Next]_vars => (UNCHANGED signed \/ SigningCall)
<1> SUFFICES ASSUME Inv, [Next]_vars PROVE (UNCHANGED signed \/ SigningCall)
  OBVIOUS
<1> USE DEF reserveVars, durable, memory, host
<1> TypeOK
  BY DEF Inv
<1>1. ASSUME NEW b \in Batches, CancelSendBatch(b) PROVE (UNCHANGED signed \/ SigningCall)
  BY <1>1, CancelCalled DEF Cancels
<1>2. ASSUME NEW b \in Batches, NEW cut \in Cuts, SignAndBroadcastSendBatch(b, cut)
      PROVE (UNCHANGED signed \/ SigningCall)
  BY <1>2 DEF SigningCall
<1>3. ASSUME NEW b \in Batches, NEW cut \in Cuts, FeeBumpSendBatch(b, cut)
      PROVE (UNCHANGED signed \/ SigningCall)
  BY <1>3 DEF SigningCall
<1>4. ASSUME NEW t \in Threads, FailSendBatchProof(t) PROVE (UNCHANGED signed \/ SigningCall)
  BY <1>4, CancelFailed DEF Cancels
<1>5. ASSUME NEW o \in Operations, SignAndBroadcast(o) PROVE (UNCHANGED signed \/ SigningCall)
  BY <1>5 DEF SigningCall
<1>6. ASSUME NEW cut \in Cuts, ReserveNext(cut),
             UNCHANGED <<durable, signed, clock, exported, backed>>, AfterCut(cut, {})
      PROVE  (UNCHANGED signed \/ SigningCall)
  BY <1>6
<1>7. ASSUME NEW b \in Batches, NEW o \in Operations,
             AddRecipient(b, o) \/ TransferBatchPlan(b, o)
      PROVE  (UNCHANGED signed \/ SigningCall)
  BY <1>7 DEF AddRecipient, TransferBatchPlan
<1>8. ASSUME NEW b \in Batches,
             FreezeSendBatch(b) \/ Late(b) \/ AcknowledgeSendBatchBackup(b) \/
             ObserveSendBatch(b) \/ ReconcileSendBatch(b) \/ RefreshSendBatchSpv(b)
      PROVE  (UNCHANGED signed \/ SigningCall)
  BY <1>8 DEF FreezeSendBatch, Late, AcknowledgeSendBatchBackup, ObserveSendBatch,
     ReconcileSendBatch, RefreshSendBatchSpv
<1>9. ASSUME NEW b \in Batches, NEW t \in Threads,
             BeginSendBatchProof(b, t) \/ BeginStops(b, t)
      PROVE  (UNCHANGED signed \/ SigningCall)
  BY <1>9 DEF BeginSendBatchProof, BeginStops
<1>10. ASSUME NEW b \in Batches, NEW cut \in Cuts,
             ResumeSendBatch(b, cut)
      PROVE  (UNCHANGED signed \/ SigningCall)
  BY <1>10 DEF ResumeSendBatch
<1>11. ASSUME NEW t \in Threads,
             FinishSendBatchProof(t)
      PROVE  (UNCHANGED signed \/ SigningCall)
  BY <1>11 DEF FinishSendBatchProof
<1>12. ASSUME NEW o \in Operations,
             CancelOperation(o) \/ ProveOperation(o) \/ AcknowledgeBackup(o)
      PROVE  (UNCHANGED signed \/ SigningCall)
  BY <1>12 DEF CancelOperation, ProveOperation, AcknowledgeBackup
<1>13. CASE FinishProof \/ Export \/ Mine \/ Stop
  BY <1>13 DEF FinishProof, Export, Mine, Stop
<1>14. CASE UNCHANGED vars
  BY <1>14 DEF vars
<1> QED
  BY <1>1, <1>2, <1>3, <1>4, <1>5, <1>6, <1>7, <1>8, <1>9, <1>10, <1>11, <1>12, <1>13, <1>14
  DEF Next, Reserve, SendBatchStep, OperationStep

\* A batch that signs, signs for its members with its stock.
LEMMA BatchSigns ==
    ASSUME Inv, [Next]_vars,
    NEW b \in Batches, batch'[b].state \in SignedStates, members' = members,
           \A o \in MemberSet(b) : op'[o].coin = op[o].coin,
           \A s \in StockOf(b) : stock'[s].by = b,
           NEW e, NEW a, a = Signature(<<b, e>>, MemberSet(b), StockOf(b))
    PROVE  SignedOK(a)'
<1>1. /\ a.tx[1] = b /\ a.ops = MemberSet(b) /\ a.stocks = StockOf(b)
      /\ a.coins = {op[o].coin : o \in MemberSet(b)}
  BY DEF Signature
<1>2. \A o \in MemberSet(b) : op'[o].state \in SignedStates /\ op'[o].tx[1] = b
  <2>1. ShareInv'
    BY ShareStep
  <2> QED
    BY <2>1 DEF ShareInv, BatchTx, MemberSet
<1>3. {op[o].coin : o \in MemberSet(b)} = {op'[o].coin : o \in MemberSet(b)}
  OBVIOUS
<1>4. \A s \in a.stocks : stock'[s].by = a.tx[1]
  BY <1>1
<1> QED
  BY <1>1, <1>2, <1>3, <1>4 DEF SignedOK

\* A signature stays with its operations, coins and stock.
LEMMA SignedStays ==
    ASSUME Inv, [Next]_vars, NEW a \in signed
    PROVE  SignedOK(a)'
<1>1. SignedOK(a) /\ a.ops \subseteq Operations /\ a.stocks \subseteq StockIds
  BY DEF Inv, SignedInv, TypeOK, Signatures
<1>2. \A o \in a.ops : /\ op'[o].state \in SignedStates /\ op'[o].tx[1] = op[o].tx[1]
                       /\ op'[o].coin = op[o].coin
  BY <1>1, OperationStepMoves DEF OperationMoves, SignedOK
<1>3. {op[o].coin : o \in a.ops} = {op'[o].coin : o \in a.ops}
  BY <1>2
<1>4. ASSUME NEW s \in a.stocks
      PROVE  a.tx[1] \in Batches /\ stock'[s].by = a.tx[1] /\ batch'[a.tx[1]].state \in SignedStates
  <2>1. s \in StockIds /\ a.tx[1] \in Batches /\ stock[s].by = a.tx[1] /\ batch[a.tx[1]].state \in SignedStates
    BY <1>1 DEF SignedOK
  <2>2. stock[s].by # None
    BY <2>1, ReserveAssumption
  <2> QED
    BY <2>1, <2>2, SpentStep, BatchStepMoves DEF SpentMoves, BatchMoves
<1> QED
  BY <1>1, <1>2, <1>3, <1>4 DEF SignedOK

\* Signatures are recorded with what they spend.
LEMMA SignedStep == Inv /\ [Next]_vars => SignedInv'
<1> SUFFICES ASSUME Inv, [Next]_vars, NEW a \in signed' PROVE SignedOK(a)'
  BY DEF SignedInv
<1> TypeOK
  BY DEF Inv
<1> batch \in [Batches -> BatchRows] /\ op \in [Operations -> OperationRows]
  BY DEF Inv, TypeOK
<1> \A row \in BatchRows : DOMAIN row = {"state", "epoch", "acked", "prepared", "replaces"}
  BY DEF BatchRows
<1> \A row \in OperationRows :
    DOMAIN row = {"state", "coin", "acked", "fee", "tx", "ready", "prior"}
  BY DEF OperationRows
<1> stock \in [StockIds -> StockRows] /\ reserve \in [Reserves -> ReserveRows]
  BY DEF Inv, TypeOK, ReserveTypeOK
<1> \A row \in StockRows : DOMAIN row = {"tx", "state", "by"}
  BY DEF StockRows
<1> \A row \in ReserveRows : DOMAIN row = {"state", "epoch", "candidates"}
  BY DEF ReserveRows
<1>1. CASE a \in signed
  BY <1>1, SignedStays
<1>2. ASSUME a \notin signed, NEW b \in Batches, NEW x \in Cuts, SignAndBroadcastSendBatch(b, x)
      PROVE  SignedOK(a)'
  <2>1. a = Signature(<<b, 0>>, MemberSet(b), StockOf(b)) /\ members' = members
    BY <1>2 DEF SignAndBroadcastSendBatch
  <2>2. batch'[b].state \in SignedStates
    BY <1>2, BroadcastStates DEF SignAndBroadcastSendBatch
  <2>3. \A o \in MemberSet(b) : op'[o].coin = op[o].coin
    BY <1>2, Prefixes DEF SignAndBroadcastSendBatch, SignedMembers
  <2>4. \A s \in StockOf(b) : stock'[s].by = b
    <3>1. <<b, 0>> \in Batches \X Epochs
      BY NextEpoch
    <3>2. \A s \in StockOf(b) : s \in StockIds /\ stock[s].by = b /\ s # <<b, 0>>
      BY <3>1, StockKinds, ReserveAssumption DEF StockOf
    <3>3. stock' = SignedStocks(b)
      BY <1>2 DEF SignAndBroadcastSendBatch
    <3> QED
      BY <3>2, <3>3 DEF SignedStocks
  <2> QED
    BY <2>1, <2>2, <2>3, <2>4, BatchSigns
<1>3. ASSUME a \notin signed, NEW b \in Batches, NEW x \in Cuts, FeeBumpSendBatch(b, x)
      PROVE  SignedOK(a)'
  <2>1. a = Signature(<<b, bumps + 1>>, MemberSet(b), StockOf(b)) /\ members' = members
    BY <1>3 DEF FeeBumpSendBatch
  <2>2. batch[b].state \in SignedStates /\ batch'[b].state \in SignedStates
    BY <1>3, BroadcastStates DEF FeeBumpSendBatch, BumpableBatch, SignedStates
  <2>3. \A o \in MemberSet(b) : op'[o].coin = op[o].coin
    <3>1. op' = BumpedMembers(b, bumps + 1, BroadcastState(x))
      BY <1>3 DEF FeeBumpSendBatch
    <3>2. MemberSet(b) \subseteq Operations
      BY Prefixes
    <3>3. ASSUME NEW o \in MemberSet(b) PROVE op'[o].coin = op[o].coin
      BY <3>1, <3>2 DEF BumpedMembers
    <3> QED
      BY <3>3
  <2>4. \A s \in StockOf(b) : stock'[s].by = b
    BY <2>2, SpentStep, ReserveAssumption DEF SpentMoves, StockOf
  <2> QED
    BY <2>1, <2>2, <2>3, <2>4, BatchSigns
<1>4. ASSUME a \notin signed, NEW p \in Operations, SignAndBroadcast(p)
      PROVE  SignedOK(a)'
  <2>1. a = Signature(<<p, 0>>, {p}, {})
    BY <1>4 DEF SignAndBroadcast
  <2>2. a.tx[1] = p /\ a.ops = {p} /\ a.stocks = {} /\ a.coins = {op[p].coin}
    BY <2>1 DEF Signature
  <2>3. op'[p].state \in SignedStates /\ op'[p].tx = <<p, 0>> /\ op'[p].coin = op[p].coin
    BY <1>4 DEF SignAndBroadcast, SignedStates
  <2> QED
    BY <2>2, <2>3 DEF SignedOK
<1> QED
  BY <1>1, <1>2, <1>3, <1>4, SignaturesMove DEF SigningCall

\* The invariant holds in every reachable state.
LEMMA Invariance == Spec => []Inv
<1>1. Inv /\ [Next]_vars => Inv'
  BY TypeStep, MemberStep, ShareStep, BackupStep, HoldStep, JobStep, StockStep, DrawStep, SignedStep
  DEF Inv
<1> QED
  BY InvInit, <1>1, PTL DEF Spec

-----------------------------------------------------------------------------
(* The theorems.                                                           *)

\* Every variable of the account's send batches keeps its type.
THEOREM SendBatchTypeCorrect == Spec => []TypeOK
<1>1. Inv => TypeOK
  BY DEF Inv
<1> QED
  BY <1>1, Invariance, PTL

\* The members of a signed batch name the transaction that the batch names and have their fee
\* signatures released, through partial observations, resumes, fee bumps and a replaced
\* transaction that is mined after all (sign_and_broadcast_send_batch, fee_bump_send_batch,
\* reconcile_confirmed_send_batch_replacement).
THEOREM BatchesAreSharedWhole == Spec => []MembersShareTransaction
<1>1. Inv => MembersShareTransaction
  BY DEF Inv, ShareInv, MembersShareTransaction
<1> QED
  BY <1>1, Invariance, PTL

\* A batch is signed only after a completed Secure Backup export held its proofs
\* (acknowledge_send_batch_backup).
THEOREM BatchesAreBackedUp == Spec => []SignedIsBackedUp
<1>1. Inv => SignedIsBackedUp
  BY DEF Inv, BackupInv, SignedIsBackedUp
<1> QED
  BY <1>1, Invariance, PTL

\* No coin, member or stock is in two transactions other than the versions of one batch, although
\* members can be proved, signed and cancelled on their own beside the batch
\* (finish_send_batch_proof checks the coins again under the mutex).
THEOREM SpendsAreExclusive == Spec => []SignedOnce
<1>1. ASSUME Inv PROVE SignedOnce
  <2> SUFFICES ASSUME NEW a \in signed, NEW c \in signed, a.tx[1] # c.tx[1]
               PROVE  /\ a.ops \cap c.ops = {} /\ a.coins \cap c.coins = {}
                      /\ a.stocks \cap c.stocks = {}
    BY DEF SignedOnce
  <2>1. SignedOK(a) /\ SignedOK(c) /\ a.ops \subseteq Operations /\ c.ops \subseteq Operations
    BY <1>1 DEF Inv, SignedInv, TypeOK, Signatures
  <2>2. a.ops \cap c.ops = {} /\ a.stocks \cap c.stocks = {}
    BY <2>1 DEF SignedOK
  <2>3. ASSUME NEW o \in a.ops, NEW p \in c.ops PROVE op[o].coin # op[p].coin
    <3>1. o # p /\ o \in Operations /\ p \in Operations
      BY <2>1, <2>2
    <3>2. op[o].state \in Holding /\ op[p].state \in Holding
      BY <2>1 DEF SignedOK, Holding
    <3> QED
      BY <1>1, <3>1, <3>2 DEF Inv, HoldInv
  <2>4. a.coins \cap c.coins = {}
    BY <2>1, <2>3 DEF SignedOK
  <2> QED
    BY <2>2, <2>4
<1> QED
  BY <1>1, Invariance, PTL

\* Stock that a batch can draw or has drawn is an output of a mined split, and restore_checkpoint
\* accepts its rows wherever a cancellation, a proof or a replacement stopped half way: one row at
\* most for a batch, and none for a cancelled one.
THEOREM StockStaysUsable == Spec => []StockUsable
<1>1. ASSUME Inv PROVE StockUsable
  <2> SUFFICES ASSUME NEW s \in BackupStocks
               PROVE  /\ stock[s].state \in {"available", "reserved"} => stock[s].tx \in mined
                      /\ StockAccepted(s)
    BY DEF StockUsable
  <2>1. s \in StockIds /\ StockOK(s)
    BY <1>1 DEF BackupStocks, Inv, StockInv
  <2>2. ASSUME stock[s].by # None
        PROVE  /\ stock[s].by \in BackupBatches
               /\ stock[s].state \in {"reserved", "signature_released"}
               /\ \A t \in BackupStocks : stock[t].by = stock[s].by => t = s
    <3>1. stock[s].by \in Batches
      BY <1>1, <2>1, <2>2 DEF Inv, TypeOK, ReserveTypeOK, StockRows
    <3> QED
      BY <1>1, <2>1, <2>2, <3>1 DEF Inv, DrawInv, BackupBatches, BackupStocks
  <2> QED
    BY <2>1, <2>2 DEF StockOK, StockAccepted
<1> QED
  BY <1>1, Invariance, PTL

\* A cancelled operation stays cancelled, and no transaction that is signed later has it as a member
\* (cancel_operation and cancel_send_batch against the calls that sign).
THEOREM CancellationsAreFinal == Spec => CancelledIsFinal
<1>1. ASSUME Inv, [Next]_vars
      PROVE  [\A o \in Operations : op[o].state = "cancelled" =>
                /\ op'[o].state = "cancelled"
                /\ \A a \in signed' \ signed : o \notin a.ops]_vars
  <2>1. \A o \in Operations : op[o].state = "cancelled" => op'[o].state = "cancelled"
    BY <1>1, OperationStepMoves DEF OperationMoves
  <2>2. \A a \in signed' : \A o \in a.ops : op'[o].state \in SignedStates
    BY <1>1, SignedStep DEF SignedInv, SignedOK
  <2> QED
    BY <2>1, <2>2 DEF SignedStates
<1> QED
  BY <1>1, Invariance, PTL DEF Spec, CancelledIsFinal

-----------------------------------------------------------------------------
(* Consignments.                                                           *)

\* Fee bumps are counted.
LEMMA BumpsGrow == Inv /\ [Next]_vars => (bumps' >= bumps)
<1> SUFFICES ASSUME Inv, [Next]_vars PROVE (bumps' >= bumps)
  OBVIOUS
<1> USE DEF reserveVars, durable, memory, host
<1> TypeOK /\ bumps \in Nat
  BY DEF Inv, TypeOK, ReserveTypeOK
<1>1. ASSUME NEW cut \in Cuts, ReserveNext(cut),
             UNCHANGED <<durable, signed, clock, exported, backed>>, AfterCut(cut, {})
      PROVE  (bumps' >= bumps)
  <2>1. bumps' = bumps \/ bumps' = bumps + 1
    BY <1>1 DEF ReserveNext, PrepareBatchReserves, FeeBumpBatchReserves, ResumeBatchReserves,
       ReconcileBatchReserve, ObserveBatchReserve, RefreshBatchReserves
  <2> QED
    BY <2>1
<1>2. ASSUME NEW b \in Batches, CancelSendBatch(b) PROVE (bumps' >= bumps)
  BY <1>2, CancelCalled DEF Cancels
<1>3. ASSUME NEW t \in Threads, FinishSendBatchProof(t) PROVE (bumps' >= bumps)
  <2>1. bumps' = bumps
    BY <1>3 DEF FinishSendBatchProof
  <2> QED
    BY <2>1
<1>4. ASSUME NEW t \in Threads, FailSendBatchProof(t) PROVE (bumps' >= bumps)
  <2>1. bumps' = bumps
    BY <1>4, CancelFailed DEF Cancels
  <2> QED
    BY <2>1
<1>5. ASSUME NEW b \in Batches, NEW o \in Operations,
             AddRecipient(b, o) \/ TransferBatchPlan(b, o)
      PROVE  (bumps' >= bumps)
  BY <1>5 DEF AddRecipient, TransferBatchPlan
<1>6. ASSUME NEW b \in Batches,
             FreezeSendBatch(b) \/ Late(b) \/ AcknowledgeSendBatchBackup(b) \/
             ObserveSendBatch(b) \/ ReconcileSendBatch(b) \/ RefreshSendBatchSpv(b)
      PROVE  (bumps' >= bumps)
  BY <1>6 DEF FreezeSendBatch, Late, AcknowledgeSendBatchBackup, ObserveSendBatch,
     ReconcileSendBatch, RefreshSendBatchSpv
<1>7. ASSUME NEW b \in Batches, NEW t \in Threads,
             BeginSendBatchProof(b, t) \/ BeginStops(b, t)
      PROVE  (bumps' >= bumps)
  BY <1>7 DEF BeginSendBatchProof, BeginStops
<1>8. ASSUME NEW b \in Batches, NEW cut \in Cuts,
             SignAndBroadcastSendBatch(b, cut) \/ FeeBumpSendBatch(b, cut) \/
             ResumeSendBatch(b, cut)
      PROVE  (bumps' >= bumps)
  BY <1>8 DEF SignAndBroadcastSendBatch, FeeBumpSendBatch, ResumeSendBatch
<1>9. ASSUME NEW o \in Operations,
             CancelOperation(o) \/ ProveOperation(o) \/ AcknowledgeBackup(o) \/ SignAndBroadcast(o)
      PROVE  (bumps' >= bumps)
  BY <1>9 DEF CancelOperation, ProveOperation, AcknowledgeBackup, SignAndBroadcast
<1>10. CASE FinishProof \/ Export \/ Mine \/ Stop
  BY <1>10 DEF FinishProof, Export, Mine, Stop
<1>11. CASE UNCHANGED vars
  BY <1>11 DEF vars
<1> QED
  BY <1>1, <1>2, <1>3, <1>4, <1>5, <1>6, <1>7, <1>8, <1>9, <1>10, <1>11
  DEF Next, Reserve, SendBatchStep, OperationStep

\* The consignments of an operation change when its batch is observed or replaced.
ConsignmentsStay == \A p \in Operations : op'[p].ready = op[p].ready /\ op'[p].prior = op[p].prior
ConsignmentCall ==
    \E c \in Batches :
        ObserveSendBatch(c) \/ ReconcileSendBatch(c) \/ \E x \in Cuts : FeeBumpSendBatch(c, x)

\* No other call changes them.
LEMMA ConsignmentsMove == Inv /\ [Next]_vars => (ConsignmentsStay \/ ConsignmentCall)
<1> SUFFICES ASSUME Inv, [Next]_vars PROVE (ConsignmentsStay \/ ConsignmentCall)
  OBVIOUS
<1> USE DEF reserveVars, durable, memory, host
<1> TypeOK /\ op \in [Operations -> OperationRows]
  BY DEF Inv, TypeOK
<1> \A row \in OperationRows :
    DOMAIN row = {"state", "coin", "acked", "fee", "tx", "ready", "prior"}
  BY DEF OperationRows
<1>1. ASSUME NEW b \in Batches, NEW o \in Operations, AddRecipient(b, o)
      PROVE (ConsignmentsStay \/ ConsignmentCall)
  BY <1>1 DEF AddRecipient, PlanMember, ConsignmentsStay
<1>2. ASSUME NEW b \in Batches, NEW o \in Operations, TransferBatchPlan(b, o)
      PROVE (ConsignmentsStay \/ ConsignmentCall)
  BY <1>2 DEF TransferBatchPlan, PlanMember, ConsignmentsStay
<1>3. ASSUME NEW b \in Batches, CancelSendBatch(b) PROVE (ConsignmentsStay \/ ConsignmentCall)
  BY <1>3, CancelCalled, CancelledMembers DEF ConsignmentsStay
<1>4. ASSUME NEW b \in Batches, NEW t \in Threads, BeginSendBatchProof(b, t)
      PROVE (ConsignmentsStay \/ ConsignmentCall)
  <2>1. ReserveFees(b, Len(members[b]))
    BY <1>4 DEF BeginSendBatchProof
  <2> QED
    BY <2>1 DEF ReserveFees, ConsignmentsStay
<1>5. ASSUME NEW b \in Batches, NEW t \in Threads, BeginStops(b, t)
      PROVE (ConsignmentsStay \/ ConsignmentCall)
  <2>1. PICK k : ReserveFees(b, k)
    BY <1>5 DEF BeginStops
  <2> QED
    BY <2>1 DEF ReserveFees, ConsignmentsStay
<1>6. ASSUME NEW b \in Batches, AcknowledgeSendBatchBackup(b)
      PROVE (ConsignmentsStay \/ ConsignmentCall)
  BY <1>6 DEF AcknowledgeSendBatchBackup, ConsignmentsStay
<1>7. ASSUME NEW b \in Batches, NEW cut \in Cuts, SignAndBroadcastSendBatch(b, cut)
      PROVE (ConsignmentsStay \/ ConsignmentCall)
  BY <1>7 DEF SignAndBroadcastSendBatch, SignedMembers, ConsignmentsStay
<1>8. ASSUME NEW b \in Batches, NEW cut \in Cuts, FeeBumpSendBatch(b, cut)
      PROVE (ConsignmentsStay \/ ConsignmentCall)
  BY <1>8 DEF ConsignmentCall
<1>9. ASSUME NEW b \in Batches, NEW cut \in Cuts, ResumeSendBatch(b, cut)
      PROVE (ConsignmentsStay \/ ConsignmentCall)
  <2>1. CASE UNCHANGED op
    BY <2>1 DEF ConsignmentsStay
  <2>2. CASE op' = [o \in Operations |-> IF o \in MemberSet(b)
                      THEN [op[o] EXCEPT !.state = "broadcast_unobserved"] ELSE op[o]]
    BY <2>2 DEF ConsignmentsStay
  <2> QED
    BY <1>9, <2>1, <2>2 DEF ResumeSendBatch
<1>10. ASSUME NEW b \in Batches, ObserveSendBatch(b) PROVE (ConsignmentsStay \/ ConsignmentCall)
  BY <1>10 DEF ConsignmentCall
<1>11. ASSUME NEW b \in Batches, ReconcileSendBatch(b) PROVE (ConsignmentsStay \/ ConsignmentCall)
  BY <1>11 DEF ConsignmentCall
<1>12. ASSUME NEW b \in Batches, RefreshSendBatchSpv(b) PROVE (ConsignmentsStay \/ ConsignmentCall)
  BY <1>12 DEF RefreshSendBatchSpv, ConsignmentsStay
<1>13. ASSUME NEW t \in Threads, FinishSendBatchProof(t) PROVE (ConsignmentsStay \/ ConsignmentCall)
  <2>1. CASE UNCHANGED op
    BY <2>1 DEF ConsignmentsStay
  <2>2. CASE op' = [o \in Operations |-> IF o \in MemberSet(job[t].batch)
                      THEN [op[o] EXCEPT !.state = "proof_ready", !.coin = job[t].coins[o],
                        !.acked = FALSE]
                      ELSE op[o]]
    BY <2>2 DEF ConsignmentsStay
  <2> QED
    BY <1>13, <2>1, <2>2 DEF FinishSendBatchProof
<1>14. ASSUME NEW t \in Threads, FailSendBatchProof(t) PROVE (ConsignmentsStay \/ ConsignmentCall)
  <2>1. CASE UNCHANGED op
    BY <2>1 DEF ConsignmentsStay
  <2>2. ASSUME NEW F, Cancels(job[t].batch, F) PROVE ConsignmentsStay
    BY <2>2, CancelledMembers DEF ConsignmentsStay
  <2> QED
    BY <1>14, <2>1, <2>2, CancelFailed
<1>15. ASSUME NEW o \in Operations, CancelOperation(o) PROVE (ConsignmentsStay \/ ConsignmentCall)
  BY <1>15 DEF CancelOperation, CancelledRow, ConsignmentsStay
<1>16. ASSUME NEW o \in Operations, ProveOperation(o) PROVE (ConsignmentsStay \/ ConsignmentCall)
  BY <1>16 DEF ProveOperation, ConsignmentsStay
<1>17. ASSUME NEW o \in Operations, AcknowledgeBackup(o) PROVE (ConsignmentsStay \/ ConsignmentCall)
  BY <1>17 DEF AcknowledgeBackup, ConsignmentsStay
<1>18. ASSUME NEW o \in Operations, SignAndBroadcast(o) PROVE (ConsignmentsStay \/ ConsignmentCall)
  BY <1>18 DEF SignAndBroadcast, ConsignmentsStay
<1>19. CASE FinishProof
  <2>1. CASE UNCHANGED op
    BY <2>1 DEF ConsignmentsStay
  <2>2. CASE op' = [op EXCEPT ![solo.op] = [op[solo.op] EXCEPT !.state = "proof_ready",
                                              !.coin = solo.coin, !.acked = FALSE]]
    BY <2>2 DEF ConsignmentsStay
  <2> QED
    BY <1>19, <2>1, <2>2 DEF FinishProof
<1>20. ASSUME NEW cut \in Cuts, ReserveNext(cut),
             UNCHANGED <<durable, signed, clock, exported, backed>>, AfterCut(cut, {})
      PROVE  (ConsignmentsStay \/ ConsignmentCall)
  BY <1>20 DEF ConsignmentsStay
<1>21. ASSUME NEW b \in Batches,
             FreezeSendBatch(b) \/ Late(b)
      PROVE  (ConsignmentsStay \/ ConsignmentCall)
  BY <1>21 DEF FreezeSendBatch, Late, ConsignmentsStay
<1>22. CASE Export \/ Mine \/ Stop
  BY <1>22 DEF Export, Mine, Stop, ConsignmentsStay
<1>23. CASE UNCHANGED vars
  BY <1>23 DEF vars, ConsignmentsStay
<1> QED
  BY <1>1, <1>2, <1>3, <1>4, <1>5, <1>6, <1>7, <1>8, <1>9, <1>10, <1>11, <1>12, <1>13, <1>14,
     <1>15, <1>16, <1>17, <1>18, <1>19, <1>20, <1>21, <1>22, <1>23
  DEF Next, Reserve, SendBatchStep, OperationStep

\* A call for one batch leaves the consignments of the others.
LEMMA OtherConsignments ==
    ASSUME Inv, [Next]_vars, ConsignmentInv, NEW b \in Batches, members' = members,
           \A p \in Operations \ MemberSet(b) : op'[p] = op[p],
           \A d \in Batches \ {b} : batch'[d] = batch[d],
           \A p \in MemberSet(b) : op[p].state # "none" /\ op'[p].state # "none",
           \A p \in MemberSet(b) : ConsignmentOK(b, p)'
    PROVE  ConsignmentInv'
<1>1. \A d \in Batches \ {b} : MemberSet(d) \subseteq Operations \ MemberSet(b)
  BY Prefixes DEF Inv, MemberInv
<1>2. bumps' >= bumps /\ bumps \in Nat /\ bumps' \in Nat
  BY BumpsGrow, TypeStep DEF Inv, TypeOK, ReserveTypeOK
<1>3. \A d \in Batches : \A p \in MemberSet(d)' : ConsignmentOK(d, p)'
  BY <1>1, <1>2 DEF ConsignmentInv, ConsignmentOK, MemberSet
<1>4. \A p \in Operations : op'[p].state = "none" => op'[p].ready = None /\ op'[p].prior = None
  BY DEF ConsignmentInv
<1> QED
  BY <1>3, <1>4 DEF ConsignmentInv

\* With one fee bump at most, nothing was put aside before it.
LEMMA ConsignmentStep ==
    ASSUME MaxBumps <= 1, Inv, [Next]_vars, ConsignmentInv
    PROVE  ConsignmentInv'
<1> TypeOK
  BY DEF Inv
<1> batch \in [Batches -> BatchRows] /\ op \in [Operations -> OperationRows]
  BY DEF Inv, TypeOK
<1> \A row \in BatchRows : DOMAIN row = {"state", "epoch", "acked", "prepared", "replaces"}
  BY DEF BatchRows
<1> \A row \in OperationRows :
    DOMAIN row = {"state", "coin", "acked", "fee", "tx", "ready", "prior"}
  BY DEF OperationRows
<1>0. bumps \in 0..MaxBumps /\ bumps' >= bumps /\ bumps' \in Nat
  BY BumpsGrow, TypeStep DEF Inv, TypeOK, ReserveTypeOK
<1>m. \A c \in Batches : \A p \in MemberSet(c) :
        p \in Operations /\ op[p].state # "none" /\ op'[p].state # "none"
  BY Prefixes, OperationStepMoves DEF Inv, MemberInv, OperationMoves
<1>1. ASSUME NEW b \in Batches, NEW x \in Cuts, FeeBumpSendBatch(b, x) PROVE ConsignmentInv'
  <2>1. /\ members' = members /\ bumps' = bumps + 1 /\ bumps < MaxBumps
        /\ op' = BumpedMembers(b, bumps + 1, BroadcastState(x))
        /\ batch' = [batch EXCEPT ![b] = [batch[b] EXCEPT !.state = BroadcastState(x),
                                !.epoch = bumps + 1, !.replaces = batch[b].epoch]]
    BY <1>1 DEF FeeBumpSendBatch
  <2>2. bumps = 0 /\ bumps' > 0
    BY <1>0, <2>1, ReserveAssumption
  <2>3. batch'[b].state \in SignedStates /\ batch'[b].replaces = batch[b].epoch
    BY <2>1, BroadcastStates
  <2>4. ASSUME NEW p \in MemberSet(b) PROVE ConsignmentOK(b, p)'
    <3>1. op[p].prior = None /\ (op[p].ready # None => op[p].ready = batch[b].epoch)
      BY <2>2 DEF ConsignmentInv, ConsignmentOK
    <3>2. op'[p].ready = None /\ op'[p].prior = IF op[p].ready = None THEN op[p].prior ELSE op[p].ready
      BY <1>m, <2>1 DEF BumpedMembers
    <3> QED
      BY <2>2, <2>3, <3>1, <3>2 DEF ConsignmentOK
  <2>5. /\ \A p \in Operations \ MemberSet(b) : op'[p] = op[p]
        /\ \A d \in Batches \ {b} : batch'[d] = batch[d]
    BY <2>1 DEF BumpedMembers
  <2> QED
    BY <1>m, <2>1, <2>4, <2>5, OtherConsignments
<1>2. ASSUME NEW b \in Batches, ReconcileSendBatch(b) PROVE ConsignmentInv'
  <2>1. members' = members /\ op' = RestoredMembers(b) /\ batch' = RestoredBatch(b,
    "broadcast_unobserved")
    BY <1>2 DEF ReconcileSendBatch
  <2>2. batch'[b].state \in SignedStates /\ batch'[b].epoch = batch[b].replaces
    BY <2>1 DEF RestoredBatch, SignedStates
  <2>3. ASSUME NEW p \in MemberSet(b) PROVE ConsignmentOK(b, p)'
    <3>1. op'[p].ready = op[p].prior /\ op'[p].prior = None
      BY <1>m, <2>1 DEF RestoredMembers
    <3>2. op[p].prior # None => op[p].prior = batch[b].replaces
      BY DEF ConsignmentInv, ConsignmentOK
    <3> QED
      BY <2>2, <3>1, <3>2 DEF ConsignmentOK
  <2>4. /\ \A p \in Operations \ MemberSet(b) : op'[p] = op[p]
        /\ \A d \in Batches \ {b} : batch'[d] = batch[d]
    BY <2>1 DEF RestoredMembers, RestoredBatch
  <2> QED
    BY <1>m, <2>1, <2>3, <2>4, OtherConsignments
<1>3. ASSUME NEW b \in Batches, ObserveSendBatch(b) PROVE ConsignmentInv'
  <2>1. PICK k \in 0..Len(members[b]) : FinalizeMembers(b, k, "mempool")
    BY <1>3 DEF ObserveSendBatch
  <2>2. /\ members' = members
        /\ batch' = batch \/ batch' = [batch EXCEPT ![b].state = "mempool"]
        /\ batch[b].state \in SignedStates
    BY <1>3 DEF ObserveSendBatch, SignedStates
  <2>3. /\ batch'[b].epoch = batch[b].epoch /\ batch'[b].replaces = batch[b].replaces
        /\ batch'[b].state \in SignedStates
    BY <2>2 DEF SignedStates
  <2>4. ASSUME NEW p \in MemberSet(b) PROVE ConsignmentOK(b, p)'
    <3>1. op'[p].ready \in {batch[b].epoch, op[p].ready} /\ op'[p].prior = op[p].prior
      BY <1>m, <2>1 DEF FinalizeMembers
    <3>2. ConsignmentOK(b, p)
      BY DEF ConsignmentInv
    <3> QED
      BY <1>0, <2>3, <3>1, <3>2 DEF ConsignmentOK
  <2>5. /\ \A p \in Operations \ MemberSet(b) : op'[p] = op[p]
        /\ \A d \in Batches \ {b} : batch'[d] = batch[d]
    BY <2>1, <2>2, Prefixes DEF FinalizeMembers
  <2> QED
    BY <1>m, <2>2, <2>4, <2>5, OtherConsignments
<1>4. ASSUME ConsignmentsStay, \A c \in Batches : ~ReconcileSendBatch(c),
             \A c \in Batches, x \in Cuts : ~FeeBumpSendBatch(c, x)
      PROVE  ConsignmentInv'
  <2>1. ASSUME NEW c \in Batches, NEW p \in MemberSet(c)' PROVE ConsignmentOK(c, p)'
    <3>1. CASE p \in MemberSet(c)
      <4>1. op'[p].ready = op[p].ready /\ op'[p].prior = op[p].prior
        BY <1>4, <1>m, <3>1 DEF ConsignmentsStay
      <4>2. ConsignmentOK(c, p)
        BY <3>1 DEF ConsignmentInv
      <4>3. batch[c].state \in SignedStates => /\ batch'[c].state \in SignedStates
                                               /\ batch'[c].epoch = batch[c].epoch
                                               /\ batch'[c].replaces = batch[c].replaces
        BY <1>4, VersionStep, BatchStepMoves DEF VersionMoves, BatchMoves
      <4> QED
        BY <1>0, <4>1, <4>2, <4>3 DEF ConsignmentOK
    <3>2. ASSUME p \notin MemberSet(c), NEW d \in Batches, NEW q \in Operations, PlanMember(d, q)
          PROVE  ConsignmentOK(c, p)'
      <4>1. p = q /\ op[p].state = "none" /\ p \in Operations
        BY <2>1, <3>2, AppendMember DEF PlanMember, MemberSet, TypeOK
      <4> QED
        BY <1>4, <4>1 DEF ConsignmentsStay, ConsignmentInv, ConsignmentOK
    <3> QED
      BY <2>1, <3>1, <3>2, MembersMove DEF MemberSet
  <2>2. \A p \in Operations : op'[p].state = "none" => op'[p].ready = None /\ op'[p].prior = None
    BY <1>4, OperationStepMoves DEF OperationMoves, ConsignmentsStay, ConsignmentInv
  <2> QED
    BY <2>1, <2>2 DEF ConsignmentInv
<1> QED
  BY <1>1, <1>2, <1>3, <1>4, ConsignmentsMove DEF ConsignmentCall

\* While fees are raised once at most, a consignment that a member offers for delivery names the
\* present transaction of its batch (fee_bump_send_batch and
\* reconcile_confirmed_send_batch_replacement); a second bump can break it.
THEOREM ConsignmentsNamePresent ==
    ASSUME MaxBumps <= 1
    PROVE  Spec => []ConsignmentsNameBatch
<1>1. Init => ConsignmentInv
  BY DEF Init, ConsignmentInv, MemberSet, Range
<1>2. Inv /\ ConsignmentInv /\ [Next]_vars => ConsignmentInv'
  BY ConsignmentStep
<1>3. ConsignmentInv => ConsignmentsNameBatch
  BY DEF ConsignmentInv, ConsignmentOK, ConsignmentsNameBatch
<1> QED
  BY <1>1, <1>2, <1>3, Invariance, PTL DEF Spec

=============================================================================
