--------------------------- MODULE CheckpointProofs ---------------------------
(***************************************************************************)
(* Theorems about Checkpoint, for any sets of operations, coins and keys   *)
(* and any number of lost databases and keys.                              *)
(***************************************************************************)
EXTENDS Checkpoint, TLAPS

USE DEF Signed, Finalized

\* The states in which an operation keeps its coin.
Holding == {"proof_ready"} \cup Signed

-----------------------------------------------------------------------------
(* The inductive invariant.                                                *)

\* A database binds the key that it was first opened with or the one of a rebind; it binds
\* none only if an open found no key, which it remembers.
BindingInv ==
    /\ ~db.exists => ~db.missing /\ db.binding = None /\ db.claim = None /\ db.rebound = None
    /\ db.binding = None => db.claim = None
    /\ db.binding # None => db.binding \in {db.claim, db.rebound}
    /\ db.exists /\ db.binding = None => db.missing

\* The open process works under the binding of its database.
ProcessInv ==
    /\ ~process.open => ~process.valid /\ ~process.restored
    /\ process.open => db.exists /\ process.commitment = db.binding
    /\ process.valid => key # None /\ key = db.binding

\* A verified backup names the binding of the database.
VerifiedInv == db.verified => backup # None /\ backup.binding = db.binding

\* Rows keep a coin once it is proved and are acknowledged only then.
RowInv ==
    \A o \in Operations :
        /\ op[o].state \in Holding => op[o].coin \in Coins
        /\ op[o].acked => op[o].state \notin {"none", "planned"}

\* What a checkpoint exports: no acknowledgement, no cancelled operation, and the members
\* that it lists are the ones that its rows name.
BackupInv ==
    backup # None =>
        /\ \A o \in Operations :
            /\ backup.op[o].state \in Holding => backup.op[o].coin \in Coins
            /\ ~backup.op[o].acked
            /\ backup.op[o].state # "cancelled"
            /\ o \in backup.members /\ backup.op[o].state # "none" => backup.op[o].member
            /\ backup.batch = "open" /\ backup.op[o].member => o \in backup.members
        /\ backup.batch = "none" => backup.members = {}

\* An operation that may be signed, or was, is in the backup with its coin.
BackedUp ==
    \A o \in Operations :
        op[o].state \in Signed \/ (op[o].state = "proof_ready" /\ op[o].acked) =>
            /\ backup # None
            /\ backup.op[o].coin = op[o].coin
            /\ backup.op[o].state \in Holding

\* A process that did not itself restore knows every coin that its database holds: as
\* pending before the transaction is seen, as spent after.
MemoryInv ==
    /\ process.open =>
        \A o \in Operations : op[o].state \in {"proof_ready", "signed_persisted"} => o \in pending
    /\ process.open /\ ~process.restored =>
        \A o \in Operations : op[o].state \in Finalized => op[o].coin \in spent

\* The operations proved by processes that had not restored hold different coins, in the
\* database and in the backup.
Exclusive(ops) ==
    \A o1, o2 \in Operations \ late :
        o1 # o2 /\ ops[o1].state \in Holding /\ ops[o2].state \in Holding => ops[o1].coin # ops[o2].coin

CoinInv == Exclusive(op) /\ (backup # None => Exclusive(backup.op))

Inv == /\ TypeOK /\ BindingInv /\ ProcessInv /\ VerifiedInv /\ RowInv /\ BackupInv /\ BackedUp
       /\ MemoryInv /\ CoinInv

\* A new database is bound to no key and holds no operation.
LEMMA InvInit == Init => Inv
<1> SUFFICES ASSUME Init PROVE Inv
  OBVIOUS
<1> USE DEF Init, NewDb, NewOp, Closed, Holding
<1>1. TypeOK
  BY DEF TypeOK, OperationRows, Rows, Databases, Processes
<1>2. BindingInv /\ ProcessInv /\ VerifiedInv
  BY DEF BindingInv, ProcessInv, VerifiedInv
<1>3. RowInv /\ BackupInv /\ BackedUp /\ MemoryInv /\ CoinInv
  BY DEF RowInv, BackupInv, BackedUp, MemoryInv, CoinInv, Exclusive
<1> QED
  BY <1>1, <1>2, <1>3 DEF Inv

-----------------------------------------------------------------------------
(* Types.                                                                  *)

\* The rows that an export writes are rows.
LEMMA ExportTypes ==
    ASSUME NEW ops \in OperationRows, NEW holds \in BOOLEAN, NEW b \in {"none", "open", "cancelled"},
           NEW k \in Keys \cup {None}
    PROVE  CheckpointOf(holds, ops, b, k) \in Checkpoints
<1>1. NewOp \in Rows
  BY DEF NewOp, Rows
<1>2. ExportedOperations(ops) \in OperationRows
  BY <1>1 DEF ExportedOperations, OperationRows, Rows
<1>3. ExportedMembers(ops, b) \in SUBSET Operations
  BY DEF ExportedMembers
<1> QED
  BY <1>2, <1>3 DEF CheckpointOf, Checkpoints

\* Every call, export, restore and mishap keeps the state well typed.
LEMMA TypeStep == Inv /\ [Next]_vars => TypeOK'
<1> SUFFICES ASSUME Inv, [Next]_vars PROVE TypeOK'
  OBVIOUS
<1> USE CheckpointAssumption DEF Inv, TypeOK, OperationRows, RowInv, durable, memory, history,
        Holding
<1>1. ASSUME NEW e \in Expected, NEW flag \in BOOLEAN,
             flag => backup # None /\ backup.binding # None, Open(e, flag) PROVE TypeOK'
  <2>1. e \in Keys \cup {None}
    BY DEF Expected, Checkpoints
  <2>2. Authoritative(e) \in Keys \cup {None}
    BY <2>1 DEF Authoritative, Databases
  <2>3. db' \in Databases
    <3> DEFINE verified == IF db.exists THEN db.verified /\ Quarantined = {} ELSE flag
               missing == db.missing \/ key = None
               claim == IF db.exists /\ db.claim # None THEN db.claim
                        ELSE IF e # None THEN e ELSE IF db.exists THEN db.claim ELSE key
    <3>1. verified \in BOOLEAN /\ missing \in BOOLEAN
      BY DEF Databases
    <3>2. claim \in Keys \cup {None}
      BY <2>1 DEF Databases
    <3>3. db' = [db EXCEPT !.exists = TRUE, !.verified = verified, !.missing = missing,
                           !.binding = Authoritative(e), !.claim = claim]
      BY <1>1 DEF Open, BindDevice
    <3> HIDE DEF verified, missing, claim
    <3> QED
      BY <2>2, <3>1, <3>2, <3>3 DEF Databases
  <2>4. process' \in Processes
    BY <1>1, <2>2 DEF Open, BindDevice, Processes
  <2>5. op' \in OperationRows
    BY <1>1 DEF Open, AfterReplay, Rows
  <2>6. spent' \subseteq Coins /\ pending' \subseteq Operations
    BY <1>1 DEF Open, Replayed, Reinstalled
  <2> QED
    BY <1>1, <2>3, <2>4, <2>5, <2>6 DEF Open
<1>2. CASE Close
  BY <1>2 DEF Close, Closed, Processes
<1>3. ASSUME NEW o \in Operations, NEW member \in BOOLEAN, Plan(o, member) PROVE TypeOK'
  <2>1. [NewOp EXCEPT !.state = "planned", !.member = member] \in Rows
    BY DEF NewOp, Rows
  <2> QED
    BY <1>3, <2>1 DEF Plan
<1>4. ASSUME NEW o \in Operations, Prove(o) PROVE TypeOK'
  <2>1. PICK c \in Coins : op' = [op EXCEPT ![o].state = "proof_ready", ![o].coin = c]
    BY <1>4 DEF Prove
  <2>2. op' = [op EXCEPT ![o] = [op[o] EXCEPT !.state = "proof_ready", !.coin = c]]
    BY <2>1
  <2>3. [op[o] EXCEPT !.state = "proof_ready", !.coin = c] \in Rows
    <3>1. op[o] \in Rows
      OBVIOUS
    <3> HIDE DEF TypeOK, OperationRows
    <3> QED
      BY <2>1, <3>1 DEF Rows
  <2>4. op' \in OperationRows
    BY <2>2, <2>3
  <2> QED
    BY <1>4, <2>4 DEF Prove
<1>5. ASSUME NEW o \in Operations, Acknowledge(o) PROVE TypeOK'
  <2>1. op[o] \in Rows /\ op' = [op EXCEPT ![o] = [op[o] EXCEPT !.acked = TRUE]]
    BY <1>5 DEF Acknowledge
  <2>2. [op[o] EXCEPT !.acked = TRUE] \in Rows
    BY <2>1 DEF Rows
  <2>3. op' \in OperationRows
    BY <2>1, <2>2
  <2> QED
    BY <1>5, <2>3 DEF Acknowledge
<1>6. ASSUME NEW o \in Operations, Sign(o) PROVE TypeOK'
  BY <1>6 DEF Sign, Rows
<1>7. ASSUME NEW o \in Operations, Observe(o) PROVE TypeOK'
  BY <1>7 DEF Observe, Rows
<1>8. ASSUME NEW o \in Operations, Settle(o) PROVE TypeOK'
  BY <1>8 DEF Settle, Rows
<1>9. ASSUME NEW o \in Operations, CancelOperation(o) PROVE TypeOK'
  BY <1>9 DEF CancelOperation, Cancellable, Rows
<1>10. CASE CancelSendBatch
  BY <1>10 DEF CancelSendBatch, Cancellable, Rows
<1>11. ASSUME NEW p \in released, Mine(p) PROVE TypeOK'
  BY <1>11 DEF Mine
<1>12. CASE Export
  <2>1. Checkpoint \in Checkpoints
    BY ExportTypes DEF Checkpoint, Databases, Processes
  <2> QED
    BY <1>12, <2>1 DEF Export
<1>13. ASSUME NEW v \in BOOLEAN, SetBackupState(v) PROVE TypeOK'
  BY <1>13 DEF SetBackupState, Databases
<1>14. ASSUME NEW cut \in BOOLEAN, RestoreCheckpoint(cut) PROVE TypeOK'
  <2>1. backup \in Checkpoints
    BY <1>14 DEF RestoreCheckpoint
  <2>2. op' \in OperationRows /\ batch' \in {"none", "open", "cancelled"}
    BY <1>14, <2>1 DEF RestoreCheckpoint, Imported, ImportedBatch, Checkpoints
  <2>3. CheckpointOf(backup.holds, op', batch', process.commitment) \in Checkpoints
    BY <2>1, <2>2, ExportTypes DEF Checkpoints, Processes
  <2>4. db' \in Databases
    <3> DEFINE normal == IF cut THEN None
                         ELSE CheckpointOf(backup.holds, op', batch', process.commitment)
    <3>1. db \in Databases /\ backup.holds \in BOOLEAN /\ normal \in Checkpoints \cup {None}
      BY <2>1, <2>3 DEF Checkpoints
    <3>2. db' = [db EXCEPT !.holds = backup.holds, !.verified = TRUE, !.source = TRUE,
                           !.normal = normal]
      BY <1>14 DEF RestoreCheckpoint
    <3> HIDE DEF normal, Inv, TypeOK
    <3> QED
      BY <3>1, <3>2 DEF Databases
  <2>5. process' \in Processes
    <3> Closed \in Processes
      BY DEF Closed, Processes
    <3>1. CASE cut
      BY <1>14, <3>1 DEF RestoreCheckpoint
    <3>2. CASE ~cut
      BY <1>14, <3>2 DEF RestoreCheckpoint, Processes
    <3> QED BY <3>1, <3>2
  <2>6. pending' \subseteq Operations
    BY <1>14 DEF RestoreCheckpoint, Reinstalled
  <2> QED
    BY <1>14, <2>2, <2>4, <2>5, <2>6 DEF RestoreCheckpoint, RestoredSpends
<1>15. CASE RebindTestDevice
  BY <1>15 DEF RebindTestDevice, RebindGuards, Databases, Processes
<1>16. CASE LoseDatabase
  BY <1>16 DEF LoseDatabase, NewDb, NewOp, Closed, Mishap, Databases, Processes, Rows
<1>17. ASSUME NEW k \in Keys \cup {None}, ChangeKey(k) PROVE TypeOK'
  BY <1>17 DEF ChangeKey, Mishap
<1>18. CASE UNCHANGED vars
  BY <1>18 DEF vars
<1> QED
  BY <1>1, <1>2, <1>3, <1>4, <1>5, <1>6, <1>7, <1>8, <1>9,
     <1>10, <1>11, <1>12, <1>13, <1>14, <1>15, <1>16, <1>17, <1>18 DEF Next

-----------------------------------------------------------------------------
(* The device binding.                                                     *)

KeyInv == BindingInv /\ ProcessInv /\ VerifiedInv

\* Only open_device_bound and rebind_test_device bind a key, and what they bind stays bound until
\* the database is lost.
LEMMA KeyStep == Inv /\ [Next]_vars => KeyInv'
<1> SUFFICES ASSUME Inv, [Next]_vars PROVE KeyInv'
  OBVIOUS
<1> USE CheckpointAssumption DEF Inv, TypeOK, KeyInv, BindingInv, ProcessInv, VerifiedInv, durable,
        memory, history, Databases, Processes, WriteEnabled
<1>1. ASSUME NEW e \in Expected, NEW flag \in BOOLEAN,
             flag => backup # None /\ backup.binding # None, Open(e, flag) PROVE KeyInv'
  <2>1. /\ db'.exists /\ db'.binding = Authoritative(e) /\ db'.rebound = db.rebound
        /\ db'.missing = (db.missing \/ key = None)
        /\ db'.claim = IF db.exists /\ db.claim # None THEN db.claim
                       ELSE IF e # None THEN e ELSE IF db.exists THEN db.claim ELSE key
    BY <1>1 DEF Open, BindDevice
  <2>2. db'.verified => IF db.exists THEN db.verified ELSE flag
    BY <1>1 DEF Open, BindDevice
  <2>3. /\ process'.open /\ ~process'.restored /\ process'.commitment = Authoritative(e)
        /\ process'.valid => key # None /\ key = Authoritative(e)
    BY <1>1 DEF Open, BindDevice
  <2>4. db.binding # None => Authoritative(e) = db.binding
    BY DEF Authoritative
  <2>5. db.binding = None =>
          Authoritative(e) = IF e # None THEN e ELSE IF db.missing THEN None ELSE key
    BY DEF Authoritative
  <2>6. BindingInv'
    BY <2>1, <2>4, <2>5
  <2>7. ProcessInv'
    BY <1>1, <2>1, <2>3 DEF Open
  <2>8. VerifiedInv'
    BY <1>1, <2>1, <2>2, <2>4, <2>5 DEF Open, Expected
  <2> QED
    BY <2>6, <2>7, <2>8
<1>2. CASE Close
  BY <1>2 DEF Close, Closed
<1>3. ASSUME NEW o \in Operations, NEW member \in BOOLEAN, Plan(o, member) PROVE KeyInv'
  BY <1>3 DEF Plan
<1>4. ASSUME NEW o \in Operations, Prove(o) PROVE KeyInv'
  BY <1>4 DEF Prove
<1>5. ASSUME NEW o \in Operations, Acknowledge(o) PROVE KeyInv'
  BY <1>5 DEF Acknowledge
<1>6. ASSUME NEW o \in Operations, Sign(o) PROVE KeyInv'
  BY <1>6 DEF Sign
<1>7. ASSUME NEW o \in Operations, Observe(o) PROVE KeyInv'
  BY <1>7 DEF Observe
<1>8. ASSUME NEW o \in Operations, Settle(o) PROVE KeyInv'
  BY <1>8 DEF Settle
<1>9. ASSUME NEW o \in Operations, CancelOperation(o) PROVE KeyInv'
  BY <1>9 DEF CancelOperation
<1>10. CASE CancelSendBatch
  BY <1>10 DEF CancelSendBatch
<1>11. ASSUME NEW p \in released, Mine(p) PROVE KeyInv'
  BY <1>11 DEF Mine
<1>12. CASE Export
  <2>1. Checkpoint \in Checkpoints /\ Checkpoint.binding = process.commitment
    BY ExportTypes DEF Checkpoint, CheckpointOf
  <2> QED
    BY <1>12, <2>1 DEF Export
<1>13. ASSUME NEW v \in BOOLEAN, SetBackupState(v) PROVE KeyInv'
  BY <1>13 DEF SetBackupState
<1>14. ASSUME NEW cut \in BOOLEAN, RestoreCheckpoint(cut) PROVE KeyInv'
  <2>1. CASE cut
    BY <1>14, <2>1 DEF RestoreCheckpoint, NamesThisAccount, Closed
  <2>2. CASE ~cut
    BY <1>14, <2>2 DEF RestoreCheckpoint, NamesThisAccount
  <2> QED
    BY <2>1, <2>2
<1>15. CASE RebindTestDevice
  BY <1>15 DEF RebindTestDevice, RebindGuards
<1>16. CASE LoseDatabase
  BY <1>16 DEF LoseDatabase, NewDb, Closed, Mishap
<1>17. ASSUME NEW k \in Keys \cup {None}, ChangeKey(k) PROVE KeyInv'
  BY <1>17 DEF ChangeKey, Mishap
<1>18. CASE UNCHANGED vars
  BY <1>18 DEF vars
<1> QED
  BY <1>1, <1>2, <1>3, <1>4, <1>5, <1>6, <1>7, <1>8, <1>9,
     <1>10, <1>11, <1>12, <1>13, <1>14, <1>15, <1>16, <1>17, <1>18 DEF Next

-----------------------------------------------------------------------------
(* The backup.                                                             *)

StoreInv == RowInv /\ BackupInv /\ BackedUp

\* What an export writes about one operation.
LEMMA ExportedRow ==
    ASSUME NEW o \in Operations, op \in OperationRows
    PROVE  /\ op[o].state = "cancelled" => Checkpoint.op[o] = NewOp
           /\ op[o].state # "cancelled" =>
                /\ Checkpoint.op[o].state = op[o].state
                /\ Checkpoint.op[o].coin = op[o].coin
                /\ Checkpoint.op[o].acked = FALSE
                /\ Checkpoint.op[o].member = op[o].member
           /\ o \in Checkpoint.members <=> batch = "open" /\ op[o].member
           /\ Checkpoint.batch = IF batch = "cancelled" THEN "none" ELSE batch
<1>1. Checkpoint.op[o] = IF op[o].state = "cancelled" THEN NewOp ELSE [op[o] EXCEPT !.acked = FALSE]
  BY DEF Checkpoint, CheckpointOf, ExportedOperations
<1>2. op[o] \in Rows
  BY DEF OperationRows
<1>3. /\ Checkpoint.members = ExportedMembers(op, batch)
      /\ Checkpoint.batch = IF batch = "cancelled" THEN "none" ELSE batch
  BY DEF Checkpoint, CheckpointOf
<1> QED
  BY <1>1, <1>2, <1>3 DEF Rows, ExportedMembers

\* Only an acknowledged proof is signed, the backup then holds it, and every later export holds
\* it again.
LEMMA StoreStep == Inv /\ [Next]_vars => StoreInv'
<1> SUFFICES ASSUME Inv, [Next]_vars PROVE StoreInv'
  OBVIOUS
<1> USE CheckpointAssumption DEF Inv, TypeOK, StoreInv, RowInv, BackupInv, BackedUp, OperationRows,
        durable, memory, history, Holding
<1>1. ASSUME NEW e \in Expected, NEW flag \in BOOLEAN,
             flag => backup # None /\ backup.binding # None, Open(e, flag) PROVE StoreInv'
  BY <1>1 DEF Open, AfterReplay, Rows
<1>2. CASE Close
  BY <1>2 DEF Close, Closed
<1>3. ASSUME NEW o \in Operations, NEW member \in BOOLEAN, Plan(o, member) PROVE StoreInv'
  BY <1>3 DEF Plan, Rows, NewOp
<1>4. ASSUME NEW o \in Operations, Prove(o) PROVE StoreInv'
  <2>1. PICK c \in Coins : op' = [op EXCEPT ![o].state = "proof_ready", ![o].coin = c]
    BY <1>4 DEF Prove
  <2>2. op' = [op EXCEPT ![o] = [op[o] EXCEPT !.state = "proof_ready", !.coin = c]]
    BY <2>1
  <2>3. ~op[o].acked /\ op[o] \in Rows
    BY <1>4 DEF Prove
  <2>4. op'[o].state = "proof_ready" /\ op'[o].coin = c /\ ~op'[o].acked
    BY <2>2, <2>3 DEF Rows
  <2>5. \A x \in Operations : x # o => op'[x] = op[x]
    BY <2>2
  <2> QED
    BY <1>4, <2>4, <2>5 DEF Prove
<1>5. ASSUME NEW o \in Operations, Acknowledge(o) PROVE StoreInv'
  BY <1>5 DEF Acknowledge, Rows
<1>6. ASSUME NEW o \in Operations, Sign(o) PROVE StoreInv'
  BY <1>6 DEF Sign, Rows
<1>7. ASSUME NEW o \in Operations, Observe(o) PROVE StoreInv'
  BY <1>7 DEF Observe, Rows
<1>8. ASSUME NEW o \in Operations, Settle(o) PROVE StoreInv'
  BY <1>8 DEF Settle, Rows
<1>9. ASSUME NEW o \in Operations, CancelOperation(o) PROVE StoreInv'
  BY <1>9 DEF CancelOperation, Cancellable, Rows
<1>10. CASE CancelSendBatch
  BY <1>10 DEF CancelSendBatch, Cancellable, Rows
<1>11. ASSUME NEW p \in released, Mine(p) PROVE StoreInv'
  BY <1>11 DEF Mine
<1>12. CASE Export
  <2>1. Checkpoint \in Checkpoints
    BY ExportTypes DEF Checkpoint, Databases, Processes
  <2>2. backup' = Checkpoint /\ backup' # None /\ op' = op
    BY <1>12, <2>1 DEF Export, durable
  <2>3. RowInv' /\ BackedUp'
    BY <2>2, ExportedRow
  <2>4. BackupInv'
    <3>1. ASSUME NEW o \in Operations
          PROVE  /\ Checkpoint.op[o].state \in Holding => Checkpoint.op[o].coin \in Coins
                 /\ ~Checkpoint.op[o].acked
                 /\ Checkpoint.op[o].state # "cancelled"
                 /\ o \in Checkpoint.members /\ Checkpoint.op[o].state # "none" => Checkpoint.op[o].member
                 /\ Checkpoint.batch = "open" /\ Checkpoint.op[o].member => o \in Checkpoint.members
      <4>0. NewOp.state = "none" /\ ~NewOp.acked /\ ~NewOp.member
        BY DEF NewOp
      <4>1. CASE op[o].state = "cancelled"
        BY <4>0, <4>1, ExportedRow
      <4>2. CASE op[o].state # "cancelled"
        BY <4>2, ExportedRow
      <4> QED BY <4>1, <4>2
    <3>2. Checkpoint.batch = "none" => Checkpoint.members = {}
      BY <2>1, ExportedRow DEF Checkpoints
    <3> QED
      BY <2>2, <3>1, <3>2
  <2> QED
    BY <2>3, <2>4
<1>13. ASSUME NEW v \in BOOLEAN, SetBackupState(v) PROVE StoreInv'
  BY <1>13 DEF SetBackupState
<1>14. ASSUME NEW cut \in BOOLEAN, RestoreCheckpoint(cut) PROVE StoreInv'
  BY <1>14 DEF RestoreCheckpoint, Imported, Checkpoints
<1>15. CASE RebindTestDevice
  BY <1>15 DEF RebindTestDevice
<1>16. CASE LoseDatabase
  BY <1>16 DEF LoseDatabase, NewDb, NewOp, Mishap
<1>17. ASSUME NEW k \in Keys \cup {None}, ChangeKey(k) PROVE StoreInv'
  BY <1>17 DEF ChangeKey, Mishap
<1>18. CASE UNCHANGED vars
  BY <1>18 DEF vars
<1> QED
  BY <1>1, <1>2, <1>3, <1>4, <1>5, <1>6, <1>7, <1>8, <1>9,
     <1>10, <1>11, <1>12, <1>13, <1>14, <1>15, <1>16, <1>17, <1>18 DEF Next

-----------------------------------------------------------------------------
(* Coins.                                                                  *)

\* The pending proofs and the spent coins of an open process cover the coins that its database
\* holds, unless the process restored them itself.
LEMMA MemoryStep == Inv /\ [Next]_vars => MemoryInv'
<1> SUFFICES ASSUME Inv, [Next]_vars PROVE MemoryInv'
  OBVIOUS
<1> USE CheckpointAssumption DEF Inv, TypeOK, MemoryInv, RowInv, ProcessInv, OperationRows,
        durable, memory, history, Holding
<1>1. ASSUME NEW e \in Expected, NEW flag \in BOOLEAN,
             flag => backup # None /\ backup.binding # None, Open(e, flag) PROVE MemoryInv'
  <2>1. \A x \in Operations : op'[x].state \in Holding => op'[x] = op[x]
    BY <1>1 DEF Open, AfterReplay, Rows
  <2> QED
    BY <1>1, <2>1 DEF Open, Reinstalled, Replayed
<1>2. CASE Close
  BY <1>2 DEF Close, Closed
<1>3. ASSUME NEW o \in Operations, NEW member \in BOOLEAN, Plan(o, member) PROVE MemoryInv'
  BY <1>3 DEF Plan, Rows, NewOp
<1>4. ASSUME NEW o \in Operations, Prove(o) PROVE MemoryInv'
  <2>1. PICK c \in Coins : op' = [op EXCEPT ![o].state = "proof_ready", ![o].coin = c]
    BY <1>4 DEF Prove
  <2>2. op' = [op EXCEPT ![o] = [op[o] EXCEPT !.state = "proof_ready", !.coin = c]]
    BY <2>1
  <2>3. op'[o].state = "proof_ready" /\ op'[o].coin = c
    BY <2>2 DEF Rows
  <2>4. \A x \in Operations : x # o => op'[x] = op[x]
    BY <2>2
  <2> QED
    BY <1>4, <2>3, <2>4 DEF Prove
<1>5. ASSUME NEW o \in Operations, Acknowledge(o) PROVE MemoryInv'
  BY <1>5 DEF Acknowledge, Rows
<1>6. ASSUME NEW o \in Operations, Sign(o) PROVE MemoryInv'
  BY <1>6 DEF Sign, Rows
<1>7. ASSUME NEW o \in Operations, Observe(o) PROVE MemoryInv'
  BY <1>7 DEF Observe, Rows
<1>8. ASSUME NEW o \in Operations, Settle(o) PROVE MemoryInv'
  BY <1>8 DEF Settle, Rows
<1>9. ASSUME NEW o \in Operations, CancelOperation(o) PROVE MemoryInv'
  BY <1>9 DEF CancelOperation, Cancellable, Rows
<1>10. CASE CancelSendBatch
  BY <1>10 DEF CancelSendBatch, Cancellable, Rows
<1>11. ASSUME NEW p \in released, Mine(p) PROVE MemoryInv'
  BY <1>11 DEF Mine
<1>12. CASE Export
  BY <1>12 DEF Export
<1>13. ASSUME NEW v \in BOOLEAN, SetBackupState(v) PROVE MemoryInv'
  BY <1>13 DEF SetBackupState
<1>14. ASSUME NEW cut \in BOOLEAN, RestoreCheckpoint(cut) PROVE MemoryInv'
  <2>1. CASE cut
    BY <1>14, <2>1 DEF RestoreCheckpoint, Closed
  <2>2. CASE ~cut
    BY <1>14, <2>2 DEF RestoreCheckpoint, Reinstalled, Processes
  <2> QED
    BY <2>1, <2>2
<1>15. CASE RebindTestDevice
  BY <1>15 DEF RebindTestDevice, Processes
<1>16. CASE LoseDatabase
  BY <1>16 DEF LoseDatabase, NewOp, Closed, Mishap
<1>17. ASSUME NEW k \in Keys \cup {None}, ChangeKey(k) PROVE MemoryInv'
  BY <1>17 DEF ChangeKey, Mishap
<1>18. CASE UNCHANGED vars
  BY <1>18 DEF vars
<1> QED
  BY <1>1, <1>2, <1>3, <1>4, <1>5, <1>6, <1>7, <1>8, <1>9,
     <1>10, <1>11, <1>12, <1>13, <1>14, <1>15, <1>16, <1>17, <1>18 DEF Next

\* The coins that a proof may take are held by no other operation that was proved before a
\* restore, and a checkpoint carries what the database holds.
LEMMA CoinStep == Inv /\ [Next]_vars => CoinInv'
<1> SUFFICES ASSUME Inv, [Next]_vars PROVE CoinInv'
  OBVIOUS
<1>0. ASSUME UNCHANGED <<op, late, backup>> PROVE CoinInv'
  <2>1. CoinInv
    BY DEF Inv
  <2> QED
    BY <1>0, <2>1 DEF CoinInv, Exclusive
<1> USE CheckpointAssumption DEF Inv, TypeOK, CoinInv, Exclusive, OperationRows, durable, memory,
        history, Holding
<1>1. ASSUME NEW e \in Expected, NEW flag \in BOOLEAN,
             flag => backup # None /\ backup.binding # None, Open(e, flag) PROVE CoinInv'
  <2>1. \A x \in Operations : op'[x].state \in Holding => op'[x] = op[x]
    BY <1>1 DEF Open, AfterReplay, Rows
  <2>2. late' = late /\ backup' = backup
    BY <1>1 DEF Open
  <2>3. Exclusive(op) /\ (backup # None => Exclusive(backup.op))
    OBVIOUS
  <2> HIDE DEF Inv, TypeOK, CoinInv, Exclusive
  <2>4. Exclusive(op)'
    BY <2>1, <2>2, <2>3 DEF Exclusive
  <2>5. (backup # None => Exclusive(backup.op))'
    BY <2>2, <2>3 DEF Exclusive
  <2> QED
    BY <2>4, <2>5 DEF CoinInv
<1>2. CASE Close
  <2> HIDE DEF Inv, TypeOK, CoinInv
  <2> QED
    BY <1>0, <1>2 DEF Close
<1>3. ASSUME NEW o \in Operations, NEW member \in BOOLEAN, Plan(o, member) PROVE CoinInv'
  BY <1>3 DEF Plan, Rows, NewOp
<1>4. ASSUME NEW o \in Operations, Prove(o) PROVE CoinInv'
  <2>1. PICK c \in Coins \ (spent \cup {op[x].coin : x \in pending} \cup MinedCoins) :
          op' = [op EXCEPT ![o].state = "proof_ready", ![o].coin = c]
    BY <1>4 DEF Prove
  <2>2. op' = [op EXCEPT ![o] = [op[o] EXCEPT !.state = "proof_ready", !.coin = c]]
    BY <2>1
  <2>3. op'[o].coin = c
    BY <2>2 DEF Rows
  <2>4. \A x \in Operations : x # o => op'[x] = op[x]
    BY <2>2
  <2>5. late \subseteq late' /\ (process.restored => o \in late')
    BY <1>4 DEF Prove
  <2>6. ~process.restored => \A x \in Operations : op[x].state \in Holding => op[x].coin # c
    BY <1>4, <2>1 DEF Prove, WriteEnabled, MemoryInv
  <2> QED
    BY <1>4, <2>3, <2>4, <2>5, <2>6 DEF Prove
<1>5. ASSUME NEW o \in Operations, Acknowledge(o) PROVE CoinInv'
  BY <1>5 DEF Acknowledge, Rows
<1>6. ASSUME NEW o \in Operations, Sign(o) PROVE CoinInv'
  BY <1>6 DEF Sign, Rows
<1>7. ASSUME NEW o \in Operations, Observe(o) PROVE CoinInv'
  BY <1>7 DEF Observe, Rows
<1>8. ASSUME NEW o \in Operations, Settle(o) PROVE CoinInv'
  BY <1>8 DEF Settle, Rows
<1>9. ASSUME NEW o \in Operations, CancelOperation(o) PROVE CoinInv'
  BY <1>9 DEF CancelOperation, Cancellable, Rows
<1>10. CASE CancelSendBatch
  BY <1>10 DEF CancelSendBatch, Cancellable, Rows
<1>11. ASSUME NEW p \in released, Mine(p) PROVE CoinInv'
  <2> HIDE DEF Inv, TypeOK, CoinInv
  <2> QED
    BY <1>0, <1>11 DEF Mine
<1>12. CASE Export
  <2>0. NewOp.state = "none"
    BY DEF NewOp
  <2>1. \A x \in Operations : Checkpoint.op[x].state \in Holding =>
          op[x].state = Checkpoint.op[x].state /\ op[x].coin = Checkpoint.op[x].coin
    BY <2>0, ExportedRow
  <2>2. op' = op /\ late' = late /\ backup' = Checkpoint
    BY <1>12 DEF Export
  <2>3. ASSUME NEW o1 \in Operations \ late, NEW o2 \in Operations \ late, o1 # o2,
               Checkpoint.op[o1].state \in Holding, Checkpoint.op[o2].state \in Holding
        PROVE  Checkpoint.op[o1].coin # Checkpoint.op[o2].coin
    BY <2>1, <2>3
  <2>4. Exclusive(op)
    OBVIOUS
  <2> HIDE DEF Inv, TypeOK, CoinInv
  <2>5. Exclusive(op)'
    BY <2>2, <2>4
  <2>6. Exclusive(backup.op)'
    BY <2>2, <2>3
  <2> QED
    BY <2>5, <2>6 DEF CoinInv
<1>13. ASSUME NEW v \in BOOLEAN, SetBackupState(v) PROVE CoinInv'
  <2> HIDE DEF Inv, TypeOK, CoinInv
  <2> QED
    BY <1>0, <1>13 DEF SetBackupState
<1>14. ASSUME NEW cut \in BOOLEAN, RestoreCheckpoint(cut) PROVE CoinInv'
  BY <1>14 DEF RestoreCheckpoint, Imported
<1>15. CASE RebindTestDevice
  <2> HIDE DEF Inv, TypeOK, CoinInv
  <2> QED
    BY <1>0, <1>15 DEF RebindTestDevice
<1>16. CASE LoseDatabase
  BY <1>16 DEF LoseDatabase, NewOp, Mishap
<1>17. ASSUME NEW k \in Keys \cup {None}, ChangeKey(k) PROVE CoinInv'
  <2> HIDE DEF Inv, TypeOK, CoinInv
  <2> QED
    BY <1>0, <1>17 DEF ChangeKey
<1>18. CASE UNCHANGED vars
  <2> HIDE DEF Inv, TypeOK, CoinInv
  <2> QED
    BY <1>0, <1>18 DEF vars
<1> QED
  BY <1>1, <1>2, <1>3, <1>4, <1>5, <1>6, <1>7, <1>8, <1>9,
     <1>10, <1>11, <1>12, <1>13, <1>14, <1>15, <1>16, <1>17, <1>18 DEF Next

-----------------------------------------------------------------------------
(* The theorems.                                                           *)

\* The conjunction of the parts is inductive.
LEMMA Invariance == Spec => []Inv
<1>1. Inv /\ [Next]_vars => Inv'
  BY TypeStep, KeyStep, StoreStep, MemoryStep, CoinStep DEF Inv, KeyInv, StoreInv
<1> QED
  BY InvInit, <1>1, PTL DEF Spec

\* The database, the memory, the backup and the history stay well typed.
THEOREM CheckpointTypeCorrect == Spec => []TypeOK
<1>1. Inv => TypeOK
  BY DEF Inv
<1> QED
  BY Invariance, <1>1, PTL

\* Whatever databases and keys are lost, a process writes only under the key that its database
\* was first opened with, that the host then named, or that a rebind put there.
\* (open_device_bound, rebind_test_device)
THEOREM WritesAreDeviceBound == Spec => []DeviceBound
<1>1. Inv => DeviceBound
  BY DEF Inv, ProcessInv, BindingInv, DeviceBound
<1> QED
  BY Invariance, <1>1, PTL

\* While writes are enabled the last completed backup names the key in force.
\* (base_write_block_reason, rebind_test_device, restore_checkpoint)
THEOREM ArmedWritesAreBackedUp == Spec => []ArmedIsBackedUp
<1>1. Inv => ArmedIsBackedUp
  BY DEF Inv, ProcessInv, VerifiedInv, ArmedIsBackedUp, WriteEnabled
<1> QED
  BY Invariance, <1>1, PTL

\* Every signature that a database released is for a coin that the backup reserves for the same
\* operation, so a restore does not offer the coin again. (operation_sign, checkpoint)
THEOREM SignaturesAreInBackup == Spec => []SignedInBackup
<1>1. Inv => SignedInBackup
  BY DEF Inv, BackedUp, SignedInBackup, Holding
<1> QED
  BY Invariance, <1>1, PTL

\* Signed operations of one database spend different coins, but for the ones that the restoring
\* process itself proved. (restore_finalized_operations, restore_pending_operations)
THEOREM CoinsAreExclusive == Spec => []CoinExclusive
<1>1. Inv => CoinExclusive
  BY DEF Inv, CoinInv, Exclusive, CoinExclusive, Holding
<1> QED
  BY Invariance, <1>1, PTL

\* A valid checkpoint that was exported is what its import exports again.
LEMMA ImportExports ==
    ASSUME Inv, backup # None, Valid(backup)
    PROVE  CheckpointOf(backup.holds, backup.op, backup.batch, backup.binding) = backup
<1> USE DEF Inv, TypeOK, BackupInv
<1>1. backup \in Checkpoints
  OBVIOUS
<1>2. ExportedOperations(backup.op) = backup.op
  <2>1. ASSUME NEW o \in Operations
        PROVE  [backup.op[o] EXCEPT !.acked = FALSE] = backup.op[o]
    <3>1. backup.op[o] \in Rows /\ backup.op[o].acked = FALSE
      BY <1>1 DEF Checkpoints, OperationRows, Rows
    <3> QED
      BY <3>1 DEF Rows
  <2> QED
    BY <1>1, <2>1 DEF ExportedOperations, Checkpoints, OperationRows
<1>3. ExportedMembers(backup.op, backup.batch) = backup.members
  BY <1>1 DEF ExportedMembers, Checkpoints, Valid
<1>4. backup.batch \in {"none", "open"}
  BY <1>1 DEF Checkpoints
<1>5. backup = [binding |-> backup.binding, holds |-> backup.holds, op |-> backup.op,
                batch |-> backup.batch, members |-> backup.members]
  BY <1>1 DEF Checkpoints
<1> QED
  BY <1>2, <1>3, <1>4, <1>5 DEF CheckpointOf

\* What a restore imports exports again as the checkpoint it came from: the normal form that
\* rebind_test_device compares with is the backup. (restore_checkpoint, checkpoint)
THEOREM RestoresReproduce == Spec => RestoreReproduces
<1> DEFINE Reproduces == ~db.source /\ db'.source
                            => CheckpointOf(db'.holds, op', batch', backup.binding) = backup
<1>1. ASSUME Inv, Next PROVE Reproduces
  <2> USE <1>1 DEF Inv, TypeOK, Databases, durable, memory, history
  <2>1. ASSUME NEW cut \in BOOLEAN, RestoreCheckpoint(cut) PROVE Reproduces
    <3>1. db'.holds = backup.holds /\ op' = backup.op /\ batch' = backup.batch
      BY <2>1 DEF RestoreCheckpoint, Imported, ImportedBatch
    <3>2. CheckpointOf(backup.holds, backup.op, backup.batch, backup.binding) = backup
      BY <2>1, ImportExports DEF RestoreCheckpoint
    <3> QED
      BY <3>1, <3>2
  <2>2. ASSUME ~ \E cut \in BOOLEAN : RestoreCheckpoint(cut) PROVE ~db.source => ~db'.source
    <3>1. ASSUME NEW e \in Expected, NEW flag \in BOOLEAN, Open(e, flag)
          PROVE db'.source = db.source
      BY <3>1 DEF Open, BindDevice
    <3>2. ASSUME NEW v \in BOOLEAN, SetBackupState(v) PROVE db'.source = db.source
      BY <3>2 DEF SetBackupState
    <3>3. CASE RebindTestDevice
      BY <3>3 DEF RebindTestDevice
    <3>4. CASE LoseDatabase
      BY <3>4 DEF LoseDatabase, NewDb
    <3>5. CASE \E o \in Operations :
                 \/ \E member \in BOOLEAN : Plan(o, member)
                 \/ Prove(o) \/ Acknowledge(o) \/ Sign(o) \/ Observe(o) \/ Settle(o) \/ CancelOperation(o)
      BY <3>5 DEF Plan, Prove, Acknowledge, Sign, Observe, Settle, CancelOperation
    <3>6. CASE Close \/ CancelSendBatch \/ Export
      BY <3>6 DEF Close, CancelSendBatch, Export
    <3>7. CASE (\E p \in released : Mine(p)) \/ (\E k \in Keys \cup {None} : ChangeKey(k))
      BY <3>7 DEF Mine, ChangeKey
    <3> QED
      BY <2>2, <3>1, <3>2, <3>3, <3>4, <3>5, <3>6, <3>7 DEF Next
  <2> QED
    BY <2>1, <2>2
<1>2. Inv /\ [Next]_vars => [Reproduces]_vars
  BY <1>1
<1> QED
  BY Invariance, <1>2, PTL DEF Spec, RestoreReproduces
=============================================================================
