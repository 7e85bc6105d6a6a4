------------------------------ MODULE Checkpoint ------------------------------
(***************************************************************************)
(* Secure Backup checkpoints of the account wallet (opencsv-ffi::account): *)
(* opening a database under a device binding, exporting a checkpoint,      *)
(* restoring it into a clean database after the device or its database is  *)
(* lost, rebinding a test device, and what the gate for writes and the     *)
(* replay at open make of it.                                              *)
(*                                                                         *)
(* The network is signet: the confirmed-spend preflight is on and there is *)
(* no production registry.  A checkpoint hash is the checkpoint itself.    *)
(* The life of an operation is cut down to the states that a checkpoint    *)
(* and a replay tell apart; TransferOperation has it in full.  All coins   *)
(* of the account were received before the first backup.                   *)
(*                                                                         *)
(* The host keeps one backup, the last one completed, restores it before   *)
(* it uses a new database, and names its binding when it opens one.        *)
(***************************************************************************)
EXTENDS Naturals

CONSTANTS
    Operations,   \* operation ids, created in this order
    Coins,        \* OpenCSV coins of the account
    Keys,         \* device binding keys, and their commitments
    None,
    MaxMishaps    \* bound: databases and keys that are lost

Signed == {"signed_persisted", "mempool", "confirmed"}
Finalized == {"mempool", "confirmed"}

VARIABLES
    db,        \* opencsv_account_meta
    op,        \* opencsv_operations
    batch,     \* the send batch that some of them belong to: "none", "open" or "cancelled"
    process,   \* memory: the open account, its commitment and whether it is valid
    spent,     \* memory: coins that the protocol wallet takes for spent
    pending,   \* memory: operations in pending_by_operation
    key,       \* the key in this device's keychain
    backup,    \* the last completed Secure Backup
    used,      \* operation ids that were ever taken
    released,  \* operations whose signature was released, with their coins
    mined,     \* of these, the ones in the verified chain
    late,      \* operations proved by a process that restored a checkpoint
    mishaps

durable == <<db, op, batch>>
memory == <<process, spent, pending>>
history == <<used, released, late>>
vars == <<durable, memory, key, backup, history, mined, mishaps>>

\* claim is the commitment that the database was first opened with.
\* source: a checkpoint was imported, after which a restore of it changes nothing and one
\* of another is refused.
NewDb == [exists |-> FALSE, holds |-> FALSE, binding |-> None, claim |-> None, missing |-> FALSE,
          verified |-> FALSE, source |-> FALSE, normal |-> None, rebound |-> None]
NewOp == [state |-> "none", coin |-> None, acked |-> FALSE, member |-> FALSE]
Closed == [open |-> FALSE, commitment |-> None, valid |-> FALSE, restored |-> FALSE]

\* checkpoint() exports every operation but the cancelled ones, the acknowledgement blanked,
\* and the members of a batch that is not cancelled, whatever has become of them.
ExportedOperations(ops) ==
    [o \in Operations |->
        IF ops[o].state = "cancelled" THEN NewOp ELSE [ops[o] EXCEPT !.acked = FALSE]]
ExportedMembers(ops, b) == IF b = "open" THEN {o \in Operations : ops[o].member} ELSE {}

CheckpointOf(holds, ops, b, commitment) ==
    [binding |-> commitment,
     holds |-> holds,
     op |-> ExportedOperations(ops),
     batch |-> IF b = "cancelled" THEN "none" ELSE b,
     members |-> ExportedMembers(ops, b)]

Checkpoint == CheckpointOf(db.holds, op, batch, process.commitment)

\* base_write_block_reason; on signet nothing else blocks a write.
WriteEnabled == process.open /\ process.valid /\ db.verified

Rows == [state : {"none", "planned", "proof_ready", "cancelled", "protocol_rejected"} \cup Signed,
         coin : Coins \cup {None}, acked : BOOLEAN, member : BOOLEAN]
OperationRows == [Operations -> Rows]
Checkpoints == [binding : Keys \cup {None}, holds : BOOLEAN, op : OperationRows,
                batch : {"none", "open"}, members : SUBSET Operations]
Databases == [exists : BOOLEAN, holds : BOOLEAN, binding : Keys \cup {None},
              claim : Keys \cup {None}, missing : BOOLEAN, verified : BOOLEAN, source : BOOLEAN,
              normal : Checkpoints \cup {None}, rebound : Keys \cup {None}]
Processes == [open : BOOLEAN, commitment : Keys \cup {None}, valid : BOOLEAN, restored : BOOLEAN]

ASSUME CheckpointAssumption ==
    /\ Operations \subseteq Nat
    /\ None \notin Coins \cup Keys
    /\ None \notin Checkpoints

TypeOK ==
    /\ db \in Databases
    /\ op \in OperationRows
    /\ backup \in Checkpoints \cup {None}
    /\ batch \in {"none", "open", "cancelled"}
    /\ process \in Processes
    /\ spent \subseteq Coins
    /\ pending \subseteq Operations
    /\ key \in Keys \cup {None}
    /\ used \subseteq Operations /\ late \subseteq Operations
    /\ released \subseteq Operations \X Coins
    /\ mined \subseteq released
    /\ mishaps \in Nat

Init ==
    /\ key \in Keys \cup {None}
    /\ db = [NewDb EXCEPT !.holds = TRUE]
    /\ process = Closed
    /\ op = [o \in Operations |-> NewOp]
    /\ batch = "none"
    /\ spent = {}
    /\ pending = {}
    /\ backup = None
    /\ used = {}
    /\ released = {}
    /\ late = {}
    /\ mined = {}
    /\ mishaps = 0

-----------------------------------------------------------------------------
(* Opening.                                                                *)

\* Mutant: a key that appears later is taken although an open had none.
AuthoritativeForgetful(expected) ==
    IF db.binding # None THEN db.binding
    ELSE IF expected # None THEN expected
    ELSE key

\* The stored commitment, else the one that the host expects, else this device's own,
\* unless the database was once opened without a key.
Authoritative(expected) ==
    IF db.binding # None THEN db.binding
    ELSE IF expected # None THEN expected
    ELSE IF db.missing THEN None ELSE key

\* restore_finalized_operations: of two finalized operations with one coin the later is
\* rejected when it is unconfirmed and the earlier confirmed; otherwise the open fails.
Conflicts == {p \in Operations \X Operations :
                /\ p[1] < p[2]
                /\ op[p[1]].state \in Finalized /\ op[p[2]].state \in Finalized
                /\ op[p[1]].coin = op[p[2]].coin}
Quarantined == {p[2] : p \in Conflicts}
Replayed == {op[o].coin : o \in {x \in Operations : op[x].state \in Finalized}}
AfterReplay == [o \in Operations |-> IF o \in Quarantined
                                     THEN [op[o] EXCEPT !.state = "protocol_rejected"] ELSE op[o]]
ReplaySucceeds ==
    \A p \in Conflicts :
        p[1] \notin Quarantined => op[p[1]].state = "confirmed" /\ op[p[2]].state = "mempool"

\* The device-binding part of open_device_bound; a quarantine clears backup_verified.
BindDevice(expected, flag) ==
    /\ db.binding # None /\ expected # None => db.binding = expected
    /\ db' = [db EXCEPT !.exists = TRUE,
                        !.verified = IF db.exists THEN @ /\ Quarantined = {} ELSE flag,
                        !.missing = @ \/ key = None,
                        !.binding = Authoritative(expected),
                        !.claim = IF db.exists /\ @ # None THEN @
                                  ELSE IF expected # None THEN expected
                                  ELSE IF db.exists THEN @ ELSE key]
    /\ process' = [open |-> TRUE, commitment |-> Authoritative(expected), restored |-> FALSE,
                   valid |-> key # None /\ key = Authoritative(expected)]

\* Mutant: only proofs that wait for their signature are reinstalled.
ReinstalledUnsigned(ops) == {o \in Operations : ops[o].state = "proof_ready"}

\* restore_pending_operations
Reinstalled(ops) == {o \in Operations : ops[o].state \in {"proof_ready", "signed_persisted"}}

Open(expected, flag) ==
    /\ ~process.open
    /\ ReplaySucceeds
    /\ BindDevice(expected, flag)
    /\ op' = AfterReplay
    /\ spent' = Replayed
    /\ pending' = Reinstalled(op)
    /\ UNCHANGED <<batch, key, backup, history, mined, mishaps>>

Close ==
    /\ process.open
    /\ process' = Closed /\ spent' = {} /\ pending' = {}
    /\ UNCHANGED <<durable, key, backup, history, mined, mishaps>>

-----------------------------------------------------------------------------
(* Operations, as far as a checkpoint tells their states apart.            *)

MinedCoins == {p[2] : p \in mined}

Plan(o, member) ==
    /\ WriteEnabled
    /\ \A x \in Operations : x \in used <=> x < o
    /\ member => batch \in {"none", "open"}
    /\ batch' = IF member THEN "open" ELSE batch
    /\ op' = [op EXCEPT ![o] = [NewOp EXCEPT !.state = "planned", !.member = member]]
    /\ used' = used \cup {o}
    /\ UNCHANGED <<db, memory, key, backup, released, late, mined, mishaps>>

\* AccountProofJob::run drops the coins that the verified chain shows as spent.
Prove(o) ==
    /\ WriteEnabled
    /\ op[o].state = "planned"
    /\ db.holds
    /\ \E c \in Coins \ (spent \cup {op[x].coin : x \in pending} \cup MinedCoins) :
        op' = [op EXCEPT ![o].state = "proof_ready", ![o].coin = c]
    /\ pending' = pending \cup {o}
    /\ late' = IF process.restored THEN late \cup {o} ELSE late
    /\ UNCHANGED <<db, batch, process, spent, key, backup, used, released, mined, mishaps>>

\* acknowledge_operation_backup: the host has stored the checkpoint that holds this proof.
Acknowledge(o) ==
    /\ process.open
    /\ op[o].state = "proof_ready"
    /\ backup # None /\ backup.op[o].state = "proof_ready" /\ backup.op[o].coin = op[o].coin
    /\ op' = [op EXCEPT ![o].acked = TRUE]
    /\ UNCHANGED <<db, batch, memory, key, backup, history, mined, mishaps>>

\* Mutant: the signature does not wait for the backup.
SignUnacknowledged(o) ==
    /\ WriteEnabled
    /\ op[o].state = "proof_ready" /\ o \in pending
    /\ op[o].coin \notin MinedCoins
    /\ op' = [op EXCEPT ![o].state = "signed_persisted"]
    /\ released' = released \cup {<<o, op[o].coin>>}
    /\ UNCHANGED <<db, batch, memory, key, backup, used, late, mined, mishaps>>

\* sign and broadcast, after verify_protocol_inputs_unspent
Sign(o) ==
    /\ WriteEnabled
    /\ op[o].state = "proof_ready" /\ op[o].acked /\ o \in pending
    /\ op[o].coin \notin MinedCoins
    /\ op' = [op EXCEPT ![o].state = "signed_persisted"]
    /\ released' = released \cup {<<o, op[o].coin>>}
    /\ UNCHANGED <<db, batch, memory, key, backup, used, late, mined, mishaps>>

Observe(o) ==
    /\ process.open
    /\ op[o].state = "signed_persisted"
    /\ <<o, op[o].coin>> \in released
    /\ op' = [op EXCEPT ![o].state = "mempool"]
    /\ spent' = spent \cup {op[o].coin}
    /\ pending' = pending \ {o}
    /\ UNCHANGED <<db, batch, process, key, backup, history, mined, mishaps>>

Settle(o) ==
    /\ process.open
    /\ op[o].state = "mempool"
    /\ <<o, op[o].coin>> \in mined
    /\ op' = [op EXCEPT ![o].state = "confirmed"]
    /\ UNCHANGED <<db, batch, memory, key, backup, history, mined, mishaps>>

Cancellable(o) == op[o].state \in {"planned", "proof_ready"}

\* cancel_operation looks at the operation only, not at the batch it is a member of.
CancelOperation(o) ==
    /\ process.open
    /\ Cancellable(o)
    /\ op' = [op EXCEPT ![o].state = "cancelled"]
    /\ pending' = pending \ {o}
    /\ UNCHANGED <<db, batch, process, spent, key, backup, history, mined, mishaps>>

CancelSendBatch ==
    /\ process.open
    /\ batch = "open"
    /\ \A o \in Operations : op[o].member => Cancellable(o)
    /\ batch' = "cancelled"
    /\ op' = [o \in Operations |-> IF op[o].member THEN [op[o] EXCEPT !.state = "cancelled"] ELSE op[o]]
    /\ pending' = {o \in pending : ~op[o].member}
    /\ UNCHANGED <<db, process, spent, key, backup, history, mined, mishaps>>

Mine(p) ==
    /\ p \in released \ mined
    /\ mined' = mined \cup {p}
    /\ UNCHANGED <<durable, memory, key, backup, history, mishaps>>

-----------------------------------------------------------------------------
(* Export, restore, rebind.                                                *)

Export ==
    /\ process.open
    /\ db.holds
    /\ backup' = Checkpoint
    /\ UNCHANGED <<durable, memory, key, history, mined, mishaps>>

\* set_backup_state.  The host reports a backup that names the binding in force.
SetBackupState(verified) ==
    /\ process.open
    /\ verified => backup # None /\ backup.binding = process.commitment
    /\ db' = [db EXCEPT !.verified = verified]
    /\ UNCHANGED <<op, batch, memory, key, backup, history, mined, mishaps>>

\* The checkpoint is of this account and deployment and names the binding in force.
NamesThisAccount(c) == c.binding = process.commitment

\* The validation of restore_checkpoint: batch members name operations of the checkpoint.
Valid(c) == \A o \in c.members : c.op[o].state # "none"

\* Only a database that holds nothing yet.
Clean == ~db.holds /\ batch = "none" /\ \A o \in Operations : op[o].state = "none"

\* The operations that the import transaction inserts, with their own states.
Imported(c) == c.op

ImportedBatch(c) == c.batch

\* restore_consignment_state skips the consignments of the account's own operations.
RestoredSpends == {}

\* restore_checkpoint.  cut says whether the process ends after the commit and before
\* restored_checkpoint_hash is written.  restore_finalized_operations is not called, so
\* no coin of theirs is spent for this process.
RestoreCheckpoint(cut) ==
    /\ process.open
    /\ backup # None
    /\ NamesThisAccount(backup)
    /\ ~db.source
    /\ Clean
    /\ Valid(backup)
    /\ op' = Imported(backup)
    /\ batch' = ImportedBatch(backup)
    /\ db' = [db EXCEPT !.holds = backup.holds, !.verified = TRUE, !.source = TRUE,
                        !.normal = IF cut THEN None
                                   ELSE CheckpointOf(backup.holds, op', batch', process.commitment)]
    /\ IF cut
       THEN process' = Closed /\ pending' = {}
       ELSE process' = [process EXCEPT !.restored = TRUE] /\ pending' = Reinstalled(op')
    /\ spent' = RestoredSpends
    /\ UNCHANGED <<key, backup, history, mined, mishaps>>

RebindGuards ==
    /\ process.open
    /\ key # None
    /\ db.rebound = None
    /\ ~WriteEnabled
    /\ db.normal = Checkpoint
    /\ process.commitment # None
    /\ ~process.valid

\* rebind_test_device.  A repeated call for the same key changes nothing.
RebindTestDevice ==
    /\ RebindGuards
    /\ db' = [db EXCEPT !.rebound = key, !.binding = key, !.missing = FALSE, !.verified = FALSE]
    /\ process' = [process EXCEPT !.commitment = key, !.valid = TRUE]
    /\ UNCHANGED <<op, batch, spent, pending, key, backup, history, mined, mishaps>>

-----------------------------------------------------------------------------
(* What happens to the device.                                             *)

Mishap == mishaps < MaxMishaps /\ mishaps' = mishaps + 1

LoseDatabase ==
    /\ Mishap
    /\ db' = NewDb /\ op' = [o \in Operations |-> NewOp] /\ batch' = "none"
    /\ process' = Closed /\ spent' = {} /\ pending' = {}
    /\ UNCHANGED <<key, backup, history, mined>>

\* Another device, or a keychain that was reset: the key is gone or another one.
ChangeKey(k) ==
    /\ Mishap
    /\ ~process.open
    /\ k # key
    /\ key' = k
    /\ UNCHANGED <<durable, memory, backup, history, mined>>

\* On a clean database the host names the commitment of the backup, if there is one.
Expected ==
    IF backup = None THEN {None}
    ELSE IF db.exists THEN {None, backup.binding} ELSE {backup.binding}

Next ==
    \/ \E e \in Expected, flag \in BOOLEAN : (flag => backup # None /\ backup.binding # None) /\ Open(e, flag)
    \/ Close
    \/ \E o \in Operations :
        \/ \E member \in BOOLEAN : Plan(o, member)
        \/ Prove(o) \/ Acknowledge(o) \/ Sign(o) \/ Observe(o) \/ Settle(o) \/ CancelOperation(o)
    \/ CancelSendBatch
    \/ \E p \in released : Mine(p)
    \/ Export
    \/ \E v \in BOOLEAN : SetBackupState(v)
    \/ \E cut \in BOOLEAN : RestoreCheckpoint(cut)
    \/ RebindTestDevice
    \/ LoseDatabase
    \/ \E k \in Keys \cup {None} : ChangeKey(k)

Spec == Init /\ [][Next]_vars

-----------------------------------------------------------------------------
(* Properties.                                                             *)

\* A process may write only under the key that its database was first opened with, under
\* the commitment that the host then named, or under the one that a rebind put there: a
\* database that was once opened without a key takes no key that turns up later.
\* (open_device_bound, rebind_test_device)
DeviceBound == process.valid => key # None /\ key \in {db.claim, db.rebound} /\ db.binding = key

\* While writes are enabled the backup names the key in force, so the loss of the database
\* leaves a backup that the same device may restore and write from: a rebind freezes writes
\* until the host has stored the new checkpoint. (rebind_test_device, restore_checkpoint)
ArmedIsBackedUp == WriteEnabled => backup # None /\ backup.binding = key

\* Every operation of the database that has released a signature is in the backup with its
\* coin, in a state that keeps the coin reserved after a restore, whatever operations were
\* cancelled, restored or exported in between. (operation_sign, checkpoint, restore_checkpoint)
SignedInBackup ==
    \A o \in Operations :
        op[o].state \in Signed =>
            /\ backup # None
            /\ backup.op[o].coin = op[o].coin
            /\ backup.op[o].state \in {"proof_ready"} \cup Signed

\* Two signed operations of one database spend one coin only if the later was proved by a
\* process that had restored a checkpoint itself: the replay at open and the reservations
\* in the checkpoint keep the coin of every other operation. (restore_finalized_operations,
\* restore_pending_operations, restore_checkpoint)
CoinExclusive ==
    \A o1, o2 \in Operations \ late :
        o1 # o2 /\ op[o1].state \in Signed /\ op[o2].state \in Signed => op[o1].coin # op[o2].coin

\* What a restore imports exports again as the checkpoint it came from, byte for byte.
\* (restore_checkpoint, checkpoint)
RestoreReproduces ==
    [][~db.source /\ db'.source
        => CheckpointOf(db'.holds, op', batch', backup.binding) = backup]_vars

-----------------------------------------------------------------------------
(* What documents or comments promise and the code does not keep; TLC       *)
(* refutes it on the instance of the module's run (README, Findings).       *)

\* The first process after a restore is as safe as every later reopen: a coin that a
\* finalized operation of the database spent is spent for the process as well.
\* (restore_checkpoint)
FinalizedSpent ==
    process.open => \A o \in Operations : op[o].state \in Finalized => op[o].coin \in spent

=============================================================================
