------------------------------- MODULE Issuance -------------------------------
(***************************************************************************)
(* Production issuance of the account wallet (opencsv-ffi::account and     *)
(* ::production_issuance): the registry release that a build carries and   *)
(* the floor that keeps an older one from writing, the issuance policy     *)
(* that a release commits, the mint authorizations that the authorities    *)
(* of a policy sign, the ledger that admits them in sequence, and the mint *)
(* operation of each, from its admission to its anchor in the chain.       *)
(*                                                                         *)
(* One issuer, one asset, one device that may lose its database and        *)
(* restores the last Secure Backup.  A commitment is the name of what it   *)
(* commits, a signature the number of the key that made it.  The network   *)
(* is mainnet.  RootAuthenticated stands for the gate that no shipped      *)
(* build opens: with FALSE the account only reads.                         *)
(*                                                                         *)
(* The authorities are honest: of the authorizations that their threshold  *)
(* signs and whose sum is right, no two have one sequence number.          *)
(***************************************************************************)
EXTENDS ProductionPolicy

CONSTANTS
    Release,            \* release name -> registry release
    Host,               \* release name, or None -> what the host of such a build configures
    Policy,             \* policy name -> issuance policy
    Authorization,      \* authorization id -> mint authorization
    Outpoints,
    Late,               \* outpoints whose funding the wallet does not see at first
    RootAuthenticated,
    MaxU64,             \* the largest amount
    MaxTime,            \* bound: the clock
    MaxMishaps          \* bound: crashes and lost databases

\* The commitments of the releases and of the policies, and the digests of the authorizations.
Releases == DOMAIN Release
Policies == DOMAIN Policy
Ids == DOMAIN Authorization

-----------------------------------------------------------------------------
(* Policies and authorizations.                                            *)

\* validate_production_issuance_policy
PolicyValid(p, version) ==
    /\ p.version = version
    /\ Cardinality(p.keys) >= 2
    /\ p.threshold >= 2 /\ p.threshold <= Cardinality(p.keys)
    /\ p.maxAmount > 0 /\ p.maxAmount <= p.maxSupply
    /\ p.from < p.until

\* The signatures are unique and sorted, each of a permitted key, and enough.
SignedBy(p, a) ==
    /\ Len(a.signatures) >= p.threshold
    /\ \A i, j \in DOMAIN a.signatures : i < j => a.signatures[i] < a.signatures[j]
    /\ ToSet(a.signatures) \subseteq p.keys

Total(a) == SumFunction(a.amounts)

\* Mutant: the additions wrap.
SupplyFitsWrapping(p, a) ==
    LET total == Total(a) % (MaxU64 + 1)
    IN  /\ total <= p.maxAmount
        /\ (a.before + total) % (MaxU64 + 1) = a.after
        /\ a.after <= p.maxSupply

\* Checked additions, the limit of one mint and the limit of all.
SupplyFits(p, a) ==
    /\ Total(a) <= MaxU64
    /\ Total(a) <= p.maxAmount
    /\ a.before + Total(a) <= MaxU64
    /\ a.before + Total(a) = a.after
    /\ a.after <= p.maxSupply

\* verify_production_mint_authorization at a given time, against the policy that a release
\* of this version commits for the asset
Verified(id, policy, version, time) ==
    LET a == Authorization[id]
        p == Policy[policy]
    IN  /\ PolicyValid(p, version)
        /\ a.policy = policy
        /\ Len(a.amounts) \in 1..2 /\ 0 \notin ToSet(a.amounts)
        /\ a.sequence # 0
        /\ SupplyFits(p, a)
        /\ a.notBefore >= p.from /\ a.expires <= p.until
        /\ a.notBefore < a.expires /\ a.expires - a.notBefore <= p.lifetime
        /\ a.notBefore <= time /\ time <= a.expires
        /\ SignedBy(p, a)

\* validate_production_issuance_policy_refs: only format 2 commits policies, and only of
\* assets that it admits.
RefsValid(r) == r.policy # None => r.format = 2 /\ r.issuers

\* validate_configured_production_issuance_policies: the host configures the policies that
\* the release commits.
PoliciesConfigured(r) == r.policy # None => r.policy \in Policies /\ PolicyValid(Policy[r.policy], r.version)

\* validate_production_usd_registry_release
ReleaseValid(r) ==
    /\ r.format \in {1, 2} /\ r.version # 0
    /\ RefsValid(r)
    /\ RolloutValid(r.rollout)
    /\ r.phase # "candidate" => r.issuers

\* A threshold of the authorities of its policy signed it, and its sum is right without overflow.
Authorized(id) ==
    /\ Authorization[id].policy \in Policies
    /\ Authorization[id].before + Total(Authorization[id]) = Authorization[id].after
    /\ SignedBy(Policy[Authorization[id].policy], Authorization[id])

\* The versions, sequence numbers, times and amounts are unsigned integers, None names nothing,
\* and the authorities are honest.
ASSUME IssuanceAssumption ==
    /\ None \notin Releases \cup Ids \cup Outpoints
    /\ \A r \in Releases : Release[r].version \in Nat
    /\ \A id \in Ids : /\ Authorization[id].sequence \in Nat
                       /\ Authorization[id].notBefore \in Nat /\ Authorization[id].expires \in Nat
                       /\ Authorization[id].amounts \in Seq(Nat)
    /\ \A id1, id2 \in Ids :
         /\ Authorized(id1) /\ Authorized(id2)
         /\ Authorization[id1].sequence = Authorization[id2].sequence
         => id1 = id2

-----------------------------------------------------------------------------
VARIABLES
    floor,       \* account meta production_usd_registry_floor: a release, or None
    verified,    \* account meta backup_verified
    instrument,  \* whether the manifest of the asset is stored
    ledger,      \* opencsv_production_issuance_authorizations, by sequence
    op,          \* opencsv_operations, by authorization id
    reserved,    \* opencsv_utxo_reservations: outpoint -> operation, or None
    clean,       \* the database is new and the last backup is not yet imported
    process,     \* memory: whether the account is open, its release and registry state
    backup,      \* the last completed Secure Backup, or None
    older,       \* one earlier backup that can still be restored, or None
    funded,      \* outpoints that are confirmed in the fee wallet's view
    network,     \* <<authorization, outpoint>> of the mint transactions that were relayed
    mined,       \* of these, the ones in the chain
    now,
    accepted,    \* releases that this database has taken for current
    released,    \* authorizations for which a transaction was ever signed
    behind,      \* whether the earlier backup was ever restored
    mishaps

database == <<floor, verified, instrument, ledger, op, reserved, clean>>
chain == <<funded, network, mined, now>>
history == <<accepted, released, behind>>
backups == <<backup, older>>
vars == <<database, process, backups, chain, history, mishaps>>

NoOperation == [state |-> "none", funding |-> None, acked |-> FALSE, stamp |-> None]
Closed == [open |-> FALSE, release |-> None, registry |-> "closed"]
SignedStates == {"signed_persisted", "broadcast_unobserved", "confirmed"}
States == {"none", "planned", "fee_reserved", "proof_ready", "cancelled"} \cup SignedStates

Rows == [Ids -> [state : States, funding : Outpoints \cup {None}, acked : BOOLEAN,
                 stamp : Releases \cup {None}]]

\* What a checkpoint holds.
Checkpoints == [floor : Releases \cup {None}, instrument : BOOLEAN, ledger : Seq(Ids), op : Rows]

ASSUME NoCheckpoint == None \notin Checkpoints

\* The types of the variables.
TypeOK ==
    /\ floor \in Releases \cup {None}
    /\ verified \in BOOLEAN /\ instrument \in BOOLEAN /\ clean \in BOOLEAN
    /\ op \in Rows
    /\ reserved \in [Outpoints -> Ids \cup {None}]
    /\ process.registry \in {"closed", "unconfigured", "current", "rollback", "conflict"}
    /\ process.open <=> process.registry # "closed"
    /\ backup = None \/ backup.op \in Rows
    /\ mined \subseteq network
    /\ network \subseteq Ids \X Outpoints
    /\ released \subseteq Ids

Init ==
    /\ floor = None
    /\ verified = FALSE
    /\ instrument = FALSE
    /\ ledger = <<>>
    /\ op = [id \in Ids |-> NoOperation]
    /\ reserved = [o \in Outpoints |-> None]
    /\ clean = FALSE
    /\ process = Closed
    /\ backup = None
    /\ older = None
    /\ funded = Outpoints \ Late
    /\ network = {}
    /\ mined = {}
    /\ now = 1
    /\ accepted = {}
    /\ released = {}
    /\ behind = FALSE
    /\ mishaps = 0

Mishap == mishaps < MaxMishaps /\ mishaps' = mishaps + 1

-----------------------------------------------------------------------------
(* The registry floor.                                                     *)

\* Mutant: only another release of the floor's own version is refused.
ReconcileAnyVersion(r, f) ==
    IF r = None THEN "unconfigured"
    ELSE IF f # None /\ Release[r].version = Release[f].version /\ r # f THEN "conflict"
    ELSE "current"

\* reconcile_production_usd_registry_floor: what the account makes of the release of this
\* build when the stored floor is f.
Reconcile(r, f) ==
    IF r = None THEN "unconfigured"
    ELSE IF f # None /\ Release[r].version < Release[f].version THEN "rollback"
    ELSE IF f # None /\ Release[r].version = Release[f].version /\ r # f THEN "conflict"
    ELSE "current"

\* The floor that it stores.
Raised(r, f) == IF Reconcile(r, f) = "current" THEN r ELSE f

\* open_device_bound checks the configuration before it touches the database.
ConfigAccepted(r) ==
    /\ ObservationValid(Host[r])
    /\ r # None => ReleaseValid(Release[r]) /\ PoliciesConfigured(Release[r])

\* AccountWallet::open with the release of the installed build, or with none
Open(r) ==
    /\ ~process.open
    /\ ConfigAccepted(r)
    /\ process' = [open |-> TRUE, release |-> r, registry |-> Reconcile(r, floor)]
    /\ floor' = Raised(r, floor)
    /\ accepted' = IF Reconcile(r, floor) = "current" THEN accepted \cup {r} ELSE accepted
    /\ UNCHANGED <<verified, instrument, ledger, op, reserved, clean, backups, chain, released, behind, mishaps>>

Close ==
    /\ process.open
    /\ process' = Closed
    /\ UNCHANGED <<database, backups, chain, history, mishaps>>

-----------------------------------------------------------------------------
(* The gates.                                                              *)

\* require_write_enabled
WriteEnabled == process.open /\ ~clean /\ verified

\* production_usd_configured
Configured == process.registry = "current" /\ Release[process.release].issuers

\* production_activation_write_ready
Activated == Release[process.release].phase \in {"limited", "general"}

\* require_product_write_enabled, which write_block_reason repeats for the host
ProductEnabled ==
    /\ WriteEnabled
    /\ process.registry \notin {"rollback", "conflict"}
    /\ Configured
    /\ Activated
    /\ RootAuthenticated
    /\ ObservationReady(Host[process.release])

\* require_issuance_write_enabled
IssuanceEnabled ==
    /\ process.release # None
    /\ Release[process.release].format = 2
    /\ Release[process.release].policy # None
    /\ ProductEnabled

\* validate_current_production_mint: the authorization names the release of this build, and
\* verifies under its policy at this moment.
Current(id) ==
    /\ Authorization[id].release = process.release
    /\ Verified(id, Release[process.release].policy, Release[process.release].version, now)

\* verify_production_issuance_ledger_entry: the row of the ledger is this authorization's own.
InLedger(id) ==
    /\ Authorization[id].sequence \in DOMAIN ledger
    /\ ledger[Authorization[id].sequence] = id

-----------------------------------------------------------------------------
(* Instruments and mints.                                                  *)

\* create_instrument: one transaction stores the asset and its manifest.
StoreInstrument == ~instrument /\ instrument' = TRUE

\* instrument_create: the definition is durable, then writes wait for its backup.
CreateInstrument ==
    /\ WriteEnabled
    /\ StoreInstrument
    /\ verified' = FALSE
    /\ UNCHANGED <<floor, ledger, op, reserved, clean, process, backups, chain, history, mishaps>>

\* The sequence and the supply continue the last row.
NextInLedger(a) ==
    /\ a.sequence = Len(ledger) + 1
    /\ a.before = IF ledger = <<>> THEN 0 ELSE Authorization[Last(ledger)].after

\* insert_production_mint_operation: one transaction takes the operation, under the id of its
\* authorization, and its row, unless the authorization was admitted before.
Admitted(id) ==
    /\ op[id].state = "none" /\ id \notin ToSet(ledger)
    /\ NextInLedger(Authorization[id])
    /\ ledger' = Append(ledger, id)

\* Mutant: the authorization does not fix the outpoint.
BoundToAny(id, o) == o \in Outpoints

\* production_mint_funding_outpoint: the one outpoint that the authorization names
BoundTo(id, o) == o = Authorization[id].outpoint

Available(o) == o \in funded /\ reserved[o] = None /\ \A t \in mined : t[2] # o

\* reserve_fee_utxo_matching
FreeOutpoints(id) == {o \in Outpoints : BoundTo(id, o) /\ Available(o)}

\* Without an outpoint the operation stays planned and can be retried; a failing verification
\* of the funding or a failing proof cancels it and releases the outpoint.
Ends(o, cut) ==
    IF o = None THEN {"planned"} ELSE IF cut THEN {"fee_reserved"} ELSE {"proof_ready", "cancelled"}

\* What the rest of a call leaves behind that found the outpoint o, or none.
Carried(id, o, cut) == \E end \in Ends(o, cut) :
    /\ op' = [op EXCEPT ![id] = [state |-> end, funding |-> o, acked |-> FALSE, stamp |-> None]]
    /\ reserved' = IF o = None THEN reserved
                   ELSE [reserved EXCEPT ![o] = IF end = "cancelled" THEN None ELSE id]

\* A cut call takes the process with it.
Cut(cut) == IF cut THEN Mishap /\ process' = Closed ELSE UNCHANGED <<mishaps, process>>

\* The outpoints a call may get to: None when it is not there, or when the call was cut before.
Reached(id, cut) == IF FreeOutpoints(id) = {} THEN {None} ELSE FreeOutpoints(id) \cup (IF cut THEN {None} ELSE {})

\* mint_prepare
MintPrepare(id, cut) ==
    /\ instrument /\ Admitted(id)
    /\ Current(id)
    /\ IssuanceEnabled
    /\ \E o \in Reached(id, cut) : Carried(id, o, cut)
    /\ Cut(cut)
    /\ UNCHANGED <<floor, verified, instrument, clean, backups, chain, history>>

\* reserved_funding_for_operation: the outpoint is locked and still unspent.
StillReserved(id) ==
    /\ reserved[op[id].funding] = id
    /\ \A t \in mined : t[2] # op[id].funding

\* resume_operation of an unsigned mint: the same gates, the row in the ledger, and the
\* outpoint of the authorization, free or already reserved.
ResumeUnsigned(id, cut) ==
    /\ op[id].state \in {"planned", "fee_reserved"} /\ InLedger(id)
    /\ IssuanceEnabled /\ Current(id)
    /\ \/ /\ op[id].state = "planned"
          /\ \E o \in Reached(id, cut) : Carried(id, o, cut)
       \/ /\ op[id].state = "fee_reserved"
          /\ StillReserved(id)
          /\ BoundTo(id, op[id].funding)
          /\ Carried(id, op[id].funding, cut)
    /\ Cut(cut)
    /\ UNCHANGED <<floor, verified, instrument, ledger, clean, backups, chain, history>>

\* acknowledge_operation_backup: the host has stored a checkpoint that holds this proof.
AcknowledgeOperation(id) ==
    /\ process.open
    /\ op[id].state = "proof_ready"
    /\ backup # None /\ backup.op[id].state = "proof_ready"
    /\ op' = [op EXCEPT ![id].acked = TRUE]
    /\ UNCHANGED <<floor, verified, instrument, ledger, reserved, clean, process, backups, chain,
                   history, mishaps>>

\* The fate of a relayed transaction: the peers took it, or nobody did.
Relayed(id, o, taken) == network' = IF taken THEN network \cup {<<id, o>>} ELSE network

\* stamp_production_rollout_authorization: the release under which the wallet signs
Stamp == process.release

\* sign_and_broadcast: the whole evidence once more, then the transaction is stored with the
\* authorization and the stamp of the release, and only then relayed.
SignAndBroadcast(id, taken, cut) ==
    LET o == op[id].funding
    IN  /\ op[id].state = "proof_ready" /\ op[id].acked
        /\ IssuanceEnabled
        /\ Current(id) /\ InLedger(id) /\ BoundTo(id, o)
        /\ StillReserved(id)
        /\ op' = [op EXCEPT ![id].stamp = Stamp,
                            ![id].state = IF cut THEN "signed_persisted" ELSE "broadcast_unobserved"]
        /\ taken => ~cut
        /\ Relayed(id, o, taken)
        /\ released' = released \cup {id}
        /\ Cut(cut)
        /\ UNCHANGED <<floor, verified, instrument, ledger, reserved, clean, backups, funded, mined, now,
                       accepted, behind>>

\* signed_fee_limit: the stamp is of a valid release.
StampValid(id) == op[id].stamp # None /\ Release[op[id].stamp].version # 0

\* verify_signed_production_mint: the stamped release is the one that the authorization names,
\* the authorization verifies as of the start of its own window, the transaction spends its
\* outpoint, and the ledger has its row.
SignedEvidence(id) ==
    /\ StampValid(id)
    /\ Release[op[id].stamp].format = 2 /\ Release[op[id].stamp].policy # None
    /\ Authorization[id].release = op[id].stamp
    /\ Verified(id, Release[op[id].stamp].policy, Release[op[id].stamp].version,
                Authorization[id].notBefore)
    /\ BoundTo(id, op[id].funding)
    /\ InLedger(id)

\* resume_operation of a signed mint: no gate but the evidence
ResumeSigned(id, taken) ==
    /\ process.open
    /\ op[id].state \in {"signed_persisted", "broadcast_unobserved"}
    /\ SignedEvidence(id)
    /\ op' = [op EXCEPT ![id].state = "broadcast_unobserved"]
    /\ Relayed(id, op[id].funding, taken)
    /\ UNCHANGED <<floor, verified, instrument, ledger, reserved, clean, process, backups, funded, mined,
                   now, history, mishaps>>

\* fee_bump: the replacement keeps the first input.
FeeBump(id, taken) ==
    /\ WriteEnabled
    /\ op[id].state = "broadcast_unobserved"
    /\ SignedEvidence(id)
    /\ Relayed(id, op[id].funding, taken)
    /\ UNCHANGED <<database, process, backups, funded, mined, now, history, mishaps>>

\* refresh_operation_spv: the transaction is deep enough in the verified chain.
Confirm(id) ==
    /\ process.open
    /\ op[id].state = "broadcast_unobserved"
    /\ <<id, op[id].funding>> \in mined
    /\ op' = [op EXCEPT ![id].state = "confirmed"]
    /\ UNCHANGED <<floor, verified, instrument, ledger, reserved, clean, process, backups, chain, history,
                   mishaps>>

\* cancel_operation: the reservation goes before the state; the ledger keeps its row.
CancelOperation(id, cut) ==
    /\ process.open
    /\ op[id].state \in {"planned", "fee_reserved", "proof_ready"}
    /\ reserved' = [o \in Outpoints |-> IF reserved[o] = id THEN None ELSE reserved[o]]
    /\ op' = IF cut THEN op ELSE [op EXCEPT ![id].state = "cancelled"]
    /\ Cut(cut)
    /\ UNCHANGED <<floor, verified, instrument, ledger, clean, backups, chain, history>>

-----------------------------------------------------------------------------
(* Secure Backup.                                                          *)

\* checkpoint(): every operation with a row in the ledger is exported, cancelled or not, the
\* acknowledgement blanked.
Exported(ops) == [id \in Ids |-> [ops[id] EXCEPT !.acked = FALSE]]

Checkpoint == [floor |-> floor, instrument |-> instrument, ledger |-> ledger, op |-> Exported(op)]

\* The host stores the checkpoint of the open account, and may keep the one before.
Export ==
    /\ process.open /\ ~clean
    /\ backup # Checkpoint
    /\ backup' = Checkpoint
    /\ older' \in {older, IF older = None THEN backup ELSE older}
    /\ UNCHANGED <<database, process, chain, history, mishaps>>

\* acknowledge_checkpoint_backup: the stored checkpoint is the current one.
AcknowledgeCheckpoint ==
    /\ process.open /\ ~clean
    /\ backup = Checkpoint
    /\ verified' = TRUE
    /\ UNCHANGED <<floor, instrument, ledger, op, reserved, clean, process, backups, chain, history, mishaps>>

\* The database is gone; the host restores a backup before it uses the new one.
LoseDatabase ==
    /\ Mishap
    /\ floor' = None
    /\ verified' = FALSE
    /\ instrument' = FALSE
    /\ ledger' = <<>>
    /\ op' = [id \in Ids |-> NoOperation]
    /\ reserved' = [o \in Outpoints |-> None]
    /\ clean' = (backup # None)
    /\ process' = Closed
    /\ accepted' = {}
    /\ UNCHANGED <<backups, chain, released, behind>>

\* The validation of the ledger of a checkpoint under release r: each row has its operation,
\* continues the row before, and names the release and the policy of this build.
LedgerAccepted(b, r) ==
    \A i \in DOMAIN b.ledger :
        LET a == Authorization[b.ledger[i]]
        IN  /\ b.op[b.ledger[i]].state # "none"
            /\ a.sequence = i
            /\ a.before = IF i = 1 THEN 0 ELSE Authorization[b.ledger[i - 1]].after
            /\ r # None /\ Release[r].policy # None
            /\ a.release = r
            /\ Verified(b.ledger[i], Release[r].policy, Release[r].version, a.notBefore)

\* production_usd_registry_floor_from_checkpoint: the new database already has the floor of
\* the release it was opened with, and the checkpoint may only raise it.
FloorAccepted(b, f) ==
    /\ b.floor # None
    /\ f # None => ~(Release[f].version = Release[b.floor].version /\ f # b.floor)

\* The reservations that the import writes, one for each operation with a funding outpoint.
Reservations(ops) ==
    [o \in Outpoints |->
        IF \E id \in Ids : ops[id].funding = o THEN CHOOSE id \in Ids : ops[id].funding = o ELSE None]

RestoreAccepts(b, r, f) ==
    /\ LedgerAccepted(b, r)
    /\ FloorAccepted(b, f)
    /\ \A i, j \in Ids : b.op[i].funding = b.op[j].funding /\ i # j => b.op[i].funding = None

\* restore_checkpoint: one transaction, then the floor is reconciled again.
Restore(b) ==
    /\ process.open /\ clean /\ b # None
    /\ RestoreAccepts(b, process.release, floor)
    /\ LET f == IF floor = None \/ Release[b.floor].version > Release[floor].version
                THEN b.floor ELSE floor
       IN  /\ process' = [process EXCEPT !.registry = Reconcile(process.release, f)]
           /\ floor' = Raised(process.release, f)
           /\ accepted' = accepted \cup {f}
    /\ instrument' = b.instrument
    /\ ledger' = b.ledger
    /\ op' = b.op
    /\ reserved' = Reservations(b.op)
    /\ clean' = FALSE
    /\ behind' = (behind \/ b # backup)
    /\ UNCHANGED <<verified, backups, chain, released, mishaps>>

-----------------------------------------------------------------------------
(* External: the chain and the clock.                                      *)

Fund(o) ==
    /\ o \notin funded
    /\ funded' = funded \cup {o}
    /\ UNCHANGED <<database, process, backups, network, mined, now, history, mishaps>>

Mine(t) ==
    /\ t \in network
    /\ \A u \in mined : u[2] # t[2]
    /\ mined' = mined \cup {t}
    /\ UNCHANGED <<database, process, backups, funded, network, now, history, mishaps>>

Tick ==
    /\ now < MaxTime
    /\ now' = now + 1
    /\ UNCHANGED <<database, process, backups, funded, network, mined, history, mishaps>>

\* The commands of the issuer tool, what interrupts them, and what goes on around them.
Next ==
    \/ \E r \in Releases \cup {None} : Open(r)
    \/ Close
    \/ CreateInstrument
    \/ \E id \in Ids :
        \/ \E cut \in BOOLEAN : MintPrepare(id, cut) \/ ResumeUnsigned(id, cut)
        \/ AcknowledgeOperation(id)
        \/ \E taken, cut \in BOOLEAN : SignAndBroadcast(id, taken, cut)
        \/ \E taken \in BOOLEAN : ResumeSigned(id, taken) \/ FeeBump(id, taken)
        \/ Confirm(id)
        \/ \E cut \in BOOLEAN : CancelOperation(id, cut)
    \/ Export \/ AcknowledgeCheckpoint \/ LoseDatabase
    \/ \E b \in {backup, older} : Restore(b)
    \/ \E o \in Outpoints : Fund(o)
    \/ \E t \in network : Mine(t)
    \/ Tick

Spec == Init /\ [][Next]_vars

-----------------------------------------------------------------------------
(* Properties.                                                             *)

\* Whatever is lost, restored, cancelled and resumed, no sequence number is minted twice: the
\* exact outpoint of an authorization makes two transactions of it exclude each other.
MintedOnce ==
    \A t, u \in mined : Authorization[t[1]].sequence = Authorization[u[1]].sequence => t = u

\* The supply that an authorization of the chain names is enough for every coin that was
\* minted up to it, and is within the limit of its policy.
SupplyBounded ==
    \A t \in mined :
        LET a == Authorization[t[1]]
            before == {u \in mined : Authorization[u[1]].sequence <= a.sequence}
        IN  /\ SumFunctionOnSet([u \in mined |-> Total(Authorization[u[1]])], before) <= a.after
            /\ a.after <= Policy[a.policy].maxSupply

\* The ledger has no gap, each row the supply that the row before left, and the operations of
\* the database are exactly those of its rows, after any crash and any restore.
LedgerUnbroken ==
    /\ \A i \in DOMAIN ledger :
        LET a == Authorization[ledger[i]]
        IN  a.sequence = i /\ a.before = IF i = 1 THEN 0 ELSE Authorization[ledger[i - 1]].after
    /\ {id \in Ids : op[id].state # "none"} = ToSet(ledger)

\* A mint whose transaction was signed can be resumed and bumped whatever release the build
\* carries by then and whatever the time is: its stored evidence stands by itself.
SignedResumes == \A id \in Ids : op[id].state \in SignedStates => SignedEvidence(id)

\* Unless an earlier backup was restored, every authorization that a transaction was ever
\* signed for is in the last one: the ledger that it restores cannot fall behind the supply
\* that may be in the chain.
SignedBackedUp == behind \/ \A id \in released : backup # None /\ id \in ToSet(backup.ledger)

\* A step signs a mint only under the newest release that this database, or the backup it was
\* restored from, has taken for current.
SignsUnderFloor ==
    [][\A id \in Ids : op[id].stamp = None /\ op'[id].stamp # None /\ process.open /\ ~clean =>
        \A r \in accepted :
            r = op'[id].stamp \/ Release[r].version < Release[op'[id].stamp].version]_vars

\* The last backup can be restored into a new database by the build that made it, as long as
\* every row of its ledger is of the release of that build.
BackupRestores ==
    backup # None /\ backup.floor # None /\ (\A id \in ToSet(backup.ledger) : Authorization[id].release = backup.floor)
        => RestoreAccepts(backup, backup.floor, backup.floor)

-----------------------------------------------------------------------------
(* What documents or comments promise and the code does not keep; TLC       *)
(* refutes it on the instance of the module's run (README, Findings).       *)

\* ffi/README.md: a restore with a valid release, older or newer, leaves a readable account;
\* so the current build restores the backup that it made itself.
OwnBackupRestores ==
    process.open /\ ~clean /\ process.registry = "current" /\ backup = Checkpoint
        => RestoreAccepts(backup, process.release, process.release)
===============================================================================
