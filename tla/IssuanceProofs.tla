--------------------------- MODULE IssuanceProofs ---------------------------
(***************************************************************************)
(* Theorems about Issuance, for any releases, policies, authorizations and *)
(* outpoints and any number of crashes, lost databases and restores: a     *)
(* mint happens once, the ledger has no gap, signed evidence stands by     *)
(* itself, and signatures are made under the newest release only.          *)
(***************************************************************************)
EXTENDS Issuance, SequenceTheorems, SumTheorems, TLAPS

Processes == [open : BOOLEAN, release : Releases \cup {None},
              registry : {"closed", "unconfigured", "current", "rollback", "conflict"}]

OpRow == [state : States, funding : Outpoints \cup {None}, acked : BOOLEAN, stamp : Releases \cup {None}]

Funded == {"fee_reserved", "proof_ready"} \cup SignedStates

\* The types, of the parts too that TypeOK leaves open; a process runs only with a
\* configuration that open_device_bound accepted.
TypeInv ==
    /\ TypeOK
    /\ ledger \in Seq(Ids)
    /\ process \in Processes
    /\ backup # None => backup \in Checkpoints
    /\ older # None => older \in Checkpoints
    /\ accepted \subseteq Releases
    /\ process.open => ConfigAccepted(process.release)

\* A release is the floor or older than it.
Below(r, f) == r = f \/ Release[r].version < Release[f].version

\* The floor is the newest release taken for current, and the release of a process that is
\* current is the floor.
FloorInv ==
    /\ floor = None => accepted = {}
    /\ \A r \in accepted : Below(r, floor)
    /\ process.registry = "current" => process.release # None /\ process.release = floor

\* What a row of a signed mint carries: the evidence of SignedEvidence but for the ledger's row.
Evidence(row, id) ==
    /\ row.stamp # None /\ Release[row.stamp].version # 0
    /\ Release[row.stamp].format = 2 /\ Release[row.stamp].policy # None
    /\ Authorization[id].release = row.stamp
    /\ Verified(id, Release[row.stamp].policy, Release[row.stamp].version, Authorization[id].notBefore)
    /\ BoundTo(id, row.funding)
    /\ Authorized(id)

\* The rows of a ledger continue one another.
Chained(rows) ==
    \A i \in DOMAIN rows :
        /\ Authorization[rows[i]].sequence = i
        /\ Authorization[rows[i]].before = IF i = 1 THEN 0 ELSE Authorization[rows[i - 1]].after

\* A ledger and the operations beside it, in a database or in a backup.
Sound(rows, ops) ==
    /\ Chained(rows)
    /\ \A id \in Ids : ops[id].state # "none" <=> id \in ToSet(rows)
    /\ \A id \in Ids : ops[id].state \in SignedStates => Evidence(ops[id], id)
    /\ \A id \in Ids : ops[id].acked => ops[id].state # "none"
    /\ \A id \in Ids : ops[id].state \in Funded => ops[id].funding \in Outpoints

SoundInv ==
    /\ Sound(ledger, op)
    /\ backup # None => Sound(backup.ledger, backup.op)
    /\ older # None => Sound(older.ledger, older.op)

\* What was relayed spends the outpoint of its authorization, and no outpoint is spent twice.
NetworkInv ==
    /\ \A t \in network : t[1] \in Ids /\ BoundTo(t[1], t[2]) /\ Authorized(t[1])
    /\ \A t, u \in mined : t[2] = u[2] => t = u

\* What was acknowledged is in the last backup, and what was signed is there too and, unless the
\* database waits for its restore, in the ledger.
BackedInv ==
    /\ clean => backup # None
    /\ \A id \in Ids : op[id].acked => backup # None /\ id \in ToSet(backup.ledger)
    /\ backup # None => \A id \in Ids : ~backup.op[id].acked
    /\ older # None => \A id \in Ids : ~older.op[id].acked
    /\ ~behind => \A id \in released : /\ backup # None /\ id \in ToSet(backup.ledger)
                                       /\ clean \/ id \in ToSet(ledger)

Inv == TypeInv /\ FloorInv /\ SoundInv /\ NetworkInv /\ BackedInv

-----------------------------------------------------------------------------
(* Operators.                                                              *)

\* Whether an authorization verifies does not depend on the moment within its window: what
\* verified once verifies as of the start of the window.
LEMMA VerifiedAtStart ==
    ASSUME NEW id \in Ids, NEW policy, NEW version, NEW time, Verified(id, policy, version, time)
    PROVE  Verified(id, policy, version, Authorization[id].notBefore)
<1>1. Authorization[id].notBefore \in Nat /\ Authorization[id].expires \in Nat
  BY IssuanceAssumption
<1>2. Authorization[id].notBefore < Authorization[id].expires
  BY DEF Verified
<1>3. /\ Authorization[id].notBefore <= Authorization[id].notBefore
      /\ Authorization[id].notBefore <= Authorization[id].expires
  BY <1>1, <1>2
<1> QED
  BY <1>3 DEF Verified

\* What verifies under a configured policy was signed by its authorities, with the right sum.
LEMMA VerifiedAuthorized ==
    ASSUME NEW id \in Ids, NEW policy \in Policies, NEW version, NEW time,
           Verified(id, policy, version, time)
    PROVE  Authorized(id)
  BY DEF Verified, SupplyFits, Authorized

\* A release admitted by a check of its configuration.
LEMMA ConfiguredRelease ==
    ASSUME NEW r \in Releases, ConfigAccepted(r)
    PROVE  /\ Release[r].version # 0
           /\ Release[r].policy # None => Release[r].policy \in Policies
<1>1. r # None
  BY IssuanceAssumption
<1> QED
  BY <1>1 DEF ConfigAccepted, ReleaseValid, PoliciesConfigured

\* Append adds one row.
LEMMA AppendRow ==
    ASSUME NEW rows \in Seq(Ids), NEW id \in Ids
    PROVE  /\ Append(rows, id) \in Seq(Ids)
           /\ DOMAIN Append(rows, id) = 1..(Len(rows) + 1)
           /\ DOMAIN rows = 1..Len(rows) /\ Len(rows) \in Nat
           /\ \A i \in 1..Len(rows) : Append(rows, id)[i] = rows[i]
           /\ Append(rows, id)[Len(rows) + 1] = id
           /\ ToSet(Append(rows, id)) = ToSet(rows) \cup {id}
<1>1. /\ Append(rows, id) \in Seq(Ids) /\ Len(Append(rows, id)) = Len(rows) + 1
      /\ \A i \in 1..Len(rows) : Append(rows, id)[i] = rows[i]
      /\ Append(rows, id)[Len(rows) + 1] = id
  BY AppendProperties
<1>2. DOMAIN Append(rows, id) = 1..(Len(rows) + 1) /\ DOMAIN rows = 1..Len(rows) /\ Len(rows) \in Nat
  BY <1>1, LenProperties
<1>3. 1..(Len(rows) + 1) = (1..Len(rows)) \cup {Len(rows) + 1}
  BY <1>2
<1>4. ToSet(Append(rows, id)) = ToSet(rows) \cup {id}
  BY <1>1, <1>2, <1>3 DEF ToSet
<1> QED
  BY <1>1, <1>2, <1>4

\* The ledger grows by the row that continues the last one.
LEMMA ChainGrows ==
    ASSUME NEW rows \in Seq(Ids), NEW id \in Ids, Chained(rows),
           Authorization[id].sequence = Len(rows) + 1,
           Authorization[id].before = IF rows = <<>> THEN 0 ELSE Authorization[Last(rows)].after
    PROVE  Chained(Append(rows, id))
<1> DEFINE more == Append(rows, id)
<1>1. /\ DOMAIN more = 1..(Len(rows) + 1) /\ DOMAIN rows = 1..Len(rows) /\ Len(rows) \in Nat
      /\ \A i \in 1..Len(rows) : more[i] = rows[i]
      /\ more[Len(rows) + 1] = id
  BY AppendRow
<1> HIDE DEF more
<1>2. ASSUME NEW i \in 1..Len(rows)
      PROVE  /\ Authorization[more[i]].sequence = i
             /\ Authorization[more[i]].before = IF i = 1 THEN 0 ELSE Authorization[more[i - 1]].after
  <2>1. i = 1 \/ i - 1 \in 1..Len(rows)
    BY <1>1
  <2>2. more[i] = rows[i] /\ (i # 1 => more[i - 1] = rows[i - 1])
    BY <1>1, <2>1
  <2> QED
    BY <1>1, <2>2 DEF Chained
<1>3. /\ Authorization[more[Len(rows) + 1]].sequence = Len(rows) + 1
      /\ Authorization[more[Len(rows) + 1]].before =
           IF Len(rows) + 1 = 1 THEN 0 ELSE Authorization[more[Len(rows) + 1 - 1]].after
  <2>1. CASE rows = <<>>
    BY <1>1, <2>1
  <2>2. CASE rows # <<>>
    <3>1. Len(rows) # 0
      BY <2>2, EmptySeq
    <3>2. Len(rows) + 1 # 1 /\ Len(rows) + 1 - 1 = Len(rows) /\ Len(rows) \in 1..Len(rows)
      BY <1>1, <3>1
    <3>3. more[Len(rows)] = rows[Len(rows)] /\ Last(rows) = rows[Len(rows)]
      BY <1>1, <3>2 DEF Last
    <3> QED
      BY <1>1, <2>2, <3>2, <3>3
  <2> QED
    BY <2>1, <2>2
<1>4. \A i \in DOMAIN more : i \in 1..Len(rows) \/ i = Len(rows) + 1
  BY <1>1
<1>5. Chained(more)
  BY <1>2, <1>3, <1>4 DEF Chained
<1> QED
  BY <1>5 DEF more

\* A row is found under its own sequence number.
LEMMA RowFound ==
    ASSUME NEW id \in Ids, Chained(ledger), id \in ToSet(ledger)
    PROVE  InLedger(id)
<1>1. PICK i \in DOMAIN ledger : ledger[i] = id
  BY DEF ToSet
<1> QED
  BY <1>1 DEF Chained, InLedger

-----------------------------------------------------------------------------
(* Parts that a step leaves alone.                                         *)

\* A call that a crash cuts short closes the process; any other leaves it.
LEMMA CutProcess ==
    ASSUME NEW cut \in BOOLEAN, Cut(cut)
    PROVE  process' = process \/ process' = Closed
  BY DEF Cut

\* The process is left alone or closed.
LEMMA ProcessFrame ==
    ASSUME TypeInv, process' = process \/ process' = Closed
    PROVE  /\ process' \in Processes
           /\ process'.registry \in {"closed", "unconfigured", "current", "rollback", "conflict"}
           /\ process'.open <=> process'.registry # "closed"
           /\ process'.open => ConfigAccepted(process'.release)
           /\ process'.registry = "current" => process' = process
<1>1. CASE process' = process
  BY <1>1 DEF TypeInv, TypeOK
<1>2. CASE process' = Closed
  <2>1. Closed \in Processes /\ Closed.open = FALSE /\ Closed.registry = "closed"
    BY DEF Closed, Processes
  <2> QED
    BY <1>2, <2>1
<1> QED
  BY <1>1, <1>2

\* The floor stands.
LEMMA FloorFrame ==
    ASSUME TypeInv, FloorInv, UNCHANGED <<floor, accepted>>, process' = process \/ process' = Closed
    PROVE  FloorInv'
<1>1. process'.registry = "current" => process' = process
  BY ProcessFrame
<1> QED
  BY <1>1 DEF FloorInv, Below

\* One operation of the ledger changes and its row stays sound.
LEMMA SoundRow ==
    ASSUME SoundInv, NEW id \in Ids, op[id].state # "none", op'[id].state # "none",
           \A x \in Ids : x # id => op'[x] = op[x],
           op'[id].state \in SignedStates => Evidence(op'[id], id),
           op'[id].state \in Funded => op'[id].funding \in Outpoints,
           UNCHANGED <<ledger, backup, older>>
    PROVE  SoundInv'
<1>1. Chained(ledger')
  BY DEF SoundInv, Sound
<1>2. ASSUME NEW x \in Ids
      PROVE  /\ op'[x].state # "none" <=> x \in ToSet(ledger')
             /\ op'[x].state \in SignedStates => Evidence(op'[x], x)
             /\ op'[x].acked => op'[x].state # "none"
             /\ op'[x].state \in Funded => op'[x].funding \in Outpoints
  <2>1. CASE x = id
    BY <2>1 DEF SoundInv, Sound
  <2>2. CASE x # id
    <3>1. op'[x] = op[x]
      BY <2>2
    <3> QED
      BY <3>1 DEF SoundInv, Sound
  <2> QED
    BY <2>1, <2>2
<1>3. Sound(ledger', op')
  BY <1>1, <1>2 DEF Sound
<1> QED
  BY <1>3 DEF SoundInv

\* The network and the chain stand.
LEMMA NetworkFrame == NetworkInv /\ UNCHANGED <<network, mined>> => NetworkInv'
  BY DEF NetworkInv

\* One transaction more may be relayed.
LEMMA RelayFrame ==
    ASSUME NetworkInv, UNCHANGED mined, NEW id \in Ids, NEW o, BoundTo(id, o), Authorized(id),
           NEW taken, Relayed(id, o, taken)
    PROVE  NetworkInv'
<1>1. network' \subseteq network \cup {<<id, o>>}
  BY DEF Relayed
<1>2. \A t \in network' : t[1] \in Ids /\ BoundTo(t[1], t[2]) /\ Authorized(t[1])
  BY <1>1 DEF NetworkInv
<1> QED
  BY <1>2 DEF NetworkInv

\* Nothing is acknowledged or signed, the backups stand and the ledger loses no row.
LEMMA BackedFrame ==
    ASSUME BackedInv, UNCHANGED <<clean, backup, older, behind, released>>,
           \A id \in Ids : op'[id].acked => op[id].acked,
           ToSet(ledger) \subseteq ToSet(ledger')
    PROVE  BackedInv'
  BY DEF BackedInv

\* The operations, the ledger and the backups stand.
LEMMA RecordFrame ==
    ASSUME SoundInv, BackedInv, UNCHANGED <<ledger, op, clean, backup, older, behind, released>>
    PROVE  SoundInv' /\ BackedInv'
<1>1. SoundInv'
  BY DEF SoundInv
<1>2. BackedInv'
  BY DEF BackedInv
<1> QED
  BY <1>1, <1>2

\* Types of what a call that only changes its operation touches.
LEMMA TypeFrame ==
    ASSUME TypeInv, op' \in Rows, reserved' \in [Outpoints -> Ids \cup {None}], ledger' \in Seq(Ids),
           process' = process \/ process' = Closed, verified' \in BOOLEAN, instrument' \in BOOLEAN,
           network \subseteq network', network' \subseteq Ids \X Outpoints, released' \subseteq Ids,
           UNCHANGED <<floor, clean, backup, older, mined, accepted>>
    PROVE  TypeInv'
<1>1. /\ process' \in Processes
      /\ process'.registry \in {"closed", "unconfigured", "current", "rollback", "conflict"}
      /\ process'.open <=> process'.registry # "closed"
      /\ process'.open => ConfigAccepted(process'.release)
  BY ProcessFrame
<1>2. TypeOK'
  BY <1>1 DEF TypeInv, TypeOK
<1> QED
  BY <1>1, <1>2 DEF TypeInv

-----------------------------------------------------------------------------
(* The invariant, call by call.                                            *)

\* A new account has nothing.
LEMMA InvInit == Init => Inv
<1> SUFFICES ASSUME Init PROVE Inv
  OBVIOUS
<1>1. NoOperation \in OpRow /\ NoOperation.state = "none" /\ NoOperation.acked = FALSE
  BY DEF NoOperation, OpRow, States
<1>2. op \in Rows /\ \A id \in Ids : op[id] = NoOperation
  BY <1>1 DEF Init, Rows, OpRow
<1>3. Closed \in Processes /\ Closed.open = FALSE /\ Closed.registry = "closed"
  BY DEF Closed, Processes
<1>4. <<>> \in Seq(Ids) /\ DOMAIN <<>> = {} /\ ToSet(<<>>) = {}
  BY DEF ToSet
<1>5. TypeInv
  BY <1>2, <1>3, <1>4 DEF Init, TypeInv, TypeOK
<1>6. FloorInv
  BY <1>3 DEF Init, FloorInv
<1>7. SoundInv
  BY <1>1, <1>2, <1>4 DEF Init, SoundInv, Sound, Chained, SignedStates, Funded
<1>8. NetworkInv
  BY DEF Init, NetworkInv
<1>9. BackedInv
  BY <1>1, <1>2 DEF Init, BackedInv
<1> QED
  BY <1>5, <1>6, <1>7, <1>8, <1>9 DEF Inv

\* What reconciling a release with the floor leaves as the floor.
LEMMA RaisedFloor ==
    ASSUME NEW r \in Releases \cup {None}, NEW f \in Releases \cup {None}
    PROVE  /\ Raised(r, f) \in Releases \cup {None}
           /\ Reconcile(r, f) \in {"unconfigured", "current", "rollback", "conflict"}
           /\ Reconcile(r, f) = "current" => r # None /\ Raised(r, f) = r
           /\ f # None => Raised(r, f) # None /\ Below(f, Raised(r, f))
<1>1. Reconcile(r, f) \in {"unconfigured", "current", "rollback", "conflict"}
  BY DEF Reconcile
<1>2. Reconcile(r, f) = "current" => r # None /\ Raised(r, f) = r
  BY DEF Reconcile, Raised
<1>3. f # None => Raised(r, f) # None /\ Below(f, Raised(r, f))
  <2>1. CASE Reconcile(r, f) # "current"
    BY <2>1 DEF Raised, Below
  <2>2. CASE Reconcile(r, f) = "current"
    <3> SUFFICES ASSUME f # None PROVE r # None /\ Below(f, r)
      BY <1>2, <2>2
    <3>1. r # None /\ ~(Release[r].version < Release[f].version)
          /\ ~(Release[r].version = Release[f].version /\ r # f)
      BY <2>2 DEF Reconcile
    <3>2. Release[r].version \in Nat /\ Release[f].version \in Nat
      BY <3>1, IssuanceAssumption
    <3> QED
      BY <3>1, <3>2 DEF Below
  <2> QED
    BY <2>1, <2>2
<1>4. Raised(r, f) \in Releases \cup {None}
  BY DEF Raised
<1> QED
  BY <1>1, <1>2, <1>3, <1>4

\* Older than older is older.
LEMMA BelowTransitive ==
    ASSUME NEW r \in Releases, NEW s \in Releases, NEW t \in Releases, Below(r, s), Below(s, t)
    PROVE  Below(r, t)
<1>1. Release[r].version \in Nat /\ Release[s].version \in Nat /\ Release[t].version \in Nat
  BY IssuanceAssumption
<1> QED
  BY <1>1 DEF Below

\* AccountWallet::open
LEMMA OpenInv ==
    ASSUME Inv, NEW r \in Releases \cup {None}, Open(r)
    PROVE  Inv'
<1>1. /\ ConfigAccepted(r)
      /\ process' = [open |-> TRUE, release |-> r, registry |-> Reconcile(r, floor)]
      /\ floor' = Raised(r, floor)
      /\ accepted' = IF Reconcile(r, floor) = "current" THEN accepted \cup {r} ELSE accepted
      /\ UNCHANGED <<verified, instrument, ledger, op, reserved, clean, backup, older, funded, network,
                     mined, now, released, behind>>
  BY DEF Open, backups, chain
<1>2. floor \in Releases \cup {None} /\ accepted \subseteq Releases
  BY DEF Inv, TypeInv, TypeOK
<1>3. /\ Raised(r, floor) \in Releases \cup {None}
      /\ Reconcile(r, floor) \in {"unconfigured", "current", "rollback", "conflict"}
      /\ Reconcile(r, floor) = "current" => r # None /\ Raised(r, floor) = r
      /\ floor # None => Raised(r, floor) # None /\ Below(floor, Raised(r, floor))
  BY <1>2, RaisedFloor
<1>4. process'.open = TRUE /\ process'.release = r /\ process'.registry = Reconcile(r, floor)
  BY <1>1
<1>5. process' \in Processes
  BY <1>1, <1>3 DEF Processes
<1>6. TypeInv'
  <2>1. TypeOK'
    BY <1>1, <1>3, <1>4 DEF Inv, TypeInv, TypeOK
  <2>2. accepted' \subseteq Releases
    BY <1>1, <1>2, <1>3
  <2> QED
    BY <1>1, <1>4, <1>5, <2>1, <2>2 DEF Inv, TypeInv
<1>7. FloorInv'
  <2>1. floor' = None => accepted' = {}
    <3> SUFFICES ASSUME floor' = None PROVE accepted' = {}
      OBVIOUS
    <3>1. floor = None /\ Reconcile(r, floor) # "current"
      BY <1>1, <1>3
    <3> QED
      BY <1>1, <3>1 DEF Inv, FloorInv
  <2>2. ASSUME NEW s \in accepted' PROVE Below(s, floor')
    <3>1. CASE s \in accepted
      <4>1. floor # None /\ Below(s, floor) /\ s \in Releases
        BY <1>2, <3>1 DEF Inv, FloorInv
      <4>2. Below(floor, floor') /\ floor' # None
        BY <1>1, <1>3, <4>1
      <4>3. floor \in Releases /\ floor' \in Releases
        BY <1>1, <1>2, <1>3, <4>1, <4>2
      <4> QED
        BY <4>1, <4>2, <4>3, BelowTransitive
    <3>2. CASE s \notin accepted
      BY <1>1, <1>3, <3>2 DEF Below
    <3> QED
      BY <3>1, <3>2
  <2>3. process'.registry = "current" => process'.release # None /\ process'.release = floor'
    BY <1>1, <1>3, <1>4
  <2> QED
    BY <2>1, <2>2, <2>3 DEF FloorInv, Below
<1>8. SoundInv' /\ BackedInv'
  BY <1>1, RecordFrame DEF Inv
<1>9. NetworkInv'
  BY <1>1, NetworkFrame DEF Inv
<1> QED
  BY <1>6, <1>7, <1>8, <1>9 DEF Inv

\* The calls and events that change no operation.
LEMMA PlainSteps ==
    ASSUME Inv
    PROVE  /\ Close => Inv'
           /\ CreateInstrument => Inv'
           /\ AcknowledgeCheckpoint => Inv'
           /\ \A o \in Outpoints : Fund(o) => Inv'
           /\ Tick => Inv'
           /\ UNCHANGED vars => Inv'
<1>1. ASSUME process' = process \/ process' = Closed, verified' \in BOOLEAN, instrument' \in BOOLEAN,
             UNCHANGED <<floor, ledger, op, reserved, clean, backup, older, network, mined, accepted,
                         released, behind>>
      PROVE  Inv'
  <2>1. TypeInv'
    <3>1. /\ op' \in Rows /\ reserved' \in [Outpoints -> Ids \cup {None}] /\ ledger' \in Seq(Ids)
          /\ network \subseteq network' /\ network' \subseteq Ids \X Outpoints /\ released' \subseteq Ids
      BY <1>1 DEF Inv, TypeInv, TypeOK
    <3> QED
      BY <1>1, <3>1, TypeFrame DEF Inv
  <2>2. FloorInv'
    BY <1>1, FloorFrame DEF Inv
  <2>3. SoundInv' /\ BackedInv'
    BY <1>1, RecordFrame DEF Inv
  <2>4. NetworkInv'
    BY <1>1, NetworkFrame DEF Inv
  <2> QED
    BY <2>1, <2>2, <2>3, <2>4 DEF Inv
<1>2. verified \in BOOLEAN /\ instrument \in BOOLEAN
  BY DEF Inv, TypeInv, TypeOK
<1>3. Close => Inv'
  BY <1>1, <1>2 DEF Close, database, backups, chain, history
<1>4. CreateInstrument => Inv'
  BY <1>1, <1>2 DEF CreateInstrument, StoreInstrument, backups, chain, history
<1>5. AcknowledgeCheckpoint => Inv'
  BY <1>1, <1>2 DEF AcknowledgeCheckpoint, backups, chain, history
<1>6. ASSUME NEW o \in Outpoints, Fund(o) PROVE Inv'
  BY <1>1, <1>2, <1>6 DEF Fund, database, backups, history
<1>7. Tick => Inv'
  BY <1>1, <1>2 DEF Tick, database, backups, history
<1>8. UNCHANGED vars => Inv'
  BY <1>1, <1>2 DEF vars, database, backups, chain, history
<1> QED
  BY <1>3, <1>4, <1>5, <1>6, <1>7, <1>8

\* A transaction enters the chain only while its outpoint is unspent.
LEMMA MineInv ==
    ASSUME Inv, NEW t \in network, Mine(t)
    PROVE  Inv'
<1>1. /\ mined' = mined \cup {t} /\ \A u \in mined : u[2] # t[2]
      /\ UNCHANGED <<floor, verified, instrument, ledger, op, reserved, clean, process, backup, older,
                     network, accepted, released, behind>>
  BY DEF Mine, database, backups, history
<1>2. TypeInv'
  BY <1>1 DEF Inv, TypeInv, TypeOK
<1>3. FloorInv'
  BY <1>1, FloorFrame DEF Inv
<1>4. SoundInv' /\ BackedInv'
  BY <1>1, RecordFrame DEF Inv
<1>5. NetworkInv'
  BY <1>1 DEF Inv, NetworkInv
<1> QED
  BY <1>2, <1>3, <1>4, <1>5 DEF Inv

\* The gates of issuance admit only the release of a checked configuration, one that commits a
\* configured policy.
LEMMA GatesOpen ==
    ASSUME Inv, IssuanceEnabled
    PROVE  /\ process.release \in Releases /\ process.registry = "current" /\ ~clean
           /\ Release[process.release].version # 0 /\ Release[process.release].format = 2
           /\ Release[process.release].policy # None /\ Release[process.release].policy \in Policies
<1>1. /\ process.open /\ ~clean /\ process.registry = "current" /\ process.release # None
      /\ Release[process.release].format = 2 /\ Release[process.release].policy # None
  BY DEF IssuanceEnabled, ProductEnabled, WriteEnabled, Configured
<1>2. process.release \in Releases /\ ConfigAccepted(process.release)
  BY <1>1 DEF Inv, TypeInv, Processes
<1> QED
  BY <1>1, <1>2, ConfiguredRelease

\* The outpoints a call may get to are outpoints, or none.
LEMMA ReachedOutpoints ==
    ASSUME NEW id \in Ids, NEW cut \in BOOLEAN
    PROVE  Reached(id, cut) \subseteq Outpoints \cup {None}
<1>1. FreeOutpoints(id) \subseteq Outpoints
  BY DEF FreeOutpoints
<1> QED
  BY <1>1 DEF Reached

\* The row that the rest of a call leaves behind: not signed, not acknowledged.
LEMMA CarriedRow ==
    ASSUME TypeInv, NEW id \in Ids, NEW o \in Outpoints \cup {None}, NEW cut \in BOOLEAN,
           Carried(id, o, cut)
    PROVE  /\ op' \in Rows /\ reserved' \in [Outpoints -> Ids \cup {None}]
           /\ \A x \in Ids : x # id => op'[x] = op[x]
           /\ op'[id].state # "none" /\ op'[id].state \notin SignedStates
           /\ op'[id].acked = FALSE /\ op'[id].stamp = None
           /\ op'[id].state \in Funded => op'[id].funding \in Outpoints
<1>1. PICK end \in Ends(o, cut) :
        /\ op' = [op EXCEPT ![id] = [state |-> end, funding |-> o, acked |-> FALSE, stamp |-> None]]
        /\ reserved' = IF o = None THEN reserved
                       ELSE [reserved EXCEPT ![o] = IF end = "cancelled" THEN None ELSE id]
  BY DEF Carried
<1> DEFINE new == [state |-> end, funding |-> o, acked |-> FALSE, stamp |-> None]
<1>2. /\ end \in {"planned", "fee_reserved", "proof_ready", "cancelled"}
      /\ end # "planned" => o # None
  BY DEF Ends
<1>3. new \in OpRow
  BY <1>2 DEF OpRow, States
<1>4. /\ new.state = end /\ new.funding = o /\ new.acked = FALSE /\ new.stamp = None
  OBVIOUS
<1>5. op \in [Ids -> OpRow] /\ reserved \in [Outpoints -> Ids \cup {None}]
  BY DEF TypeInv, TypeOK, Rows, OpRow
<1> HIDE DEF new
<1>6. op' \in [Ids -> OpRow] /\ op'[id] = new /\ \A x \in Ids : x # id => op'[x] = op[x]
  BY <1>1, <1>3, <1>5 DEF new
<1>7. reserved' \in [Outpoints -> Ids \cup {None}]
  BY <1>1, <1>5
<1>8. end # "none" /\ end \notin SignedStates /\ (end \in Funded => o \in Outpoints)
  BY <1>2 DEF SignedStates, Funded
<1> QED
  BY <1>4, <1>6, <1>7, <1>8 DEF Rows, OpRow

\* mint_prepare
LEMMA MintPrepareInv ==
    ASSUME Inv, NEW id \in Ids, NEW cut \in BOOLEAN, MintPrepare(id, cut)
    PROVE  Inv'
<1>1. /\ ledger' = Append(ledger, id) /\ NextInLedger(Authorization[id]) /\ Cut(cut)
      /\ UNCHANGED <<floor, verified, instrument, clean, backup, older, network, mined, accepted, released,
                     behind>>
  BY DEF MintPrepare, Admitted, backups, chain, history
<1>2. PICK o \in Outpoints \cup {None} : Carried(id, o, cut)
  BY ReachedOutpoints DEF MintPrepare
<1>3. /\ op' \in Rows /\ reserved' \in [Outpoints -> Ids \cup {None}]
      /\ \A x \in Ids : x # id => op'[x] = op[x]
      /\ op'[id].state # "none" /\ op'[id].state \notin SignedStates
      /\ op'[id].acked = FALSE
      /\ op'[id].state \in Funded => op'[id].funding \in Outpoints
  BY <1>2, CarriedRow DEF Inv
<1>4. process' = process \/ process' = Closed
  BY <1>1, CutProcess
<1>5. ledger \in Seq(Ids)
  BY DEF Inv, TypeInv
<1>6. ledger' \in Seq(Ids) /\ ToSet(ledger') = ToSet(ledger) \cup {id}
  BY <1>1, <1>5, AppendRow
<1>7. TypeInv'
  <2>1. /\ verified' \in BOOLEAN /\ instrument' \in BOOLEAN
        /\ network \subseteq network' /\ network' \subseteq Ids \X Outpoints /\ released' \subseteq Ids
    BY <1>1 DEF Inv, TypeInv, TypeOK
  <2> QED
    BY <1>1, <1>3, <1>4, <1>6, <2>1, TypeFrame DEF Inv
<1>8. FloorInv'
  BY <1>1, <1>4, FloorFrame DEF Inv
<1>9. SoundInv'
  <2>1. Chained(ledger')
    BY <1>1, <1>5, ChainGrows DEF NextInLedger, Inv, SoundInv, Sound
  <2>2. ASSUME NEW x \in Ids
        PROVE  /\ op'[x].state # "none" <=> x \in ToSet(ledger')
               /\ op'[x].state \in SignedStates => Evidence(op'[x], x)
               /\ op'[x].acked => op'[x].state # "none"
               /\ op'[x].state \in Funded => op'[x].funding \in Outpoints
    <3>1. CASE x = id
      BY <1>3, <1>6, <3>1
    <3>2. CASE x # id
      <4>1. op'[x] = op[x] /\ (x \in ToSet(ledger') <=> x \in ToSet(ledger))
        BY <1>3, <1>6, <3>2
      <4> QED
        BY <4>1 DEF Inv, SoundInv, Sound
    <3> QED
      BY <3>1, <3>2
  <2>3. Sound(ledger', op')
    BY <2>1, <2>2 DEF Sound
  <2> QED
    BY <1>1, <2>3 DEF Inv, SoundInv
<1>10. NetworkInv'
  BY <1>1, NetworkFrame DEF Inv
<1>11. BackedInv'
  <2>1. \A x \in Ids : op'[x].acked => op[x].acked
    BY <1>3
  <2> QED
    BY <1>1, <1>6, <2>1, BackedFrame DEF Inv
<1> QED
  BY <1>7, <1>8, <1>9, <1>10, <1>11 DEF Inv

\* A step that changes one operation of the ledger, acknowledging and signing nothing.
LEMMA RowSteps ==
    ASSUME Inv, NEW id \in Ids, op[id].state # "none", op'[id].state # "none", op' \in Rows,
           reserved' \in [Outpoints -> Ids \cup {None}],
           \A x \in Ids : x # id => op'[x] = op[x],
           op'[id].state \in SignedStates => Evidence(op'[id], id),
           op'[id].state \in Funded => op'[id].funding \in Outpoints,
           op'[id].acked => op[id].acked,
           process' = process \/ process' = Closed,
           UNCHANGED <<floor, verified, instrument, ledger, clean, backup, older, mined, accepted,
                       released, behind>>,
           network \subseteq network', network' \subseteq Ids \X Outpoints, NetworkInv'
    PROVE  Inv'
<1>1. TypeInv'
  <2>1. verified' \in BOOLEAN /\ instrument' \in BOOLEAN /\ released' \subseteq Ids /\ ledger' \in Seq(Ids)
    BY DEF Inv, TypeInv, TypeOK
  <2> QED
    BY <2>1, TypeFrame DEF Inv
<1>2. FloorInv'
  BY FloorFrame DEF Inv
<1>3. SoundInv'
  BY SoundRow DEF Inv
<1>4. BackedInv'
  <2>1. \A x \in Ids : op'[x].acked => op[x].acked
    OBVIOUS
  <2>2. ToSet(ledger) \subseteq ToSet(ledger')
    OBVIOUS
  <2> QED
    BY <2>1, <2>2, BackedFrame DEF Inv
<1> QED
  BY <1>1, <1>2, <1>3, <1>4 DEF Inv

\* resume_operation of an unsigned mint
LEMMA ResumeUnsignedInv ==
    ASSUME Inv, NEW id \in Ids, NEW cut \in BOOLEAN, ResumeUnsigned(id, cut)
    PROVE  Inv'
<1>1. /\ op[id].state \in {"planned", "fee_reserved"} /\ Cut(cut)
      /\ UNCHANGED <<floor, verified, instrument, ledger, clean, backup, older, network, mined, accepted,
                     released, behind>>
  BY DEF ResumeUnsigned, backups, chain, history
<1>2. op[id].funding \in Outpoints \cup {None}
  BY DEF Inv, TypeInv, TypeOK, Rows
<1>3. PICK o \in Outpoints \cup {None} : Carried(id, o, cut)
  BY <1>2, ReachedOutpoints DEF ResumeUnsigned
<1>4. /\ op' \in Rows /\ reserved' \in [Outpoints -> Ids \cup {None}]
      /\ \A x \in Ids : x # id => op'[x] = op[x]
      /\ op'[id].state # "none" /\ op'[id].state \notin SignedStates
      /\ op'[id].acked = FALSE
      /\ op'[id].state \in Funded => op'[id].funding \in Outpoints
  BY <1>3, CarriedRow DEF Inv
<1>5. process' = process \/ process' = Closed
  BY <1>1, CutProcess
<1>6. NetworkInv' /\ network \subseteq network' /\ network' \subseteq Ids \X Outpoints
  BY <1>1, NetworkFrame DEF Inv, TypeInv, TypeOK
<1> QED
  BY <1>1, <1>4, <1>5, <1>6, RowSteps

\* The operations with one row changed.
SetRow(id, state, acked, stamp) ==
    [op EXCEPT ![id] = [op[id] EXCEPT !.state = state, !.acked = acked, !.stamp = stamp]]

\* Fields of one row are set.
LEMMA RowSet ==
    ASSUME op \in Rows, NEW id \in Ids, NEW state \in States, NEW acked \in BOOLEAN,
           NEW stamp \in Releases \cup {None},
           op' = SetRow(id, state, acked, stamp)
    PROVE  /\ op' \in Rows /\ \A x \in Ids : x # id => op'[x] = op[x]
           /\ op'[id].state = state /\ op'[id].acked = acked /\ op'[id].stamp = stamp
           /\ op'[id].funding = op[id].funding
<1>1. op \in [Ids -> OpRow]
  BY DEF Rows, OpRow
<1> DEFINE new == [op[id] EXCEPT !.state = state, !.acked = acked, !.stamp = stamp]
<1>2. op[id] \in OpRow
  BY <1>1
<1>3. /\ new \in OpRow /\ new.state = state /\ new.acked = acked /\ new.stamp = stamp
      /\ new.funding = op[id].funding
  BY <1>2 DEF OpRow
<1> HIDE DEF new
<1>4. op' \in [Ids -> OpRow] /\ op'[id] = new /\ \A x \in Ids : x # id => op'[x] = op[x]
  BY <1>1, <1>3 DEF new, SetRow
<1> QED
  BY <1>3, <1>4 DEF Rows, OpRow

\* acknowledge_operation_backup: the proof is in the last backup, and so is its row.
LEMMA AcknowledgeInv ==
    ASSUME Inv, NEW id \in Ids, AcknowledgeOperation(id)
    PROVE  Inv'
<1>1. /\ op[id].state = "proof_ready" /\ backup # None /\ backup.op[id].state = "proof_ready"
      /\ op' = [op EXCEPT ![id].acked = TRUE]
      /\ UNCHANGED <<floor, verified, instrument, ledger, reserved, clean, process, backup, older, network,
                     mined, accepted, released, behind>>
  BY DEF AcknowledgeOperation, backups, chain, history
<1>2. op \in Rows /\ op[id] \in OpRow
  BY DEF Inv, TypeInv, TypeOK, Rows, OpRow
<1>3. op' = SetRow(id, op[id].state, TRUE, op[id].stamp)
  <2>1. [op[id] EXCEPT !.acked = TRUE]
          = [op[id] EXCEPT !.state = op[id].state, !.acked = TRUE, !.stamp = op[id].stamp]
    BY <1>2 DEF OpRow
  <2> QED
    BY <1>1, <2>1 DEF SetRow
<1>4. /\ op' \in Rows /\ \A x \in Ids : x # id => op'[x] = op[x]
      /\ op'[id].state = "proof_ready" /\ op'[id].funding = op[id].funding
  <2>1. op[id].state \in States /\ op[id].stamp \in Releases \cup {None}
    BY <1>2 DEF OpRow
  <2> QED
    BY <1>1, <1>2, <1>3, <2>1, RowSet
<1>5. TypeInv'
  <2>1. /\ verified' \in BOOLEAN /\ instrument' \in BOOLEAN /\ ledger' \in Seq(Ids)
        /\ reserved' \in [Outpoints -> Ids \cup {None}]
        /\ network \subseteq network' /\ network' \subseteq Ids \X Outpoints /\ released' \subseteq Ids
    BY <1>1 DEF Inv, TypeInv, TypeOK
  <2> QED
    BY <1>1, <1>4, <2>1, TypeFrame DEF Inv
<1>6. FloorInv'
  BY <1>1, FloorFrame DEF Inv
<1>7. SoundInv'
  <2>1. "proof_ready" # "none" /\ "proof_ready" \notin SignedStates /\ "proof_ready" \in Funded
    BY DEF SignedStates, Funded
  <2>2. op[id].funding \in Outpoints
    BY <1>1, <2>1 DEF Inv, SoundInv, Sound
  <2> QED
    BY <1>1, <1>4, <2>1, <2>2, SoundRow DEF Inv
<1>8. NetworkInv'
  BY <1>1, NetworkFrame DEF Inv
<1>9. BackedInv'
  <2>1. id \in ToSet(backup.ledger)
    BY <1>1 DEF Inv, SoundInv, Sound
  <2>2. \A x \in Ids : op'[x].acked => backup # None /\ x \in ToSet(backup.ledger)
    BY <1>1, <1>4, <2>1 DEF Inv, BackedInv
  <2> QED
    BY <1>1, <2>2 DEF Inv, BackedInv
<1> QED
  BY <1>5, <1>6, <1>7, <1>8, <1>9 DEF Inv

\* sign_and_broadcast leaves a row with its whole evidence.
LEMMA SignInv ==
    ASSUME Inv, NEW id \in Ids, NEW taken \in BOOLEAN, NEW cut \in BOOLEAN,
           SignAndBroadcast(id, taken, cut)
    PROVE  Inv'
<1> DEFINE o == op[id].funding
           signed == IF cut THEN "signed_persisted" ELSE "broadcast_unobserved"
<1>1. /\ op[id].state = "proof_ready" /\ op[id].acked /\ IssuanceEnabled /\ Current(id) /\ InLedger(id)
      /\ BoundTo(id, o) /\ Relayed(id, o, taken) /\ released' = released \cup {id} /\ Cut(cut)
      /\ op' = [op EXCEPT ![id].stamp = process.release, ![id].state = signed]
      /\ UNCHANGED <<floor, verified, instrument, ledger, reserved, clean, backup, older, mined, accepted,
                     behind>>
  BY DEF SignAndBroadcast, Stamp, backups
<1>2. op \in Rows /\ op[id] \in OpRow
  BY DEF Inv, TypeInv, TypeOK, Rows, OpRow
<1>3. /\ process.release \in Releases /\ Release[process.release].version # 0
      /\ Release[process.release].format = 2
      /\ Release[process.release].policy # None /\ Release[process.release].policy \in Policies
  BY <1>1, GatesOpen
<1>4. signed \in SignedStates /\ signed \in States /\ signed # "none"
  BY DEF SignedStates, States
<1> HIDE DEF signed
<1>5. op' = SetRow(id, signed, op[id].acked, process.release)
  <2>1. [op[id] EXCEPT !.state = signed, !.acked = op[id].acked, !.stamp = process.release]
          = [op[id] EXCEPT !.stamp = process.release, !.state = signed]
    BY <1>2 DEF OpRow
  <2> QED
    BY <1>1, <1>2, <2>1 DEF Rows, SetRow
<1>6. /\ op' \in Rows /\ \A x \in Ids : x # id => op'[x] = op[x]
      /\ op'[id].state = signed /\ op'[id].acked = op[id].acked /\ op'[id].stamp = process.release
      /\ op'[id].funding = o
  <2>1. op[id].acked \in BOOLEAN
    BY <1>2 DEF OpRow
  <2> QED
    BY <1>2, <1>3, <1>4, <1>5, <2>1, RowSet
<1>7. o \in Outpoints
  BY <1>1 DEF Inv, SoundInv, Sound, Funded
<1>8. /\ Authorization[id].release = process.release
      /\ Verified(id, Release[process.release].policy, Release[process.release].version, now)
  BY <1>1 DEF Current
<1>9. Authorized(id)
  BY <1>3, <1>8, VerifiedAuthorized
<1>10. Evidence(op'[id], id)
  <2>1. Verified(id, Release[process.release].policy, Release[process.release].version,
                 Authorization[id].notBefore)
    BY <1>8, VerifiedAtStart
  <2>2. process.release # None
    BY <1>3, IssuanceAssumption
  <2> QED
    BY <1>1, <1>3, <1>6, <1>8, <1>9, <2>1, <2>2 DEF Evidence
<1>11. process' = process \/ process' = Closed
  BY <1>1, CutProcess
<1>12. NetworkInv' /\ network \subseteq network' /\ network' \subseteq Ids \X Outpoints
  <2>1. NetworkInv'
    BY <1>1, <1>9, RelayFrame DEF Inv
  <2> QED
    BY <1>1, <1>7, <2>1 DEF Relayed, Inv, TypeInv, TypeOK
<1>13. TypeInv'
  <2>1. /\ verified' \in BOOLEAN /\ instrument' \in BOOLEAN /\ ledger' \in Seq(Ids)
        /\ reserved' \in [Outpoints -> Ids \cup {None}] /\ released' \subseteq Ids
    BY <1>1 DEF Inv, TypeInv, TypeOK
  <2> QED
    BY <1>1, <1>6, <1>11, <1>12, <2>1, TypeFrame DEF Inv
<1>14. FloorInv'
  BY <1>1, <1>11, FloorFrame DEF Inv
<1>15. SoundInv'
  BY <1>1, <1>4, <1>6, <1>7, <1>10, SoundRow DEF Inv
<1>16. BackedInv'
  <2>1. id \in ToSet(ledger)
    BY <1>1 DEF InLedger, ToSet
  <2>2. backup # None /\ id \in ToSet(backup.ledger)
    BY <1>1 DEF Inv, BackedInv
  <2>3. \A x \in Ids : op'[x].acked => op[x].acked
    BY <1>6
  <2>4. ~behind => \A x \in released' : /\ backup # None /\ x \in ToSet(backup.ledger)
                                        /\ clean \/ x \in ToSet(ledger)
    BY <1>1, <2>1, <2>2 DEF Inv, BackedInv
  <2> QED
    BY <1>1, <2>3, <2>4 DEF Inv, BackedInv
<1> QED
  BY <1>12, <1>13, <1>14, <1>15, <1>16 DEF Inv

\* A signed mint is relayed again, bumped or confirmed: its evidence stays.
LEMMA SignedSteps ==
    ASSUME Inv, NEW id \in Ids
    PROVE  /\ \A taken \in BOOLEAN : ResumeSigned(id, taken) => Inv'
           /\ \A taken \in BOOLEAN : FeeBump(id, taken) => Inv'
           /\ Confirm(id) => Inv'
<1>1. op \in Rows /\ op[id] \in OpRow
  BY DEF Inv, TypeInv, TypeOK, Rows, OpRow
<1>2. ASSUME op[id].state \in SignedStates
      PROVE  /\ Evidence(op[id], id) /\ BoundTo(id, op[id].funding) /\ Authorized(id)
             /\ op[id].funding \in Outpoints /\ op[id].state # "none"
  <2>1. Evidence(op[id], id)
    BY <1>2 DEF Inv, SoundInv, Sound
  <2>2. op[id].funding \in Outpoints
    BY <1>2 DEF Inv, SoundInv, Sound, Funded
  <2> QED
    BY <1>2, <2>1, <2>2 DEF Evidence, SignedStates
<1>3. ASSUME NEW state \in SignedStates, op[id].state \in SignedStates,
             op' = [op EXCEPT ![id].state = state]
      PROVE  /\ op' \in Rows /\ \A x \in Ids : x # id => op'[x] = op[x]
             /\ op'[id].state = state /\ op'[id].acked = op[id].acked
             /\ op'[id].funding = op[id].funding /\ Evidence(op'[id], id) /\ state # "none"
  <2>1. op[id].acked \in BOOLEAN /\ op[id].stamp \in Releases \cup {None} /\ state \in States /\ state # "none"
    BY <1>1 DEF OpRow, States, SignedStates
  <2>2. [op[id] EXCEPT !.state = state]
          = [op[id] EXCEPT !.state = state, !.acked = op[id].acked, !.stamp = op[id].stamp]
    BY <1>1 DEF OpRow
  <2>3. op' = SetRow(id, state, op[id].acked, op[id].stamp)
    BY <1>3, <2>2 DEF SetRow
  <2>4. /\ op' \in Rows /\ \A x \in Ids : x # id => op'[x] = op[x]
        /\ op'[id].state = state /\ op'[id].acked = op[id].acked
        /\ op'[id].stamp = op[id].stamp /\ op'[id].funding = op[id].funding
    BY <1>1, <2>1, <2>3, RowSet
  <2> QED
    BY <1>2, <1>3, <2>1, <2>4 DEF Evidence
<1>4. ASSUME NEW taken \in BOOLEAN, UNCHANGED mined, op[id].state \in SignedStates,
             Relayed(id, op[id].funding, taken)
      PROVE  NetworkInv' /\ network \subseteq network' /\ network' \subseteq Ids \X Outpoints
  <2>1. NetworkInv'
    BY <1>2, <1>4, RelayFrame DEF Inv
  <2> QED
    BY <1>2, <1>4, <2>1 DEF Relayed, Inv, TypeInv, TypeOK
<1>5. ASSUME NEW taken \in BOOLEAN, ResumeSigned(id, taken) PROVE Inv'
  <2>1. /\ op[id].state \in SignedStates /\ "broadcast_unobserved" \in SignedStates
        /\ op' = [op EXCEPT ![id].state = "broadcast_unobserved"]
        /\ Relayed(id, op[id].funding, taken)
        /\ UNCHANGED <<floor, verified, instrument, ledger, reserved, clean, process, backup, older, mined,
                       accepted, released, behind>>
    BY <1>5 DEF ResumeSigned, SignedStates, backups, history
  <2>2. /\ op' \in Rows /\ \A x \in Ids : x # id => op'[x] = op[x]
        /\ op'[id].acked = op[id].acked /\ op'[id].state # "none"
        /\ op'[id].funding = op[id].funding /\ Evidence(op'[id], id)
    BY <1>3, <2>1
  <2>3. NetworkInv' /\ network \subseteq network' /\ network' \subseteq Ids \X Outpoints
    BY <1>4, <2>1
  <2>4. reserved' \in [Outpoints -> Ids \cup {None}]
    BY <2>1 DEF Inv, TypeInv, TypeOK
  <2> QED
    BY <1>2, <2>1, <2>2, <2>3, <2>4, RowSteps
<1>6. ASSUME NEW taken \in BOOLEAN, FeeBump(id, taken) PROVE Inv'
  <2>1. /\ op[id].state \in SignedStates /\ Relayed(id, op[id].funding, taken)
        /\ UNCHANGED <<floor, verified, instrument, ledger, op, reserved, clean, process, backup, older, mined,
                       accepted, released, behind>>
    BY <1>6 DEF FeeBump, SignedStates, database, backups, history
  <2>2. NetworkInv' /\ network \subseteq network' /\ network' \subseteq Ids \X Outpoints
    BY <1>4, <2>1
  <2>3. reserved' \in [Outpoints -> Ids \cup {None}]
    BY <2>1 DEF Inv, TypeInv, TypeOK
  <2> QED
    BY <1>1, <1>2, <2>1, <2>2, <2>3, RowSteps
<1>7. ASSUME Confirm(id) PROVE Inv'
  <2>1. /\ op[id].state \in SignedStates /\ "confirmed" \in SignedStates
        /\ op' = [op EXCEPT ![id].state = "confirmed"]
        /\ UNCHANGED <<floor, verified, instrument, ledger, reserved, clean, process, backup, older, network,
                       mined, accepted, released, behind>>
    BY <1>7 DEF Confirm, SignedStates, backups, chain, history
  <2>2. /\ op' \in Rows /\ \A x \in Ids : x # id => op'[x] = op[x]
        /\ op'[id].acked = op[id].acked /\ op'[id].state # "none"
        /\ op'[id].funding = op[id].funding /\ Evidence(op'[id], id)
    BY <1>3, <2>1
  <2>3. /\ NetworkInv' /\ network \subseteq network' /\ network' \subseteq Ids \X Outpoints
        /\ reserved' \in [Outpoints -> Ids \cup {None}]
    BY <2>1, NetworkFrame DEF Inv, TypeInv, TypeOK
  <2> QED
    BY <1>2, <2>1, <2>2, <2>3, RowSteps
<1> QED
  BY <1>5, <1>6, <1>7

\* cancel_operation: the ledger keeps the row, and the operation stays beside it.
LEMMA CancelInv ==
    ASSUME Inv, NEW id \in Ids, NEW cut \in BOOLEAN, CancelOperation(id, cut)
    PROVE  Inv'
<1>1. /\ op[id].state \in {"planned", "fee_reserved", "proof_ready"} /\ Cut(cut)
      /\ reserved' = [o \in Outpoints |-> IF reserved[o] = id THEN None ELSE reserved[o]]
      /\ op' = IF cut THEN op ELSE [op EXCEPT ![id].state = "cancelled"]
      /\ UNCHANGED <<floor, verified, instrument, ledger, clean, backup, older, network, mined, accepted,
                     released, behind>>
  BY DEF CancelOperation, backups, chain, history
<1>2. op \in Rows /\ op[id] \in OpRow /\ reserved \in [Outpoints -> Ids \cup {None}]
  BY DEF Inv, TypeInv, TypeOK, Rows, OpRow
<1>3. reserved' \in [Outpoints -> Ids \cup {None}]
  BY <1>1, <1>2
<1>4. process' = process \/ process' = Closed
  BY <1>1, CutProcess
<1>5. NetworkInv' /\ network \subseteq network' /\ network' \subseteq Ids \X Outpoints
  BY <1>1, NetworkFrame DEF Inv, TypeInv, TypeOK
<1>6. op[id].state # "none" /\ op[id].state \notin SignedStates
  BY <1>1 DEF SignedStates
<1>7. CASE cut
  <2>1. op' = op
    BY <1>1, <1>7
  <2>2. op'[id].state \in Funded => op'[id].funding \in Outpoints
    BY <2>1 DEF Inv, SoundInv, Sound
  <2> QED
    BY <1>1, <1>2, <1>3, <1>4, <1>5, <1>6, <2>1, <2>2, RowSteps
<1>8. CASE ~cut
  <2>1. /\ op[id].acked \in BOOLEAN /\ op[id].stamp \in Releases \cup {None} /\ "cancelled" \in States
        /\ "cancelled" \notin SignedStates /\ "cancelled" \notin Funded /\ "cancelled" # "none"
    BY <1>2 DEF OpRow, States, SignedStates, Funded
  <2>2. [op[id] EXCEPT !.state = "cancelled"]
          = [op[id] EXCEPT !.state = "cancelled", !.acked = op[id].acked, !.stamp = op[id].stamp]
    BY <1>2 DEF OpRow
  <2>3. op' = SetRow(id, "cancelled", op[id].acked, op[id].stamp)
    BY <1>1, <1>8, <2>2 DEF SetRow
  <2>4. /\ op' \in Rows /\ \A x \in Ids : x # id => op'[x] = op[x]
        /\ op'[id].state = "cancelled" /\ op'[id].acked = op[id].acked
    BY <1>2, <2>1, <2>3, RowSet
  <2> QED
    BY <1>1, <1>3, <1>4, <1>5, <1>6, <2>1, <2>4, RowSteps
<1> QED
  BY <1>7, <1>8

\* The checkpoint of the database.
LEMMA CheckpointFacts ==
    ASSUME Inv
    PROVE  /\ Checkpoint \in Checkpoints /\ Checkpoint # None
           /\ Checkpoint.ledger = ledger /\ Checkpoint.op \in Rows
           /\ Sound(Checkpoint.ledger, Checkpoint.op)
           /\ \A id \in Ids : ~Checkpoint.op[id].acked
<1>1. op \in [Ids -> OpRow]
  BY DEF Inv, TypeInv, TypeOK, Rows, OpRow
<1>2. /\ \A id \in Ids : /\ Exported(op)[id] \in OpRow
                         /\ Exported(op)[id].state = op[id].state /\ Exported(op)[id].acked = FALSE
                         /\ Exported(op)[id].funding = op[id].funding
                         /\ Exported(op)[id].stamp = op[id].stamp
      /\ Exported(op) \in [Ids -> OpRow]
  <2>1. ASSUME NEW id \in Ids
        PROVE  /\ Exported(op)[id] \in OpRow
               /\ Exported(op)[id].state = op[id].state /\ Exported(op)[id].acked = FALSE
               /\ Exported(op)[id].funding = op[id].funding
               /\ Exported(op)[id].stamp = op[id].stamp
    <3>1. Exported(op)[id] = [op[id] EXCEPT !.acked = FALSE] /\ op[id] \in OpRow
      BY <1>1 DEF Exported
    <3> QED
      BY <3>1 DEF OpRow
  <2>2. Exported(op) \in [Ids -> OpRow]
    BY <2>1 DEF Exported
  <2> QED
    BY <2>1, <2>2
<1>3. /\ Checkpoint.floor = floor /\ Checkpoint.instrument = instrument
      /\ Checkpoint.ledger = ledger /\ Checkpoint.op = Exported(op)
  BY DEF Checkpoint
<1>4. Checkpoint \in Checkpoints
  <2>1. /\ floor \in Releases \cup {None} /\ instrument \in BOOLEAN /\ ledger \in Seq(Ids)
        /\ Exported(op) \in Rows
    BY <1>2 DEF Inv, TypeInv, TypeOK, Rows, OpRow
  <2> QED
    BY <2>1 DEF Checkpoint, Checkpoints
<1>5. Sound(ledger, Exported(op))
  <2>1. Sound(ledger, op)
    BY DEF Inv, SoundInv
  <2>2. ASSUME NEW id \in Ids, op[id].state \in SignedStates PROVE Evidence(Exported(op)[id], id)
    BY <1>2, <2>1, <2>2 DEF Sound, Evidence
  <2> QED
    BY <1>2, <2>1, <2>2 DEF Sound
<1> QED
  BY <1>2, <1>3, <1>4, <1>5, NoCheckpoint DEF Rows, OpRow

\* The host stores a checkpoint.
LEMMA ExportInv ==
    ASSUME Inv, Export
    PROVE  Inv'
<1>1. /\ ~clean /\ backup' = Checkpoint /\ older' \in {older, backup}
      /\ UNCHANGED <<floor, verified, instrument, ledger, op, reserved, clean, process, network, mined,
                     accepted, released, behind>>
  BY DEF Export, database, chain, history
<1>2. /\ Checkpoint \in Checkpoints /\ Checkpoint # None
      /\ Checkpoint.ledger = ledger /\ Checkpoint.op \in Rows
      /\ Sound(Checkpoint.ledger, Checkpoint.op)
      /\ \A id \in Ids : ~Checkpoint.op[id].acked
  BY CheckpointFacts
<1>3. TypeInv'
  <2>1. TypeOK'
    BY <1>1, <1>2 DEF Inv, TypeInv, TypeOK
  <2> QED
    BY <1>1, <1>2, <2>1 DEF Inv, TypeInv
<1>4. FloorInv'
  BY <1>1, FloorFrame DEF Inv
<1>5. SoundInv'
  BY <1>1, <1>2 DEF Inv, SoundInv
<1>6. NetworkInv'
  BY <1>1, NetworkFrame DEF Inv
<1>7. BackedInv'
  <2>1. \A id \in Ids : op[id].acked => id \in ToSet(ledger)
    BY DEF Inv, SoundInv, Sound
  <2>2. ~behind => \A id \in released : id \in ToSet(ledger)
    BY <1>1 DEF Inv, BackedInv
  <2> QED
    BY <1>1, <1>2, <2>1, <2>2 DEF Inv, BackedInv
<1> QED
  BY <1>3, <1>4, <1>5, <1>6, <1>7 DEF Inv

\* The database is lost: what was signed is in the backup that the host then restores.
LEMMA LoseInv ==
    ASSUME Inv, LoseDatabase
    PROVE  Inv'
<1>1. /\ floor' = None /\ verified' = FALSE /\ instrument' = FALSE /\ ledger' = <<>>
      /\ op' = [id \in Ids |-> NoOperation] /\ reserved' = [o \in Outpoints |-> None]
      /\ clean' = (backup # None) /\ process' = Closed /\ accepted' = {}
      /\ UNCHANGED <<backup, older, network, mined, released, behind>>
  BY DEF LoseDatabase, backups, chain
<1>2. NoOperation \in OpRow /\ NoOperation.state = "none" /\ NoOperation.acked = FALSE
  BY DEF NoOperation, OpRow, States
<1>3. op' \in Rows /\ \A id \in Ids : op'[id] = NoOperation
  BY <1>1, <1>2 DEF Rows, OpRow
<1>4. <<>> \in Seq(Ids) /\ DOMAIN <<>> = {} /\ ToSet(<<>>) = {}
  BY DEF ToSet
<1>5. Closed.registry = "closed" /\ Closed \in Processes /\ Closed.open = FALSE
  BY DEF Closed, Processes
<1>6. TypeInv'
  <2>1. clean' \in BOOLEAN
    BY <1>1
  <2>2. TypeOK'
    BY <1>1, <1>3, <1>5, <2>1 DEF Inv, TypeInv, TypeOK
  <2> QED
    BY <1>1, <1>4, <1>5, <2>2 DEF Inv, TypeInv
<1>7. FloorInv'
  BY <1>1, <1>5 DEF FloorInv
<1>8. SoundInv'
  <2>1. Sound(ledger', op')
    BY <1>1, <1>2, <1>3, <1>4 DEF Sound, Chained, SignedStates, Funded
  <2> QED
    BY <1>1, <2>1 DEF Inv, SoundInv
<1>9. NetworkInv'
  BY <1>1, NetworkFrame DEF Inv
<1>10. BackedInv'
  BY <1>1, <1>2, <1>3 DEF Inv, BackedInv
<1> QED
  BY <1>6, <1>7, <1>8, <1>9, <1>10 DEF Inv

\* restore_checkpoint: the floor only rises, and the ledger comes with its operations.
LEMMA RestoreInv ==
    ASSUME Inv, NEW b \in {backup, older}, Restore(b)
    PROVE  Inv'
<1> DEFINE f == IF floor = None \/ Release[b.floor].version > Release[floor].version
                THEN b.floor ELSE floor
           r == process.release
<1>1. /\ process.open /\ b # None /\ FloorAccepted(b, floor)
      /\ process' = [process EXCEPT !.registry = Reconcile(r, f)]
      /\ floor' = Raised(r, f) /\ accepted' = accepted \cup {f}
      /\ instrument' = b.instrument /\ ledger' = b.ledger /\ op' = b.op
      /\ reserved' = Reservations(b.op) /\ clean' = FALSE
      /\ (behind' <=> behind \/ b # backup)
      /\ UNCHANGED <<verified, backup, older, network, mined, released>>
  BY DEF Restore, RestoreAccepts, backups, chain
<1>2. /\ b \in Checkpoints /\ Sound(b.ledger, b.op) /\ \A id \in Ids : ~b.op[id].acked
  BY <1>1 DEF Inv, TypeInv, SoundInv, BackedInv
<1>3. /\ b.floor \in Releases /\ b.instrument \in BOOLEAN /\ b.ledger \in Seq(Ids) /\ b.op \in Rows
  BY <1>1, <1>2 DEF Checkpoints, FloorAccepted
<1>4. floor \in Releases \cup {None} /\ accepted \subseteq Releases /\ r \in Releases \cup {None}
      /\ process \in Processes
  BY DEF Inv, TypeInv, TypeOK, Processes
<1>5. f \in Releases /\ (floor # None => Below(floor, f))
  <2>1. CASE floor = None
    BY <1>3, <2>1
  <2>2. CASE floor # None
    <3>1. floor \in Releases /\ Release[floor].version \in Nat /\ Release[b.floor].version \in Nat
      BY <1>3, <1>4, <2>2, IssuanceAssumption
    <3> QED
      BY <1>3, <2>2, <3>1 DEF Below
  <2> QED
    BY <2>1, <2>2
<1> HIDE DEF f
<1>6. f # None
  BY <1>5, IssuanceAssumption
<1>7. /\ Raised(r, f) \in Releases /\ Below(f, Raised(r, f))
      /\ Reconcile(r, f) \in {"unconfigured", "current", "rollback", "conflict"}
      /\ Reconcile(r, f) = "current" => r # None /\ Raised(r, f) = r
  BY <1>4, <1>5, <1>6, RaisedFloor
<1>8. /\ process' \in Processes /\ process'.open = TRUE /\ process'.release = r
      /\ process'.registry = Reconcile(r, f)
  BY <1>1, <1>4, <1>7 DEF Processes
<1>9. Reservations(b.op) \in [Outpoints -> Ids \cup {None}]
  <2>1. \A o \in Outpoints : Reservations(b.op)[o] \in Ids \cup {None}
    BY DEF Reservations
  <2> QED
    BY <2>1 DEF Reservations
<1>10. TypeInv'
  <2>1. TypeOK'
    <3>1. /\ floor' \in Releases \cup {None} /\ instrument' \in BOOLEAN /\ clean' \in BOOLEAN
          /\ op' \in Rows /\ reserved' \in [Outpoints -> Ids \cup {None}]
      BY <1>1, <1>3, <1>7, <1>9
    <3>2. /\ process'.registry \in {"closed", "unconfigured", "current", "rollback", "conflict"}
          /\ process'.open <=> process'.registry # "closed"
      BY <1>7, <1>8
    <3> QED
      BY <1>1, <3>1, <3>2 DEF Inv, TypeInv, TypeOK
  <2>2. ConfigAccepted(r) /\ accepted' \subseteq Releases
    BY <1>1, <1>4, <1>5 DEF Inv, TypeInv
  <2> QED
    BY <1>1, <1>3, <1>8, <2>1, <2>2 DEF Inv, TypeInv
<1>11. FloorInv'
  <2>1. floor' # None /\ floor' \in Releases /\ Below(f, floor')
    BY <1>1, <1>7, IssuanceAssumption
  <2>2. ASSUME NEW s \in accepted' PROVE Below(s, floor')
    <3>1. CASE s \in accepted
      <4>1. floor # None /\ Below(s, floor) /\ s \in Releases /\ floor \in Releases
        BY <1>4, <3>1 DEF Inv, FloorInv
      <4>2. Below(s, f)
        BY <1>5, <4>1, BelowTransitive
      <4> QED
        BY <1>5, <2>1, <4>1, <4>2, BelowTransitive
    <3>2. CASE s \notin accepted
      BY <1>1, <2>1, <3>2
    <3> QED
      BY <3>1, <3>2
  <2>3. process'.registry = "current" => process'.release # None /\ process'.release = floor'
    BY <1>1, <1>7, <1>8
  <2> QED
    BY <2>1, <2>2, <2>3 DEF FloorInv, Below
<1>12. SoundInv'
  BY <1>1, <1>2 DEF Inv, SoundInv
<1>13. NetworkInv'
  BY <1>1, NetworkFrame DEF Inv
<1>14. BackedInv'
  <2>1. \A id \in Ids : ~op'[id].acked
    BY <1>1, <1>2
  <2>2. ~behind' => \A id \in released : backup # None /\ id \in ToSet(backup.ledger) /\ id \in ToSet(ledger')
    BY <1>1 DEF Inv, BackedInv
  <2> QED
    BY <1>1, <2>1, <2>2 DEF Inv, BackedInv
<1> QED
  BY <1>10, <1>11, <1>12, <1>13, <1>14 DEF Inv

\* Every step keeps the invariant.
LEMMA InvStep == Inv /\ [Next]_vars => Inv'
<1> SUFFICES ASSUME Inv, [Next]_vars PROVE Inv'
  OBVIOUS
<1>1. ASSUME NEW r \in Releases \cup {None}, Open(r) PROVE Inv'
  BY <1>1, OpenInv
<1>2. ASSUME NEW id \in Ids, NEW cut \in BOOLEAN, MintPrepare(id, cut) \/ ResumeUnsigned(id, cut) PROVE Inv'
  BY <1>2, MintPrepareInv, ResumeUnsignedInv
<1>3. ASSUME NEW id \in Ids, AcknowledgeOperation(id) PROVE Inv'
  BY <1>3, AcknowledgeInv
<1>4. ASSUME NEW id \in Ids, NEW taken \in BOOLEAN, NEW cut \in BOOLEAN, SignAndBroadcast(id, taken, cut)
      PROVE  Inv'
  BY <1>4, SignInv
<1>5. ASSUME NEW id \in Ids, NEW taken \in BOOLEAN, ResumeSigned(id, taken) \/ FeeBump(id, taken) PROVE Inv'
  BY <1>5, SignedSteps
<1>6. ASSUME NEW id \in Ids, Confirm(id) PROVE Inv'
  BY <1>6, SignedSteps
<1>7. ASSUME NEW id \in Ids, NEW cut \in BOOLEAN, CancelOperation(id, cut) PROVE Inv'
  BY <1>7, CancelInv
<1>8. ASSUME NEW b \in {backup, older}, Restore(b) PROVE Inv'
  BY <1>8, RestoreInv
<1>9. ASSUME NEW t \in network, Mine(t) PROVE Inv'
  BY <1>9, MineInv
<1> QED
  BY <1>1, <1>2, <1>3, <1>4, <1>5, <1>6, <1>7, <1>8, <1>9, PlainSteps, ExportInv, LoseInv DEF Next

\* The invariant is one.
LEMMA Invariance == Spec => []Inv
  BY InvInit, InvStep, PTL DEF Spec

-----------------------------------------------------------------------------
(* Results.                                                                *)

\* The database, the backup, the process and the network stay well typed.
THEOREM IssuanceTypeCorrect == Spec => []TypeOK
<1>1. Inv => TypeOK
  BY DEF Inv, TypeInv
<1> QED
  BY <1>1, Invariance, PTL

\* However often the database is lost and whichever backup is restored, no sequence number is
\* minted twice: honest authorities sign it once, verify_signed_production_mint lets a
\* transaction out only with the outpoint of its authorization, and the chain spends an
\* outpoint once.
THEOREM MintsHappenOnce == Spec => []MintedOnce
<1>1. Inv => MintedOnce
  <2> SUFFICES ASSUME Inv, NEW t \in mined, NEW u \in mined,
                      Authorization[t[1]].sequence = Authorization[u[1]].sequence
               PROVE  t = u
    BY DEF MintedOnce
  <2>1. t \in network /\ u \in network
    BY DEF Inv, TypeInv, TypeOK
  <2>2. /\ t[1] \in Ids /\ BoundTo(t[1], t[2]) /\ Authorized(t[1])
        /\ u[1] \in Ids /\ BoundTo(u[1], u[2]) /\ Authorized(u[1])
    BY <2>1 DEF Inv, NetworkInv
  <2>3. t[1] = u[1]
    BY <2>2, IssuanceAssumption
  <2>4. t[2] = u[2]
    BY <2>2, <2>3 DEF BoundTo
  <2> QED
    BY <2>4 DEF Inv, NetworkInv
<1> QED
  BY <1>1, Invariance, PTL

\* The ledger has no gap, each row continues the one before, and the operations are those of its
\* rows: mint_prepare admits in sequence, and a checkpoint is restored whole.
THEOREM LedgerIsUnbroken == Spec => []LedgerUnbroken
<1>1. Inv => LedgerUnbroken
  <2> SUFFICES ASSUME Inv PROVE LedgerUnbroken
    OBVIOUS
  <2>1. Sound(ledger, op) /\ ledger \in Seq(Ids)
    BY DEF Inv, SoundInv, TypeInv
  <2>2. ToSet(ledger) \subseteq Ids
    <3>1. \A i \in DOMAIN ledger : ledger[i] \in Ids
      BY <2>1, ElementOfSeq, LenProperties
    <3> QED
      BY <3>1 DEF ToSet
  <2>3. {id \in Ids : op[id].state # "none"} = ToSet(ledger)
    BY <2>1, <2>2 DEF Sound
  <2> QED
    BY <2>1, <2>3 DEF Sound, Chained, LedgerUnbroken
<1> QED
  BY <1>1, Invariance, PTL

\* The evidence of a signed mint stands by itself: whatever release the build carries, whatever
\* the time is and after any restore, resume_operation and fee_bump accept it.
THEOREM SignedMintsResume == Spec => []SignedResumes
<1>1. Inv => SignedResumes
  <2> SUFFICES ASSUME Inv, NEW id \in Ids, op[id].state \in SignedStates PROVE SignedEvidence(id)
    BY DEF SignedResumes
  <2>1. Sound(ledger, op)
    BY DEF Inv, SoundInv
  <2>2. Evidence(op[id], id) /\ op[id].state # "none"
    BY <2>1 DEF Sound, SignedStates
  <2>3. InLedger(id)
    BY <2>1, <2>2, RowFound DEF Sound
  <2> QED
    BY <2>2, <2>3 DEF Evidence, SignedEvidence, StampValid
<1> QED
  BY <1>1, Invariance, PTL

\* Unless an earlier backup was restored, the last one holds every authorization that was ever
\* signed for: acknowledge_operation_backup comes before the signature, and a later export
\* drops no row.
THEOREM SignedMintsAreBackedUp == Spec => []SignedBackedUp
<1>1. Inv => SignedBackedUp
  BY DEF Inv, BackedInv, SignedBackedUp
<1> QED
  BY <1>1, Invariance, PTL

\* Only sign_and_broadcast and a restore stamp an operation.
LEMMA Stamped ==
    ASSUME Inv, [Next]_vars, ~clean, NEW id \in Ids, op[id].stamp = None, op'[id].stamp # None
    PROVE  IssuanceEnabled /\ op'[id].stamp = process.release
<1>0. op \in [Ids -> OpRow] /\ TypeInv
  BY DEF Inv, TypeInv, TypeOK, Rows, OpRow
<1>1. op' # op
  OBVIOUS
<1>2. ASSUME NEW x \in Ids, NEW taken \in BOOLEAN, NEW cut \in BOOLEAN, SignAndBroadcast(x, taken, cut)
      PROVE  IssuanceEnabled /\ op'[id].stamp = process.release
  <2> DEFINE signed == IF cut THEN "signed_persisted" ELSE "broadcast_unobserved"
  <2>1. IssuanceEnabled /\ op' = [op EXCEPT ![x].stamp = process.release, ![x].state = signed]
    BY <1>2 DEF SignAndBroadcast, Stamp
  <2> HIDE DEF signed
  <2>2. CASE x = id
    BY <1>0, <2>1, <2>2 DEF OpRow
  <2>3. CASE x # id
    BY <1>0, <2>1, <2>3
  <2> QED
    BY <2>1, <2>2, <2>3
<1>3. ASSUME NEW x \in Ids, NEW o \in Outpoints \cup {None}, NEW cut \in BOOLEAN, Carried(x, o, cut)
      PROVE  FALSE
  <2>1. (\A y \in Ids : y # x => op'[y] = op[y]) /\ op'[x].stamp = None
    BY <1>0, <1>3, CarriedRow
  <2> QED
    BY <2>1
<1>4. ASSUME NEW x \in Ids, NEW cut \in BOOLEAN, MintPrepare(x, cut) \/ ResumeUnsigned(x, cut) PROVE FALSE
  <2>1. op[x].funding \in Outpoints \cup {None}
    BY <1>0 DEF OpRow
  <2>2. PICK o \in Outpoints \cup {None} : Carried(x, o, cut)
    BY <1>4, <2>1, ReachedOutpoints DEF MintPrepare, ResumeUnsigned
  <2> QED
    BY <1>3, <2>2
<1>5. ASSUME NEW x \in Ids, NEW state, op' = [op EXCEPT ![x].state = state] PROVE FALSE
  BY <1>0, <1>5 DEF OpRow
<1>6. ASSUME NEW x \in Ids, op' = [op EXCEPT ![x].acked = TRUE] PROVE FALSE
  BY <1>0, <1>6 DEF OpRow
<1>7. ASSUME NEW x \in Ids, AcknowledgeOperation(x) PROVE FALSE
  BY <1>6, <1>7 DEF AcknowledgeOperation
<1>8. ASSUME NEW x \in Ids, NEW taken \in BOOLEAN, ResumeSigned(x, taken) \/ FeeBump(x, taken) PROVE FALSE
  BY <1>1, <1>5, <1>8 DEF ResumeSigned, FeeBump, database
<1>9. ASSUME NEW x \in Ids, Confirm(x) PROVE FALSE
  BY <1>5, <1>9 DEF Confirm
<1>10. ASSUME NEW x \in Ids, NEW cut \in BOOLEAN, CancelOperation(x, cut) PROVE FALSE
  BY <1>1, <1>5, <1>10 DEF CancelOperation
<1>11. ASSUME LoseDatabase PROVE FALSE
  BY <1>11 DEF LoseDatabase, NoOperation
<1>12. ASSUME NEW b, Restore(b) PROVE FALSE
  BY <1>12 DEF Restore
<1>13. ASSUME NEW r, Open(r) PROVE FALSE
  BY <1>1, <1>13 DEF Open
<1>14. ASSUME Close \/ CreateInstrument \/ Export \/ AcknowledgeCheckpoint \/ Tick PROVE FALSE
  BY <1>1, <1>14 DEF Close, CreateInstrument, Export, AcknowledgeCheckpoint, Tick, database
<1>15. ASSUME NEW x, Fund(x) \/ Mine(x) PROVE FALSE
  BY <1>1, <1>15 DEF Fund, Mine, database
<1>16. ASSUME UNCHANGED vars PROVE FALSE
  BY <1>1, <1>16 DEF vars, database
<1> QED
  BY <1>2, <1>4, <1>7, <1>8, <1>9, <1>10, <1>11, <1>12, <1>13, <1>14, <1>15, <1>16 DEF Next

\* A mint is signed only under the newest release that this database, or the backup it came
\* from, has taken for current: an older build that is installed again, or another release of
\* the same version, opens the account and signs nothing.
THEOREM SignaturesUnderFloor == Spec => SignsUnderFloor
<1> DEFINE Under == \A id \in Ids : op[id].stamp = None /\ op'[id].stamp # None /\ process.open /\ ~clean =>
               \A r \in accepted :
                   r = op'[id].stamp \/ Release[r].version < Release[op'[id].stamp].version
<1>1. Inv /\ [Next]_vars => Under
  <2> SUFFICES ASSUME Inv, [Next]_vars, NEW id \in Ids, op[id].stamp = None, op'[id].stamp # None, ~clean,
                      NEW r \in accepted
               PROVE  r = op'[id].stamp \/ Release[r].version < Release[op'[id].stamp].version
    OBVIOUS
  <2>1. IssuanceEnabled /\ op'[id].stamp = process.release
    BY Stamped
  <2>2. process.release = floor
    BY <2>1, GatesOpen DEF Inv, FloorInv
  <2>3. Below(r, floor)
    BY DEF Inv, FloorInv
  <2> QED
    BY <2>1, <2>2, <2>3 DEF Below
<1>2. Inv /\ [Next]_vars => [Under]_vars
  BY <1>1
<1> QED
  BY <1>2, Invariance, PTL DEF Spec, SignsUnderFloor

-----------------------------------------------------------------------------
(* The supply.                                                             *)

\* An authorization that verified under its own policy, with its checked additions.
Certified(id) == Authorized(id) /\ SupplyFits(Policy[Authorization[id].policy], Authorization[id])

\* The rows of a ledger are of certified authorizations.
AllCertified(rows) == \A id \in ToSet(rows) : Certified(id)

\* An authorization that some ledger of certified rows without a gap has.
Founded(id) == \E rows \in Seq(Ids) : Chained(rows) /\ AllCertified(rows) /\ id \in ToSet(rows)

\* Every ledger, in the database and in a backup, has certified rows only; what was relayed was
\* in such a ledger, which a lost database or an older backup may have dropped since.
SupplyInv ==
    /\ AllCertified(ledger)
    /\ backup # None => AllCertified(backup.ledger)
    /\ older # None => AllCertified(older.ledger)
    /\ \A t \in network : Founded(t[1])

\* What verifies under a configured policy is certified.
LEMMA VerifiedCertified ==
    ASSUME NEW id \in Ids, NEW policy \in Policies, NEW version, NEW time,
           Verified(id, policy, version, time)
    PROVE  Certified(id)
<1>1. Authorized(id)
  BY VerifiedAuthorized
<1>2. Authorization[id].policy = policy /\ SupplyFits(Policy[policy], Authorization[id])
  BY DEF Verified
<1> QED
  BY <1>1, <1>2 DEF Certified

\* The ledger grows by a certified row, is lost, or comes from a backup.
LEMMA LedgerMoves ==
    ASSUME Inv, [Next]_vars
    PROVE  \/ ledger' = ledger \/ ledger' = <<>>
           \/ \E id \in Ids : Certified(id) /\ ledger' = Append(ledger, id)
           \/ \E b \in {backup, older} : b # None /\ ledger' = b.ledger
<1>1. ASSUME NEW id \in Ids, NEW cut \in BOOLEAN, MintPrepare(id, cut)
      PROVE  Certified(id) /\ ledger' = Append(ledger, id)
  <2>1. IssuanceEnabled /\ Current(id) /\ ledger' = Append(ledger, id)
    BY <1>1 DEF MintPrepare, Admitted
  <2>2. Release[process.release].policy \in Policies
    BY <2>1, GatesOpen
  <2>3. Certified(id)
    BY <2>1, <2>2, VerifiedCertified DEF Current
  <2> QED
    BY <2>1, <2>3
<1>2. ASSUME NEW b \in {backup, older}, Restore(b) PROVE b # None /\ ledger' = b.ledger
  BY <1>2 DEF Restore
<1>3. LoseDatabase => ledger' = <<>>
  BY DEF LoseDatabase
<1>4. \A r : Open(r) => ledger' = ledger
  BY DEF Open
<1>5. Close \/ CreateInstrument \/ Export \/ AcknowledgeCheckpoint \/ Tick => ledger' = ledger
  BY DEF Close, CreateInstrument, Export, AcknowledgeCheckpoint, Tick, database
<1>6. ASSUME NEW id, NEW cut, ResumeUnsigned(id, cut) \/ CancelOperation(id, cut) PROVE ledger' = ledger
  BY <1>6 DEF ResumeUnsigned, CancelOperation
<1>7. ASSUME NEW id, NEW taken, NEW cut, SignAndBroadcast(id, taken, cut) PROVE ledger' = ledger
  BY <1>7 DEF SignAndBroadcast
<1>8. ASSUME NEW id, NEW taken, ResumeSigned(id, taken) \/ FeeBump(id, taken) PROVE ledger' = ledger
  BY <1>8 DEF ResumeSigned, FeeBump, database
<1>9. ASSUME NEW id, AcknowledgeOperation(id) \/ Confirm(id) PROVE ledger' = ledger
  BY <1>9 DEF AcknowledgeOperation, Confirm
<1>10. ASSUME NEW x, Fund(x) \/ Mine(x) PROVE ledger' = ledger
  BY <1>10 DEF Fund, Mine, database
<1>11. UNCHANGED vars => ledger' = ledger
  BY DEF vars, database
<1> QED
  BY <1>1, <1>2, <1>3, <1>4, <1>5, <1>6, <1>7, <1>8, <1>9, <1>10, <1>11 DEF Next

\* A backup is a copy of the database or an earlier backup.
LEMMA BackupMoves ==
    ASSUME [Next]_vars
    PROVE  \/ UNCHANGED <<backup, older>>
           \/ backup' = Checkpoint /\ older' \in {older, backup}
<1>1. Export => backup' = Checkpoint /\ older' \in {older, backup}
  BY DEF Export
<1>2. Close \/ CreateInstrument \/ LoseDatabase \/ AcknowledgeCheckpoint \/ Tick => UNCHANGED <<backup, older>>
  BY DEF Close, CreateInstrument, LoseDatabase, AcknowledgeCheckpoint, Tick, backups
<1>3. \A x : Open(x) \/ Restore(x) \/ Fund(x) \/ Mine(x) => UNCHANGED <<backup, older>>
  BY DEF Open, Restore, Fund, Mine, backups
<1>4. ASSUME NEW id, NEW cut, MintPrepare(id, cut) \/ ResumeUnsigned(id, cut) \/ CancelOperation(id, cut)
      PROVE  UNCHANGED <<backup, older>>
  BY <1>4 DEF MintPrepare, ResumeUnsigned, CancelOperation, backups
<1>5. ASSUME NEW id, NEW taken, NEW cut, SignAndBroadcast(id, taken, cut) PROVE UNCHANGED <<backup, older>>
  BY <1>5 DEF SignAndBroadcast, backups
<1>6. ASSUME NEW id, NEW taken, ResumeSigned(id, taken) \/ FeeBump(id, taken) PROVE UNCHANGED <<backup, older>>
  BY <1>6 DEF ResumeSigned, FeeBump, backups
<1>7. ASSUME NEW id, AcknowledgeOperation(id) \/ Confirm(id) PROVE UNCHANGED <<backup, older>>
  BY <1>7 DEF AcknowledgeOperation, Confirm, backups
<1>8. UNCHANGED vars => UNCHANGED <<backup, older>>
  BY DEF vars, backups
<1> QED
  BY <1>1, <1>2, <1>3, <1>4, <1>5, <1>6, <1>7, <1>8 DEF Next

\* Only a mint in the ledger is relayed.
LEMMA NetworkMoves ==
    ASSUME [Next]_vars
    PROVE  \A t \in network' : t \in network \/ \E id \in Ids : t[1] = id /\ InLedger(id)
<1>0. ASSUME NEW id \in Ids, NEW o, NEW taken, Relayed(id, o, taken), InLedger(id)
      PROVE  \A t \in network' : t \in network \/ \E x \in Ids : t[1] = x /\ InLedger(x)
  BY <1>0 DEF Relayed
<1>1. ASSUME NEW id \in Ids, NEW taken, NEW cut, SignAndBroadcast(id, taken, cut)
      PROVE  \A t \in network' : t \in network \/ \E x \in Ids : t[1] = x /\ InLedger(x)
  BY <1>0, <1>1 DEF SignAndBroadcast
<1>2. ASSUME NEW id \in Ids, NEW taken, ResumeSigned(id, taken) \/ FeeBump(id, taken)
      PROVE  \A t \in network' : t \in network \/ \E x \in Ids : t[1] = x /\ InLedger(x)
  BY <1>0, <1>2 DEF ResumeSigned, FeeBump, SignedEvidence
<1>3. Close \/ CreateInstrument \/ LoseDatabase \/ AcknowledgeCheckpoint \/ Export \/ Tick => network' = network
  BY DEF Close, CreateInstrument, LoseDatabase, AcknowledgeCheckpoint, Export, Tick, chain
<1>4. \A x : Open(x) \/ Restore(x) \/ Fund(x) \/ Mine(x) => network' = network
  BY DEF Open, Restore, Fund, Mine, chain
<1>5. ASSUME NEW id, NEW cut, MintPrepare(id, cut) \/ ResumeUnsigned(id, cut) \/ CancelOperation(id, cut)
      PROVE  network' = network
  BY <1>5 DEF MintPrepare, ResumeUnsigned, CancelOperation, chain
<1>6. ASSUME NEW id, AcknowledgeOperation(id) \/ Confirm(id) PROVE network' = network
  BY <1>6 DEF AcknowledgeOperation, Confirm, chain
<1>7. UNCHANGED vars => network' = network
  BY DEF vars, chain
<1> QED
  BY <1>1, <1>2, <1>3, <1>4, <1>5, <1>6, <1>7 DEF Next

\* Rows and the sequence numbers that find them.
LEMMA RowsOf ==
    ASSUME NEW rows \in Seq(Ids)
    PROVE  /\ Len(rows) \in Nat /\ DOMAIN rows = 1..Len(rows)
           /\ \A i \in DOMAIN rows : rows[i] \in Ids /\ rows[i] \in ToSet(rows)
           /\ \A id \in ToSet(rows) : id \in Ids /\ \E i \in DOMAIN rows : rows[i] = id
<1>1. Len(rows) \in Nat /\ DOMAIN rows = 1..Len(rows) /\ \A i \in DOMAIN rows : rows[i] \in Ids
  BY ElementOfSeq, LenProperties
<1> QED
  BY <1>1 DEF ToSet

\* The invariant of the supply holds at first.
LEMMA SupplyInit == Init => SupplyInv
<1>1. ToSet(<<>>) = {}
  BY DEF ToSet
<1> QED
  BY <1>1 DEF Init, SupplyInv, AllCertified

\* A copied ledger is no less certified, a new row is checked, and a relayed mint has its row.
LEMMA SupplyStep == Inv /\ SupplyInv /\ [Next]_vars => SupplyInv'
<1> SUFFICES ASSUME Inv, SupplyInv, [Next]_vars PROVE SupplyInv'
  OBVIOUS
<1>1. ledger \in Seq(Ids) /\ Chained(ledger)
  BY DEF Inv, TypeInv, SoundInv, Sound
<1>2. AllCertified(ledger')
  <2>1. CASE ledger' = ledger
    BY <2>1 DEF SupplyInv
  <2>2. CASE ledger' = <<>>
    BY <2>2 DEF AllCertified, ToSet
  <2>3. CASE \E id \in Ids : Certified(id) /\ ledger' = Append(ledger, id)
    <3>1. PICK id \in Ids : Certified(id) /\ ledger' = Append(ledger, id)
      BY <2>3
    <3>2. ToSet(ledger') = ToSet(ledger) \cup {id}
      BY <1>1, <3>1, AppendRow
    <3> QED
      BY <3>1, <3>2 DEF SupplyInv, AllCertified
  <2>4. CASE \E b \in {backup, older} : b # None /\ ledger' = b.ledger
    BY <2>4 DEF SupplyInv
  <2> QED
    BY <2>1, <2>2, <2>3, <2>4, LedgerMoves
<1>3. (backup' # None => AllCertified(backup'.ledger)) /\ (older' # None => AllCertified(older'.ledger))
  <2>1. Checkpoint.ledger = ledger
    BY DEF Checkpoint
  <2> QED
    BY <2>1, BackupMoves DEF SupplyInv
<1>4. ASSUME NEW t \in network' PROVE Founded(t[1])
  <2>1. CASE t \in network
    BY <2>1 DEF SupplyInv
  <2>2. CASE \E id \in Ids : t[1] = id /\ InLedger(id)
    <3>1. t[1] \in ToSet(ledger)
      BY <2>2 DEF InLedger, ToSet
    <3> QED
      BY <1>1, <3>1 DEF SupplyInv, Founded
  <2> QED
    BY <1>4, <2>1, <2>2, NetworkMoves
<1> QED
  BY <1>2, <1>3, <1>4 DEF SupplyInv

\* The amounts of an authorization add up to a natural number.
LEMMA TotalNat ==
    ASSUME NEW id \in Ids
    PROVE  Total(Authorization[id]) \in Nat
<1> DEFINE amounts == Authorization[id].amounts
<1>1. amounts \in Seq(Nat)
  BY IssuanceAssumption
<1> HIDE DEF amounts
<1>2. Len(amounts) \in Nat /\ DOMAIN amounts = 1..Len(amounts) /\ \A i \in DOMAIN amounts : amounts[i] \in Nat
  BY <1>1, ElementOfSeq, LenProperties
<1>3. IsFiniteSet(DOMAIN amounts)
  BY <1>2, FS_Interval
<1>4. SumFunctionOnSet(amounts, DOMAIN amounts) \in Nat
  BY <1>2, <1>3, SumNat
<1> QED
  BY <1>4 DEF Total, SumFunction, amounts

\* What was mined up to a row of a ledger without a gap is not more than the supply that the
\* row names: of each row at most one transaction is mined, and honest authorities sign no
\* other mint with its number.
LEMMA SupplyUpTo ==
    ASSUME Inv, SupplyInv, NEW rows \in Seq(Ids), Chained(rows), AllCertified(rows), NEW n \in DOMAIN rows
    PROVE  SumFunctionOnSet([u \in mined |-> Total(Authorization[u[1]])],
                            {u \in mined : Authorization[u[1]].sequence <= n})
             <= Authorization[rows[n]].after
<1> DEFINE value == [u \in mined |-> Total(Authorization[u[1]])]
           upTo(k) == {u \in mined : Authorization[u[1]].sequence <= k}
           after(k) == IF k = 0 THEN 0 ELSE Authorization[rows[k]].after
           Holds(k) == /\ IsFiniteSet(upTo(k)) /\ after(k) \in Nat
                       /\ SumFunctionOnSet(value, upTo(k)) <= after(k)
           T == {k \in 0..n : ~Holds(k)}
<1>1. /\ Len(rows) \in Nat /\ DOMAIN rows = 1..Len(rows) /\ n \in Nat /\ n >= 1 /\ n <= Len(rows)
      /\ \A i \in DOMAIN rows : rows[i] \in Ids /\ rows[i] \in ToSet(rows)
  BY RowsOf
<1>2. ASSUME NEW u \in mined
      PROVE  /\ u[1] \in Ids /\ Authorized(u[1]) /\ value[u] = Total(Authorization[u[1]])
             /\ value[u] \in Nat /\ Authorization[u[1]].sequence \in Nat
             /\ Authorization[u[1]].sequence # 0
  <2>1. u \in network
    BY DEF Inv, TypeInv, TypeOK
  <2>2. u[1] \in Ids /\ Authorized(u[1]) /\ Founded(u[1])
    BY <2>1 DEF Inv, NetworkInv, SupplyInv
  <2>3. PICK more \in Seq(Ids) : Chained(more) /\ u[1] \in ToSet(more)
    BY <2>2 DEF Founded
  <2>4. PICK i \in DOMAIN more : more[i] = u[1]
    BY <2>3, RowsOf
  <2>5. i \in Nat /\ i # 0 /\ Authorization[u[1]].sequence = i
    BY <2>3, <2>4, RowsOf DEF Chained
  <2> QED
    BY <2>2, <2>5, TotalNat
<1>3. T = {}
  <2> SUFFICES ASSUME T # {} PROVE FALSE
    OBVIOUS
  <2>1. T \subseteq Nat
    BY <1>1
  <2> HIDE DEF T
  <2>2. PICK k \in T : \A j \in T : k <= j
    BY <2>1, LeastNumber
  <2>3. k \in 0..n /\ ~Holds(k) /\ k \in Nat
    BY <2>2 DEF T
  <2>4. CASE k = 0
    <3>1. upTo(0) = {}
      BY <1>2
    <3>2. IsFiniteSet({}) /\ SumFunctionOnSet(value, {}) = 0
      BY FS_EmptySet, SumEmpty
    <3>3. after(0) = 0
      OBVIOUS
    <3>4. Holds(0)
      <4> HIDE DEF upTo, value, after
      <4>1. IsFiniteSet(upTo(0)) /\ SumFunctionOnSet(value, upTo(0)) = 0
        BY <3>1, <3>2, Zenon
      <4>2. 0 \in Nat /\ 0 <= 0
        OBVIOUS
      <4> QED
        BY <3>3, <4>1, <4>2, Zenon
    <3> QED
      BY <2>3, <2>4, <3>4
  <2>5. CASE k # 0
    <3>1. k - 1 \in 0..n /\ k - 1 \in Nat /\ ~(k <= k - 1)
      BY <1>1, <2>3, <2>5
    <3>2. Holds(k - 1)
      BY <2>2, <3>1 DEF T
    <3>3. k \in DOMAIN rows
      BY <1>1, <2>3, <2>5
    <3> DEFINE total == Total(Authorization[rows[k]])
    <3>4. after(k) = after(k - 1) + total /\ total \in Nat
      <4>1. Certified(rows[k]) /\ rows[k] \in Ids
        BY <1>1, <3>3 DEF AllCertified
      <4>2. Authorization[rows[k]].before + total = Authorization[rows[k]].after
        BY <4>1 DEF Certified, Authorized
      <4>3. Authorization[rows[k]].before = after(k - 1)
        BY <2>3, <3>1, <3>3 DEF Chained
      <4> QED
        BY <2>5, <4>1, <4>2, <4>3, TotalNat
    <3>5. ASSUME NEW u \in mined, Authorization[u[1]].sequence = k PROVE u[1] = rows[k]
      <4>1. /\ Authorized(rows[k]) /\ rows[k] \in Ids /\ Authorization[rows[k]].sequence = k
        BY <1>1, <3>3 DEF AllCertified, Certified, Chained
      <4> QED
        BY <1>2, <3>5, <4>1, IssuanceAssumption
    <3>6. \A u \in mined : Authorization[u[1]].sequence \in Nat /\
            (Authorization[u[1]].sequence <= k <=>
                Authorization[u[1]].sequence <= k - 1 \/ Authorization[u[1]].sequence = k)
      BY <1>2, <2>3
    <3>7. CASE \E u \in mined : Authorization[u[1]].sequence = k
      <4>1. PICK u \in mined : Authorization[u[1]].sequence = k
        BY <3>7
      <4>2. \A w \in mined : Authorization[w[1]].sequence = k => w = u
        <5>1. ASSUME NEW w \in mined, Authorization[w[1]].sequence = k PROVE w = u
          <6>1. w[1] = u[1] /\ w \in network /\ u \in network
            BY <3>5, <4>1, <5>1 DEF Inv, TypeInv, TypeOK
          <6>2. w[2] = u[2]
            BY <6>1 DEF Inv, NetworkInv, BoundTo
          <6> QED
            BY <6>2 DEF Inv, NetworkInv
        <5> QED
          BY <5>1
      <4>3. upTo(k) = upTo(k - 1) \cup {u}
        BY <3>6, <4>1, <4>2
      <4>4. u \notin upTo(k - 1)
        BY <2>3, <4>1
      <4>5. value[u] = total /\ \A w \in upTo(k - 1) \cup {u} : value[w] \in Int
        BY <1>2, <3>5, <4>1
      <4> HIDE DEF upTo, value, total, after
      <4>6. /\ SumFunctionOnSet(value, upTo(k)) = total + SumFunctionOnSet(value, upTo(k - 1))
            /\ IsFiniteSet(upTo(k)) /\ SumFunctionOnSet(value, upTo(k - 1)) \in Int
        BY <3>2, <4>3, <4>4, <4>5, SumAdd, SumInt, FS_AddElement
      <4> QED
        BY <2>3, <3>2, <3>4, <4>6
    <3>8. CASE ~\E u \in mined : Authorization[u[1]].sequence = k
      <4>1. upTo(k) = upTo(k - 1)
        BY <3>6, <3>8
      <4>2. SumFunctionOnSet(value, upTo(k - 1)) \in Int
        <5>1. \A w \in upTo(k - 1) : value[w] \in Int
          BY <1>2
        <5> QED
          BY <3>2, <5>1, SumInt
      <4> HIDE DEF upTo, value, total, after
      <4> QED
        BY <2>3, <3>2, <3>4, <4>1, <4>2
    <3> QED
      BY <3>7, <3>8
  <2> QED
    BY <2>4, <2>5
<1>4. Holds(n)
  <2>1. n \in 0..n
    BY <1>1
  <2> HIDE DEF Holds
  <2> QED
    BY <1>3, <2>1
<1> QED
  BY <1>1, <1>4

\* The supply that an authorization of the chain names is enough for all that was minted up to
\* it and within the limit of its policy, however often the database was lost and whichever
\* backup was restored: the ledger admits a mint only with the supply that its last row left,
\* checked without overflow, and relays only what it has a row for.
THEOREM SupplyIsBounded == Spec => []SupplyBounded
<1>1. Inv /\ SupplyInv => SupplyBounded
  <2> SUFFICES ASSUME Inv, SupplyInv, NEW t \in mined
               PROVE  LET a == Authorization[t[1]]
                          before == {u \in mined : Authorization[u[1]].sequence <= a.sequence}
                      IN  /\ SumFunctionOnSet([u \in mined |-> Total(Authorization[u[1]])], before) <= a.after
                          /\ a.after <= Policy[a.policy].maxSupply
    BY DEF SupplyBounded
  <2>1. t \in network
    BY DEF Inv, TypeInv, TypeOK
  <2>2. PICK rows \in Seq(Ids) : Chained(rows) /\ AllCertified(rows) /\ t[1] \in ToSet(rows)
    BY <2>1 DEF SupplyInv, Founded
  <2>3. PICK n \in DOMAIN rows : rows[n] = t[1]
    BY <2>2, RowsOf
  <2>4. Authorization[t[1]].sequence = n
    BY <2>2, <2>3 DEF Chained
  <2>5. SumFunctionOnSet([u \in mined |-> Total(Authorization[u[1]])],
                         {u \in mined : Authorization[u[1]].sequence <= n})
          <= Authorization[rows[n]].after
    BY <2>2, SupplyUpTo
  <2>6. Authorization[t[1]].after <= Policy[Authorization[t[1]].policy].maxSupply
    BY <2>2 DEF AllCertified, Certified, SupplyFits
  <2> QED
    BY <2>3, <2>4, <2>5, <2>6
<1> QED
  BY <1>1, Invariance, InvStep, SupplyInit, SupplyStep, PTL DEF Spec
=============================================================================
