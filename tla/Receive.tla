------------------------------ MODULE Receive ------------------------------
(***************************************************************************)
(* An account that receives consignments over a chain that reorganises.    *)
(*                                                                         *)
(* The account credits a payment provisionally while its anchor is in a    *)
(* mempool and again when it is settled, keeps one row per consignment     *)
(* (its finality and the snapshot it was verified against), and spends     *)
(* what it was credited: a child of an unconfirmed coin carries the parent *)
(* transaction and is signed only while that parent is observed.  The      *)
(* wallet's coins are in memory and are rebuilt from the rows at open.     *)
(*                                                                         *)
(* A stored snapshot is represented by the depth it gives its own anchor:  *)
(* every other check passed when the row was written, on inputs that do    *)
(* not change.                                                             *)
(***************************************************************************)
EXTENDS AnchorChain

CONSTANTS
    Required,       \* required_confirmations of the account
    Observers,      \* the required raw-transaction observers
    Quorum,         \* required_raw_observer_quorum
    Liars,          \* observers that may claim what they do not see
    BlockSize,      \* bound: anchor transactions in one block
    MaxHeight,      \* bound: blocks of the chain
    MaxMishaps      \* bound: evictions, reorganisations, restarts and lapses of time

ASSUME ReceiveAssumption ==
    /\ Required \in Nat \ {0} /\ Quorum \in 1..Cardinality(Observers)
    /\ Liars \subseteq Observers /\ BlockSize \in Nat
    /\ MaxHeight \in Nat /\ MaxMishaps \in Nat

NoTx == <<>>
NoCoin == "no coin"
Parents == {Consignment[c].txid : c \in Consignments}
CoinSet == {Consignment[c].coin : c \in Consignments}

VARIABLES
    chain,      \* the confirmed blocks
    final,      \* the height below which the chain no longer changes
    mempool,    \* transactions every observer sees unconfirmed
    held,       \* the blocks of a scan snapshot the host exported and still holds
    rows,       \* opencsv_consignments, its snapshots and its finality
    order,      \* consignments in the order their rows were created
    coins,      \* the wallet's coins
    op,         \* one outgoing operation spending one coin
    fresh,      \* parents with an observation receipt younger than the maximum age
    recent,     \* parents seen at some moment of that age
    policy,     \* who is asked about a mempool transaction
    up,         \* is the account open
    mishaps     \* mishaps so far

world == <<chain, final, mempool, recent>>
vars == <<chain, final, mempool, held, rows, order, coins, op, fresh, recent, policy, up, mishaps>>

Finalities == {"none", "unconfirmed", "settled", "frozen"}
Absent == [status |-> "absent", anchor |-> NoTx]
NoRow == [finality |-> "none", depth |-> 0]
NoOp == [state |-> "none", coin |-> NoCoin, deps |-> {}, seen |-> FALSE]

TypeOK ==
    /\ chain \in Seq(Seq(Txs)) /\ held \in Seq(Seq(Txs))
    /\ final \in 0..MaxHeight
    /\ mempool \subseteq Txs /\ fresh \subseteq Txs /\ recent \subseteq Txs
    /\ rows \in [Consignments -> [finality : Finalities, depth : 0..Required]]
    /\ \A i \in 1..Len(order) : rows[order[i]].finality # "none"
    /\ Len(order) = Cardinality({c \in Consignments : rows[c].finality # "none"})
    /\ coins \in [CoinSet -> [status : {"absent", "unspent", "frozen", "spent"},
                              anchor : Txs \union {NoTx}]]
    /\ op \in [state : {"none", "proving", "observed", "proved", "signed", "final"},
               coin : CoinSet \union {NoCoin}, deps : SUBSET Txs, seen : BOOLEAN]
    /\ policy \in {"accelerator", "observers"} /\ up \in BOOLEAN
    /\ mishaps \in 0..MaxMishaps

Init ==
    /\ chain = << >> /\ final = 0 /\ mempool = {} /\ held = << >>
    /\ rows = [c \in Consignments |-> NoRow] /\ order = << >>
    /\ coins = [k \in CoinSet |-> Absent]
    /\ op = NoOp /\ fresh = {} /\ recent = {}
    /\ policy \in {"accelerator", "observers"}
    /\ up = TRUE /\ mishaps = 0

Mishap == mishaps < MaxMishaps /\ mishaps' = mishaps + 1

----------------------------------------------------------------------------
(* The network. *)

Mined(blocks) == {TxAt(View(blocks, {}), l) : l \in Confirmed(View(blocks, {}))}
Conflicting(t, u) == t # u /\ Anchor[t].ctx = Anchor[u].ctx
Visible(t) == t \in mempool \/ \E h \in DOMAIN chain : \E p \in DOMAIN chain[h] : chain[h][p] = t

\* The anchors of a block: the mempool's, at most BlockSize of them.
NextBlocks(pool) ==
    {b \in UNION {[1..n -> pool] : n \in 0..BlockSize} :
        \A i, j \in DOMAIN b : i # j => b[i] # b[j] /\ ~Conflicting(b[i], b[j])}

\* The sender's transaction reaches the mempools and replaces what it
\* conflicts with.
Broadcast(t) ==
    /\ ~Visible(t) /\ \A u \in Mined(chain) : ~Conflicting(t, u)
    /\ mempool' = {u \in mempool : ~Conflicting(t, u)} \union {t}
    /\ recent' = recent \union ({t} \intersect Parents)
    /\ UNCHANGED <<chain, final, held, rows, order, coins, op, fresh, policy, up, mishaps>>

Settle(blocks) == IF Len(blocks) - Required + 1 > final THEN Len(blocks) - Required + 1 ELSE final

Mine ==
    /\ Len(chain) < MaxHeight
    /\ \E b \in NextBlocks(mempool) : chain' = Append(chain, b)
    /\ final' = Settle(chain')
    /\ mempool' = {t \in mempool : t \notin Mined(chain') /\
                                   \A u \in Mined(chain') : ~Conflicting(t, u)}
    /\ UNCHANGED <<held, rows, order, coins, op, fresh, recent, policy, up, mishaps>>

\* The last block is replaced by two others.  Blocks that were once Required
\* deep stay.
Reorg ==
    /\ Mishap /\ Len(chain) > final /\ Len(chain) \in 1..MaxHeight - 1
    /\ LET base == SubSeq(chain, 1, Len(chain) - 1)
           pool == {t \in mempool \union Mined(chain) : t \notin Mined(base)}
       IN \E b \in NextBlocks(pool) :
            /\ chain' = base \o <<b, << >>>>
            /\ mempool' = {t \in pool : t \notin Mined(chain') /\
                                        \A u \in Mined(chain') : ~Conflicting(t, u)}
    /\ final' = Settle(chain')
    /\ UNCHANGED <<held, rows, order, coins, op, fresh, recent, policy, up>>

Evict(t) ==
    /\ Mishap /\ t \in mempool /\ mempool' = mempool \ {t}
    /\ UNCHANGED <<chain, final, held, rows, order, coins, op, fresh, recent, policy, up>>

\* The maximum age of an observation passes.
Lapse ==
    /\ Mishap /\ fresh' = {} /\ op' = [op EXCEPT !.seen = FALSE]
    /\ recent' = Parents \intersect (mempool \union Mined(chain))
    /\ UNCHANGED <<chain, final, mempool, held, rows, order, coins, policy, up>>

----------------------------------------------------------------------------
(* The scan and the host. *)

\* The host syncs the scan, exports it and keeps the snapshot while it asks
\* observers; it may use it after the chain has moved on.
ExportSnapshot ==
    /\ held # chain /\ held' = chain
    /\ UNCHANGED <<world, rows, order, coins, op, fresh, policy, up, mishaps>>

----------------------------------------------------------------------------
(* Crediting a consignment. *)

\* The coin a verified consignment stores.  A redelivery keeps the status a
\* coin has, except that a settled one thaws it, and never gives a settled
\* coin an unconfirmed parent again.
Credited(k, parent, wallet) ==
    LET old == wallet[k]
    IN [status |-> IF old.status = "absent" \/ (old.status = "frozen" /\ parent = NoTx)
                   THEN "unspent" ELSE old.status,
        anchor |-> IF old.status # "absent" /\ old.anchor = NoTx THEN NoTx ELSE parent]

Created(c) == IF rows[c].finality = "none" THEN Append(order, c) ELSE order
DepthIn(view, c) ==
    LET n == ConfirmationsAt(view, Locate(view, c)) IN IF n > Required THEN Required ELSE n

\* verify_consignment against a held snapshot or one exported just now.
VerifyConsignment(c) ==
    /\ up /\ \E blocks \in {held, chain} : Accepts(View(blocks, {}), c, Required)
    /\ coins' = [coins EXCEPT ![Consignment[c].coin] = Credited(Consignment[c].coin, NoTx, coins)]
    /\ rows' = [rows EXCEPT ![c] = [finality |-> "settled", depth |-> Required]]
    /\ order' = Created(c)
    /\ UNCHANGED <<world, held, op, fresh, policy, up, mishaps>>

\* The row of a provisional credit: a settled one stays settled, but its
\* snapshot is replaced.  Only a settled row's depth is ever asked for.
ProvisionalRow(c, view) ==
    IF rows[c].finality = "settled" THEN [finality |-> "settled", depth |-> DepthIn(view, c)]
    ELSE [finality |-> "unconfirmed", depth |-> 0]

\* Verification and crediting against the snapshot the host held while the
\* transaction was fetched.
CreditProvisionally(c) ==
    LET view == MergedView(held, c)
        k == Consignment[c].coin
    IN /\ MergeAllowed(c) /\ Accepts(view, c, 0)
       /\ coins' = [coins EXCEPT ![k] = Credited(k, Consignment[c].txid, coins)]
       /\ rows' = [rows EXCEPT ![c] = ProvisionalRow(c, view)]
       /\ order' = Created(c)

\* freeze_unconfirmed_dependency: every row of that parent that is not
\* settled, and every live unspent coin it created.
FrozenRows(t) ==
    [c \in Consignments |->
        IF Consignment[c].txid = t /\ rows[c].finality \notin {"none", "settled"}
        THEN [rows[c] EXCEPT !.finality = "frozen"] ELSE rows[c]]

FrozenCoins(t) ==
    [k \in CoinSet |-> IF coins[k].status = "unspent" /\ coins[k].anchor = t
                       THEN [coins[k] EXCEPT !.status = "frozen"] ELSE coins[k]]

Freeze(t) == rows' = FrozenRows(t) /\ coins' = FrozenCoins(t)

\* verify_consignment_unconfirmed: the accelerator is asked for the exact
\* transaction.
VerifyUnconfirmed(c) ==
    LET t == Consignment[c].txid
    IN /\ up /\ policy = "accelerator"
       /\ \/ Visible(t) /\ CreditProvisionally(c)
          \/ ~Visible(t) /\ Freeze(t) /\ UNCHANGED order
       /\ UNCHANGED <<world, held, op, fresh, policy, up, mishaps>>

\* What the required observers may report of a transaction: a truthful one
\* returns its bytes exactly when it sees it.
Evidence(t) ==
    {e \in [Observers -> {"match", "other", "missing"}] :
        \A o \in Observers \ Liars : e[o] = IF Visible(t) THEN "match" ELSE "missing"}

Matching(e) == {o \in Observers : e[o] = "match"}

\* evaluate_observation_evidence: one required observer with other bytes is a
\* conflict, fewer matches than the quorum is a failure.
EvidencePasses(e) ==
    /\ \A o \in Observers : e[o] # "other"
    /\ Cardinality(Matching(e)) >= Quorum

\* verify_consignment_unconfirmed_observed.
VerifyObserved(c) ==
    LET t == Consignment[c].txid
    IN /\ up /\ policy = "observers"
       /\ \E passed \in {EvidencePasses(e) : e \in Evidence(t)} :
            \/ passed /\ CreditProvisionally(c)
            \/ ~passed /\ Freeze(t) /\ UNCHANGED order
       /\ UNCHANGED <<world, held, op, fresh, policy, up, mishaps>>

----------------------------------------------------------------------------
(* Spending what was credited. *)

\* A proof job copies the wallet, chooses an unspent coin and runs unlocked.
BeginProof(k) ==
    /\ up /\ op.state = "none" /\ coins[k].status = "unspent"
    /\ op' = [state |-> "proving", coin |-> k, deps |-> {coins[k].anchor} \ {NoTx}, seen |-> FALSE]
    /\ UNCHANGED <<world, held, rows, order, coins, fresh, policy, up, mishaps>>

\* It looks for the exact parents; a missing one fails the job and freezes.
ObserveParents ==
    /\ up /\ op.state = "proving"
    /\ \/ /\ \A t \in op.deps : Visible(t)
          /\ op' = [op EXCEPT !.state = "observed", !.seen = TRUE]
          /\ UNCHANGED <<rows, coins>>
       \/ \E t \in op.deps : ~Visible(t) /\ Freeze(t) /\ op' = NoOp
    /\ UNCHANGED <<world, held, order, fresh, policy, up, mishaps>>

\* finish_proof_job: the input must still be unspent in the live wallet, and
\* the receipt carries the time of the observation, not of the commit.
\* Mutant: the receipt carries the time of the commit.
ObservedAtCommit == TRUE
ObservedAt == op.seen

FinishProof ==
    /\ up /\ op.state = "observed"
    /\ IF coins[op.coin].status = "unspent"
       THEN /\ op' = [op EXCEPT !.state = "proved"]
            /\ fresh' = IF ObservedAt THEN fresh \union op.deps ELSE fresh \ op.deps
       ELSE op' = NoOp /\ UNCHANGED fresh
    /\ UNCHANGED <<world, held, rows, order, coins, policy, up, mishaps>>

\* reobserve_unconfirmed_dependencies, then the signature: a receipt that is
\* fresh is not asked for again.
ParentsSeen == \A t \in op.deps \ fresh : Visible(t)

Sign ==
    /\ up /\ op.state = "proved"
    /\ \/ /\ ParentsSeen
          /\ op' = [op EXCEPT !.state = "signed"] /\ fresh' = fresh \union op.deps
          /\ UNCHANGED <<rows, coins>>
       \/ /\ \E t \in op.deps \ fresh : ~Visible(t) /\ Freeze(t)
          /\ UNCHANGED <<op, fresh>>
    /\ UNCHANGED <<world, held, order, policy, up, mishaps>>

Cancel ==
    /\ up /\ op.state = "proved" /\ op' = NoOp
    /\ UNCHANGED <<world, held, rows, order, coins, fresh, policy, up, mishaps>>

\* The child is observed: finalize marks its input spent if the wallet has it.
SpentIn(wallet, k) ==
    IF k \in CoinSet /\ wallet[k].status # "absent"
    THEN [wallet EXCEPT ![k].status = "spent"] ELSE wallet

Finalize ==
    /\ up /\ op.state = "signed"
    /\ op' = [op EXCEPT !.state = "final"] /\ coins' = SpentIn(coins, op.coin)
    /\ UNCHANGED <<world, held, rows, order, fresh, policy, up, mishaps>>

----------------------------------------------------------------------------
(* Restart. *)

Crash ==
    /\ Mishap /\ up /\ up' = FALSE
    /\ coins' = [k \in CoinSet |-> Absent]
    /\ op' = IF op.state \in {"proving", "observed"} THEN NoOp ELSE op
    /\ UNCHANGED <<world, held, rows, order, fresh, policy>>

\* One row replayed over the wallet rebuilt so far; a frozen row is skipped.
ReplayRow(wallet, c) ==
    LET k == Consignment[c].coin
    IN CASE rows[c].finality = "frozen" -> wallet
         [] rows[c].finality = "unconfirmed" ->
                [wallet EXCEPT ![k] = Credited(k, Consignment[c].txid, wallet)]
         [] OTHER -> [wallet EXCEPT ![k] = Credited(k, NoTx, wallet)]

Replayed ==
    LET f[i \in 0..Len(order)] ==
            IF i = 0 THEN [k \in CoinSet |-> Absent] ELSE ReplayRow(f[i - 1], order[i])
    IN f[Len(order)]

\* Every settled row must still verify against its own snapshot.
Replays == \A c \in Consignments : rows[c].finality = "settled" => rows[c].depth >= Required

\* open: the rows, then the finalized operations.
Open ==
    /\ ~up /\ Replays /\ up' = TRUE
    /\ coins' = IF op.state = "final" THEN SpentIn(Replayed, op.coin) ELSE Replayed
    /\ UNCHANGED <<world, held, rows, order, op, fresh, policy, mishaps>>

Next ==
    \/ \E t \in Txs : Broadcast(t) \/ Evict(t)
    \/ Mine \/ Reorg \/ Lapse
    \/ ExportSnapshot
    \/ \E c \in Consignments : VerifyConsignment(c) \/ VerifyUnconfirmed(c) \/ VerifyObserved(c)
    \/ \E k \in CoinSet : BeginProof(k)
    \/ ObserveParents \/ FinishProof \/ Sign \/ Cancel \/ Finalize
    \/ Crash \/ Open

Spec == Init /\ [][Next]_vars

----------------------------------------------------------------------------
(* Properties. *)

\* A payment the account calls settled is on the chain as the first anchor to
\* publish each of its nullifiers, whatever was reorganised, copied, replaced
\* or double-spent around it, and however old the snapshot it was
\* verified against: so no two settled payments of different
\* anchors share a nullifier.
SettledIsFirst ==
    LET view == View(chain, {})
    IN \A c \in Consignments : rows[c].finality = "settled" =>
         /\ Find(view, c) # {}
         /\ \A nf \in Nullifiers(c) : FirstOccurrence(view, nf) = Locate(view, c)

\* What the open wallet would spend, a restart would credit again: a settled
\* coin has a settled row, and a coin with an unconfirmed parent a row of that
\* very parent that is not frozen.
CreditBacked ==
    up => \A k \in CoinSet : coins[k].status = "unspent" =>
        \E c \in Consignments :
            /\ Consignment[c].coin = k
            /\ IF coins[k].anchor = NoTx THEN rows[c].finality = "settled"
               ELSE Consignment[c].txid = coins[k].anchor /\ rows[c].finality \in {"unconfirmed", "settled"}

\* As long as fewer observers lie than the quorum, a row becomes provisional
\* only at a moment its anchor transaction is visible.
ProvisionalIsVisible ==
    [][\A c \in Consignments :
         rows[c].finality # "unconfirmed" /\ rows'[c].finality = "unconfirmed" =>
             Visible(Consignment[c].txid)]_vars

\* A child of unconfirmed coins is signed only if each parent was in a mempool
\* or a block at some moment of the maximum observation age, however long the
\* proof took and whatever was cached.
SignedParentRecent ==
    [][op.state = "proved" /\ op'.state = "signed" => op.deps \subseteq recent]_vars

\* A backend that hides transactions cannot make a cross-check accept what the
\* whole chain refuses, in whichever place it is asked, on any chain that
\* mining and reorganisation lead to.  The network does not depend on the
\* account, so the chains an idle account sees are all there are.
Exposed(blocks) ==
    LET whole == View(blocks, {})
    IN \A hidden \in SUBSET Mined(blocks), c \in Consignments :
         LET part == Hiding(blocks, hidden)
         IN CrossAccepts(<<part, whole>>, c, Required) \/ CrossAccepts(<<whole, part>>, c, Required)
              => Accepts(whole, c, Required)

CrossCheckSound == [][order = << >> /\ chain' # chain => Exposed(chain')]_chain

-----------------------------------------------------------------------------
(* What documents or comments promise and the code does not keep; TLC       *)
(* refutes it on the instance of the module's run (README, Findings).       *)

\* Redelivery must not resurrect a coin that was spent since: while the account
\* is open, the input of a finalized operation is spent or not in the wallet.
SpentStays == up /\ op.state = "final" => coins[op.coin].status \in {"spent", "absent"}

\* A provisional replay does not downgrade a settled payment: its row can be
\* verified again at the next open.
SettledReplays == Replays
=============================================================================
