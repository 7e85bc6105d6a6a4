--------------------------- MODULE ProtocolWallet ---------------------------
(***************************************************************************)
(* The in-memory wallet behind the C interface, the host application that  *)
(* keeps what the wallet must not lose, and the public supply audit.       *)
(*                                                                         *)
(* Everything the wallet knows is in memory.  The host keeps the secrets,  *)
(* the exports of proved transactions, the consignments finalised and the  *)
(* coins they spent, and replays them after a crash.  A transaction is     *)
(* proved, bound to a funding outpoint (its context), published, and       *)
(* finalised once the host knows where it anchored.  An anchor is a proof  *)
(* with its context; one that left the mempool may still be mined.         *)
(***************************************************************************)
EXTENDS CoinProof

CONSTANTS
    Payments,       \* what a user may ask for: one or two amounts
    Ctxs,           \* funding outpoints
    Clashing,       \* contexts under which a transfer's payload reads as a tag
    MaxProofs,      \* bound: transactions proved
    MaxInFlight,    \* bound: transactions proved and not consigned yet
    MaxMishaps      \* bound: crashes and evictions

ASSUME WalletAssumption ==
    /\ \A amounts \in Payments : amounts \in Seq(Nat) /\ Len(amounts) \in 1..2
    /\ Ctxs \subseteq Nat \ {0} /\ Clashing \subseteq Ctxs /\ MaxProofs \in Nat
    /\ MaxInFlight \in Nat /\ MaxMishaps \in Nat

Payee == 0              \* an owner whose secret the wallet does not have
Self == 1               \* the wallet's own key, the first and only one
Owners == {Payee, Self}
Settled == 0            \* unconfirmed_anchor is None

VARIABLES
    proofs,     \* every proof made
    open,       \* the wallet has a handle
    coins,      \* its coins: spent or not, and the context they wait for
    pending,    \* its pending transactions
    reply,      \* the answer to finalize the host has not stored yet
    ready,      \* the host has replayed its spend list in this session
    exports,    \* durable: exported pending transactions
    kept,       \* durable: consignments
    spends,     \* durable: ids of spent coins, in the order they were saved
    sent,       \* anchors ever published
    pool,       \* anchors in the mempool
    log,        \* anchors in the order they were mined
    mishaps

wallet == <<open, coins, pending>>
session == <<reply, ready>>
host == <<exports, kept, spends>>
chain == <<sent, pool, log>>
vars == <<proofs, wallet, session, host, chain, mishaps>>

CoinIds == (1..MaxProofs) \X (1..2)
Anchors == (1..MaxProofs) \X Ctxs
NoReply == << >>

TypeOK ==
    /\ Len(proofs) <= MaxProofs
    /\ open \in BOOLEAN /\ ready \in BOOLEAN
    /\ DOMAIN coins \subseteq AllCoins(proofs)
    /\ \A c \in DOMAIN coins : /\ coins[c].spent \in BOOLEAN
                               /\ coins[c].waits \in Ctxs \union {Settled}
    /\ \A t \in pending \union exports : t.proof \in DOMAIN proofs /\ t.deps \subseteq Anchors
    /\ kept \subseteq sent /\ reply \in sent \union {NoReply}
    /\ ToSet(spends) \subseteq AllCoins(proofs)
    /\ pool \subseteq sent /\ ToSet(log) \subseteq sent /\ sent \subseteq Anchors
    /\ mishaps \in 0..MaxMishaps

\* A wallet that was created with its key and has made itself the issuer of
\* every asset, the secrets stored and the handle open.
Init ==
    /\ proofs = << >> /\ open = TRUE
    /\ coins = << >> /\ pending = {} /\ reply = NoReply /\ ready = TRUE
    /\ exports = {} /\ kept = {} /\ spends = << >>
    /\ sent = {} /\ pool = {} /\ log = << >> /\ mishaps = 0

Mishap == mishaps < MaxMishaps /\ mishaps' = mishaps + 1

----------------------------------------------------------------------------
(* Opening and closing. *)

\* The secrets bring back the keys and the issuers, not the coins or the
\* pending transactions.
Open ==
    /\ ~open
    /\ open' = TRUE /\ coins' = << >> /\ pending' = {} /\ ready' = FALSE
    /\ UNCHANGED <<proofs, reply, host, chain, mishaps>>

\* The process ends, or the host drops the handle: what the wallet and the
\* host had in memory is gone.
Close ==
    /\ open /\ Mishap
    /\ open' = FALSE /\ coins' = << >> /\ pending' = {}
    /\ reply' = NoReply /\ ready' = FALSE
    /\ UNCHANGED <<proofs, host, chain>>

----------------------------------------------------------------------------
(* Proving. *)

PushPending(proof, deps) ==
    /\ Len(proofs) < MaxProofs /\ Cardinality(pending \union exports) < MaxInFlight
    /\ proof # NoProof
    /\ proofs' = Append(proofs, proof)
    /\ pending' = pending \union {[proof |-> Len(proofs) + 1, deps |-> deps]}
    /\ UNCHANGED <<open, coins, session, host, chain, mishaps>>

CheckedTotal(amounts) == Total(amounts) <= MaxValue

\* One or two amounts make two outputs: the second is an empty coin when it
\* is not asked for.
Outputs(amounts, first, second) ==
    <<[value |-> amounts[1], owner |-> first],
      [value |-> IF Len(amounts) = 2 THEN amounts[2] ELSE 0, owner |-> second]>>

ProveMint(a, to, amounts) ==
    /\ open /\ ready /\ CheckedTotal(amounts)
    /\ PushPending(ProveGenesisMint(a, Outputs(amounts, to, to), Assets), {})

\* The wallet refuses only what is spent.  It is the host that passes over the
\* coins that a pending or exported transaction consumes, and coins of no value.
Claimed == UNION {ToSet(proofs[t.proof].ins) : t \in exports \union pending}
Offered == {c \in DOMAIN coins \ Claimed : Opening(proofs, c).value > 0}

FindCoins(ins) == ToSet(ins) \subseteq DOMAIN coins
NotSpent(ins) == \A i \in DOMAIN ins : ~coins[ins[i]].spent

\* The parent anchors, not yet mined, of the coins consumed.
Dependencies(ins) ==
    {<<c[1], coins[c].waits>> : c \in {d \in ToSet(ins) : coins[d].waits # Settled}}

TransferProof(ins, outs) ==
    IF Len(ins) = 1
    THEN ProveOneInputTransfer(proofs, AssetOf(proofs, ins[1]), ins[1], outs, {Self})
    ELSE ProveCoinTransfer(proofs, AssetOf(proofs, ins[1]), ins, outs, {Self})

\* Change goes to the first key.
ProveTransfer(ins, to, amounts) ==
    /\ open /\ ready
    /\ Len(ins) \in 1..2 /\ IsInjective(ins)
    /\ FindCoins(ins) /\ NotSpent(ins)
    /\ \A i \in DOMAIN ins : /\ Opening(proofs, ins[i]).owner = Self
                             /\ AssetOf(proofs, ins[i]) = AssetOf(proofs, ins[1])
    /\ CheckedTotal(InValues(proofs, ins)) /\ CheckedTotal(amounts)
    /\ Total(amounts) = Total(InValues(proofs, ins))
    /\ PushPending(TransferProof(ins, Outputs(amounts, to, Self)), Dependencies(ins))

ProveRedeem(c) ==
    /\ open /\ ready /\ FindCoins(<<c>>) /\ NotSpent(<<c>>)
    /\ Opening(proofs, c).owner = Self
    /\ PushPending(ProveRedeemProof(proofs, AssetOf(proofs, c), c, {Self}), Dependencies(<<c>>))

----------------------------------------------------------------------------
(* Publishing. *)

ExportPending(t) ==
    /\ open /\ t \in pending \ exports /\ \A a \in kept : a[1] # t.proof
    /\ exports' = exports \union {t}
    /\ UNCHANGED <<proofs, wallet, session, kept, spends, chain, mishaps>>

\* Mutant: a transaction that was published is not imported again.
ImportPendingNew(t) ==
    /\ open /\ t \in exports \ pending /\ \A a \in sent : a[1] # t.proof
    /\ pending' = pending \union {t}
    /\ UNCHANGED <<proofs, open, coins, session, host, chain, mishaps>>

\* An import checks nothing: the transaction may have been finalised already.
ImportPending(t) ==
    /\ open /\ t \in exports \ pending
    /\ pending' = pending \union {t}
    /\ UNCHANGED <<proofs, open, coins, session, host, chain, mishaps>>

\* A payload that would read as a mint or redeem tag is never published.
RecordParsesCleanly(p, ctx) == proofs[p].mode = "transfer" => ctx \notin Clashing

\* An outpoint no anchor of the chain or the mempool spends.  Those that were
\* never used are alike: the first stands for them.
Unspent == {ctx \in Ctxs : \A a \in pool \union ToSet(log) : a[2] # ctx}
Untouched == {ctx \in Ctxs : \A a \in sent : a[2] # ctx}
Free(p) ==
    LET clean == {ctx \in Unspent : RecordParsesCleanly(p, ctx)}
        new == clean \intersect Untouched
    IN (clean \ Untouched) \union {ctx \in new : \A x \in new : ctx <= x}

\* The host binds the transaction to an outpoint that is still unspent and
\* publishes it: once it is exported, its unconfirmed parents are mined, and
\* no anchor of it is in the mempool or the chain.
Publish(t, ctx) ==
    /\ open /\ t \in pending \intersect exports
    /\ RecordParsesCleanly(t.proof, ctx)
    /\ t.deps \subseteq ToSet(log)
    /\ \A a \in pool \union ToSet(log) : a[1] # t.proof
    /\ ctx \in Free(t.proof)
    /\ sent' = sent \union {<<t.proof, ctx>>} /\ pool' = pool \union {<<t.proof, ctx>>}
    /\ UNCHANGED <<proofs, wallet, session, host, log, mishaps>>

\* An anchor leaves the mempool unmined.
Evict(a) ==
    /\ a \in pool /\ Mishap
    /\ pool' = pool \ {a}
    /\ UNCHANGED <<proofs, wallet, session, host, sent, log>>

\* Any anchor ever published may be mined while its outpoint is unspent, one
\* that was evicted too.
Mine(a) ==
    /\ a \in sent /\ \A b \in ToSet(log) : b[2] # a[2]
    /\ log' = Append(log, a) /\ pool' = {b \in pool : b[2] # a[2]}
    /\ UNCHANGED <<proofs, wallet, session, host, sent, mishaps>>

----------------------------------------------------------------------------
(* Finalising, and replaying after a crash. *)

LogProofs == {a[1] : a \in ToSet(log)}
FirstAnchor(p) == IF p \in LogProofs THEN SelectSeq(log, LAMBDA a : a[1] = p)[1] ELSE NoReply

Coin(waits) == [spent |-> FALSE, waits |-> waits]

\* Mutant: a replayed transaction credits its change again.
CreditedOverwrites(held, entering, waits) ==
    [c \in entering |-> Coin(waits)] @@ held

\* A coin that is already held keeps its status, and keeps being settled.
Credited(held, entering, waits) ==
    [c \in DOMAIN held \union entering |->
        IF c \notin DOMAIN held THEN Coin(waits)
        ELSE IF c \in entering THEN [held[c] EXCEPT !.waits = IF @ = Settled THEN Settled ELSE waits]
        ELSE held[c]]

MarkedSpent(held, ids) ==
    [c \in DOMAIN held |-> IF c \in ids THEN [held[c] EXCEPT !.spent = TRUE] ELSE held[c]]

OwnOutputs(p) == {c \in CoinsOf(proofs, p) : Opening(proofs, c).owner = Self}

\* Acceptance of a consignment that pays this wallet: the anchor is mined and
\* no earlier anchor publishes one of its nullifiers.
Accepts(a) ==
    /\ proofs[a[1]].outs # << >>
    /\ \E i \in DOMAIN log :
         /\ log[i] = a /\ RecordParsesCleanly(a[1], a[2])
         /\ \A j \in 1..(i - 1) :
              ToSet(proofs[log[j][1]].ins) \intersect ToSet(proofs[a[1]].ins) = {}
    /\ \E c \in CoinsOf(proofs, a[1]) : Opening(proofs, c).owner = Self

\* The host has verified again every consignment that can be accepted.
Replayed == \A a \in kept : Accepts(a) => OwnOutputs(a[1]) \subseteq DOMAIN coins

\* The host, its replay done and the inputs back in the wallet, names where
\* the transaction first anchored or that it is in a mempool.  finalize itself
\* does not ask: an input the wallet does not hold is passed over in silence,
\* and would be unspent when it comes back later.
Finalize(t, a, waits) ==
    /\ open /\ ready /\ t \in pending /\ reply = NoReply
    /\ FindCoins(proofs[t.proof].ins)
    /\ a[1] = t.proof
    /\ \/ a \in pool /\ t.proof \notin LogProofs /\ waits = a[2]
       \/ FirstAnchor(t.proof) = a /\ waits \in {a[2], Settled}
    /\ pending' = pending \ {t}
    /\ coins' = Credited(MarkedSpent(coins, ToSet(proofs[a[1]].ins)), OwnOutputs(a[1]), waits)
    /\ reply' = a
    /\ UNCHANGED <<proofs, open, ready, host, chain, mishaps>>

\* The host stores the consignment and the spends, and then has no use for
\* the export.
SaveFinalized ==
    /\ reply # NoReply
    /\ kept' = kept \union {reply}
    /\ spends' = spends \o SetToSeq(ToSet(proofs[reply[1]].ins) \ ToSet(spends))
    /\ exports' = {t \in exports : t.proof # reply[1]}
    /\ reply' = NoReply
    /\ UNCHANGED <<proofs, wallet, ready, chain, mishaps>>

Verify(a) ==
    /\ open /\ a \in kept /\ Accepts(a)
    /\ coins' = Credited(coins, OwnOutputs(a[1]), Settled)
    /\ coins' # coins
    /\ UNCHANGED <<proofs, open, pending, session, host, chain, mishaps>>

\* Mutant: the last id of the list is not reached.
KnownPrefixShort(ids) ==
    {ids[i] : i \in {k \in 1..(Len(ids) - 1) : \A j \in 1..k : ids[j] \in DOMAIN coins}}

\* The ids are marked in order up to the first the wallet does not know; only
\* a call that got through them all succeeds.
KnownPrefix(ids) == {ids[i] : i \in {k \in DOMAIN ids : \A j \in 1..k : ids[j] \in DOMAIN coins}}

MarkSpent ==
    /\ open /\ ~ready /\ Replayed
    /\ coins' = MarkedSpent(coins, KnownPrefix(spends))
    /\ ready' = (ToSet(spends) \subseteq DOMAIN coins)
    /\ coins' # coins \/ ready'
    /\ UNCHANGED <<proofs, open, pending, reply, host, chain, mishaps>>

----------------------------------------------------------------------------
(* The public supply of an asset. *)

OfAsset(mode, a) == {p \in LogProofs : proofs[p].mode = mode /\ proofs[p].asset = a}

\* Mutant: a mint that is anchored twice counts twice.
MintedValueTwice(a) ==
    SumFunctionOnSet([i \in DOMAIN log |-> proofs[log[i][1]].value],
                     {i \in DOMAIN log : log[i][1] \in OfAsset("mint", a)})

\* Each mint commitment counts once, however often it is anchored.
MintedValue(a) ==
    SumFunctionOnSet([p \in DOMAIN proofs |-> proofs[p].value], OfAsset("mint", a))

RedeemedValue(a) ==
    SumFunctionOnSet([i \in DOMAIN log |-> proofs[log[i][1]].value],
                     {i \in DOMAIN log : log[i][1] \in OfAsset("redeem", a)})

Supply(a) == MintedValue(a) - RedeemedValue(a)

----------------------------------------------------------------------------

Next ==
    \/ Open \/ Close \/ SaveFinalized \/ MarkSpent
    \/ \E a \in Assets, amounts \in Payments : ProveMint(a, Self, amounts)
    \/ \E c \in Offered : ProveRedeem(c)
    \/ \E ins \in {S \in SUBSET Offered : Cardinality(S) \in 1..2},
          to \in Owners, amounts \in Payments :
          ProveTransfer(SetToSeq(ins), to, amounts)
    \/ \E t \in pending : ExportPending(t)
    \/ \E t \in exports : ImportPending(t)
    \/ \E t \in pending, ctx \in Ctxs : Publish(t, ctx)
    \/ \E a \in pool : Evict(a)
    \/ \E a \in sent : Mine(a)
    \/ \E t \in pending, a \in sent, waits \in Ctxs \union {Settled} : Finalize(t, a, waits)
    \/ \E a \in kept : Verify(a)

Spec == Init /\ [][Next]_vars

\* The host answers, sooner or later, everything that keeps a published
\* transaction from its consignment, and a transaction in the mempool is mined.
Fairness ==
    /\ WF_vars(Open) /\ WF_vars(SaveFinalized) /\ WF_vars(MarkSpent)
    /\ WF_vars(\E a \in kept : Verify(a))
    /\ \A p \in 1..MaxProofs :
         /\ WF_vars(\E t \in exports : t.proof = p /\ ImportPending(t))
         /\ WF_vars(\E t \in pending, ctx \in Ctxs : t.proof = p /\ Publish(t, ctx))
         /\ WF_vars(\E a \in pool : a[1] = p /\ Mine(a))
         /\ WF_vars(\E t \in pending, a \in sent, waits \in Ctxs \union {Settled} :
                       t.proof = p /\ Finalize(t, a, waits))

FairSpec == Spec /\ Fairness

----------------------------------------------------------------------------
(* Properties. *)

Circulating(a) ==
    LET consumed == UNION {ToSet(proofs[p].ins) : p \in LogProofs}
        live == {c \in UNION {CoinsOf(proofs, p) : p \in LogProofs} :
                    AssetOf(proofs, c) = a /\ c \notin consumed}
    IN SumFunctionOnSet([c \in AllCoins(proofs) |-> Opening(proofs, c).value], live)

\* The audit reads mints and redeems only, and yet it equals the value of the
\* coins that exist on the chain, through retries that anchor one transaction
\* twice and payments made from change that was not mined yet; a redeem that
\* is anchored twice can only make it report less.
AuditExact ==
    \A a \in Assets :
        /\ Supply(a) <= Circulating(a)
        /\ \/ \E i, j \in DOMAIN log : /\ i # j /\ log[i][1] = log[j][1]
                                       /\ proofs[log[i][1]].mode = "redeem"
           \/ Supply(a) = Circulating(a)

\* Once the host's replay has succeeded, no coin on its spend list can be
\* offered again, whatever was lost in the crash and however often its
\* consignments are verified afterwards.
ReplayRestores == ready => \A c \in ToSet(spends) \intersect DOMAIN coins : coins[c].spent

Entry(c) ==
    IF c \notin DOMAIN coins THEN "absent"
    ELSE IF coins[c].spent THEN "spent"
    ELSE IF coins[c].waits = Settled THEN "settled" ELSE "provisional"

\* The book of the ledger, read off the wallet.
Book == [c \in CoinIds |-> Entry(c)]

Ledger == INSTANCE CoinLedger WITH Coins <- CoinIds, book <- Book

\* The coins of an open wallet behave as the ledger says: replaying a
\* finalised transaction or verifying a consignment again neither revives a
\* spent coin nor unsettles a settled one.
ImplementsLedger == Ledger!LedgerSpec

\* A published transaction is consigned: a crash between publishing and
\* storing the consignment costs nothing, because the export finalises again.
EventuallyConsigned ==
    \A p \in 1..MaxProofs : (\E a \in sent : a[1] = p) ~> (\E a \in kept : a[1] = p)
=============================================================================
