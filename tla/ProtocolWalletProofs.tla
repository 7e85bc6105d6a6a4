------------------------ MODULE ProtocolWalletProofs ------------------------
(***************************************************************************)
(* The in-memory wallet for every set of payments, contexts and assets and *)
(* every bound: its types, what a replay restores, that its coins behave   *)
(* as the ledger says, and that the public audit equals the value in       *)
(* circulation.  Then the value gadget of the circuit, for every radix.    *)
(***************************************************************************)
EXTENDS ProtocolWallet, SumTheorems, FiniteSetTheorems, SequenceTheorems, TLAPS

CoinRows == [spent : BOOLEAN, waits : Ctxs \union {Settled}]

\* The proofs made: a sequence, of statements with two outputs or none.
ProofInv ==
    /\ proofs \in Seq(ToSet(proofs)) /\ Len(proofs) <= MaxProofs
    /\ \A p \in DOMAIN proofs : DOMAIN proofs[p].outs \subseteq 1..2

\* The coins in memory: outputs of proofs, with a status.
CoinInv ==
    /\ DOMAIN coins \subseteq AllCoins(proofs)
    /\ \A c \in DOMAIN coins : coins[c] \in CoinRows

\* The transactions proved, the anchors and the consignments.
HostInv ==
    /\ \A t \in pending \union exports : t.proof \in DOMAIN proofs /\ t.deps \subseteq Anchors
    /\ sent \subseteq (DOMAIN proofs) \X Ctxs
    /\ kept \subseteq sent /\ pool \subseteq sent
    /\ log \in Seq(sent)
    /\ spends \in Seq(AllCoins(proofs))

FlagInv == open \in BOOLEAN /\ ready \in BOOLEAN /\ mishaps \in 0..MaxMishaps

HeldSpent(ids) == ids \subseteq DOMAIN coins /\ \A c \in ids : coins[c].spent

\* What the host has not stored yet is spent in memory, and there is nothing of the kind
\* without a handle; what it has stored is spent once its replay is done.
SpendInv ==
    /\ ~open => reply = NoReply
    /\ reply # NoReply => reply \in sent /\ HeldSpent(ToSet(proofs[reply[1]].ins))
    /\ ready => HeldSpent(ToSet(spends))

Inv == ProofInv /\ CoinInv /\ HostInv /\ FlagInv /\ SpendInv

-----------------------------------------------------------------------------
(* Sequences and functions.                                                *)

\* The elements of a sequence and its domain.
LEMMA SeqFacts ==
    ASSUME NEW S, NEW s \in Seq(S)
    PROVE  /\ DOMAIN s = 1..Len(s) /\ Len(s) \in Nat
           /\ ToSet(s) \subseteq S /\ s \in Seq(ToSet(s))
           /\ \A T : ToSet(s) \subseteq T => s \in Seq(T)
<1>1. DOMAIN s = 1..Len(s) /\ Len(s) \in Nat /\ \A i \in 1..Len(s) : s[i] \in S
  BY LenProperties, ElementOfSeq
<1>2. ToSet(s) \subseteq S
  BY <1>1 DEF ToSet
<1>3. ASSUME NEW T, ToSet(s) \subseteq T PROVE s \in Seq(T)
  <2>1. \A i \in 1..Len(s) : s[i] \in T
    BY <1>1, <1>3 DEF ToSet
  <2>2. s \in [1..Len(s) -> T]
    BY <1>1, <2>1, LenProperties
  <2> QED
    BY <1>1, <2>2 DEF Seq
<1> QED
  BY <1>1, <1>2, <1>3

\* What Append adds.
LEMMA AppendFacts ==
    ASSUME NEW S, NEW s \in Seq(S), NEW e
    PROVE  /\ Append(s, e) \in Seq(S \union {e})
           /\ Len(Append(s, e)) = Len(s) + 1
           /\ \A i \in 1..Len(s) : Append(s, e)[i] = s[i]
           /\ Append(s, e)[Len(s) + 1] = e
           /\ ToSet(Append(s, e)) = ToSet(s) \union {e}
<1>1. s \in Seq(S \union {e})
  BY SeqFacts
<1>2. /\ Append(s, e) \in Seq(S \union {e})
      /\ Len(Append(s, e)) = Len(s) + 1
      /\ \A i \in 1..Len(s) : Append(s, e)[i] = s[i]
      /\ Append(s, e)[Len(s) + 1] = e
  BY <1>1, AppendProperties
<1>3. DOMAIN Append(s, e) = 1..(Len(s) + 1) /\ DOMAIN s = 1..Len(s) /\ Len(s) \in Nat
  BY <1>1, <1>2, SeqFacts
<1>4. 1..(Len(s) + 1) = (1..Len(s)) \union {Len(s) + 1}
  BY <1>3
<1>5. ToSet(Append(s, e)) = ToSet(s) \union {e}
  BY <1>2, <1>3, <1>4 DEF ToSet
<1> QED
  BY <1>2, <1>5

\* What concatenation adds.
LEMMA ConcatFacts ==
    ASSUME NEW S, NEW s \in Seq(S), NEW t \in Seq(S)
    PROVE  s \o t \in Seq(S) /\ ToSet(s \o t) \subseteq ToSet(s) \union ToSet(t)
<1>1. /\ s \o t \in Seq(S) /\ Len(s \o t) = Len(s) + Len(t)
      /\ \A i \in 1 .. Len(s) + Len(t) : (s \o t)[i] = IF i <= Len(s) THEN s[i] ELSE t[i - Len(s)]
  BY ConcatProperties
<1>2. /\ DOMAIN (s \o t) = 1..Len(s \o t) /\ DOMAIN s = 1..Len(s) /\ DOMAIN t = 1..Len(t)
      /\ Len(s) \in Nat /\ Len(t) \in Nat
  BY <1>1, SeqFacts
<1>3. ASSUME NEW i \in 1 .. Len(s) + Len(t) PROVE (s \o t)[i] \in ToSet(s) \union ToSet(t)
  <2>1. CASE i <= Len(s)
    BY <1>1, <1>2, <2>1 DEF ToSet
  <2>2. CASE ~(i <= Len(s))
    <3>1. i - Len(s) \in 1..Len(t)
      BY <1>2, <2>2
    <3> QED
      BY <1>1, <1>2, <2>2, <3>1 DEF ToSet
  <2> QED
    BY <2>1, <2>2
<1> QED
  BY <1>1, <1>2, <1>3 DEF ToSet

\* SetToSeq lists a finite set.
LEMMA ListOfSet ==
    ASSUME NEW S, IsFiniteSet(S)
    PROVE  SetToSeq(S) \in Seq(S) /\ ToSet(SetToSeq(S)) \subseteq S
<1>1. Cardinality(S) \in Nat /\ ExistsBijection(1..Cardinality(S), S)
  BY FS_CardinalityType
<1>2. PICK f : f \in Bijection(1..Cardinality(S), S)
  BY <1>1 DEF ExistsBijection
<1>3. f \in [1..Cardinality(S) -> S] /\ IsInjective(f)
  BY <1>2 DEF Bijection, Injection, IsInjective
<1>4. SetToSeq(S) \in [1..Cardinality(S) -> S]
  BY <1>3 DEF SetToSeq
<1>5. SetToSeq(S) \in Seq(S)
  BY <1>1, <1>4 DEF Seq
<1> QED
  BY <1>5, SeqFacts

-----------------------------------------------------------------------------
(* The wallet's operators.                                                 *)

\* A coin that is credited enters unspent, or keeps its status and does not unsettle.
LEMMA CreditedFacts ==
    ASSUME NEW held, NEW entering, NEW waits \in Ctxs \union {Settled},
           \A c \in DOMAIN held : held[c] \in CoinRows
    PROVE  /\ DOMAIN Credited(held, entering, waits) = DOMAIN held \union entering
           /\ \A c \in DOMAIN held \union entering : Credited(held, entering, waits)[c] \in CoinRows
           /\ \A c \in DOMAIN held :
                /\ Credited(held, entering, waits)[c].spent = held[c].spent
                /\ held[c].waits = Settled => Credited(held, entering, waits)[c].waits = Settled
           /\ \A c \in entering \ DOMAIN held : ~Credited(held, entering, waits)[c].spent
<1> DEFINE new == Credited(held, entering, waits)
<1>1. /\ DOMAIN new = DOMAIN held \union entering
      /\ \A c \in entering \ DOMAIN held : new[c] = [spent |-> FALSE, waits |-> waits]
      /\ \A c \in entering \intersect DOMAIN held :
           new[c] = [held[c] EXCEPT !.waits = IF held[c].waits = Settled THEN Settled ELSE waits]
      /\ \A c \in DOMAIN held \ entering : new[c] = held[c]
  BY DEF Credited, Coin
<1> HIDE DEF new
<1>2. ASSUME NEW c \in entering \ DOMAIN held PROVE new[c] \in CoinRows /\ ~new[c].spent
  <2>1. new[c] = [spent |-> FALSE, waits |-> waits]
    BY <1>1
  <2>2. [spent |-> FALSE, waits |-> waits] \in CoinRows
    BY DEF CoinRows
  <2> QED
    BY <2>1, <2>2
<1>3. ASSUME NEW c \in DOMAIN held
      PROVE  /\ new[c] \in CoinRows /\ new[c].spent = held[c].spent
             /\ held[c].waits = Settled => new[c].waits = Settled
  BY <1>1 DEF CoinRows, Settled
<1>4. \A c \in DOMAIN held \union entering : new[c] \in CoinRows
  BY <1>2, <1>3
<1> QED
  BY <1>1, <1>2, <1>3, <1>4 DEF new

\* Marking changes nothing but the flag of the coins named.
LEMMA MarkedFacts ==
    ASSUME NEW held, NEW ids, \A c \in DOMAIN held : held[c] \in CoinRows
    PROVE  /\ DOMAIN MarkedSpent(held, ids) = DOMAIN held
           /\ \A c \in DOMAIN held :
                /\ MarkedSpent(held, ids)[c] \in CoinRows
                /\ MarkedSpent(held, ids)[c].spent = (held[c].spent \/ c \in ids)
                /\ MarkedSpent(held, ids)[c].waits = held[c].waits
<1>1. /\ DOMAIN MarkedSpent(held, ids) = DOMAIN held
      /\ \A c \in DOMAIN held : MarkedSpent(held, ids)[c] =
           IF c \in ids THEN [held[c] EXCEPT !.spent = TRUE] ELSE held[c]
  BY DEF MarkedSpent
<1>2. ASSUME NEW c \in DOMAIN held
      PROVE  /\ MarkedSpent(held, ids)[c] \in CoinRows
             /\ MarkedSpent(held, ids)[c].spent = (held[c].spent \/ c \in ids)
             /\ MarkedSpent(held, ids)[c].waits = held[c].waits
  <2>1. CASE c \in ids
    BY <1>1, <2>1 DEF CoinRows
  <2>2. CASE c \notin ids
    BY <1>1, <2>2 DEF CoinRows
  <2> QED
    BY <2>1, <2>2
<1> QED
  BY <1>1, <1>2

\* Proofs are numbered from one, and their coins are pairs of a number and an output.
LEMMA ProofFacts ==
    ASSUME ProofInv
    PROVE  /\ DOMAIN proofs = 1..Len(proofs) /\ Len(proofs) \in Nat
           /\ DOMAIN proofs \subseteq 1..MaxProofs
           /\ AllCoins(proofs) \subseteq CoinIds
           /\ \A c \in AllCoins(proofs) : c[1] \in DOMAIN proofs
           /\ \A p \in DOMAIN proofs : CoinsOf(proofs, p) \subseteq AllCoins(proofs)
<1>1. DOMAIN proofs = 1..Len(proofs) /\ Len(proofs) \in Nat
  BY SeqFacts DEF ProofInv
<1>2. DOMAIN proofs \subseteq 1..MaxProofs
  BY <1>1, WalletAssumption DEF ProofInv
<1>3. ASSUME NEW c \in AllCoins(proofs) PROVE c \in CoinIds /\ c[1] \in DOMAIN proofs
  <2>1. PICK p \in DOMAIN proofs : c \in CoinsOf(proofs, p)
    BY DEF AllCoins
  <2>2. PICK k \in DOMAIN proofs[p].outs : c = <<p, k>>
    BY <2>1 DEF CoinsOf
  <2>3. k \in 1..2
    BY <2>2 DEF ProofInv
  <2> QED
    BY <1>2, <2>2, <2>3 DEF CoinIds
<1>4. \A p \in DOMAIN proofs : CoinsOf(proofs, p) \subseteq AllCoins(proofs)
  BY DEF AllCoins
<1> QED
  BY <1>1, <1>2, <1>3, <1>4

\* There are finitely many coin names.
LEMMA CoinIdsFinite == IsFiniteSet(CoinIds)
<1>1. MaxProofs \in Int /\ 1 \in Int /\ 2 \in Int
  BY WalletAssumption
<1>2. IsFiniteSet(1..MaxProofs)
  BY <1>1, FS_Interval
<1>3. IsFiniteSet(1..2)
  BY <1>1, FS_Interval
<1> QED
  BY <1>2, <1>3, FS_Product DEF CoinIds

\* The anchors that a transaction waits for are anchors.
LEMMA DependencyFacts ==
    ASSUME ProofInv, CoinInv, NEW ins, FindCoins(ins)
    PROVE  Dependencies(ins) \subseteq Anchors
<1> SUFFICES ASSUME NEW c \in ToSet(ins), coins[c].waits # Settled
             PROVE  <<c[1], coins[c].waits>> \in Anchors
  BY DEF Dependencies
<1>1. c \in DOMAIN coins /\ c[1] \in 1..MaxProofs
  BY ProofFacts DEF FindCoins, CoinInv
<1>2. coins[c].waits \in Ctxs
  BY <1>1 DEF CoinInv, CoinRows
<1> QED
  BY <1>1, <1>2 DEF Anchors

-----------------------------------------------------------------------------
(* What a step does to the proofs and to the coins.                        *)

\* A transaction is proved: its statement has two outputs or none.
Proves == \E proof, deps :
    /\ PushPending(proof, deps)
    /\ DOMAIN proof.outs \subseteq 1..2 /\ deps \subseteq Anchors

\* The two outputs of a payment.
LEMMA OutputDomain == \A amounts, first, second : DOMAIN Outputs(amounts, first, second) = 1..2
  BY DEF Outputs

\* A mint proves.
LEMMA MintProves ==
    ASSUME NEW a, NEW to, NEW amounts, ProveMint(a, to, amounts)
    PROVE  Proves
<1> DEFINE outs == Outputs(amounts, to, to)
           proof == ProveGenesisMint(a, outs, Assets)
<1>1. PushPending(proof, {}) /\ proof # NoProof
  BY DEF ProveMint, PushPending
<1>2. DOMAIN outs = 1..2
  BY OutputDomain
<1> HIDE DEF outs
<1>3. proof.outs = outs
  BY <1>1 DEF ProveGenesisMint, Statement
<1> HIDE DEF proof
<1> QED
  BY <1>1, <1>2, <1>3 DEF Proves

\* So does a transfer, of one input or of two.
LEMMA TransferProves ==
    ASSUME ProofInv, CoinInv, NEW ins, NEW to, NEW amounts, ProveTransfer(ins, to, amounts)
    PROVE  Proves
<1> DEFINE outs == Outputs(amounts, to, Self)
           proof == TransferProof(ins, outs)
           deps == Dependencies(ins)
<1>1. PushPending(proof, deps) /\ proof # NoProof
  BY DEF ProveTransfer, PushPending
<1>2. DOMAIN outs = 1..2
  BY OutputDomain
<1>3. deps \subseteq Anchors
  BY DependencyFacts DEF ProveTransfer
<1> HIDE DEF outs, deps
<1>4. proof.outs = outs
  BY <1>1 DEF TransferProof, ProveOneInputTransfer, ProveCoinTransfer, Statement
<1> HIDE DEF proof
<1> QED
  BY <1>1, <1>2, <1>3, <1>4 DEF Proves

\* And a redemption, which has no outputs.
LEMMA RedeemProves ==
    ASSUME ProofInv, CoinInv, NEW c, ProveRedeem(c)
    PROVE  Proves
<1> DEFINE proof == ProveRedeemProof(proofs, AssetOf(proofs, c), c, {Self})
           deps == Dependencies(<<c>>)
<1>1. PushPending(proof, deps) /\ proof # NoProof
  BY DEF ProveRedeem, PushPending
<1>2. deps \subseteq Anchors
  BY DependencyFacts DEF ProveRedeem
<1> HIDE DEF deps
<1>3. proof.outs = << >>
  BY <1>1 DEF ProveRedeemProof, Statement
<1>4. DOMAIN << >> \subseteq 1..2
  OBVIOUS
<1> HIDE DEF proof
<1> QED
  BY <1>1, <1>2, <1>3, <1>4 DEF Proves

-----------------------------------------------------------------------------
(* The coins in memory.                                                    *)

\* The coins after a step: none is lost, none that was spent or settled stops being so, and
\* those that enter are not spent.
Advances ==
    /\ DOMAIN coins \subseteq DOMAIN coins'
    /\ \A c \in DOMAIN coins' : coins'[c] \in CoinRows
    /\ \A c \in DOMAIN coins : /\ coins[c].spent => coins'[c].spent
                               /\ coins[c].waits = Settled => coins'[c].waits = Settled
    /\ \A c \in DOMAIN coins' \ DOMAIN coins : ~coins'[c].spent

\* A session ends or begins: there are no coins, and neither an answer nor a replay.
Forgets == coins' = << >> /\ ready' = FALSE

\* The coins a finalisation leaves: the inputs spent, the change in.
LEMMA FinalizeCoins ==
    ASSUME ProofInv, CoinInv, HostInv, NEW t \in pending, NEW a \in sent,
           NEW waits \in Ctxs \union {Settled}, Finalize(t, a, waits)
    PROVE  /\ Advances /\ DOMAIN coins' = DOMAIN coins \union OwnOutputs(a[1])
           /\ ToSet(proofs[a[1]].ins) \subseteq DOMAIN coins
           /\ \A c \in ToSet(proofs[a[1]].ins) : coins'[c].spent
<1> DEFINE ids == ToSet(proofs[a[1]].ins)
           marked == MarkedSpent(coins, ids)
           own == OwnOutputs(a[1])
<1>1. coins' = Credited(marked, own, waits) /\ ids \subseteq DOMAIN coins
  BY DEF Finalize, FindCoins
<1>2. /\ DOMAIN marked = DOMAIN coins
      /\ \A c \in DOMAIN coins : /\ marked[c] \in CoinRows
                                 /\ marked[c].spent = (coins[c].spent \/ c \in ids)
                                 /\ marked[c].waits = coins[c].waits
  BY MarkedFacts DEF CoinInv
<1> HIDE DEF ids, marked, own
<1>3. /\ DOMAIN coins' = DOMAIN marked \union own
      /\ \A c \in DOMAIN marked \union own : coins'[c] \in CoinRows
      /\ \A c \in DOMAIN marked : /\ coins'[c].spent = marked[c].spent
                                  /\ marked[c].waits = Settled => coins'[c].waits = Settled
      /\ \A c \in own \ DOMAIN marked : ~coins'[c].spent
  <2>1. \A c \in DOMAIN marked : marked[c] \in CoinRows
    BY <1>2
  <2> DEFINE new == Credited(marked, own, waits)
  <2>2. /\ DOMAIN new = DOMAIN marked \union own
        /\ \A c \in DOMAIN marked \union own : new[c] \in CoinRows
        /\ \A c \in DOMAIN marked : /\ new[c].spent = marked[c].spent
                                    /\ marked[c].waits = Settled => new[c].waits = Settled
        /\ \A c \in own \ DOMAIN marked : ~new[c].spent
    BY <2>1, CreditedFacts
  <2>3. coins' = new
    BY <1>1
  <2> HIDE DEF new
  <2> QED
    BY <2>2, <2>3
<1>4. Advances
  BY <1>2, <1>3 DEF Advances
<1>5. \A c \in ids : coins'[c].spent
  BY <1>1, <1>2, <1>3
<1> QED
  BY <1>1, <1>2, <1>3, <1>4, <1>5 DEF ids, own

\* The coins a consignment brings in.
LEMMA VerifyCoins ==
    ASSUME CoinInv, NEW a \in kept, Verify(a)
    PROVE  Advances /\ DOMAIN coins' = DOMAIN coins \union OwnOutputs(a[1])
<1> DEFINE own == OwnOutputs(a[1])
<1>1. coins' = Credited(coins, own, Settled) /\ Settled \in Ctxs \union {Settled}
  BY DEF Verify
<1> HIDE DEF own
<1>2. /\ DOMAIN coins' = DOMAIN coins \union own
      /\ \A c \in DOMAIN coins \union own : coins'[c] \in CoinRows
      /\ \A c \in DOMAIN coins : /\ coins'[c].spent = coins[c].spent
                                 /\ coins[c].waits = Settled => coins'[c].waits = Settled
      /\ \A c \in own \ DOMAIN coins : ~coins'[c].spent
  <2>1. \A c \in DOMAIN coins : coins[c] \in CoinRows
    BY DEF CoinInv
  <2> DEFINE new == Credited(coins, own, Settled)
  <2>2. /\ DOMAIN new = DOMAIN coins \union own
        /\ \A c \in DOMAIN coins \union own : new[c] \in CoinRows
        /\ \A c \in DOMAIN coins : /\ new[c].spent = coins[c].spent
                                   /\ coins[c].waits = Settled => new[c].waits = Settled
        /\ \A c \in own \ DOMAIN coins : ~new[c].spent
    BY <1>1, <2>1, CreditedFacts
  <2>3. coins' = new
    BY <1>1
  <2> HIDE DEF new
  <2> QED
    BY <2>2, <2>3
<1> QED
  BY <1>2 DEF Advances, own

\* What the replay of the spend list marks.
LEMMA MarkCoins ==
    ASSUME CoinInv, HostInv, MarkSpent
    PROVE  /\ Advances /\ DOMAIN coins' = DOMAIN coins
           /\ ready' => HeldSpent(ToSet(spends))'
<1> DEFINE ids == KnownPrefix(spends)
<1>1. /\ coins' = MarkedSpent(coins, ids) /\ spends' = spends
      /\ ready' = (ToSet(spends) \subseteq DOMAIN coins)
  BY DEF MarkSpent, host
<1>2. ASSUME ToSet(spends) \subseteq DOMAIN coins, NEW c \in ToSet(spends) PROVE c \in ids
  <2>1. PICK i \in DOMAIN spends : c = spends[i]
    BY DEF ToSet
  <2>2. DOMAIN spends = 1..Len(spends) /\ Len(spends) \in Nat
    BY SeqFacts DEF HostInv
  <2>3. ASSUME NEW j \in 1..i PROVE spends[j] \in DOMAIN coins
    <3>1. j \in DOMAIN spends
      BY <2>1, <2>2
    <3> QED
      BY <3>1, <1>2 DEF ToSet
  <2> QED
    BY <2>1, <2>3 DEF KnownPrefix
<1> HIDE DEF ids
<1>3. /\ DOMAIN coins' = DOMAIN coins
      /\ \A c \in DOMAIN coins : /\ coins'[c] \in CoinRows
                                 /\ coins'[c].spent = (coins[c].spent \/ c \in ids)
                                 /\ coins'[c].waits = coins[c].waits
  BY <1>1, MarkedFacts DEF CoinInv
<1>4. Advances
  BY <1>3 DEF Advances
<1>5. ready' => HeldSpent(ToSet(spends))'
  <2> SUFFICES ASSUME ready' PROVE HeldSpent(ToSet(spends))'
    OBVIOUS
  <2>1. ToSet(spends) \subseteq DOMAIN coins
    BY <1>1
  <2>2. ToSet(spends)' = ToSet(spends)
    BY <1>1 DEF ToSet
  <2> QED
    BY <1>2, <1>3, <2>1, <2>2 DEF HeldSpent
<1> QED
  BY <1>3, <1>4, <1>5

\* A step leaves the coins, advances them or forgets them all.
LEMMA CoinSteps ==
    ASSUME Inv, [Next]_vars
    PROVE  UNCHANGED coins \/ Advances \/ Forgets
<1>1. CASE Open \/ Close
  BY <1>1 DEF Open, Close, Forgets
<1>2. CASE MarkSpent
  BY <1>2, MarkCoins DEF Inv
<1>3. ASSUME NEW t \in pending, NEW a \in sent, NEW waits \in Ctxs \union {Settled},
             Finalize(t, a, waits)
      PROVE  Advances
  BY <1>3, FinalizeCoins DEF Inv
<1>4. ASSUME NEW a \in kept, Verify(a) PROVE Advances
  BY <1>4, VerifyCoins DEF Inv
<1>5. CASE SaveFinalized
  BY <1>5 DEF SaveFinalized, wallet
<1>6. ASSUME NEW a, NEW amounts, ProveMint(a, Self, amounts) PROVE UNCHANGED coins
  BY <1>6 DEF ProveMint, PushPending
<1>7. ASSUME NEW c, ProveRedeem(c) PROVE UNCHANGED coins
  BY <1>7 DEF ProveRedeem, PushPending
<1>8. ASSUME NEW ins, NEW to, NEW amounts, ProveTransfer(ins, to, amounts) PROVE UNCHANGED coins
  BY <1>8 DEF ProveTransfer, PushPending
<1>9. ASSUME NEW t, ExportPending(t) \/ ImportPending(t) PROVE UNCHANGED coins
  BY <1>9 DEF ExportPending, ImportPending, wallet
<1>10. ASSUME NEW t, NEW ctx, Publish(t, ctx) PROVE UNCHANGED coins
  BY <1>10 DEF Publish, wallet
<1>11. ASSUME NEW a, Evict(a) \/ Mine(a) PROVE UNCHANGED coins
  BY <1>11 DEF Evict, Mine, wallet
<1>12. CASE UNCHANGED vars
  BY <1>12 DEF vars, wallet
<1> QED
  BY <1>1, <1>2, <1>3, <1>4, <1>5, <1>6, <1>7, <1>8, <1>9, <1>10, <1>11, <1>12 DEF Next

-----------------------------------------------------------------------------
(* The invariant.                                                          *)

\* It holds of a wallet that was just created.
LEMMA InvInit == Init => Inv
<1> SUFFICES ASSUME Init PROVE Inv
  OBVIOUS
<1>1. /\ proofs = << >> /\ open = TRUE /\ coins = << >> /\ pending = {} /\ reply = NoReply
      /\ ready = TRUE /\ exports = {} /\ kept = {} /\ spends = << >>
      /\ sent = {} /\ pool = {} /\ log = << >> /\ mishaps = 0
  BY DEF Init
<1>2. DOMAIN << >> = {} /\ Len(<< >>) = 0 /\ \A S : << >> \in Seq(S)
  OBVIOUS
<1>3. ToSet(<< >>) = {}
  BY <1>2 DEF ToSet
<1>4. ProofInv
  BY <1>1, <1>2, WalletAssumption DEF ProofInv
<1>5. CoinInv
  BY <1>1, <1>2 DEF CoinInv
<1>6. HostInv
  BY <1>1, <1>2 DEF HostInv
<1>7. FlagInv
  BY <1>1, WalletAssumption DEF FlagInv
<1>8. SpendInv
  BY <1>1, <1>3 DEF SpendInv, HeldSpent
<1> QED
  BY <1>4, <1>5, <1>6, <1>7, <1>8 DEF Inv

\* What is held and spent stays so while the coins advance.
LEMMA SpentStays ==
    ASSUME NEW ids, HeldSpent(ids), UNCHANGED coins \/ Advances
    PROVE  ids \subseteq DOMAIN coins' /\ \A c \in ids : coins'[c].spent
  BY DEF HeldSpent, Advances

\* A proof that is made numbers on: those that were made keep their statements and coins.
LEMMA ProvesGrow ==
    ASSUME ProofInv, Proves
    PROVE  /\ ProofInv' /\ DOMAIN proofs \subseteq DOMAIN proofs'
           /\ \A p \in DOMAIN proofs : proofs'[p] = proofs[p]
           /\ AllCoins(proofs) \subseteq AllCoins(proofs')
           /\ Len(proofs) + 1 \in DOMAIN proofs'
<1>1. PICK proof, deps : /\ PushPending(proof, deps)
                         /\ DOMAIN proof.outs \subseteq 1..2 /\ deps \subseteq Anchors
  BY DEF Proves
<1>2. proofs' = Append(proofs, proof) /\ Len(proofs) < MaxProofs
  BY <1>1 DEF PushPending
<1>3. DOMAIN proofs = 1..Len(proofs) /\ Len(proofs) \in Nat
  BY ProofFacts
<1>4. /\ proofs' \in Seq(ToSet(proofs) \union {proof})
      /\ Len(proofs') = Len(proofs) + 1
      /\ \A i \in 1..Len(proofs) : proofs'[i] = proofs[i]
      /\ proofs'[Len(proofs) + 1] = proof
  BY <1>2, AppendFacts DEF ProofInv
<1>5. proofs' \in Seq(ToSet(proofs')) /\ DOMAIN proofs' = 1..(Len(proofs) + 1)
  BY <1>4, SeqFacts
<1>6. 1..(Len(proofs) + 1) = (1..Len(proofs)) \union {Len(proofs) + 1}
  BY <1>3
<1>7. Len(proofs') <= MaxProofs
  BY <1>2, <1>3, <1>4, WalletAssumption
<1>8. \A p \in DOMAIN proofs' : DOMAIN proofs'[p].outs \subseteq 1..2
  BY <1>1, <1>3, <1>4, <1>5, <1>6 DEF ProofInv
<1>9. ProofInv'
  BY <1>5, <1>7, <1>8 DEF ProofInv, ToSet
<1>10. AllCoins(proofs) \subseteq AllCoins(proofs')
  <2> SUFFICES ASSUME NEW p \in DOMAIN proofs, NEW c \in CoinsOf(proofs, p)
               PROVE  c \in AllCoins(proofs')
    BY DEF AllCoins
  <2>1. p \in DOMAIN proofs' /\ proofs'[p] = proofs[p]
    BY <1>3, <1>4, <1>5, <1>6
  <2>2. c \in CoinsOf(proofs', p)
    BY <2>1 DEF CoinsOf
  <2> QED
    BY <2>1, <2>2 DEF AllCoins
<1> QED
  BY <1>3, <1>4, <1>5, <1>6, <1>9, <1>10

\* A proof that is made keeps the invariant.
LEMMA ProvesInv ==
    ASSUME Inv, Proves
    PROVE  Inv'
<1>1. PICK proof, deps : /\ PushPending(proof, deps)
                         /\ DOMAIN proof.outs \subseteq 1..2 /\ deps \subseteq Anchors
  BY DEF Proves
<1>2. /\ pending' = pending \union {[proof |-> Len(proofs) + 1, deps |-> deps]}
      /\ UNCHANGED <<open, coins, reply, ready, exports, kept, spends, sent, pool, log, mishaps>>
  BY <1>1 DEF PushPending, session, host, chain
<1>3. /\ ProofInv' /\ DOMAIN proofs \subseteq DOMAIN proofs'
      /\ \A p \in DOMAIN proofs : proofs'[p] = proofs[p]
      /\ AllCoins(proofs) \subseteq AllCoins(proofs')
      /\ Len(proofs) + 1 \in DOMAIN proofs'
  BY ProvesGrow DEF Inv
<1>4. CoinInv'
  BY <1>2, <1>3 DEF Inv, CoinInv
<1>5. HostInv'
  <2>1. \A t \in pending' \union exports' : t.proof \in DOMAIN proofs' /\ t.deps \subseteq Anchors
    BY <1>1, <1>2, <1>3 DEF Inv, HostInv
  <2>2. sent' \subseteq (DOMAIN proofs') \X Ctxs
    BY <1>2, <1>3 DEF Inv, HostInv
  <2>3. kept' \subseteq sent' /\ pool' \subseteq sent' /\ log' \in Seq(sent')
    BY <1>2 DEF Inv, HostInv
  <2>4. spends' \in Seq(AllCoins(proofs'))
    <3>1. spends \in Seq(AllCoins(proofs)) /\ ToSet(spends) \subseteq AllCoins(proofs)
      BY SeqFacts DEF Inv, HostInv
    <3>2. ToSet(spends) \subseteq AllCoins(proofs')
      BY <3>1, <1>3
    <3>3. spends \in Seq(AllCoins(proofs'))
      BY <3>1, <3>2, SeqFacts
    <3> QED
      BY <3>3, <1>2
  <2> QED
    BY <2>1, <2>2, <2>3, <2>4 DEF HostInv, Anchors
<1>6. FlagInv'
  BY <1>2 DEF Inv, FlagInv
<1>7. SpendInv'
  <2>1. reply # NoReply => reply[1] \in DOMAIN proofs
    BY DEF Inv, SpendInv, HostInv
  <2>2. reply # NoReply => proofs'[reply[1]] = proofs[reply[1]]
    BY <2>1, <1>3
  <2> QED
    BY <1>2, <2>2 DEF Inv, SpendInv, HeldSpent
<1> QED
  BY <1>3, <1>4, <1>5, <1>6, <1>7 DEF Inv

\* A step that touches neither proofs nor coins nor the session leaves these parts alone.
LEMMA QuietParts ==
    ASSUME Inv, UNCHANGED <<proofs, wallet, session, spends>>, sent \subseteq sent'
    PROVE  ProofInv' /\ CoinInv' /\ SpendInv' /\ open' \in BOOLEAN /\ ready' \in BOOLEAN
<1>1. UNCHANGED <<proofs, open, coins, pending, reply, ready, spends>>
  BY DEF wallet, session
<1>2. ProofInv'
  BY <1>1 DEF Inv, ProofInv
<1>3. CoinInv'
  BY <1>1 DEF Inv, CoinInv
<1>4. SpendInv'
  BY <1>1 DEF Inv, SpendInv, HeldSpent
<1> QED
  BY <1>1, <1>2, <1>3, <1>4 DEF Inv, FlagInv

\* The steps of the host and of the chain that prove nothing and move no coin.
LEMMA HostSteps ==
    ASSUME Inv
    PROVE  /\ \A t \in pending : ExportPending(t) => Inv'
           /\ \A t \in exports : ImportPending(t) => Inv'
           /\ \A t \in pending, ctx \in Ctxs : Publish(t, ctx) => Inv'
           /\ \A a \in pool : Evict(a) => Inv'
           /\ \A a \in sent : Mine(a) => Inv'
           /\ UNCHANGED vars => Inv'
<1>1. ASSUME NEW t \in pending, ExportPending(t) PROVE Inv'
  <2>1. /\ exports' = exports \union {t}
        /\ UNCHANGED <<proofs, open, coins, pending, reply, ready, kept, spends, sent, pool, log, mishaps>>
    BY <1>1 DEF ExportPending, wallet, session, chain
  <2>2. ProofInv' /\ CoinInv' /\ SpendInv' /\ open' \in BOOLEAN /\ ready' \in BOOLEAN
    BY <2>1, QuietParts DEF wallet, session
  <2>3. HostInv'
    BY <2>1 DEF Inv, HostInv
  <2> QED
    BY <2>1, <2>2, <2>3 DEF Inv, FlagInv
<1>2. ASSUME NEW t \in exports, ImportPending(t) PROVE Inv'
  <2>1. /\ pending' = pending \union {t}
        /\ UNCHANGED <<proofs, open, coins, reply, ready, exports, kept, spends, sent, pool, log, mishaps>>
    BY <1>2 DEF ImportPending, session, host, chain
  <2>2. ProofInv' /\ CoinInv' /\ SpendInv'
    BY <2>1 DEF Inv, ProofInv, CoinInv, SpendInv, HeldSpent
  <2>3. HostInv'
    BY <2>1 DEF Inv, HostInv
  <2> QED
    BY <2>1, <2>2, <2>3 DEF Inv, FlagInv
<1>3. ASSUME NEW t \in pending, NEW ctx \in Ctxs, Publish(t, ctx) PROVE Inv'
  <2>1. /\ sent' = sent \union {<<t.proof, ctx>>} /\ pool' = pool \union {<<t.proof, ctx>>}
        /\ UNCHANGED <<proofs, open, coins, pending, reply, ready, exports, kept, spends, log, mishaps>>
    BY <1>3 DEF Publish, wallet, session, host
  <2>2. ProofInv' /\ CoinInv' /\ SpendInv' /\ open' \in BOOLEAN /\ ready' \in BOOLEAN
    BY <2>1, QuietParts DEF wallet, session
  <2>3. log \in Seq(sent')
    <3>1. log \in Seq(sent) /\ ToSet(log) \subseteq sent
      BY SeqFacts DEF Inv, HostInv
    <3>2. ToSet(log) \subseteq sent'
      BY <2>1, <3>1
    <3> QED
      BY <3>1, <3>2, SeqFacts
  <2>4. t.proof \in DOMAIN proofs
    BY DEF Inv, HostInv
  <2>5. HostInv'
    BY <2>1, <2>3, <2>4 DEF Inv, HostInv
  <2> QED
    BY <2>1, <2>2, <2>5 DEF Inv, FlagInv
<1>4. ASSUME NEW a \in pool, Evict(a) PROVE Inv'
  <2>1. /\ pool' = pool \ {a} /\ mishaps < MaxMishaps /\ mishaps' = mishaps + 1
        /\ UNCHANGED <<proofs, open, coins, pending, reply, ready, exports, kept, spends, sent, log>>
    BY <1>4 DEF Evict, Mishap, wallet, session, host
  <2>2. ProofInv' /\ CoinInv' /\ SpendInv' /\ open' \in BOOLEAN /\ ready' \in BOOLEAN
    BY <2>1, QuietParts DEF wallet, session
  <2>3. HostInv'
    BY <2>1 DEF Inv, HostInv
  <2>4. mishaps' \in 0..MaxMishaps
    BY <2>1, WalletAssumption DEF Inv, FlagInv
  <2> QED
    BY <2>2, <2>3, <2>4 DEF Inv, FlagInv
<1>5. ASSUME NEW a \in sent, Mine(a) PROVE Inv'
  <2>1. /\ log' = Append(log, a) /\ pool' \subseteq pool
        /\ UNCHANGED <<proofs, open, coins, pending, reply, ready, exports, kept, spends, sent, mishaps>>
    BY <1>5 DEF Mine, wallet, session, host
  <2>2. ProofInv' /\ CoinInv' /\ SpendInv' /\ open' \in BOOLEAN /\ ready' \in BOOLEAN
    BY <2>1, QuietParts DEF wallet, session
  <2>3. log' \in Seq(sent)
    BY <2>1, AppendProperties DEF Inv, HostInv
  <2>4. HostInv'
    BY <2>1, <2>3 DEF Inv, HostInv
  <2> QED
    BY <2>1, <2>2, <2>4 DEF Inv, FlagInv
<1>6. ASSUME UNCHANGED vars PROVE Inv'
  BY <1>6 DEF vars, wallet, session, host, chain, Inv, ProofInv, CoinInv, HostInv, FlagInv,
              SpendInv, HeldSpent
<1> QED
  BY <1>1, <1>2, <1>3, <1>4, <1>5, <1>6

\* Opening and closing: the memory is empty, and the host has not replayed into it.
LEMMA SessionSteps ==
    ASSUME Inv, Open \/ Close
    PROVE  Inv'
<1>1. /\ coins' = << >> /\ pending' = {} /\ ready' = FALSE /\ reply' = NoReply
      /\ open' \in BOOLEAN
      /\ UNCHANGED <<proofs, exports, kept, spends, sent, pool, log>>
  BY DEF Open, Close, host, chain, Inv, SpendInv
<1>2. mishaps' \in 0..MaxMishaps
  <2>1. CASE Open
    BY <2>1 DEF Open, Inv, FlagInv
  <2>2. CASE Close
    BY <2>2, WalletAssumption DEF Close, Mishap, Inv, FlagInv
  <2> QED
    BY <2>1, <2>2
<1>3. ProofInv'
  BY <1>1 DEF Inv, ProofInv
<1>4. DOMAIN << >> = {}
  OBVIOUS
<1>5. CoinInv'
  BY <1>1, <1>4 DEF CoinInv
<1>6. HostInv'
  BY <1>1 DEF Inv, HostInv
<1>7. FlagInv' /\ SpendInv'
  BY <1>1, <1>2 DEF FlagInv, SpendInv
<1> QED
  BY <1>3, <1>5, <1>6, <1>7 DEF Inv

\* The outputs that pay the wallet are coins.
LEMMA OwnAreCoins ==
    ASSUME ProofInv, HostInv, NEW a \in sent
    PROVE  OwnOutputs(a[1]) \subseteq AllCoins(proofs)
<1>1. a[1] \in DOMAIN proofs
  BY DEF HostInv
<1> QED
  BY <1>1, ProofFacts DEF OwnOutputs

\* The coins of a consignment that is verified again come in unspent; those held stay.
LEMMA VerifyInv ==
    ASSUME Inv, NEW a \in kept, Verify(a)
    PROVE  Inv'
<1>1. UNCHANGED <<proofs, open, pending, reply, ready, exports, kept, spends, sent, pool, log, mishaps>>
  BY DEF Verify, session, host, chain
<1>2. Advances /\ DOMAIN coins' = DOMAIN coins \union OwnOutputs(a[1])
  BY VerifyCoins DEF Inv
<1>3. OwnOutputs(a[1]) \subseteq AllCoins(proofs)
  BY OwnAreCoins DEF Inv, HostInv
<1>4. CoinInv'
  BY <1>1, <1>2, <1>3 DEF Inv, CoinInv, Advances
<1>5. ProofInv' /\ HostInv' /\ FlagInv'
  BY <1>1 DEF Inv, ProofInv, HostInv, FlagInv
<1>6. \A ids : HeldSpent(ids) => ids \subseteq DOMAIN coins' /\ \A c \in ids : coins'[c].spent
  BY <1>2, SpentStays
<1>7. SpendInv'
  BY <1>1, <1>6 DEF Inv, SpendInv, HeldSpent
<1> QED
  BY <1>4, <1>5, <1>7 DEF Inv

\* The replay of the spend list.
LEMMA MarkInv ==
    ASSUME Inv, MarkSpent
    PROVE  Inv'
<1>1. UNCHANGED <<proofs, open, pending, reply, exports, kept, spends, sent, pool, log, mishaps>>
  BY DEF MarkSpent, host, chain
<1>2. /\ Advances /\ DOMAIN coins' = DOMAIN coins
      /\ ready' => HeldSpent(ToSet(spends))'
  BY MarkCoins DEF Inv
<1>3. ready' \in BOOLEAN
  BY DEF MarkSpent
<1>4. CoinInv'
  BY <1>1, <1>2 DEF Inv, CoinInv, Advances
<1>5. ProofInv' /\ HostInv' /\ FlagInv'
  BY <1>1, <1>3 DEF Inv, ProofInv, HostInv, FlagInv
<1>6. \A ids : HeldSpent(ids) => ids \subseteq DOMAIN coins' /\ \A c \in ids : coins'[c].spent
  BY <1>2, SpentStays
<1>7. SpendInv'
  BY <1>1, <1>2, <1>6 DEF Inv, SpendInv, HeldSpent
<1> QED
  BY <1>4, <1>5, <1>7 DEF Inv

\* A finalisation: the answer names a transaction whose inputs are spent in memory.
LEMMA FinalizeInv ==
    ASSUME Inv, NEW t \in pending, NEW a \in sent,
           NEW waits \in Ctxs \union {Settled}, Finalize(t, a, waits)
    PROVE  Inv'
<1>1. /\ pending' = pending \ {t} /\ reply' = a /\ open
      /\ UNCHANGED <<proofs, open, ready, exports, kept, spends, sent, pool, log, mishaps>>
  BY DEF Finalize, host, chain
<1>2. /\ Advances /\ DOMAIN coins' = DOMAIN coins \union OwnOutputs(a[1])
      /\ ToSet(proofs[a[1]].ins) \subseteq DOMAIN coins
      /\ \A c \in ToSet(proofs[a[1]].ins) : coins'[c].spent
  BY FinalizeCoins DEF Inv
<1>3. OwnOutputs(a[1]) \subseteq AllCoins(proofs)
  BY OwnAreCoins DEF Inv
<1>4. CoinInv'
  BY <1>1, <1>2, <1>3 DEF Inv, CoinInv, Advances
<1>5. ProofInv' /\ HostInv' /\ FlagInv'
  BY <1>1 DEF Inv, ProofInv, HostInv, FlagInv
<1>6. \A ids : HeldSpent(ids) => ids \subseteq DOMAIN coins' /\ \A c \in ids : coins'[c].spent
  BY <1>2, SpentStays
<1>7. SpendInv'
  <2>1. HeldSpent(ToSet(proofs[reply[1]].ins))'
    BY <1>1, <1>2 DEF HeldSpent
  <2>2. (ready => HeldSpent(ToSet(spends)))'
    BY <1>1, <1>6 DEF Inv, SpendInv, HeldSpent
  <2> QED
    BY <1>1, <2>1, <2>2 DEF SpendInv
<1> QED
  BY <1>4, <1>5, <1>7 DEF Inv

\* The host stores an answer: what it adds to the spend list is spent already.
LEMMA SaveInv ==
    ASSUME Inv, SaveFinalized
    PROVE  Inv'
<1> DEFINE ids == ToSet(proofs[reply[1]].ins)
           added == ids \ ToSet(spends)
<1>1. /\ kept' = kept \union {reply} /\ spends' = spends \o SetToSeq(added)
      /\ exports' \subseteq exports /\ reply # NoReply /\ reply' = NoReply
      /\ UNCHANGED <<proofs, open, coins, pending, ready, sent, pool, log, mishaps>>
  BY DEF SaveFinalized, wallet, chain
<1>2. reply \in sent /\ HeldSpent(ids)
  BY <1>1 DEF Inv, SpendInv
<1> HIDE DEF ids
<1>3. added \subseteq AllCoins(proofs)
  BY <1>2 DEF HeldSpent, Inv, CoinInv
<1>4. IsFiniteSet(added)
  <2>1. added \subseteq CoinIds
    BY <1>3, ProofFacts DEF Inv
  <2> QED
    BY <2>1, CoinIdsFinite, FS_Subset
<1> HIDE DEF added
<1>5. SetToSeq(added) \in Seq(AllCoins(proofs)) /\ ToSet(SetToSeq(added)) \subseteq added
  <2>1. SetToSeq(added) \in Seq(added) /\ ToSet(SetToSeq(added)) \subseteq added
    BY <1>4, ListOfSet
  <2>2. ToSet(SetToSeq(added)) \subseteq AllCoins(proofs)
    BY <2>1, <1>3
  <2> QED
    BY <2>1, <2>2, SeqFacts
<1>6. /\ spends' \in Seq(AllCoins(proofs))
      /\ ToSet(spends') \subseteq ToSet(spends) \union added
  <2>1. spends \in Seq(AllCoins(proofs))
    BY DEF Inv, HostInv
  <2>2. ToSet(spends \o SetToSeq(added)) \subseteq ToSet(spends) \union ToSet(SetToSeq(added))
    BY <2>1, <1>5, ConcatFacts
  <2>3. spends \o SetToSeq(added) \in Seq(AllCoins(proofs))
    BY <2>1, <1>5, ConcatFacts
  <2> QED
    BY <1>1, <1>5, <2>2, <2>3
<1>7. ProofInv' /\ CoinInv' /\ FlagInv'
  BY <1>1 DEF Inv, ProofInv, CoinInv, FlagInv
<1>8. HostInv'
  BY <1>1, <1>2, <1>6 DEF Inv, HostInv
<1>9. SpendInv'
  <2>1. HeldSpent(added)
    BY <1>2 DEF HeldSpent, added
  <2>2. ready => HeldSpent(ToSet(spends) \union added)
    BY <2>1 DEF Inv, SpendInv, HeldSpent
  <2>3. ready => HeldSpent(ToSet(spends'))
    BY <1>6, <2>2 DEF HeldSpent
  <2>4. (ready => HeldSpent(ToSet(spends)))'
    BY <1>1, <2>3 DEF HeldSpent, ToSet
  <2> QED
    BY <1>1, <2>4 DEF SpendInv
<1> QED
  BY <1>7, <1>8, <1>9 DEF Inv

\* Every step keeps the invariant.
LEMMA InvStep == Inv /\ [Next]_vars => Inv'
<1> SUFFICES ASSUME Inv, [Next]_vars PROVE Inv'
  OBVIOUS
<1>1. CASE Open \/ Close
  BY <1>1, SessionSteps
<1>2. CASE SaveFinalized
  BY <1>2, SaveInv
<1>3. CASE MarkSpent
  BY <1>3, MarkInv
<1>4. ASSUME NEW a \in Assets, NEW amounts \in Payments, ProveMint(a, Self, amounts) PROVE Inv'
  BY <1>4, MintProves, ProvesInv
<1>5. ASSUME NEW c \in Offered, ProveRedeem(c) PROVE Inv'
  BY <1>5, RedeemProves, ProvesInv DEF Inv
<1>6. ASSUME NEW ins, NEW to \in Owners, NEW amounts \in Payments, ProveTransfer(ins, to, amounts)
      PROVE  Inv'
  BY <1>6, TransferProves, ProvesInv DEF Inv
<1>7. ASSUME NEW t \in pending, NEW a \in sent, NEW waits \in Ctxs \union {Settled},
             Finalize(t, a, waits)
      PROVE  Inv'
  BY <1>7, FinalizeInv
<1>8. ASSUME NEW a \in kept, Verify(a) PROVE Inv'
  BY <1>8, VerifyInv
<1> QED
  BY <1>1, <1>2, <1>3, <1>4, <1>5, <1>6, <1>7, <1>8, HostSteps DEF Next

\* The invariant is one.
LEMMA Invariance == Spec => []Inv
  BY InvInit, InvStep, PTL DEF Spec

-----------------------------------------------------------------------------
(* Results.                                                                *)

\* The wallet, what the host keeps and the chain stay within their types: every coin is an
\* output of a proof made, and every consignment kept, answer, anchor in the mempool and
\* anchor mined is one that was published.
THEOREM WalletTypeCorrect == Spec => []TypeOK
<1>1. Inv => TypeOK
  <2> SUFFICES ASSUME Inv PROVE TypeOK
    OBVIOUS
  <2>1. DOMAIN proofs \subseteq 1..MaxProofs
    BY ProofFacts DEF Inv
  <2>2. sent \subseteq Anchors
    BY <2>1 DEF Inv, HostInv, Anchors
  <2>3. ToSet(log) \subseteq sent /\ ToSet(spends) \subseteq AllCoins(proofs)
    BY SeqFacts DEF Inv, HostInv
  <2>4. \A c \in DOMAIN coins : coins[c].spent \in BOOLEAN /\ coins[c].waits \in Ctxs \union {Settled}
    BY DEF Inv, CoinInv, CoinRows
  <2>5. reply \in sent \union {NoReply}
    BY DEF Inv, SpendInv
  <2> QED
    BY <2>2, <2>3, <2>4, <2>5 DEF TypeOK, Inv, ProofInv, CoinInv, HostInv, FlagInv
<1> QED
  BY <1>1, Invariance, PTL

\* Once the host's replay has got through, no coin of its spend list that is in the wallet
\* can be offered again: mark_spent stops at the first id it does not know, and yet every
\* coin the list names is spent.
THEOREM ReplaySucceeds == Spec => []ReplayRestores
<1>1. Inv => ReplayRestores
  BY DEF Inv, SpendInv, HeldSpent, ReplayRestores
<1> QED
  BY <1>1, Invariance, PTL

\* One step of the wallet is one of the ledger's, or leaves the book as it is.
LEMMA LedgerStep == Inv /\ Inv' /\ [Next]_vars => [Ledger!LedgerNext]_Book
<1> SUFFICES ASSUME Inv, Inv', [Next]_vars PROVE [Ledger!LedgerNext]_Book
  OBVIOUS
<1>1. CASE UNCHANGED coins
  BY <1>1 DEF Book, Entry
<1>2. CASE Forgets
  <2>1. DOMAIN coins' = {}
    BY <1>2 DEF Forgets
  <2>2. Book' = [c \in CoinIds |-> "absent"]
    BY <2>1 DEF Book, Entry
  <2> QED
    BY <2>2 DEF Ledger!LedgerNext, Ledger!Forget
<1>3. CASE Advances
  <2>1. Book' \in [CoinIds -> Ledger!Entries]
    BY DEF Book, Entry, Ledger!Entries
  <2>2. ASSUME NEW c \in CoinIds PROVE Book'[c] \in Ledger!MayBecome(Book[c])
    <3>1. Book[c] = Entry(c) /\ Book'[c] = Entry(c)'
      BY DEF Book
    <3>2. CASE c \notin DOMAIN coins
      <4>1. Entry(c) = "absent" /\ Entry(c)' \in {"absent", "provisional", "settled"}
        BY <1>3, <3>2 DEF Entry, Advances
      <4> QED
        BY <3>1, <4>1 DEF Ledger!MayBecome
    <3>3. CASE c \in DOMAIN coins
      <4>1. c \in DOMAIN coins' /\ coins'[c].spent \in BOOLEAN
        BY <1>3, <3>3 DEF Advances, CoinRows
      <4>2. CASE coins[c].spent
        <5>1. Entry(c) = "spent" /\ Entry(c)' = "spent"
          BY <1>3, <3>3, <4>1, <4>2 DEF Entry, Advances
        <5> QED
          BY <3>1, <5>1 DEF Ledger!MayBecome
      <4>3. CASE ~coins[c].spent /\ coins[c].waits = Settled
        <5>1. Entry(c) = "settled" /\ Entry(c)' \in {"settled", "spent"}
          BY <1>3, <3>3, <4>1, <4>3 DEF Entry, Advances
        <5> QED
          BY <3>1, <5>1 DEF Ledger!MayBecome
      <4>4. CASE ~coins[c].spent /\ coins[c].waits # Settled
        <5>1. Entry(c) = "provisional" /\ Entry(c)' \in {"provisional", "settled", "spent"}
          BY <3>3, <4>1, <4>4 DEF Entry
        <5> QED
          BY <3>1, <5>1 DEF Ledger!MayBecome
      <4> QED
        BY <4>2, <4>3, <4>4
    <3> QED
      BY <3>2, <3>3
  <2> QED
    BY <2>1, <2>2 DEF Ledger!LedgerNext, Ledger!Post
<1> QED
  BY <1>1, <1>2, <1>3, CoinSteps

\* The coins of the wallet implement the ledger: proving, finalising, replaying and
\* verifying again, whatever the host lost and in whatever order it answers, never revive a
\* spent coin and never make a settled coin wait; closing the wallet forgets all coins at
\* once.
THEOREM WalletImplementsLedger == Spec => ImplementsLedger
<1>1. Init => Ledger!LedgerInit
  BY DEF Ledger!LedgerInit, Book, Init, Entry
<1> QED
  BY <1>1, LedgerStep, Invariance, PTL DEF Spec, ImplementsLedger, Ledger!LedgerSpec

-----------------------------------------------------------------------------
(* The audit.                                                              *)

\* The value of every coin of the proofs ps.
CoinValue(ps) == [c \in AllCoins(ps) |-> Opening(ps, c).value]

\* What a statement adds to the value in circulation.
Change(proof) ==
    IF proof.mode = "mint" THEN proof.value ELSE IF proof.mode = "redeem" THEN -proof.value ELSE 0

\* A statement that follows the proofs ps: it consumes coins of its asset, and what its
\* outputs have over its inputs is what it adds.
Balanced(ps, proof) ==
    /\ proof.mode \in {"mint", "transfer", "redeem"} /\ proof.value \in Nat
    /\ DOMAIN proof.outs \in {{}, 1..2} /\ \A k \in DOMAIN proof.outs : proof.outs[k].value \in Nat
    /\ ToSet(proof.ins) \subseteq AllCoins(ps)
    /\ \A c \in ToSet(proof.ins) : AssetOf(ps, c) = proof.asset
    /\ Total(OutValues(proof.outs)) - SumFunctionOnSet(CoinValue(ps), ToSet(proof.ins)) = Change(proof)

\* Every proof is balanced over the coins of the proofs before it.
BalanceInv == \A p \in DOMAIN proofs : Balanced(proofs, proofs[p])

\* The total of no amounts, of one and of two.
LEMMA TotalFacts ==
    ASSUME NEW values
    PROVE  /\ DOMAIN values = {} => Total(values) = 0
           /\ DOMAIN values = 1..1 /\ values[1] \in Int => Total(values) = values[1]
           /\ DOMAIN values = 1..2 /\ values[1] \in Int /\ values[2] \in Int =>
                Total(values) = values[1] + values[2]
<1>1. Total(values) = SumFunctionOnSet(values, DOMAIN values)
    BY Zenon DEF Total, SumFunction, FoldFunction, SumFunctionOnSet
<1>2. 1..1 = {1} /\ 1..2 = {1, 2} /\ 1 # 2
    OBVIOUS
<1>3. ASSUME DOMAIN values = {} PROVE Total(values) = 0
    BY <1>1, <1>3, SumEmpty, Zenon
<1>4. ASSUME DOMAIN values = 1..1, values[1] \in Int PROVE Total(values) = values[1]
    <2>1. Total(values) = SumFunctionOnSet(values, {1})
        BY <1>1, <1>2, <1>4
    <2>2. SumFunctionOnSet(values, {1}) = values[1]
        BY <1>4, SumOne
    <2> QED BY <2>1, <2>2
<1>5. ASSUME DOMAIN values = 1..2, values[1] \in Int, values[2] \in Int
      PROVE  Total(values) = values[1] + values[2]
    BY <1>1, <1>2, <1>5, SumTwo, Zenon
<1> QED BY <1>3, <1>4, <1>5

\* What the outputs of a payment are worth.
LEMMA OutputsTotal ==
    ASSUME NEW amounts \in Payments, NEW first, NEW second
    PROVE  LET outs == Outputs(amounts, first, second)
           IN  /\ DOMAIN outs = 1..2 /\ \A k \in 1..2 : outs[k].value \in Nat
               /\ Total(OutValues(outs)) = Total(amounts) /\ Total(amounts) \in Nat
<1> DEFINE outs == Outputs(amounts, first, second)
           change == IF Len(amounts) = 2 THEN amounts[2] ELSE 0
           values == OutValues(outs)
<1>1. amounts \in Seq(Nat) /\ (Len(amounts) = 1 \/ Len(amounts) = 2)
    BY WalletAssumption
<1>2. DOMAIN amounts = 1..Len(amounts) /\ amounts[1] \in Nat /\ change \in Nat
    BY <1>1, SeqFacts, ElementOfSeq
<1>3. DOMAIN outs = 1..2 /\ outs[1].value = amounts[1] /\ outs[2].value = change
    BY DEF Outputs
<1> HIDE DEF outs
<1>4. DOMAIN values = 1..2 /\ values[1] = amounts[1] /\ values[2] = change
    BY <1>3 DEF OutValues
<1> HIDE DEF values
<1>5. Total(values) = amounts[1] + change
    BY <1>2, <1>4, TotalFacts
<1>6. Total(amounts) = amounts[1] + change
    <2>1. CASE Len(amounts) = 1
        <3>1. change = 0 /\ Total(amounts) = amounts[1]
            BY <1>2, <2>1, TotalFacts
        <3> QED BY <1>2, <3>1
    <2>2. CASE Len(amounts) = 2
        <3>1. change = amounts[2] /\ amounts[2] \in Nat
            BY <1>2, <2>2
        <3> QED BY <1>2, <2>2, <3>1, TotalFacts
    <2> QED BY <1>1, <2>1, <2>2
<1>7. \A k \in 1..2 : outs[k].value \in Nat
    BY <1>2, <1>3
<1>8. amounts[1] + change \in Nat
    BY <1>2
<1> QED BY <1>3, <1>5, <1>6, <1>7, <1>8 DEF outs, values

\* What one or two different coins are worth.
LEMMA InputsTotal ==
    ASSUME NEW ps, NEW ins \in Seq(AllCoins(ps)), Len(ins) \in 1..2, IsInjective(ins),
           \A c \in AllCoins(ps) : Opening(ps, c).value \in Nat
    PROVE  Total(InValues(ps, ins)) = SumFunctionOnSet(CoinValue(ps), ToSet(ins))
<1> DEFINE values == InValues(ps, ins)
           g == CoinValue(ps)
<1>1. DOMAIN ins = 1..Len(ins) /\ \A i \in DOMAIN ins : ins[i] \in AllCoins(ps)
    BY SeqFacts, ElementOfSeq
<1>2. DOMAIN values = DOMAIN ins /\ \A i \in DOMAIN ins : values[i] = g[ins[i]] /\ g[ins[i]] \in Int
    BY <1>1 DEF InValues, CoinValue
<1> HIDE DEF values, g
<1>3. CASE Len(ins) = 1
    <2>1. 1 \in DOMAIN ins /\ ToSet(ins) = {ins[1]} /\ DOMAIN values = 1..1
        BY <1>1, <1>2, <1>3 DEF ToSet
    <2>2. values[1] = g[ins[1]] /\ g[ins[1]] \in Int
        BY <1>2, <2>1
    <2>3. Total(values) = values[1] /\ SumFunctionOnSet(g, {ins[1]}) = g[ins[1]]
        BY <2>1, <2>2, TotalFacts, SumOne
    <2> QED BY <2>1, <2>2, <2>3 DEF values, g
<1>4. CASE Len(ins) = 2
    <2>1. 1 \in DOMAIN ins /\ 2 \in DOMAIN ins /\ ToSet(ins) = {ins[1], ins[2]} /\ DOMAIN values = 1..2
        BY <1>1, <1>2, <1>4 DEF ToSet
    <2>2. ins[1] # ins[2]
        BY <2>1 DEF IsInjective
    <2>3. values[1] = g[ins[1]] /\ g[ins[1]] \in Int /\ values[2] = g[ins[2]] /\ g[ins[2]] \in Int
        BY <1>2, <2>1
    <2>4. Total(values) = values[1] + values[2]
        BY <2>1, <2>3, TotalFacts
    <2>5. SumFunctionOnSet(g, {ins[1], ins[2]}) = g[ins[1]] + g[ins[2]]
        BY <2>2, <2>3, SumTwo
    <2> QED BY <2>1, <2>3, <2>4, <2>5 DEF values, g
<1> QED BY <1>3, <1>4
-----------------------------------------------------------------------------
(* A transaction that is proved is balanced, and its inputs are free.      *)

\* The inputs of a proof.
Ins(p) == ToSet(proofs[p].ins)

\* The coins that a transaction may consume: held, not spent, and claimed by no transaction
\* that is pending or exported.
Unclaimed(ids) == ready /\ ids \subseteq DOMAIN coins \ Claimed /\ \A c \in ids : ~coins[c].spent

\* A transaction that waits for no anchor of a coin consumes it settled.
Waits(ids, deps) ==
    \A c \in ids : coins[c].waits = Settled \/ \E d \in deps : d[1] = c[1]

\* A transaction is proved: its statement is balanced, and its inputs are free.
ProvesBalanced == \E proof, deps :
    /\ PushPending(proof, deps) /\ Balanced(proofs, proof)
    /\ Unclaimed(ToSet(proof.ins)) /\ Waits(ToSet(proof.ins), deps)

\* The values of the coins are numbers.
LEMMA CoinNumbers ==
    ASSUME BalanceInv
    PROVE  \A c \in AllCoins(proofs) : Opening(proofs, c).value \in Nat
<1> SUFFICES ASSUME NEW p \in DOMAIN proofs, NEW c \in CoinsOf(proofs, p) PROVE Opening(proofs, c).value \in Nat
    BY DEF AllCoins
<1>1. PICK k \in DOMAIN proofs[p].outs : c = <<p, k>>
    BY DEF CoinsOf
<1> QED BY <1>1 DEF Opening, BalanceInv, Balanced

\* What a transaction waits for.
LEMMA WaitsFacts == ASSUME NEW ins PROVE Waits(ToSet(ins), Dependencies(ins))
<1> SUFFICES ASSUME NEW c \in ToSet(ins), coins[c].waits # Settled
             PROVE  \E d \in Dependencies(ins) : d[1] = c[1]
    BY DEF Waits
<1>1. <<c[1], coins[c].waits>> \in Dependencies(ins) /\ <<c[1], coins[c].waits>>[1] = c[1]
    BY DEF Dependencies
<1> QED BY <1>1

\* A mint is balanced: its value is the total of its outputs.
LEMMA MintBalanced ==
    ASSUME NEW a \in Assets, NEW amounts \in Payments, ProveMint(a, Self, amounts)
    PROVE  ProvesBalanced
<1> DEFINE outs == Outputs(amounts, Self, Self)
           proof == ProveGenesisMint(a, outs, Assets)
           n == Total(OutValues(outs))
<1>1. PushPending(proof, {}) /\ proof # NoProof /\ ready
    BY DEF ProveMint, PushPending
<1>2. DOMAIN outs = 1..2 /\ (\A k \in 1..2 : outs[k].value \in Nat) /\ n \in Nat
    BY OutputsTotal
<1> HIDE DEF outs
<1>3. proof = [mode |-> "mint", asset |-> a, value |-> n, ins |-> << >>, outs |-> outs]
    BY <1>1 DEF ProveGenesisMint, Statement
<1>4. ToSet(<< >>) = {}
    BY DEF ToSet
<1>5. SumFunctionOnSet(CoinValue(proofs), {}) = 0
    BY SumEmpty
<1> HIDE DEF proof
<1>6. /\ proof.mode = "mint" /\ proof.value = n /\ ToSet(proof.ins) = {} /\ proof.outs = outs
    BY <1>3, <1>4
<1>7. Total(OutValues(proof.outs)) = n
    BY <1>6
<1> HIDE DEF n
<1>8. Balanced(proofs, proof)
    <2>1. SumFunctionOnSet(CoinValue(proofs), ToSet(proof.ins)) = 0
        BY <1>5, <1>6
    <2>2. n - 0 = n
        BY <1>2
    <2> QED BY <1>2, <1>6, <1>7, <2>1, <2>2 DEF Balanced, Change
<1>9. Unclaimed(ToSet(proof.ins)) /\ Waits(ToSet(proof.ins), {})
    BY <1>1, <1>6 DEF Unclaimed, Waits
<1> QED BY <1>1, <1>8, <1>9 DEF ProvesBalanced

\* A transfer is: the wallet makes the totals of the two sides equal.
LEMMA TransferBalanced ==
    ASSUME Inv, BalanceInv, NEW S \in SUBSET Offered, NEW to, NEW amounts \in Payments,
           ProveTransfer(SetToSeq(S), to, amounts)
    PROVE  ProvesBalanced
<1> DEFINE ins == SetToSeq(S)
           outs == Outputs(amounts, to, Self)
           proof == TransferProof(ins, outs)
           deps == Dependencies(ins)
           asset == AssetOf(proofs, ins[1])
<1>1. /\ PushPending(proof, deps) /\ proof # NoProof /\ ready /\ FindCoins(ins) /\ NotSpent(ins)
      /\ Len(ins) \in 1..2 /\ IsInjective(ins)
      /\ Total(amounts) = Total(InValues(proofs, ins))
      /\ \A i \in DOMAIN ins : AssetOf(proofs, ins[i]) = asset
    BY DEF ProveTransfer, PushPending
<1>2. S \subseteq DOMAIN coins \ Claimed /\ S \subseteq AllCoins(proofs)
    BY DEF Offered, Inv, CoinInv
<1>3. IsFiniteSet(S)
    <2>1. S \subseteq CoinIds
        BY <1>2, ProofFacts DEF Inv
    <2> QED BY <2>1, CoinIdsFinite, FS_Subset
<1>4. ins \in Seq(S) /\ ToSet(ins) \subseteq S
    BY <1>3, ListOfSet
<1>5. ins \in Seq(AllCoins(proofs))
    BY <1>2, <1>4, SeqFacts
<1>6. /\ DOMAIN outs = 1..2 /\ (\A k \in 1..2 : outs[k].value \in Nat)
      /\ Total(OutValues(outs)) = Total(amounts) /\ Total(amounts) \in Nat
    BY OutputsTotal
<1>7. Waits(ToSet(ins), deps)
    BY WaitsFacts
<1> HIDE DEF outs, ins, deps
<1>8. Total(InValues(proofs, ins)) = SumFunctionOnSet(CoinValue(proofs), ToSet(ins))
    BY <1>1, <1>5, CoinNumbers, InputsTotal
<1>9. proof.mode = "transfer" /\ proof.value = 0 /\ proof.outs = outs /\ proof.asset = asset
    BY <1>1 DEF TransferProof, ProveOneInputTransfer, ProveCoinTransfer, Statement
<1>10. ToSet(proof.ins) = ToSet(ins)
    <2>1. DOMAIN ins = 1..Len(ins)
        BY <1>5, SeqFacts
    <2>2. CASE Len(ins) = 1
        <3>1. proof.ins = <<ins[1]>>
            BY <1>1, <2>2 DEF TransferProof, ProveOneInputTransfer, Statement
        <3>2. ToSet(<<ins[1]>>) = {ins[1]} /\ ToSet(ins) = {ins[1]}
            BY <2>1, <2>2 DEF ToSet
        <3> QED BY <3>1, <3>2
    <2>3. CASE Len(ins) # 1
        <3>1. proof.ins = ins
            BY <1>1, <2>3 DEF TransferProof, ProveCoinTransfer, Statement
        <3> QED BY <3>1
    <2> QED BY <2>2, <2>3
<1> HIDE DEF proof, asset
<1>11. Balanced(proofs, proof)
    <2>1. \A c \in ToSet(proof.ins) : AssetOf(proofs, c) = proof.asset
        BY <1>1, <1>9, <1>10 DEF ToSet
    <2>2. ToSet(proof.ins) \subseteq AllCoins(proofs)
        BY <1>2, <1>4, <1>10
    <2> DEFINE n == Total(OutValues(proof.outs))
               m == SumFunctionOnSet(CoinValue(proofs), ToSet(proof.ins))
    <2>3. n \in Nat /\ n = m
        BY <1>1, <1>6, <1>8, <1>9, <1>10
    <2> HIDE DEF n, m
    <2>4. n - m = 0
        BY <2>3
    <2>5. n - m = Change(proof)
        BY <1>9, <2>4 DEF Change
    <2>6. DOMAIN proof.outs = 1..2 /\ \A k \in DOMAIN proof.outs : proof.outs[k].value \in Nat
        BY <1>6, <1>9
    <2> QED BY <1>9, <2>1, <2>2, <2>5, <2>6 DEF Balanced, n, m
<1>12. Unclaimed(ToSet(proof.ins))
    BY <1>1, <1>2, <1>4, <1>10 DEF Unclaimed, NotSpent, ToSet
<1> QED BY <1>1, <1>7, <1>10, <1>11, <1>12 DEF ProvesBalanced

\* A redemption is: its value is that of the coin it consumes.
LEMMA RedeemBalanced ==
    ASSUME Inv, BalanceInv, NEW c \in Offered, ProveRedeem(c)
    PROVE  ProvesBalanced
<1> DEFINE asset == AssetOf(proofs, c)
           proof == ProveRedeemProof(proofs, asset, c, {Self})
           deps == Dependencies(<<c>>)
           n == Opening(proofs, c).value
<1>1. PushPending(proof, deps) /\ proof # NoProof /\ ready /\ ~coins[c].spent
    BY DEF ProveRedeem, PushPending, NotSpent
<1>2. c \in DOMAIN coins \ Claimed /\ c \in AllCoins(proofs)
    BY DEF Offered, Inv, CoinInv
<1>3. n \in Nat /\ CoinValue(proofs)[c] = n
    BY <1>2, CoinNumbers DEF CoinValue
<1>4. ToSet(<<c>>) = {c} /\ DOMAIN << >> = {}
    BY DEF ToSet
<1>5. Waits({c}, deps)
    BY <1>4, WaitsFacts
<1> HIDE DEF asset, deps, n
<1>6. proof = [mode |-> "redeem", asset |-> asset, value |-> n, ins |-> <<c>>, outs |-> << >>]
    BY <1>1 DEF ProveRedeemProof, Statement, n
<1> HIDE DEF proof
<1>7. /\ proof.mode = "redeem" /\ proof.value = n /\ ToSet(proof.ins) = {c} /\ proof.outs = << >>
      /\ proof.asset = asset
    BY <1>4, <1>6
<1>8. Total(OutValues(proof.outs)) = 0
    <2>1. DOMAIN OutValues(<< >>) = {}
        BY DEF OutValues
    <2> QED BY <1>7, <2>1, TotalFacts
<1>9. SumFunctionOnSet(CoinValue(proofs), ToSet(proof.ins)) = n
    <2> DEFINE g == CoinValue(proofs)
    <2>1. g[c] = n /\ g[c] \in Int
        BY <1>3
    <2> HIDE DEF g
    <2>2. SumFunctionOnSet(g, {c}) = n
        BY <2>1, SumOne
    <2> QED BY <1>7, <2>2 DEF g
<1>10. Balanced(proofs, proof)
    <2>1. 0 - n = -n
        BY <1>3
    <2>2. Total(OutValues(proof.outs)) - SumFunctionOnSet(CoinValue(proofs), ToSet(proof.ins)) = Change(proof)
        BY <1>7, <1>8, <1>9, <2>1 DEF Change
    <2>3. DOMAIN proof.outs = {}
        BY <1>4, <1>7
    <2> QED BY <1>2, <1>3, <1>7, <2>2, <2>3 DEF Balanced, asset
<1>11. Unclaimed(ToSet(proof.ins)) /\ Waits(ToSet(proof.ins), deps)
    BY <1>1, <1>2, <1>5, <1>7 DEF Unclaimed
<1> QED BY <1>1, <1>10, <1>11 DEF ProvesBalanced

-----------------------------------------------------------------------------
(* What later steps leave alone.                                           *)

\* Later proofs change nothing about a statement: its inputs are worth what they were.
LEMMA BalancedStays ==
    ASSUME NEW ps, NEW qs, NEW proof, Balanced(ps, proof), IsFiniteSet(AllCoins(ps)),
           AllCoins(ps) \subseteq AllCoins(qs),
           \A c \in AllCoins(ps) : Opening(qs, c) = Opening(ps, c) /\ AssetOf(qs, c) = AssetOf(ps, c)
    PROVE  Balanced(qs, proof)
<1> DEFINE ids == ToSet(proof.ins)
<1>1. ids \subseteq AllCoins(ps) /\ IsFiniteSet(ids)
    BY FS_Subset DEF Balanced
<1>2. \A c \in ids : CoinValue(ps)[c] = CoinValue(qs)[c]
    BY <1>1 DEF CoinValue
<1> HIDE DEF ids
<1>3. SumFunctionOnSet(CoinValue(ps), ids) = SumFunctionOnSet(CoinValue(qs), ids)
    BY <1>1, <1>2, SumSame
<1>4. /\ ids \subseteq AllCoins(qs) /\ \A c \in ids : AssetOf(qs, c) = proof.asset
    BY <1>1 DEF Balanced, ids
<1> QED BY <1>3, <1>4 DEF Balanced, ids

\* A proof that is made leaves the coins there were.
LEMMA CoinsStay ==
    ASSUME ProofInv, DOMAIN proofs \subseteq DOMAIN proofs', \A p \in DOMAIN proofs : proofs'[p] = proofs[p]
    PROVE  /\ \A c \in AllCoins(proofs) :
                Opening(proofs', c) = Opening(proofs, c) /\ AssetOf(proofs', c) = AssetOf(proofs, c)
           /\ \A p \in DOMAIN proofs : CoinsOf(proofs', p) = CoinsOf(proofs, p)
           /\ IsFiniteSet(AllCoins(proofs))
<1>1. \A c \in AllCoins(proofs) : c[1] \in DOMAIN proofs
    BY ProofFacts
<1>2. IsFiniteSet(AllCoins(proofs))
    BY ProofFacts, CoinIdsFinite, FS_Subset
<1> QED BY <1>1, <1>2 DEF Opening, AssetOf, CoinsOf

-----------------------------------------------------------------------------
(* The transactions that may be anchored.                                  *)

\* The proofs that may be anchored.
Used == {t.proof : t \in pending \union exports} \union {a[1] : a \in sent}

\* No coin is consumed by two of them.
SpendOnce == \A p, q \in Used : p # q => Ins(p) \intersect Ins(q) = {}

\* What was published is still exported, or its inputs are on the spend list.
Retained == \A a \in sent : (\E t \in exports : t.proof = a[1]) \/ Ins(a[1]) \subseteq ToSet(spends)

\* A transaction is published when the anchors of its inputs are mined.
ParentsMined ==
    /\ \A t \in pending \union exports : \A c \in Ins(t.proof) :
         c[1] \in LogProofs \/ \E d \in t.deps : d[1] = c[1]
    /\ \A a \in sent : \A c \in Ins(a[1]) : c[1] \in LogProofs
    /\ \A c \in DOMAIN coins : coins[c].waits = Settled => c[1] \in LogProofs

\* The transactions: what the supply rests on.
TransactionInv == BalanceInv /\ SpendOnce /\ Retained /\ ParentsMined

\* It holds of a wallet that was just created.
LEMMA TransactionInit == Init => TransactionInv
<1> SUFFICES ASSUME Init PROVE TransactionInv
    OBVIOUS
<1>1. /\ proofs = << >> /\ coins = << >> /\ pending = {} /\ exports = {} /\ sent = {}
    BY DEF Init
<1>2. DOMAIN proofs = {} /\ DOMAIN coins = {} /\ Used = {}
    BY <1>1 DEF Used
<1>3. BalanceInv
    BY <1>2 DEF BalanceInv
<1>4. SpendOnce /\ Retained
    BY <1>1, <1>2 DEF SpendOnce, Retained
<1>5. ParentsMined
    BY <1>1, <1>2 DEF ParentsMined
<1> QED BY <1>3, <1>4, <1>5 DEF TransactionInv

\* The inputs of what may be anchored are held back: claimed by a transaction that is
\* pending or exported, or on the spend list.
LEMMA UsedTaken ==
    ASSUME Inv, TransactionInv, NEW ids, Unclaimed(ids), NEW p \in Used
    PROVE  Ins(p) \intersect ids = {}
<1>1. CASE \E t \in pending \union exports : t.proof = p
    <2>1. Ins(p) \subseteq Claimed
        BY <1>1 DEF Claimed, Ins
    <2> QED BY <2>1 DEF Unclaimed
<1>2. CASE ~\E t \in pending \union exports : t.proof = p
    <2>1. PICK a \in sent : a[1] = p
        BY <1>2 DEF Used
    <2>2. Ins(p) \subseteq ToSet(spends)
        BY <1>2, <2>1 DEF TransactionInv, Retained
    <2>3. \A c \in ToSet(spends) : coins[c].spent
        BY DEF Unclaimed, Inv, SpendInv, HeldSpent
    <2> QED BY <2>2, <2>3 DEF Unclaimed
<1> QED BY <1>1, <1>2

\* What may be anchored has been proved.
LEMMA UsedProved == ASSUME Inv PROVE Used \subseteq DOMAIN proofs
<1>1. \A t \in pending \union exports : t.proof \in DOMAIN proofs
    BY DEF Inv, HostInv
<1>2. \A a \in sent : a[1] \in DOMAIN proofs
    BY DEF Inv, HostInv
<1> QED BY <1>1, <1>2 DEF Used

\* A transaction that is proved.
LEMMA ProvesTransaction ==
    ASSUME Inv, TransactionInv, Proves, ProvesBalanced
    PROVE  TransactionInv'
<1>0. PICK p : p = Len(proofs) + 1
    OBVIOUS
<1>1. PICK proof, deps : /\ PushPending(proof, deps) /\ Balanced(proofs, proof)
                         /\ Unclaimed(ToSet(proof.ins)) /\ Waits(ToSet(proof.ins), deps)
    BY DEF ProvesBalanced
<1> DEFINE ids == ToSet(proof.ins)
           tx == [proof |-> p, deps |-> deps]
<1>2. /\ pending' = pending \union {tx} /\ proofs' = Append(proofs, proof)
      /\ UNCHANGED <<coins, exports, sent, spends, log>>
    BY <1>0, <1>1 DEF PushPending, host, chain
<1>3. /\ ProofInv' /\ DOMAIN proofs \subseteq DOMAIN proofs'
      /\ \A q \in DOMAIN proofs : proofs'[q] = proofs[q]
      /\ AllCoins(proofs) \subseteq AllCoins(proofs')
    BY ProvesGrow DEF Inv
<1>4. DOMAIN proofs = 1..Len(proofs) /\ Len(proofs) \in Nat /\ ProofInv
    BY ProofFacts DEF Inv
<1>5. proofs'[p] = proof /\ p \notin DOMAIN proofs /\ DOMAIN proofs' = DOMAIN proofs \union {p}
    <2>1. /\ proofs' \in Seq(ToSet(proofs) \union {proof}) /\ Len(proofs') = p
          /\ proofs'[p] = proof
        BY <1>0, <1>2, <1>4, AppendFacts DEF ProofInv
    <2>2. DOMAIN proofs' = 1..p
        BY <2>1, SeqFacts
    <2>3. 1..p = (1..Len(proofs)) \union {p} /\ p \notin 1..Len(proofs)
        BY <1>0, <1>4
    <2> QED BY <1>4, <2>1, <2>2, <2>3
<1>6. Used \subseteq DOMAIN proofs
    BY UsedProved
<1>7. /\ \A q \in DOMAIN proofs : Ins(q)' = Ins(q)
      /\ Ins(p)' = ids
    BY <1>3, <1>5 DEF Ins, ToSet
<1>8. Used' \subseteq Used \union {p}
    BY <1>2 DEF Used
<1>9. LogProofs' = LogProofs
    BY <1>2 DEF LogProofs, ToSet
<1>10. BalanceInv'
    <2> SUFFICES ASSUME NEW q \in DOMAIN proofs' PROVE Balanced(proofs', proofs'[q])
        BY DEF BalanceInv, Balanced, CoinValue, AllCoins, CoinsOf, Opening, AssetOf
    <2>1. Balanced(proofs, proofs'[q])
        BY <1>1, <1>3, <1>5 DEF TransactionInv, BalanceInv
    <2>2. /\ \A c \in AllCoins(proofs) :
                Opening(proofs', c) = Opening(proofs, c) /\ AssetOf(proofs', c) = AssetOf(proofs, c)
          /\ IsFiniteSet(AllCoins(proofs))
        BY <1>3, <1>4, CoinsStay
    <2> QED BY <1>3, <2>1, <2>2, BalancedStays
<1>11. SpendOnce'
    <2> SUFFICES ASSUME NEW q \in Used', NEW r \in Used', q # r PROVE (Ins(q) \intersect Ins(r))' = {}
        BY DEF SpendOnce
    <2>1. \A x \in Used : Ins(x) \intersect ids = {}
        BY <1>1, UsedTaken
    <2>2. CASE q = p
        BY <1>5, <1>6, <1>7, <1>8, <2>1, <2>2
    <2>3. CASE r = p
        BY <1>5, <1>6, <1>7, <1>8, <2>1, <2>3
    <2>4. CASE q # p /\ r # p
        <3>1. q \in Used /\ r \in Used
            BY <1>8, <2>4
        <3> QED BY <1>6, <1>7, <3>1 DEF TransactionInv, SpendOnce
    <2> QED BY <2>2, <2>3, <2>4
<1>12. Retained'
    <2> SUFFICES ASSUME NEW a \in sent
                 PROVE  (\E t \in exports : t.proof = a[1]) \/ Ins(a[1])' \subseteq ToSet(spends)
        BY <1>2 DEF Retained, ToSet
    <2>1. a[1] \in DOMAIN proofs
        BY DEF Inv, HostInv
    <2> QED BY <1>7, <2>1 DEF TransactionInv, Retained
<1>13. ParentsMined'
    <2>1. ASSUME NEW t \in pending' \union exports', NEW c \in Ins(t.proof)'
          PROVE  c[1] \in LogProofs \/ \E d \in t.deps : d[1] = c[1]
        <3>1. CASE t = tx
            <4>1. t.proof = p /\ t.deps = deps /\ c \in ids
                BY <1>7, <2>1, <3>1
            <4>2. c \in DOMAIN coins
                BY <1>1, <4>1 DEF Unclaimed
            <4> QED BY <1>1, <4>1, <4>2 DEF Waits, TransactionInv, ParentsMined
        <3>2. CASE t # tx
            <4>1. t \in pending \union exports
                BY <1>2, <3>2
            <4>2. t.proof \in DOMAIN proofs
                BY <4>1 DEF Inv, HostInv
            <4> QED BY <1>7, <2>1, <4>1, <4>2 DEF TransactionInv, ParentsMined
        <3> QED BY <3>1, <3>2
    <2>2. ASSUME NEW a \in sent, NEW c \in Ins(a[1])' PROVE c[1] \in LogProofs
        <3>1. a[1] \in DOMAIN proofs
            BY DEF Inv, HostInv
        <3> QED BY <1>7, <2>2, <3>1 DEF TransactionInv, ParentsMined
    <2>3. \A c \in DOMAIN coins : coins[c].waits = Settled => c[1] \in LogProofs
        BY DEF TransactionInv, ParentsMined
    <2> QED BY <1>2, <1>9, <2>1, <2>2, <2>3 DEF ParentsMined
<1> QED BY <1>10, <1>11, <1>12, <1>13 DEF TransactionInv

\* Nothing is proved: the statements stay balanced.
LEMMA BalanceStays == BalanceInv /\ proofs' = proofs => BalanceInv'
<1> SUFFICES ASSUME BalanceInv, proofs' = proofs PROVE BalanceInv'
    OBVIOUS
<1>1. \A p \in DOMAIN proofs' : Balanced(proofs', proofs'[p])
    BY DEF BalanceInv
<1> QED BY <1>1 DEF BalanceInv, Balanced, CoinValue, AllCoins, CoinsOf, Opening, AssetOf

\* A step that proves and publishes nothing and does not touch the spend list.
LEMMA QuietTransaction ==
    ASSUME TransactionInv, UNCHANGED <<proofs, sent, spends>>, exports \subseteq exports',
           pending' \union exports' \subseteq pending \union exports,
           ToSet(log) \subseteq ToSet(log'),
           \A c \in DOMAIN coins' : coins'[c].waits = Settled => c[1] \in LogProofs'
    PROVE  TransactionInv'
<1>1. LogProofs \subseteq LogProofs'
    BY DEF LogProofs, ToSet
<1>2. \A p : Ins(p)' = Ins(p)
    BY DEF Ins, ToSet
<1>3. Used' \subseteq Used
    BY DEF Used
<1>4. BalanceInv'
    BY BalanceStays DEF TransactionInv
<1>5. SpendOnce'
    BY <1>2, <1>3 DEF TransactionInv, SpendOnce
<1>6. Retained'
    BY <1>2 DEF TransactionInv, Retained, ToSet
<1>7. ParentsMined'
    BY <1>1, <1>2 DEF TransactionInv, ParentsMined
<1> QED BY <1>4, <1>5, <1>6, <1>7 DEF TransactionInv

\* A coin that is credited is settled when it was, or when it enters settled.
LEMMA CreditedWaits ==
    ASSUME NEW held, NEW entering, NEW waits \in Ctxs \union {Settled},
           \A c \in DOMAIN held : held[c] \in CoinRows, NEW c \in DOMAIN held \union entering,
           Credited(held, entering, waits)[c].waits = Settled
    PROVE  (c \in DOMAIN held /\ held[c].waits = Settled) \/ (c \in entering /\ waits = Settled)
<1> DEFINE new == Credited(held, entering, waits)
<1>1. /\ c \notin DOMAIN held => new[c] = [spent |-> FALSE, waits |-> waits]
      /\ c \in entering /\ c \in DOMAIN held =>
           new[c] = [held[c] EXCEPT !.waits = IF held[c].waits = Settled THEN Settled ELSE waits]
      /\ c \in DOMAIN held \ entering => new[c] = held[c]
    BY DEF Credited, Coin
<1>2. new[c].waits = Settled
    OBVIOUS
<1> HIDE DEF new
<1>3. CASE c \notin DOMAIN held
    BY <1>1, <1>2, <1>3
<1>4. CASE c \in DOMAIN held
    <2>1. held[c] \in [spent : BOOLEAN, waits : Ctxs \union {Settled}]
        BY <1>4 DEF CoinRows
    <2>2. CASE c \in entering
        <3>1. new[c].waits = IF held[c].waits = Settled THEN Settled ELSE waits
            BY <1>1, <1>4, <2>1, <2>2
        <3> QED BY <1>2, <1>4, <2>2, <3>1
    <2>3. CASE c \notin entering
        BY <1>1, <1>2, <1>4, <2>3
    <2> QED BY <2>2, <2>3
<1> QED BY <1>3, <1>4

\* The outputs of a proof carry its number.
LEMMA OwnNumbers == ASSUME NEW p, NEW c \in OwnOutputs(p) PROVE c[1] = p
  BY DEF OwnOutputs, CoinsOf

\* A coin is settled only by a mined anchor: finalize takes the place where the transaction
\* anchored, and a consignment is accepted when its anchor is in the chain.
LEMMA SettledMined ==
    ASSUME Inv, TransactionInv
    PROVE  /\ \A t \in pending, a \in sent, waits \in Ctxs \union {Settled} : Finalize(t, a, waits) =>
                \A c \in DOMAIN coins' : coins'[c].waits = Settled => c[1] \in LogProofs
           /\ \A a \in kept : Verify(a) =>
                \A c \in DOMAIN coins' : coins'[c].waits = Settled => c[1] \in LogProofs
           /\ MarkSpent => \A c \in DOMAIN coins' : coins'[c].waits = Settled => c[1] \in LogProofs
<1>0. /\ \A c \in DOMAIN coins : coins[c] \in CoinRows
      /\ \A c \in DOMAIN coins : coins[c].waits = Settled => c[1] \in LogProofs
    BY DEF Inv, CoinInv, TransactionInv, ParentsMined
<1>1. ASSUME NEW t \in pending, NEW a \in sent, NEW waits \in Ctxs \union {Settled}, Finalize(t, a, waits),
             NEW c \in DOMAIN coins', coins'[c].waits = Settled
      PROVE  c[1] \in LogProofs
    <2> DEFINE marked == MarkedSpent(coins, ToSet(proofs[a[1]].ins))
               own == OwnOutputs(a[1])
    <2>1. coins' = Credited(marked, own, waits)
        BY <1>1 DEF Finalize
    <2>2. /\ DOMAIN marked = DOMAIN coins
          /\ \A x \in DOMAIN coins : marked[x] \in CoinRows /\ marked[x].waits = coins[x].waits
        BY <1>0, MarkedFacts
    <2>3. DOMAIN coins' = DOMAIN coins \union own
        BY <1>1, FinalizeCoins DEF Inv
    <2> HIDE DEF marked
    <2>4. (c \in DOMAIN coins /\ coins[c].waits = Settled) \/ (c \in own /\ waits = Settled)
        <3>1. \A x \in DOMAIN marked : marked[x] \in CoinRows
            BY <2>2
        <3>2. c \in DOMAIN marked \union own /\ Credited(marked, own, waits)[c].waits = Settled
            BY <1>1, <2>1, <2>2, <2>3
        <3> HIDE DEF own
        <3>3. (c \in DOMAIN marked /\ marked[c].waits = Settled) \/ (c \in own /\ waits = Settled)
            BY <3>1, <3>2, CreditedWaits
        <3> QED BY <2>2, <3>3
    <2>5. waits = Settled => a[1] \in LogProofs
        <3> SUFFICES ASSUME waits = Settled, a[1] \notin LogProofs PROVE FALSE
            OBVIOUS
        <3>1. a[1] = t.proof /\ (waits = a[2] \/ FirstAnchor(t.proof) = a)
            BY <1>1 DEF Finalize
        <3>2. a \in (DOMAIN proofs) \X Ctxs /\ a[2] # Settled /\ a # << >>
            BY WalletAssumption DEF Inv, HostInv, Settled
        <3>3. FirstAnchor(t.proof) = a
            BY <3>1, <3>2
        <3>4. FirstAnchor(t.proof) = << >>
            BY <3>1 DEF FirstAnchor, NoReply
        <3> QED BY <3>2, <3>3, <3>4
    <2>6. c \in own => c[1] = a[1]
        BY OwnNumbers
    <2> QED BY <1>0, <2>4, <2>5, <2>6
<1>2. ASSUME NEW a \in kept, Verify(a), NEW c \in DOMAIN coins', coins'[c].waits = Settled
      PROVE  c[1] \in LogProofs
    <2> DEFINE own == OwnOutputs(a[1])
    <2>1. coins' = Credited(coins, own, Settled) /\ Accepts(a)
        BY <1>2 DEF Verify
    <2>2. DOMAIN coins' = DOMAIN coins \union own
        BY <1>2, VerifyCoins DEF Inv
    <2>3. a[1] \in LogProofs
        BY <2>1 DEF Accepts, LogProofs, ToSet
    <2>4. c \in own => c[1] = a[1]
        BY OwnNumbers
    <2>5. (c \in DOMAIN coins /\ coins[c].waits = Settled) \/ c \in own
        <3> HIDE DEF own
        <3> QED BY <1>0, <1>2, <2>1, <2>2, CreditedWaits
    <2> QED BY <1>0, <2>3, <2>4, <2>5
<1>3. ASSUME MarkSpent, NEW c \in DOMAIN coins', coins'[c].waits = Settled PROVE c[1] \in LogProofs
    <2> DEFINE ids == KnownPrefix(spends)
    <2>1. coins' = MarkedSpent(coins, ids)
        BY <1>3 DEF MarkSpent
    <2> HIDE DEF ids
    <2>2. DOMAIN coins' = DOMAIN coins /\ coins'[c].waits = coins[c].waits
        BY <1>0, <1>3, <2>1, MarkedFacts
    <2> QED BY <1>0, <1>3, <2>2
<1> QED BY <1>1, <1>2, <1>3

\* A transaction is published once it is exported and its parents are mined.
LEMMA PublishTransaction ==
    ASSUME Inv, TransactionInv, NEW t \in pending, NEW ctx \in Ctxs, Publish(t, ctx)
    PROVE  TransactionInv'
<1>1. /\ sent' = sent \union {<<t.proof, ctx>>} /\ t \in exports /\ t.deps \subseteq ToSet(log)
      /\ UNCHANGED <<proofs, coins, pending, exports, spends, log>>
    BY DEF Publish, wallet, host
<1>2. \A p : Ins(p)' = Ins(p)
    BY <1>1 DEF Ins, ToSet
<1>3. LogProofs' = LogProofs
    BY <1>1 DEF LogProofs, ToSet
<1>4. \A a \in sent' : a \in sent \/ a[1] = t.proof
    BY <1>1
<1>5. Used' \subseteq Used
    BY <1>1, <1>4 DEF Used
<1>6. BalanceInv'
    BY <1>1, BalanceStays DEF TransactionInv
<1>7. SpendOnce'
    BY <1>2, <1>5 DEF TransactionInv, SpendOnce
<1>8. Retained'
    BY <1>1, <1>2, <1>4 DEF TransactionInv, Retained, ToSet
<1>9. \A c \in Ins(t.proof) : c[1] \in LogProofs
    <2> SUFFICES ASSUME NEW c \in Ins(t.proof), NEW d \in t.deps, d[1] = c[1] PROVE c[1] \in LogProofs
        BY DEF TransactionInv, ParentsMined
    <2> QED BY <1>1 DEF LogProofs
<1>10. ParentsMined'
    BY <1>1, <1>2, <1>3, <1>4, <1>9 DEF TransactionInv, ParentsMined
<1> QED BY <1>6, <1>7, <1>8, <1>10 DEF TransactionInv

\* SetToSeq leaves no element out.
LEMMA ListsAll ==
    ASSUME NEW S, IsFiniteSet(S)
    PROVE  ToSet(SetToSeq(S)) = S
<1> DEFINE n == Cardinality(S)
           f == SetToSeq(S)
<1>1. n \in Nat /\ ExistsBijection(1..n, S)
    BY FS_CardinalityType
<1>2. PICK g : g \in Bijection(1..n, S)
    BY <1>1 DEF ExistsBijection
<1>3. g \in [1..n -> S] /\ IsInjective(g)
    BY <1>2 DEF Bijection, Injection, IsInjective
<1>4. f \in [1..n -> S] /\ IsInjective(f)
    BY <1>3 DEF SetToSeq
<1>5. f \in Injection(1..n, S)
    BY <1>4 DEF Injection
<1>6. IsFiniteSet(1..n) /\ Cardinality(1..n) = n
    BY <1>1, FS_Interval
<1> HIDE DEF f
<1>7. f \in Surjection(1..n, S)
    BY <1>5, <1>6, FS_Injection
<1>8. \A x \in S : \E i \in 1..n : f[i] = x
    BY <1>7 DEF Surjection
<1>9. ToSet(f) = S
    BY <1>4, <1>8 DEF ToSet
<1> QED BY <1>9 DEF f

\* Concatenation keeps the elements of both.
LEMMA ConcatKeeps ==
    ASSUME NEW S, NEW s \in Seq(S), NEW t \in Seq(S)
    PROVE  ToSet(s) \union ToSet(t) \subseteq ToSet(s \o t)
<1>1. /\ s \o t \in Seq(S) /\ Len(s \o t) = Len(s) + Len(t)
      /\ \A i \in 1 .. Len(s) + Len(t) : (s \o t)[i] = IF i <= Len(s) THEN s[i] ELSE t[i - Len(s)]
    BY ConcatProperties
<1>2. /\ DOMAIN (s \o t) = 1..Len(s \o t) /\ DOMAIN s = 1..Len(s) /\ DOMAIN t = 1..Len(t)
      /\ Len(s) \in Nat /\ Len(t) \in Nat
    BY <1>1, SeqFacts
<1>3. ASSUME NEW i \in DOMAIN s PROVE s[i] \in ToSet(s \o t)
    <2>1. i \in DOMAIN (s \o t) /\ (s \o t)[i] = s[i]
        BY <1>1, <1>2
    <2> QED BY <2>1 DEF ToSet
<1>4. ASSUME NEW i \in DOMAIN t PROVE t[i] \in ToSet(s \o t)
    <2>1. Len(s) + i \in DOMAIN (s \o t) /\ (s \o t)[Len(s) + i] = t[i]
        BY <1>1, <1>2
    <2> QED BY <2>1 DEF ToSet
<1> QED BY <1>3, <1>4 DEF ToSet

\* An export is dropped when the inputs of its transaction are on the spend list.
LEMMA SaveTransaction ==
    ASSUME Inv, TransactionInv, SaveFinalized
    PROVE  TransactionInv'
<1> DEFINE ids == ToSet(proofs[reply[1]].ins)
           added == ids \ ToSet(spends)
<1>1. /\ spends' = spends \o SetToSeq(added) /\ reply # NoReply
      /\ exports' = {t \in exports : t.proof # reply[1]}
      /\ UNCHANGED <<proofs, coins, pending, sent, log>>
    BY DEF SaveFinalized, wallet, chain
<1>2. reply \in sent /\ HeldSpent(ids)
    BY <1>1 DEF Inv, SpendInv
<1>3. added \subseteq AllCoins(proofs)
    BY <1>2 DEF HeldSpent, Inv, CoinInv
<1>4. IsFiniteSet(added)
    <2>1. added \subseteq CoinIds
        BY <1>3, ProofFacts DEF Inv
    <2> QED BY <2>1, CoinIdsFinite, FS_Subset
<1> HIDE DEF added
<1>5. ToSet(SetToSeq(added)) = added /\ SetToSeq(added) \in Seq(AllCoins(proofs))
    <2>1. SetToSeq(added) \in Seq(added) /\ ToSet(SetToSeq(added)) = added
        BY <1>4, ListOfSet, ListsAll
    <2> QED BY <1>3, <2>1, SeqFacts
<1>6. ToSet(spends) \union added \subseteq ToSet(spends')
    <2>1. spends \in Seq(AllCoins(proofs))
        BY DEF Inv, HostInv
    <2>2. ToSet(spends) \union ToSet(SetToSeq(added)) \subseteq ToSet(spends \o SetToSeq(added))
        BY <1>5, <2>1, ConcatKeeps
    <2> QED BY <1>1, <1>5, <2>2
<1>7. ids \subseteq ToSet(spends') /\ ToSet(spends) \subseteq ToSet(spends')
    BY <1>6 DEF added
<1>8. \A p : Ins(p)' = Ins(p)
    BY <1>1 DEF Ins, ToSet
<1>9. LogProofs' = LogProofs
    BY <1>1 DEF LogProofs, ToSet
<1>10. Used' \subseteq Used
    BY <1>1 DEF Used
<1>11. BalanceInv'
    BY <1>1, BalanceStays DEF TransactionInv
<1>12. SpendOnce'
    BY <1>8, <1>10 DEF TransactionInv, SpendOnce
<1>13. Retained'
    <2> SUFFICES ASSUME NEW a \in sent
                 PROVE  (\E t \in exports' : t.proof = a[1]) \/ Ins(a[1]) \subseteq ToSet(spends')
        BY <1>1, <1>8 DEF Retained, ToSet
    <2>1. CASE a[1] = reply[1]
        BY <1>7, <2>1 DEF Ins
    <2>2. CASE a[1] # reply[1]
        BY <1>1, <1>7, <2>2 DEF TransactionInv, Retained
    <2> QED BY <2>1, <2>2
<1>14. ParentsMined'
    BY <1>1, <1>8, <1>9 DEF TransactionInv, ParentsMined
<1> QED BY <1>11, <1>12, <1>13, <1>14 DEF TransactionInv

\* Every step keeps it.
LEMMA TransactionStep ==
    ASSUME Inv, TransactionInv, [Next]_vars
    PROVE  TransactionInv'
<1>0. \A c \in DOMAIN coins : coins[c].waits = Settled => c[1] \in LogProofs
    BY DEF TransactionInv, ParentsMined
<1>1. CASE Open \/ Close
    <2>1. /\ coins' = << >> /\ pending' = {} /\ UNCHANGED <<proofs, sent, spends, exports, log>>
        BY <1>1 DEF Open, Close, host, chain
    <2>2. DOMAIN coins' = {}
        BY <2>1
    <2> QED BY <2>1, <2>2, QuietTransaction
<1>2. CASE SaveFinalized
    BY <1>2, SaveTransaction
<1>3. CASE MarkSpent
    <2>1. UNCHANGED <<proofs, sent, spends, exports, pending, log>>
        BY <1>3 DEF MarkSpent, host, chain
    <2>2. LogProofs' = LogProofs
        BY <2>1 DEF LogProofs, ToSet
    <2>3. \A c \in DOMAIN coins' : coins'[c].waits = Settled => c[1] \in LogProofs
        BY <1>3, SettledMined
    <2> QED BY <2>1, <2>2, <2>3, QuietTransaction
<1>4. ASSUME NEW a \in Assets, NEW amounts \in Payments, ProveMint(a, Self, amounts) PROVE TransactionInv'
    BY <1>4, MintProves, MintBalanced, ProvesTransaction
<1>5. ASSUME NEW c \in Offered, ProveRedeem(c) PROVE TransactionInv'
    BY <1>5, RedeemProves, RedeemBalanced, ProvesTransaction DEF Inv, TransactionInv
<1>6. ASSUME NEW S \in SUBSET Offered, NEW to \in Owners, NEW amounts \in Payments,
             ProveTransfer(SetToSeq(S), to, amounts)
      PROVE  TransactionInv'
    <2>1. Proves
        BY <1>6, TransferProves DEF Inv
    <2>2. ProvesBalanced
        BY <1>6, TransferBalanced DEF TransactionInv
    <2> QED BY <2>1, <2>2, ProvesTransaction
<1>7. ASSUME NEW t \in pending, NEW a \in sent, NEW waits \in Ctxs \union {Settled}, Finalize(t, a, waits)
      PROVE  TransactionInv'
    <2>1. pending' \subseteq pending /\ UNCHANGED <<proofs, sent, spends, exports, log>>
        BY <1>7 DEF Finalize, host, chain
    <2>2. LogProofs' = LogProofs
        BY <2>1 DEF LogProofs, ToSet
    <2>3. \A c \in DOMAIN coins' : coins'[c].waits = Settled => c[1] \in LogProofs
        BY <1>7, SettledMined
    <2> QED BY <2>1, <2>2, <2>3, QuietTransaction
<1>8. ASSUME NEW a \in kept, Verify(a) PROVE TransactionInv'
    <2>1. UNCHANGED <<proofs, sent, spends, exports, pending, log>>
        BY <1>8 DEF Verify, host, chain
    <2>2. LogProofs' = LogProofs
        BY <2>1 DEF LogProofs, ToSet
    <2>3. \A c \in DOMAIN coins' : coins'[c].waits = Settled => c[1] \in LogProofs
        BY <1>8, SettledMined
    <2> QED BY <2>1, <2>2, <2>3, QuietTransaction
<1>9. ASSUME NEW t, ExportPending(t) \/ ImportPending(t) PROVE TransactionInv'
    <2>1. /\ exports \subseteq exports' /\ pending' \union exports' \subseteq pending \union exports
          /\ UNCHANGED <<proofs, coins, sent, spends, log>>
        BY <1>9 DEF ExportPending, ImportPending, wallet, host, chain
    <2>2. LogProofs' = LogProofs
        BY <2>1 DEF LogProofs, ToSet
    <2> QED BY <1>0, <2>1, <2>2, QuietTransaction
<1>10. ASSUME NEW t \in pending, NEW ctx \in Ctxs, Publish(t, ctx) PROVE TransactionInv'
    BY <1>10, PublishTransaction
<1>11. ASSUME NEW a, Evict(a) PROVE TransactionInv'
    <2>1. UNCHANGED <<proofs, coins, pending, exports, sent, spends, log>>
        BY <1>11 DEF Evict, wallet, host
    <2>2. LogProofs' = LogProofs
        BY <2>1 DEF LogProofs, ToSet
    <2> QED BY <1>0, <2>1, <2>2, QuietTransaction
<1>12. ASSUME NEW a \in sent, Mine(a) PROVE TransactionInv'
    <2>1. log' = Append(log, a) /\ UNCHANGED <<proofs, coins, pending, exports, sent, spends>>
        BY <1>12 DEF Mine, wallet, host
    <2>2. ToSet(log) \subseteq ToSet(log')
        BY <2>1, AppendFacts DEF Inv, HostInv
    <2>3. LogProofs \subseteq LogProofs'
        BY <2>2 DEF LogProofs, ToSet
    <2> QED BY <1>0, <2>1, <2>2, <2>3, QuietTransaction
<1>13. CASE UNCHANGED vars
    <2>1. UNCHANGED <<proofs, coins, pending, exports, sent, spends, log>>
        BY <1>13 DEF vars, wallet, host, chain
    <2>2. LogProofs' = LogProofs
        BY <2>1 DEF LogProofs, ToSet
    <2> QED BY <1>0, <2>1, <2>2, QuietTransaction
<1> QED
    BY <1>1, <1>2, <1>3, <1>4, <1>5, <1>6, <1>7, <1>8, <1>9, <1>10, <1>11, <1>12, <1>13 DEF Next

-----------------------------------------------------------------------------
(* The supply. *)

\* The value of each proof, and of each anchor in the chain.
ProofValue == [p \in DOMAIN proofs |-> proofs[p].value]
AnchorValue == [i \in DOMAIN log |-> proofs[log[i][1]].value]

\* The anchors of the redemptions of an asset.
Redeems(a) == {i \in DOMAIN log : log[i][1] \in OfAsset("redeem", a)}

\* The coins of an asset in circulation.
Live(a) == {c \in UNION {CoinsOf(proofs, p) : p \in LogProofs} :
               AssetOf(proofs, c) = a /\ c \notin UNION {Ins(p) : p \in LogProofs}}

\* What was redeemed, each redemption counted once.
Once(a) == SumFunctionOnSet(ProofValue, OfAsset("redeem", a))

\* A redemption is anchored twice.
Twice == \E i, j \in DOMAIN log : /\ i # j /\ log[i][1] = log[j][1]
                                  /\ proofs[log[i][1]].mode = "redeem"

\* What was minted less what was redeemed, counting each once, is in circulation, and the
\* audit counts a redemption at least once.
SupplyInv ==
    \A a \in Assets : /\ MintedValue(a) - Once(a) = Circulating(a)
                      /\ Once(a) <= RedeemedValue(a)
                      /\ Twice \/ Once(a) = RedeemedValue(a)

\* The three sums.
LEMMA SumForms ==
    \A a : /\ MintedValue(a) = SumFunctionOnSet(ProofValue, OfAsset("mint", a))
           /\ RedeemedValue(a) = SumFunctionOnSet(AnchorValue, Redeems(a))
           /\ Circulating(a) = SumFunctionOnSet(CoinValue(proofs), Live(a))
  BY DEF MintedValue, RedeemedValue, Circulating, ProofValue, AnchorValue, Redeems, CoinValue, Live, Ins

\* The same after a step.
LEMMA SumFormsNext ==
    \A a : /\ MintedValue(a)' = SumFunctionOnSet(ProofValue', OfAsset("mint", a)')
           /\ RedeemedValue(a)' = SumFunctionOnSet(AnchorValue', Redeems(a)')
           /\ Circulating(a)' = SumFunctionOnSet(CoinValue(proofs)', Live(a)')
  BY DEF MintedValue, RedeemedValue, Circulating, ProofValue, AnchorValue, Redeems, CoinValue, Live, Ins

\* What the chain has is proved, the sets summed over are finite, and the values are numbers.
LEMMA SupplyFacts ==
    ASSUME Inv, BalanceInv
    PROVE  /\ LogProofs \subseteq DOMAIN proofs /\ IsFiniteSet(DOMAIN proofs)
           /\ DOMAIN log = 1..Len(log) /\ Len(log) \in Nat /\ IsFiniteSet(DOMAIN log)
           /\ \A i \in DOMAIN log : log[i][1] \in LogProofs
           /\ \A p \in DOMAIN proofs : ProofValue[p] = proofs[p].value /\ ProofValue[p] \in Nat
           /\ \A i \in DOMAIN log :
                AnchorValue[i] = proofs[log[i][1]].value /\ AnchorValue[i] \in Nat
           /\ \A c \in AllCoins(proofs) : CoinValue(proofs)[c] \in Nat
           /\ \A a : /\ Live(a) \subseteq AllCoins(proofs) /\ IsFiniteSet(Live(a))
                     /\ Redeems(a) = {i \in DOMAIN log : /\ proofs[log[i][1]].mode = "redeem"
                                                         /\ proofs[log[i][1]].asset = a}
           /\ \A m, a : IsFiniteSet(OfAsset(m, a)) /\ OfAsset(m, a) \subseteq DOMAIN proofs
<1>1. DOMAIN log = 1..Len(log) /\ Len(log) \in Nat /\ ToSet(log) \subseteq sent
    BY SeqFacts DEF Inv, HostInv
<1>2. LogProofs \subseteq DOMAIN proofs
    BY <1>1 DEF LogProofs, Inv, HostInv
<1>3. IsFiniteSet(DOMAIN proofs) /\ IsFiniteSet(DOMAIN log)
    <2>1. DOMAIN proofs = 1..Len(proofs) /\ Len(proofs) \in Nat
        BY ProofFacts DEF Inv
    <2> QED BY <1>1, <2>1, FS_Interval
<1>4. \A i \in DOMAIN log : log[i][1] \in LogProofs
    BY DEF LogProofs, ToSet
<1>5. \A p \in DOMAIN proofs : ProofValue[p] = proofs[p].value /\ ProofValue[p] \in Nat
    BY DEF ProofValue, BalanceInv, Balanced
<1>6. \A i \in DOMAIN log : AnchorValue[i] = proofs[log[i][1]].value /\ AnchorValue[i] \in Nat
    BY <1>2, <1>4 DEF AnchorValue, BalanceInv, Balanced
<1>7. \A c \in AllCoins(proofs) : CoinValue(proofs)[c] \in Nat
    BY CoinNumbers DEF CoinValue
<1>8. ASSUME NEW a
      PROVE  /\ Live(a) \subseteq AllCoins(proofs) /\ IsFiniteSet(Live(a))
             /\ Redeems(a) = {i \in DOMAIN log : /\ proofs[log[i][1]].mode = "redeem"
                                                 /\ proofs[log[i][1]].asset = a}
    <2>1. Live(a) \subseteq AllCoins(proofs)
        BY <1>2 DEF Live, AllCoins
    <2>2. Live(a) \subseteq CoinIds
        BY <2>1, ProofFacts DEF Inv
    <2>3. IsFiniteSet(Live(a))
        BY <2>2, CoinIdsFinite, FS_Subset
    <2> QED BY <1>4, <2>1, <2>3 DEF Redeems, OfAsset
<1>9. \A m, a : IsFiniteSet(OfAsset(m, a)) /\ OfAsset(m, a) \subseteq DOMAIN proofs
    <2>1. \A m, a : OfAsset(m, a) \subseteq DOMAIN proofs
        BY <1>2 DEF OfAsset
    <2> QED BY <1>3, <2>1, FS_Subset
<1> QED BY <1>1, <1>2, <1>3, <1>4, <1>5, <1>6, <1>7, <1>8, <1>9

\* The sums are numbers.
LEMMA SumNumbers ==
    ASSUME Inv, BalanceInv, NEW a
    PROVE  MintedValue(a) \in Int /\ RedeemedValue(a) \in Int /\ Once(a) \in Int /\ Circulating(a) \in Int
<1>1. \A m : IsFiniteSet(OfAsset(m, a)) /\ \A p \in OfAsset(m, a) : ProofValue[p] \in Int
    BY SupplyFacts
<1>2. IsFiniteSet(Redeems(a)) /\ \A i \in Redeems(a) : AnchorValue[i] \in Int
    <2>1. Redeems(a) \subseteq DOMAIN log
        BY DEF Redeems
    <2> QED BY <2>1, SupplyFacts, FS_Subset
<1>3. IsFiniteSet(Live(a)) /\ \A c \in Live(a) : CoinValue(proofs)[c] \in Int
    BY SupplyFacts
<1>4. /\ SumFunctionOnSet(ProofValue, OfAsset("mint", a)) \in Int /\ Once(a) \in Int
    BY <1>1, SumInt DEF Once
<1>5. SumFunctionOnSet(AnchorValue, Redeems(a)) \in Int
    BY <1>2, SumInt
<1>6. SumFunctionOnSet(CoinValue(proofs), Live(a)) \in Int
    BY <1>3, SumInt
<1> QED BY <1>4, <1>5, <1>6, SumForms

\* It holds at the start.
LEMMA SupplyInit == Init => SupplyInv
<1> SUFFICES ASSUME Init, NEW a \in Assets
             PROVE  MintedValue(a) - Once(a) = Circulating(a) /\ Once(a) = RedeemedValue(a) /\ Once(a) <= RedeemedValue(a)
    BY DEF SupplyInv
<1>1. log = << >>
    BY DEF Init
<1>2. DOMAIN log = {} /\ LogProofs = {}
    BY <1>1 DEF LogProofs, ToSet
<1>3. OfAsset("mint", a) = {} /\ OfAsset("redeem", a) = {} /\ Redeems(a) = {} /\ Live(a) = {}
    BY <1>2 DEF OfAsset, Redeems, Live
<1>4. MintedValue(a) = 0 /\ Once(a) = 0 /\ RedeemedValue(a) = 0 /\ Circulating(a) = 0
    BY <1>3, SumForms, SumEmpty DEF Once
<1> QED BY <1>4

\* A step that mines nothing: proofs that are made are not in the chain yet.
LEMMA SupplyQuiet ==
    ASSUME Inv, BalanceInv, SupplyInv, log' = log, DOMAIN proofs \subseteq DOMAIN proofs',
           \A p \in DOMAIN proofs : proofs'[p] = proofs[p]
    PROVE  SupplyInv'
<1>1. LogProofs' = LogProofs /\ LogProofs \subseteq DOMAIN proofs
    BY SupplyFacts DEF LogProofs, ToSet
<1>2. \A p \in LogProofs : proofs'[p] = proofs[p] /\ p \in DOMAIN proofs'
    BY <1>1
<1>3. \A m, a : OfAsset(m, a)' = OfAsset(m, a)
    BY <1>1, <1>2 DEF OfAsset
<1>4. \A i \in DOMAIN log : log[i][1] \in LogProofs
    BY SupplyFacts
<1>5. \A a : Redeems(a)' = Redeems(a) /\ Redeems(a) \subseteq DOMAIN log
    BY <1>3 DEF Redeems
<1>6. /\ \A p \in LogProofs : ProofValue'[p] = ProofValue[p]
      /\ \A i \in DOMAIN log : AnchorValue'[i] = AnchorValue[i]
    BY <1>1, <1>2, <1>4 DEF ProofValue, AnchorValue
<1>7. /\ \A c \in AllCoins(proofs) :
            Opening(proofs', c) = Opening(proofs, c) /\ AssetOf(proofs', c) = AssetOf(proofs, c)
      /\ \A p \in DOMAIN proofs : CoinsOf(proofs', p) = CoinsOf(proofs, p)
    BY CoinsStay DEF Inv
<1>8. \A p \in LogProofs : Ins(p)' = Ins(p) /\ CoinsOf(proofs, p)' = CoinsOf(proofs, p)
                           /\ CoinsOf(proofs, p) \subseteq AllCoins(proofs)
                           /\ CoinsOf(proofs, p) \subseteq AllCoins(proofs')
    BY <1>1, <1>2, <1>7 DEF Ins, ToSet, AllCoins, CoinsOf
<1>9. ASSUME NEW a PROVE Live(a)' = Live(a)
    <2>1. ASSUME NEW c PROVE c \in Live(a)' <=> c \in Live(a)
        <3>1. c \in Live(a)' <=> /\ \E p \in LogProofs : c \in CoinsOf(proofs, p)
                                 /\ AssetOf(proofs', c) = a /\ \A p \in LogProofs : c \notin Ins(p)
            BY <1>1, <1>8 DEF Live
        <3>2. c \in Live(a) <=> /\ \E p \in LogProofs : c \in CoinsOf(proofs, p)
                                /\ AssetOf(proofs, c) = a /\ \A p \in LogProofs : c \notin Ins(p)
            BY DEF Live
        <3>3. ASSUME NEW p \in LogProofs, c \in CoinsOf(proofs, p) PROVE AssetOf(proofs', c) = AssetOf(proofs, c)
            BY <1>7, <1>8, <3>3
        <3> QED BY <3>1, <3>2, <3>3
    <2> QED BY <2>1
<1>10. \A a : \A c \in Live(a) : CoinValue(proofs)'[c] = CoinValue(proofs)[c]
    BY <1>7, <1>8 DEF Live, CoinValue
<1>11. Twice' <=> Twice
    BY <1>2, <1>4 DEF Twice
<1>12. ASSUME NEW a \in Assets
       PROVE  /\ MintedValue(a)' = MintedValue(a) /\ Once(a)' = Once(a)
              /\ RedeemedValue(a)' = RedeemedValue(a) /\ Circulating(a)' = Circulating(a)
    <2>1. \A m : OfAsset(m, a) \subseteq LogProofs /\ IsFiniteSet(OfAsset(m, a))
        <3>1. \A m : OfAsset(m, a) \subseteq LogProofs
            BY DEF OfAsset
        <3> QED BY <3>1, SupplyFacts
    <2>2. \A m : SumFunctionOnSet(ProofValue', OfAsset(m, a)) = SumFunctionOnSet(ProofValue, OfAsset(m, a))
        BY <1>6, <2>1, SumSame
    <2>3. IsFiniteSet(Redeems(a))
        BY <1>5, SupplyFacts, FS_Subset
    <2>4. SumFunctionOnSet(AnchorValue', Redeems(a)) = SumFunctionOnSet(AnchorValue, Redeems(a))
        BY <1>5, <1>6, <2>3, SumSame
    <2>5. IsFiniteSet(Live(a))
        BY SupplyFacts
    <2>6. SumFunctionOnSet(CoinValue(proofs)', Live(a)) = SumFunctionOnSet(CoinValue(proofs), Live(a))
        BY <1>10, <2>5, SumSame
    <2>7. /\ MintedValue(a)' = SumFunctionOnSet(ProofValue', OfAsset("mint", a)')
          /\ RedeemedValue(a)' = SumFunctionOnSet(AnchorValue', Redeems(a)')
          /\ Circulating(a)' = SumFunctionOnSet(CoinValue(proofs)', Live(a)')
          /\ Once(a)' = SumFunctionOnSet(ProofValue', OfAsset("redeem", a)')
        BY SumFormsNext DEF Once
    <2> QED BY <1>3, <1>5, <1>9, <2>2, <2>4, <2>6, <2>7, SumForms DEF Once
<1> QED BY <1>11, <1>12 DEF SupplyInv

\* What mining does to the chain and to the proofs in it.
LEMMA MineFacts ==
    ASSUME Inv, NEW a \in sent, Mine(a)
    PROVE  /\ proofs' = proofs /\ Len(log) \in Nat
           /\ DOMAIN log' = DOMAIN log \union {Len(log) + 1} /\ Len(log) + 1 \notin DOMAIN log
           /\ \A i \in DOMAIN log : log'[i] = log[i]
           /\ log'[Len(log) + 1] = a
           /\ LogProofs' = LogProofs \union {a[1]} /\ a[1] \in DOMAIN proofs
<1>1. log' = Append(log, a) /\ proofs' = proofs
    BY DEF Mine
<1>2. DOMAIN log = 1..Len(log) /\ Len(log) \in Nat
    BY SeqFacts DEF Inv, HostInv
<1>3. /\ log' \in Seq(sent \union {a}) /\ Len(log') = Len(log) + 1 /\ log'[Len(log) + 1] = a
      /\ \A i \in 1..Len(log) : log'[i] = log[i]
      /\ ToSet(log') = ToSet(log) \union {a}
    BY <1>1, AppendFacts DEF Inv, HostInv
<1>4. DOMAIN log' = 1..(Len(log) + 1)
    BY <1>3, SeqFacts
<1>5. 1..(Len(log) + 1) = (1..Len(log)) \union {Len(log) + 1} /\ Len(log) + 1 \notin 1..Len(log)
    BY <1>2
<1>6. LogProofs' = LogProofs \union {a[1]}
    <2>1. LogProofs' = {b[1] : b \in ToSet(log')}
        BY DEF LogProofs, ToSet
    <2> QED BY <1>3, <2>1 DEF LogProofs
<1>7. a[1] \in DOMAIN proofs
    BY DEF Inv, HostInv
<1> QED BY <1>1, <1>2, <1>3, <1>4, <1>5, <1>6, <1>7

\* The values that the chain counts of an asset grow by one proof, or do not.
LEMMA MineOnce ==
    ASSUME Inv, BalanceInv, NEW a \in sent, Mine(a), NEW m, NEW x
    PROVE  LET Sum == SumFunctionOnSet(ProofValue, OfAsset(m, x))
               new == a[1] \notin LogProofs /\ proofs[a[1]].mode = m /\ proofs[a[1]].asset = x
           IN  Sum' = IF new THEN proofs[a[1]].value + Sum ELSE Sum
<1> DEFINE S == OfAsset(m, x)
<1>1. proofs' = proofs /\ LogProofs' = LogProofs \union {a[1]} /\ a[1] \in DOMAIN proofs
    BY MineFacts
<1>2. ProofValue' = ProofValue
    BY <1>1 DEF ProofValue
<1>3. /\ IsFiniteSet(S) /\ S \subseteq DOMAIN proofs
      /\ \A p \in DOMAIN proofs : ProofValue[p] = proofs[p].value /\ ProofValue[p] \in Int
    BY SupplyFacts
<1>4. S' = {p \in LogProofs \union {a[1]} : proofs[p].mode = m /\ proofs[p].asset = x}
    BY <1>1 DEF OfAsset
<1>5. CASE a[1] \notin LogProofs /\ proofs[a[1]].mode = m /\ proofs[a[1]].asset = x
    <2>1. S' = S \union {a[1]} /\ a[1] \notin S
        BY <1>4, <1>5 DEF OfAsset
    <2>2. SumFunctionOnSet(ProofValue, S \union {a[1]}) = ProofValue[a[1]] + SumFunctionOnSet(ProofValue, S)
        <3>1. \A y \in S \union {a[1]} : ProofValue[y] \in Int
            BY <1>1, <1>3
        <3> HIDE DEF S
        <3> QED BY <1>3, <2>1, <3>1, SumAdd
    <2> QED BY <1>1, <1>2, <1>3, <1>5, <2>1, <2>2
<1>6. CASE ~(a[1] \notin LogProofs /\ proofs[a[1]].mode = m /\ proofs[a[1]].asset = x)
    <2>1. S' = S
        BY <1>4, <1>6 DEF OfAsset
    <2> QED BY <1>2, <1>6, <2>1
<1> QED BY <1>5, <1>6

\* What the audit counts as redeemed grows by every redemption that is mined.
LEMMA MineRedeemed ==
    ASSUME Inv, BalanceInv, NEW a \in sent, Mine(a), NEW x
    PROVE  LET new == proofs[a[1]].mode = "redeem" /\ proofs[a[1]].asset = x
           IN  RedeemedValue(x)' = IF new THEN proofs[a[1]].value + RedeemedValue(x) ELSE RedeemedValue(x)
<1> DEFINE S == Redeems(x)
<1>0. PICK n : n = Len(log) + 1
    OBVIOUS
<1>1. /\ proofs' = proofs /\ DOMAIN log' = DOMAIN log \union {n} /\ n \notin DOMAIN log
      /\ (\A i \in DOMAIN log : log'[i] = log[i]) /\ log'[n] = a /\ a[1] \in DOMAIN proofs
    BY <1>0, MineFacts
<1>2. S = {i \in DOMAIN log : proofs[log[i][1]].mode = "redeem" /\ proofs[log[i][1]].asset = x}
    BY SupplyFacts
<1>3. S' = {i \in DOMAIN log' : proofs'[log'[i][1]].mode = "redeem" /\ proofs'[log'[i][1]].asset = x}
    <2>1. \A i \in DOMAIN log' : log'[i][1] \in LogProofs'
        BY DEF LogProofs, ToSet
    <2> QED BY <2>1 DEF Redeems, OfAsset
<1>4. /\ \A i \in DOMAIN log : AnchorValue'[i] = AnchorValue[i] /\ AnchorValue[i] \in Int
      /\ AnchorValue'[n] = proofs[a[1]].value /\ AnchorValue'[n] \in Int
    <2>1. \A i \in DOMAIN log : AnchorValue[i] = proofs[log[i][1]].value /\ AnchorValue[i] \in Int
        BY SupplyFacts
    <2>2. \A i \in DOMAIN log' : AnchorValue'[i] = proofs'[log'[i][1]].value
        BY DEF AnchorValue
    <2>3. proofs[a[1]].value \in Int
        BY <1>1 DEF BalanceInv, Balanced
    <2> QED BY <1>1, <2>1, <2>2, <2>3
<1>5. IsFiniteSet(S) /\ S \subseteq DOMAIN log
    BY <1>2, SupplyFacts, FS_Subset
<1>6. SumFunctionOnSet(AnchorValue', S) = SumFunctionOnSet(AnchorValue, S)
    <2> HIDE DEF S
    <2>1. \A i \in S : AnchorValue'[i] = AnchorValue[i]
        BY <1>4, <1>5
    <2> QED BY <1>5, <2>1, SumSame
<1>7. RedeemedValue(x) = SumFunctionOnSet(AnchorValue, S) /\ RedeemedValue(x)' = SumFunctionOnSet(AnchorValue', S')
    BY SumForms, SumFormsNext
<1>8. CASE proofs[a[1]].mode = "redeem" /\ proofs[a[1]].asset = x
    <2>1. S' = S \union {n} /\ n \notin S
        BY <1>1, <1>2, <1>3, <1>8
    <2>2. SumFunctionOnSet(AnchorValue', S \union {n}) = AnchorValue'[n] + SumFunctionOnSet(AnchorValue', S)
        <3>1. \A y \in S \union {n} : AnchorValue'[y] \in Int
            BY <1>4, <1>5
        <3> HIDE DEF S
        <3> QED BY <1>5, <2>1, <3>1, SumAdd
    <2> QED BY <1>4, <1>6, <1>7, <1>8, <2>1, <2>2
<1>9. CASE ~(proofs[a[1]].mode = "redeem" /\ proofs[a[1]].asset = x)
    <2>1. S' = S
        BY <1>1, <1>2, <1>3, <1>9
    <2> QED BY <1>6, <1>7, <1>9, <2>1
<1> QED BY <1>8, <1>9

\* The coins of a statement are worth its outputs.
LEMMA OutputsWorth ==
    ASSUME NEW ps, NEW p \in DOMAIN ps, Balanced(ps, ps[p]),
           \A c \in AllCoins(ps) : CoinValue(ps)[c] \in Nat
    PROVE  SumFunctionOnSet(CoinValue(ps), CoinsOf(ps, p)) = Total(OutValues(ps[p].outs))
<1> DEFINE outs == ps[p].outs
           values == OutValues(outs)
           g == CoinValue(ps)
<1>1. DOMAIN outs \in {{}, 1..2} /\ \A k \in DOMAIN outs : outs[k].value \in Nat
    BY DEF Balanced
<1>2. DOMAIN values = DOMAIN outs /\ \A k \in DOMAIN outs : values[k] = outs[k].value
    BY DEF OutValues
<1>3. CoinsOf(ps, p) = {<<p, k>> : k \in DOMAIN outs} /\ CoinsOf(ps, p) \subseteq AllCoins(ps)
    BY DEF CoinsOf, AllCoins
<1>4. \A k \in DOMAIN outs : g[<<p, k>>] = values[k] /\ values[k] \in Int
    BY <1>1, <1>2, <1>3 DEF CoinValue, Opening
<1> HIDE DEF outs, values, g
<1>5. CASE DOMAIN outs = {}
    <2>1. CoinsOf(ps, p) = {} /\ DOMAIN values = {}
        BY <1>2, <1>3, <1>5
    <2>2. SumFunctionOnSet(g, {}) = 0 /\ Total(values) = 0
        BY <2>1, SumEmpty, TotalFacts
    <2> QED BY <2>1, <2>2 DEF g, values, outs
<1>6. CASE DOMAIN outs = 1..2
    <2>1. 1 \in DOMAIN outs /\ 2 \in DOMAIN outs /\ <<p, 1>> # <<p, 2>> /\ 1..2 = {1, 2}
        BY <1>6
    <2>2. CoinsOf(ps, p) = {<<p, 1>>, <<p, 2>>} /\ DOMAIN values = 1..2
        BY <1>2, <1>3, <1>6, <2>1
    <2>3. /\ g[<<p, 1>>] = values[1] /\ values[1] \in Int
          /\ g[<<p, 2>>] = values[2] /\ values[2] \in Int
        BY <1>4, <2>1
    <2>4. SumFunctionOnSet(g, {<<p, 1>>, <<p, 2>>}) = g[<<p, 1>>] + g[<<p, 2>>]
        BY <2>1, <2>3, SumTwo
    <2>5. Total(values) = values[1] + values[2]
        BY <2>2, <2>3, TotalFacts
    <2>6. SumFunctionOnSet(g, CoinsOf(ps, p)) = Total(values)
        BY <2>2, <2>3, <2>4, <2>5
    <2> QED BY <2>6 DEF g, values, outs
<1> QED BY <1>1, <1>5, <1>6

\* The coins in circulation of an asset when a transaction is first mined: its inputs were
\* among them, and its outputs were not.
LEMMA MineLive ==
    ASSUME Inv, TransactionInv, NEW a \in sent, Mine(a), a[1] \notin LogProofs, NEW x
    PROVE  /\ proofs[a[1]].asset # x => Live(x)' = Live(x)
           /\ proofs[a[1]].asset = x =>
                /\ Live(x)' = (Live(x) \ Ins(a[1])) \union CoinsOf(proofs, a[1])
                /\ Ins(a[1]) \subseteq Live(x)
                /\ Live(x) \intersect CoinsOf(proofs, a[1]) = {}
<1>0. PICK p : p = a[1]
    OBVIOUS
<1>1. proofs' = proofs /\ LogProofs' = LogProofs \union {p} /\ p \in DOMAIN proofs /\ p \notin LogProofs
    BY <1>0, MineFacts
<1>2. ASSUME NEW q, NEW c \in CoinsOf(proofs, q) PROVE c[1] = q /\ AssetOf(proofs, c) = proofs[q].asset
    BY DEF CoinsOf, AssetOf
<1>3. ASSUME NEW q \in LogProofs PROVE q \in Used /\ \A c \in Ins(q) : c[1] \in LogProofs
    <2>1. PICK b \in ToSet(log) : q = b[1]
        BY DEF LogProofs
    <2>2. b \in sent
        BY SeqFacts DEF Inv, HostInv
    <2> QED BY <2>1, <2>2 DEF Used, TransactionInv, ParentsMined
<1>4. p \in Used /\ \A c \in Ins(p) : c[1] \in LogProofs
    BY <1>0 DEF Used, TransactionInv, ParentsMined
<1>5. ASSUME NEW c \in Ins(p)
      PROVE  /\ AssetOf(proofs, c) = proofs[p].asset /\ c \in CoinsOf(proofs, c[1])
             /\ c[1] \in LogProofs /\ \A q \in LogProofs : c \notin Ins(q)
    <2>1. Balanced(proofs, proofs[p])
        BY <1>1 DEF TransactionInv, BalanceInv
    <2>2. c \in AllCoins(proofs) /\ AssetOf(proofs, c) = proofs[p].asset
        BY <2>1 DEF Balanced, Ins
    <2>3. PICK q \in DOMAIN proofs : c \in CoinsOf(proofs, q)
        BY <2>2 DEF AllCoins
    <2>4. c[1] = q
        BY <1>2, <2>3
    <2>5. \A r \in LogProofs : Ins(p) \intersect Ins(r) = {}
        BY <1>1, <1>3, <1>4 DEF TransactionInv, SpendOnce
    <2> QED BY <1>4, <2>2, <2>3, <2>4, <2>5
<1>6. ASSUME NEW c
      PROVE  c \in Live(x)' <=>
               /\ (\E q \in LogProofs : c \in CoinsOf(proofs, q)) \/ c \in CoinsOf(proofs, p)
               /\ AssetOf(proofs, c) = x /\ c \notin Ins(p) /\ \A q \in LogProofs : c \notin Ins(q)
    <2>1. \A q : Ins(q)' = Ins(q) /\ CoinsOf(proofs, q)' = CoinsOf(proofs, q)
        BY <1>1 DEF Ins, CoinsOf, ToSet
    <2>2. AssetOf(proofs, c)' = AssetOf(proofs, c)
        BY <1>1 DEF AssetOf
    <2> QED BY <1>1, <2>1, <2>2 DEF Live
<1>7. ASSUME NEW c
      PROVE  c \in Live(x) <=> /\ \E q \in LogProofs : c \in CoinsOf(proofs, q)
                               /\ AssetOf(proofs, c) = x /\ \A q \in LogProofs : c \notin Ins(q)
    BY DEF Live
<1>8. ASSUME NEW c \in CoinsOf(proofs, p)
      PROVE  c \notin Ins(p) /\ (\A q \in LogProofs : c \notin Ins(q))
             /\ ~\E q \in LogProofs : c \in CoinsOf(proofs, q)
    BY <1>1, <1>2, <1>3, <1>4
<1>9. CASE proofs[p].asset # x
    <2>1. ASSUME NEW c PROVE c \in Live(x)' <=> c \in Live(x)
        BY <1>2, <1>5, <1>6, <1>7, <1>9
    <2> QED BY <1>0, <1>9, <2>1
<1>10. CASE proofs[p].asset = x
    <2>1. ASSUME NEW c PROVE c \in Live(x)' <=> c \in (Live(x) \ Ins(p)) \union CoinsOf(proofs, p)
        BY <1>2, <1>6, <1>7, <1>8, <1>10
    <2>2. Ins(p) \subseteq Live(x)
        BY <1>5, <1>7, <1>10
    <2>3. Live(x) \intersect CoinsOf(proofs, p) = {}
        BY <1>7, <1>8
    <2> QED BY <1>0, <1>10, <2>1, <2>2, <2>3
<1> QED BY <1>0, <1>9, <1>10

\* The value in circulation grows by what the transaction adds.
LEMMA MineCirculating ==
    ASSUME Inv, TransactionInv, NEW a \in sent, Mine(a), a[1] \notin LogProofs, NEW x
    PROVE  Circulating(x)' = Circulating(x) + IF proofs[a[1]].asset = x THEN Change(proofs[a[1]]) ELSE 0
<1> DEFINE g == CoinValue(proofs)
           staying == Live(x) \ Ins(a[1])
           ids == Ins(a[1])
           own == CoinsOf(proofs, a[1])
<1>1. proofs' = proofs /\ a[1] \in DOMAIN proofs /\ BalanceInv
    BY MineFacts DEF TransactionInv
<1>2. CoinValue(proofs)' = g
    BY <1>1 DEF CoinValue, AllCoins, CoinsOf, Opening
<1>3. /\ Circulating(x) = SumFunctionOnSet(g, Live(x)) /\ Circulating(x)' = SumFunctionOnSet(g, Live(x)')
      /\ Circulating(x) \in Int
    BY <1>1, <1>2, SumForms, SumFormsNext, SumNumbers
<1>4. CASE proofs[a[1]].asset # x
    <2>1. Live(x)' = Live(x)
        BY <1>4, MineLive
    <2> QED BY <1>3, <1>4, <2>1
<1>5. CASE proofs[a[1]].asset = x
    <2>1. /\ Live(x)' = staying \union own /\ ids \subseteq Live(x) /\ Live(x) \intersect own = {}
        BY <1>5, MineLive
    <2>2. /\ Live(x) \subseteq AllCoins(proofs) /\ IsFiniteSet(Live(x))
          /\ \A c \in AllCoins(proofs) : g[c] \in Nat
        BY <1>1, SupplyFacts
    <2>3. own \subseteq AllCoins(proofs) /\ IsFiniteSet(own)
        <3>1. own \subseteq AllCoins(proofs) /\ own \subseteq CoinIds
            BY <1>1, ProofFacts DEF Inv
        <3> QED BY <3>1, CoinIdsFinite, FS_Subset
    <2>4. Balanced(proofs, proofs[a[1]])
        BY <1>1 DEF BalanceInv
    <2>5. SumFunctionOnSet(g, own) - SumFunctionOnSet(g, ids) = Change(proofs[a[1]])
        <3>1. SumFunctionOnSet(g, own) = Total(OutValues(proofs[a[1]].outs))
            BY <1>1, <2>2, <2>4, OutputsWorth
        <3> QED BY <2>4, <3>1 DEF Balanced, Ins
    <2>6. staying \intersect ids = {} /\ Live(x) = staying \union ids /\ staying \intersect own = {}
        BY <2>1
    <2>7. IsFiniteSet(staying) /\ IsFiniteSet(ids)
        BY <2>1, <2>2, FS_Subset
    <2>8. \A c \in staying \union ids \union own : g[c] \in Int
        BY <2>1, <2>2, <2>3
    <2> HIDE DEF g, staying, ids, own
    <2>9. SumFunctionOnSet(g, Live(x)) = SumFunctionOnSet(g, staying) + SumFunctionOnSet(g, ids)
        BY <2>6, <2>7, <2>8, SumUnion
    <2>10. SumFunctionOnSet(g, Live(x)') = SumFunctionOnSet(g, staying) + SumFunctionOnSet(g, own)
        BY <2>1, <2>3, <2>6, <2>7, <2>8, SumUnion
    <2>11. /\ SumFunctionOnSet(g, staying) \in Int /\ SumFunctionOnSet(g, ids) \in Int
           /\ SumFunctionOnSet(g, own) \in Int
        BY <2>3, <2>7, <2>8, SumInt
    <2>12. SumFunctionOnSet(g, Live(x)') = SumFunctionOnSet(g, Live(x)) + Change(proofs[a[1]])
        BY <2>5, <2>9, <2>10, <2>11
    <2> QED BY <1>3, <1>5, <2>12
<1> QED BY <1>4, <1>5

\* A redemption stays anchored twice, and one that is mined again becomes so.
LEMMA MineTwice ==
    ASSUME Inv, NEW a \in sent, Mine(a)
    PROVE  /\ Twice => Twice'
           /\ a[1] \in LogProofs /\ proofs[a[1]].mode = "redeem" => Twice'
<1>0. PICK n : n = Len(log) + 1
    OBVIOUS
<1>1. /\ proofs' = proofs /\ DOMAIN log' = DOMAIN log \union {n} /\ n \notin DOMAIN log
      /\ (\A i \in DOMAIN log : log'[i] = log[i]) /\ log'[n] = a
    BY <1>0, MineFacts
<1>2. ASSUME Twice PROVE Twice'
    <2>1. PICK i, j \in DOMAIN log : i # j /\ log[i][1] = log[j][1] /\ proofs[log[i][1]].mode = "redeem"
        BY <1>2 DEF Twice
    <2>2. /\ i \in DOMAIN log' /\ j \in DOMAIN log' /\ i # j /\ log'[i][1] = log'[j][1]
          /\ proofs'[log'[i][1]].mode = "redeem"
        BY <1>1, <2>1
    <2> QED BY <2>2 DEF Twice
<1>3. ASSUME a[1] \in LogProofs, proofs[a[1]].mode = "redeem" PROVE Twice'
    <2>1. PICK i \in DOMAIN log : log[i][1] = a[1]
        BY <1>3 DEF LogProofs, ToSet
    <2>2. /\ i \in DOMAIN log' /\ n \in DOMAIN log' /\ i # n /\ log'[i][1] = log'[n][1]
          /\ proofs'[log'[i][1]].mode = "redeem"
        BY <1>1, <1>3, <2>1
    <2> QED BY <2>2 DEF Twice
<1> QED BY <1>2, <1>3

\* A transaction that is mined again adds nothing to what is in circulation.
LEMMA MineAgain ==
    ASSUME Inv, NEW a \in sent, Mine(a), a[1] \in LogProofs, NEW x
    PROVE  Circulating(x)' = Circulating(x)
<1>1. proofs' = proofs /\ LogProofs' = LogProofs
    BY MineFacts
<1>2. Live(x)' = Live(x)
    BY <1>1 DEF Live, Ins, CoinsOf, AssetOf, ToSet
<1>3. CoinValue(proofs)' = CoinValue(proofs)
    BY <1>1 DEF CoinValue, AllCoins, CoinsOf, Opening
<1> QED BY <1>2, <1>3, SumForms, SumFormsNext

\* Mining keeps the balance.
LEMMA SupplyMine ==
    ASSUME Inv, TransactionInv, SupplyInv, NEW a \in sent, Mine(a)
    PROVE  SupplyInv'
<1> SUFFICES ASSUME NEW x \in Assets
             PROVE  /\ MintedValue(x)' - Once(x)' = Circulating(x)'
                    /\ Once(x)' <= RedeemedValue(x)'
                    /\ Twice' \/ Once(x)' = RedeemedValue(x)'
    BY DEF SupplyInv
<1> DEFINE proof == proofs[a[1]]
           v == proof.value
           new == a[1] \notin LogProofs
<1>1. BalanceInv /\ a[1] \in DOMAIN proofs
    BY MineFacts DEF TransactionInv
<1>2. v \in Nat /\ proof.mode \in {"mint", "transfer", "redeem"}
    BY <1>1 DEF BalanceInv, Balanced
<1>3. /\ MintedValue(x) \in Int /\ RedeemedValue(x) \in Int /\ Once(x) \in Int /\ Circulating(x) \in Int
    BY <1>1, SumNumbers
<1>4. /\ MintedValue(x) - Once(x) = Circulating(x) /\ Once(x) <= RedeemedValue(x)
      /\ Twice \/ Once(x) = RedeemedValue(x)
    BY DEF SupplyInv
<1>5. MintedValue(x)' = IF new /\ proof.mode = "mint" /\ proof.asset = x THEN v + MintedValue(x) ELSE MintedValue(x)
    BY <1>1, MineOnce, SumForms, SumFormsNext
<1>6. Once(x)' = IF new /\ proof.mode = "redeem" /\ proof.asset = x THEN v + Once(x) ELSE Once(x)
    BY <1>1, MineOnce DEF Once
<1>7. RedeemedValue(x)' = IF proof.mode = "redeem" /\ proof.asset = x THEN v + RedeemedValue(x) ELSE RedeemedValue(x)
    BY <1>1, MineRedeemed
<1>8. Circulating(x)' = Circulating(x) + IF new /\ proof.asset = x THEN Change(proof) ELSE 0
    <2>1. CASE new
        <3>1. Circulating(x)' = Circulating(x) + IF proof.asset = x THEN Change(proof) ELSE 0
            BY <2>1, MineCirculating
        <3> QED BY <2>1, <3>1
    <2>2. CASE ~new
        <3>1. Circulating(x)' = Circulating(x)
            BY <2>2, MineAgain
        <3> QED BY <1>3, <2>2, <3>1
    <2> QED BY <2>1, <2>2
<1>9. (Twice => Twice') /\ (~new /\ proof.mode = "redeem" => Twice')
    BY MineTwice
<1> HIDE DEF proof, v, new
<1>10. MintedValue(x)' - Once(x)' = Circulating(x)'
    <2>1. CASE ~(new /\ proof.asset = x) \/ proof.mode = "transfer"
        BY <1>3, <1>4, <1>5, <1>6, <1>8, <2>1 DEF Change
    <2>2. CASE new /\ proof.asset = x /\ proof.mode = "mint"
        <3>1. Change(proof) = v
            BY <2>2 DEF Change, v
        <3> QED BY <1>2, <1>3, <1>4, <1>5, <1>6, <1>8, <2>2, <3>1
    <2>3. CASE new /\ proof.asset = x /\ proof.mode = "redeem"
        <3>1. Change(proof) = -v
            BY <2>3 DEF Change, v
        <3> QED BY <1>2, <1>3, <1>4, <1>5, <1>6, <1>8, <2>3, <3>1
    <2> QED BY <1>2, <2>1, <2>2, <2>3
<1>11. Once(x)' <= RedeemedValue(x)'
    BY <1>2, <1>3, <1>4, <1>6, <1>7
<1>12. Twice' \/ Once(x)' = RedeemedValue(x)'
    BY <1>4, <1>6, <1>7, <1>9
<1> QED BY <1>10, <1>11, <1>12

\* Every other step proves at most one transaction and mines nothing.
LEMMA Grows ==
    ASSUME Inv, [Next]_vars, ~\E a \in sent : Mine(a)
    PROVE  /\ log' = log /\ DOMAIN proofs \subseteq DOMAIN proofs'
           /\ \A p \in DOMAIN proofs : proofs'[p] = proofs[p]
<1>1. ASSUME Proves
      PROVE  /\ log' = log /\ DOMAIN proofs \subseteq DOMAIN proofs'
             /\ \A p \in DOMAIN proofs : proofs'[p] = proofs[p]
    <2>1. log' = log
        BY <1>1 DEF Proves, PushPending, chain
    <2> QED BY <1>1, <2>1, ProvesGrow DEF Inv
<1>2. CASE Open \/ Close \/ SaveFinalized \/ MarkSpent \/ UNCHANGED vars
    <2>1. UNCHANGED <<proofs, log>>
        BY <1>2 DEF Open, Close, SaveFinalized, MarkSpent, vars, chain
    <2> QED BY <2>1
<1>3. ASSUME NEW a \in Assets, NEW amounts \in Payments, ProveMint(a, Self, amounts) PROVE Proves
    BY <1>3, MintProves
<1>4. ASSUME NEW c \in Offered, ProveRedeem(c) PROVE Proves
    BY <1>4, RedeemProves DEF Inv
<1>5. ASSUME NEW ins, NEW to \in Owners, NEW amounts \in Payments, ProveTransfer(ins, to, amounts) PROVE Proves
    BY <1>5, TransferProves DEF Inv
<1>6. ASSUME NEW t, ExportPending(t) \/ ImportPending(t) PROVE UNCHANGED <<proofs, log>>
    BY <1>6 DEF ExportPending, ImportPending, chain
<1>7. ASSUME NEW t, NEW ctx, Publish(t, ctx) PROVE UNCHANGED <<proofs, log>>
    BY <1>7 DEF Publish
<1>8. ASSUME NEW a, Evict(a) PROVE UNCHANGED <<proofs, log>>
    BY <1>8 DEF Evict
<1>9. ASSUME NEW t, NEW a, NEW waits, Finalize(t, a, waits) PROVE UNCHANGED <<proofs, log>>
    BY <1>9 DEF Finalize, chain
<1>10. ASSUME NEW a, Verify(a) PROVE UNCHANGED <<proofs, log>>
    BY <1>10 DEF Verify, chain
<1>11. Proves \/ UNCHANGED <<proofs, log>> \/ Open \/ Close \/ SaveFinalized \/ MarkSpent \/ UNCHANGED vars
    BY <1>3, <1>4, <1>5, <1>6, <1>7, <1>8, <1>9, <1>10 DEF Next
<1> QED BY <1>1, <1>2, <1>11

\* The inductive invariant of the audit.
LEMMA AuditInvariant == Spec => [](Inv /\ TransactionInv /\ SupplyInv)
<1>1. ASSUME Inv, TransactionInv, SupplyInv, [Next]_vars PROVE SupplyInv'
    <2>1. CASE \E a \in sent : Mine(a)
        BY <1>1, <2>1, SupplyMine
    <2>2. CASE ~\E a \in sent : Mine(a)
        <3>1. /\ log' = log /\ DOMAIN proofs \subseteq DOMAIN proofs'
              /\ \A p \in DOMAIN proofs : proofs'[p] = proofs[p]
            BY <1>1, <2>2, Grows
        <3> QED BY <1>1, <3>1, SupplyQuiet DEF TransactionInv
    <2> QED BY <2>1, <2>2
<1>2. Inv /\ TransactionInv /\ SupplyInv /\ [Next]_vars => (Inv /\ TransactionInv /\ SupplyInv)'
    BY <1>1, InvStep, TransactionStep
<1> QED BY <1>2, InvInit, TransactionInit, SupplyInit, PTL DEF Spec

\* No coin is consumed by two transactions that may be anchored, whatever was lost in a
\* crash and replayed: the host passes over what is pending or exported, and what it dropped
\* is on its spend list, which a session replays before it proves.
THEOREM NoInputTwice == Spec => []SpendOnce
<1>1. TransactionInv => SpendOnce
    BY DEF TransactionInv
<1> QED BY <1>1, AuditInvariant, PTL

\* The public audit: the mints less the redeems in the chain never exceed the value of the
\* coins in circulation, and are equal to it unless a redemption was anchored twice.
THEOREM AuditIsExact == Spec => []AuditExact
<1>1. Inv /\ TransactionInv /\ SupplyInv => AuditExact
    <2> SUFFICES ASSUME Inv, TransactionInv, SupplyInv, NEW a \in Assets
                 PROVE  /\ Supply(a) <= Circulating(a)
                        /\ Twice \/ Supply(a) = Circulating(a)
        BY DEF AuditExact, Twice
    <2>1. /\ MintedValue(a) - Once(a) = Circulating(a) /\ Once(a) <= RedeemedValue(a)
          /\ Twice \/ Once(a) = RedeemedValue(a)
        BY DEF SupplyInv
    <2>2. /\ MintedValue(a) \in Int /\ RedeemedValue(a) \in Int /\ Once(a) \in Int /\ Circulating(a) \in Int
        BY SumNumbers DEF TransactionInv
    <2>3. Supply(a) = MintedValue(a) - RedeemedValue(a)
        BY DEF Supply
    <2> QED BY <2>1, <2>2, <2>3
<1> QED BY <1>1, AuditInvariant, PTL

-----------------------------------------------------------------------------
(* The value gadget: its carries add exactly, for every radix and every    *)
(* field that is large enough.                                             *)

\* A multiple of the field's order that is smaller than it is zero: numbers
\* this small are equal in the field only when they are equal.
LEMMA SmallFieldEq ==
    ASSUME NEW a \in Int, NEW b \in Int, a - b < Prime, b - a < Prime
    PROVE  FieldEq(a, b) <=> a = b
<1> DEFINE d == a - b
<1>1. Prime \in Nat /\ Prime > 0
    BY GadgetAssumption, SMT
<1>2. d \in Int /\ d < Prime /\ -d < Prime
    BY SMT
<1>3. d % Prime = 0 <=> d = 0
    <2> HIDE DEF d
    <2>1. CASE d >= 0
        BY <1>1, <1>2, <2>1, SMT
    <2>2. CASE d < 0
        BY <1>1, <1>2, <2>2, SMT
    <2> QED BY <2>1, <2>2, <1>2, SMT
<1> QED BY <1>3, SMT DEF FieldEq

\* A multiple of the radix that lies between minus twice and twice the radix
\* is the radix itself, its negation, or zero.
LEMMA SmallMultiple ==
    ASSUME NEW k \in Int, Radix * k < 2 * Radix, -(2 * Radix) < Radix * k
    PROVE  k \in Carries
<1>1. Radix \in Int /\ Radix > 1
    BY GadgetAssumption, SMT
<1>2. ~(k >= 2)
    <2> SUFFICES ASSUME k >= 2 PROVE FALSE OBVIOUS
    <2>1. Radix * (k - 2) >= 0
        BY <1>1, SMT
    <2>2. Radix * (k - 2) = Radix * k - 2 * Radix
        BY <1>1, SMT
    <2> QED BY <2>1, <2>2, <1>1, SMT
<1>3. ~(k <= -2)
    <2> SUFFICES ASSUME k <= -2 PROVE FALSE OBVIOUS
    <2>1. Radix * (-k - 2) >= 0
        BY <1>1, SMT
    <2>2. Radix * (-k - 2) = -(Radix * k) - 2 * Radix
        BY <1>1, SMT
    <2> QED BY <2>1, <2>2, <1>1, SMT
<1> QED BY <1>2, <1>3, SMT DEF Carries

\* Carries that fit the three differences exist exactly when the differences,
\* weighted by their places, cancel.
LEMMA CarriesExist ==
    ASSUME NEW x \in Int, NEW y \in Int, NEW z \in Int,
           x < 2 * Radix - 1, -(2 * Radix - 1) < x,
           y < 2 * Radix - 1, -(2 * Radix - 1) < y
    PROVE  (\E low, mid \in Carries : x = Radix * low /\ y + low = Radix * mid /\ z + mid = 0)
             <=> x + Radix * y + Radix * Radix * z = 0
<1>1. Radix \in Int /\ Radix > 1
    BY GadgetAssumption, SMT
<1>2. ASSUME NEW low \in Carries, NEW mid \in Carries,
             x = Radix * low, y + low = Radix * mid, z + mid = 0
      PROVE  x + Radix * y + Radix * Radix * z = 0
    <2>1. low \in Int /\ mid \in Int
        BY SMT DEF Carries
    <2>2. y = Radix * mid - low /\ z = -mid
        BY <1>1, <1>2, <2>1, SMT
    <2>3. Radix * (Radix * mid - low) = Radix * Radix * mid - Radix * low
        BY <1>1, <2>1, SMT
    <2>4. Radix * Radix * (-mid) = -(Radix * Radix * mid)
        BY <1>1, <2>1, SMT
    <2> QED BY <1>1, <1>2, <2>1, <2>2, <2>3, <2>4, SMT
<1>3. ASSUME x + Radix * y + Radix * Radix * z = 0
      PROVE  \E low, mid \in Carries : x = Radix * low /\ y + low = Radix * mid /\ z + mid = 0
    <2> DEFINE k == -(y + Radix * z)
    <2>1. k \in Int /\ -z \in Int
        BY <1>1, SMT
    <2>2. Radix * k = -(Radix * y) - Radix * Radix * z
        BY <1>1, SMT
    <2>3. x = Radix * k
        BY <1>1, <1>3, <2>2, SMT
    <2>4. k \in Carries
        BY <1>1, <2>1, <2>3, SmallMultiple
    <2>5. y + k = Radix * (-z)
        BY <1>1, SMT
    <2>6. k >= -1 /\ k <= 1
        BY <2>4, SMT DEF Carries
    <2>7. Radix * (-z) < 2 * Radix /\ -(2 * Radix) < Radix * (-z)
        BY <1>1, <2>1, <2>5, <2>6, SMT
    <2>8. -z \in Carries
        BY <2>1, <2>7, SmallMultiple
    <2>9. z + (-z) = 0
        BY SMT
    <2> QED BY <2>3, <2>4, <2>5, <2>8, <2>9
<1> QED BY <1>2, <1>3

\* The carry constraints of enforce_sum_eq accept four range-checked amounts
\* exactly when the two sides are equal as integers, for every radix and top
\* limb and every field larger than five times the radix.
THEOREM SumIsExact == SumEqExact
<1> SUFFICES ASSUME NEW a \in Limbs, NEW b \in Limbs, NEW c \in Limbs, NEW d \in Limbs
             PROVE  EnforceSumEq(<<a, b>>, <<c, d>>)
                      <=> ValueOf(a) + ValueOf(b) = ValueOf(c) + ValueOf(d)
    BY DEF SumEqExact
<1> DEFINE x == a[1] + b[1] - c[1] - d[1]
           y == a[2] + b[2] - c[2] - d[2]
           z == a[3] + b[3] - c[3] - d[3]
<1>1. /\ Radix \in Int /\ Radix > 1 /\ TopLimb \in Int /\ TopLimb <= Radix
      /\ Prime \in Int /\ Prime > 5 * Radix
    BY GadgetAssumption, SMT
<1>2. ASSUME NEW l \in Limbs
      PROVE  /\ l[1] \in Int /\ l[1] >= 0 /\ l[1] < Radix
             /\ l[2] \in Int /\ l[2] >= 0 /\ l[2] < Radix
             /\ l[3] \in Int /\ l[3] >= 0 /\ l[3] < Radix
    BY <1>1, SMT DEF Limbs
<1>3. /\ x \in Int /\ x < 2 * Radix - 1 /\ -(2 * Radix - 1) < x
      /\ y \in Int /\ y < 2 * Radix - 1 /\ -(2 * Radix - 1) < y
      /\ z \in Int /\ z < 2 * Radix - 1 /\ -(2 * Radix - 1) < z
    BY <1>1, <1>2, SMT
<1>4. /\ Difference(<<a, b>>, <<c, d>>, 1) = x
      /\ Difference(<<a, b>>, <<c, d>>, 2) = y
      /\ Difference(<<a, b>>, <<c, d>>, 3) = z
    BY DEF Difference
<1>5. ASSUME NEW low \in Carries, NEW mid \in Carries
      PROVE  /\ FieldEq(x, Radix * low) <=> x = Radix * low
             /\ FieldEq(y + low, Radix * mid) <=> y + low = Radix * mid
             /\ FieldEq(z + mid, 0) <=> z + mid = 0
    <2> HIDE DEF x, y, z
    <2>1. /\ low \in Int /\ -1 <= low /\ low <= 1
          /\ mid \in Int /\ -1 <= mid /\ mid <= 1
        BY SMT DEF Carries
    <2>2. /\ Radix * low \in {-Radix, 0, Radix}
          /\ Radix * mid \in {-Radix, 0, Radix}
        BY <1>1, SMT DEF Carries
    <2>3. FieldEq(x, Radix * low) <=> x = Radix * low
        <3>1. x - Radix * low < Prime /\ Radix * low - x < Prime /\ Radix * low \in Int
            BY <1>1, <1>3, <2>2, SMT
        <3> QED BY <1>3, <3>1, SmallFieldEq
    <2>4. FieldEq(y + low, Radix * mid) <=> y + low = Radix * mid
        <3>1. /\ y + low \in Int /\ Radix * mid \in Int
              /\ (y + low) - Radix * mid < Prime /\ Radix * mid - (y + low) < Prime
            BY <1>1, <1>3, <2>1, <2>2, SMT
        <3> QED BY <3>1, SmallFieldEq
    <2>5. FieldEq(z + mid, 0) <=> z + mid = 0
        <3>1. /\ z + mid \in Int /\ 0 \in Int
              /\ (z + mid) - 0 < Prime /\ 0 - (z + mid) < Prime
            BY <1>1, <1>3, <2>1, SMT
        <3> QED BY <3>1, SmallFieldEq
    <2> QED BY <2>3, <2>4, <2>5
<1>6. EnforceSumEq(<<a, b>>, <<c, d>>)
        <=> \E low, mid \in Carries : x = Radix * low /\ y + low = Radix * mid /\ z + mid = 0
    <2> HIDE DEF x, y, z
    <2> QED BY <1>4, <1>5 DEF EnforceSumEq
<1>7. x + Radix * y + Radix * Radix * z = 0
        <=> ValueOf(a) + ValueOf(b) = ValueOf(c) + ValueOf(d)
    <2> DEFINE Mid(l) == Radix * l[2]
               Top(l) == Radix * Radix * l[3]
    <2>1. ASSUME NEW l \in Limbs
          PROVE  l[1] \in Int /\ Mid(l) \in Int /\ Top(l) \in Int
        BY <1>1, <1>2, SMT
    <2>2. Radix * y = Mid(a) + Mid(b) - Mid(c) - Mid(d)
        BY <1>1, <1>2, SMT
    <2>3. Radix * Radix * z = Top(a) + Top(b) - Top(c) - Top(d)
        BY <1>1, <1>2, SMT
    <2>4. \A l : ValueOf(l) = l[1] + Mid(l) + Top(l)
        BY DEF ValueOf
    <2> HIDE DEF y, z, Mid, Top
    <2> DEFINE my == Radix * y
               mz == Radix * Radix * z
    <2>5. /\ my = Mid(a) + Mid(b) - Mid(c) - Mid(d)
          /\ mz = Top(a) + Top(b) - Top(c) - Top(d)
        BY <2>2, <2>3
    <2> HIDE DEF my, mz
    <2>6. x + my + mz = 0 <=> ValueOf(a) + ValueOf(b) = ValueOf(c) + ValueOf(d)
        BY <2>1, <2>4, <2>5, SMT
    <2> QED BY <2>6 DEF my, mz
<1>8. (\E low, mid \in Carries : x = Radix * low /\ y + low = Radix * mid /\ z + mid = 0)
        <=> x + Radix * y + Radix * Radix * z = 0
    <2> HIDE DEF x, y, z
    <2> QED BY <1>3, CarriesExist
<1> QED BY <1>6, <1>7, <1>8
=============================================================================
