---------------------------- MODULE ChainProofs ----------------------------
(***************************************************************************)
(* The components that read the chain of Bitcoin anchors: the command line *)
(* wallet, the compact block filter client, the index of anchors and the   *)
(* receiving of consignments, for every set of peers, processes, coins,    *)
(* transactions and observers and every bound.  The module extends Receive *)
(* and instantiates the others under short names, with constants and       *)
(* variables of their own names.  Each theorem is about one of the four    *)
(* and rests on the assumption of that one only.                           *)
(***************************************************************************)
EXTENDS Receive, SequenceTheorems, FiniteSetTheorems, FunctionTheorems, WellFoundedInduction, TLAPS

CONSTANTS
    Kinds,                                                                  \* in more than one
    Procs, Coins, Funding, MaxAnchors,                                      \* CliWallet
    Params, Header, Peers, Served, Content, MinPeers, Window,               \* CbfClient
    PageSize, MaxReorgs                                                     \* AnchorIndex

VARIABLES
    kind, disk, index,                                                      \* in more than one
    file, proc, anchors, pool, log, settled, reserved, contexts, expired, posted, consigned,
    credits,                                                                \* CliWallet
    view, lies, phase, peers, filters, cached, verdict,                     \* CbfClient
    scan, live, reorgs                                                      \* AnchorIndex

Cli == INSTANCE CliWallet
Cbf == INSTANCE CbfClient
Idx == INSTANCE AnchorIndex

----------------------------------------------------------------------------
(* Sequences and numbers. *)

\* What a sequence over a set gives for its length and its places.
LEMMA SeqFacts ==
    ASSUME NEW S, NEW s \in Seq(S)
    PROVE  Len(s) \in Nat /\ DOMAIN s = 1..Len(s) /\ \A i \in 1..Len(s) : s[i] \in S
OBVIOUS

\* What appending does.
LEMMA AppendFacts ==
    ASSUME NEW S, NEW s \in Seq(S), NEW e \in S
    PROVE  /\ Append(s, e) \in Seq(S) /\ Len(Append(s, e)) = Len(s) + 1
           /\ DOMAIN Append(s, e) = 1..Len(s) + 1
           /\ \A i \in 1..Len(s) : Append(s, e)[i] = s[i]
           /\ Append(s, e)[Len(s) + 1] = e
<1>1. Append(s, e) \in Seq(S) /\ Len(Append(s, e)) = Len(s) + 1
    OBVIOUS
<1> QED BY <1>1, SeqFacts

\* What a prefix of a sequence has.
LEMMA PrefixFacts ==
    ASSUME NEW S, NEW s \in Seq(S), NEW n \in 0..Len(s)
    PROVE  /\ SubSeq(s, 1, n) \in Seq(S) /\ Len(SubSeq(s, 1, n)) = n
           /\ DOMAIN SubSeq(s, 1, n) = 1..n
           /\ \A i \in 1..n : SubSeq(s, 1, n)[i] = s[i]
<1>1. n \in Nat /\ Len(s) \in Nat /\ n <= Len(s)
    BY SeqFacts
<1>2. SubSeq(s, 1, n) \in Seq(S) /\ Len(SubSeq(s, 1, n)) = n
    BY <1>1, SubSeqProperties
<1> QED BY <1>1, <1>2, SubSeqProperties, SeqFacts

\* A prefix of a prefix.
LEMMA PrefixOfPrefix ==
    ASSUME NEW S, NEW s \in Seq(S), NEW n \in 0..Len(s), NEW m \in 0..n
    PROVE  SubSeq(SubSeq(s, 1, n), 1, m) = SubSeq(s, 1, m)
<1> DEFINE t == SubSeq(s, 1, n)
<1>0. Len(s) \in Nat
    BY SeqFacts
<1>1. t \in Seq(S) /\ Len(t) = n /\ \A i \in 1..n : t[i] = s[i]
    BY PrefixFacts
<1> HIDE DEF t
<1>2. /\ SubSeq(t, 1, m) \in Seq(S) /\ Len(SubSeq(t, 1, m)) = m
      /\ \A i \in 1..m : SubSeq(t, 1, m)[i] = t[i]
    BY <1>1, PrefixFacts
<1>3. m \in 0..Len(s)
    BY <1>0
<1>4. /\ SubSeq(s, 1, m) \in Seq(S) /\ Len(SubSeq(s, 1, m)) = m
      /\ \A i \in 1..m : SubSeq(s, 1, m)[i] = s[i]
    BY <1>3, PrefixFacts
<1>5. \A i \in 1..m : SubSeq(t, 1, m)[i] = SubSeq(s, 1, m)[i]
    BY <1>0, <1>1, <1>2, <1>4
<1>6. SubSeq(t, 1, m) = SubSeq(s, 1, m)
    BY <1>2, <1>4, <1>5, SeqEqual
<1> QED BY <1>6 DEF t

\* A set of numbers that is not empty has a least one.
LEMMA LeastNumber ==
    ASSUME NEW T, T \subseteq Nat, T # {}
    PROVE  \E m \in T : \A j \in T : m <= j
<1> DEFINE Less == {ss \in Nat \X Nat : ss[1] < ss[2]}
<1>1. IsWellFoundedOn(Less, Nat)
    BY NatLessThanWellFounded, Zenon DEF OpToRel
<1>2. PICK m \in T : \A j \in T : ~(<<j, m>> \in Less)
    <2> HIDE DEF Less
    <2> QED BY <1>1, WFMin
<1>3. ASSUME NEW j \in T PROVE m <= j
    <2>1. j \in Nat /\ m \in Nat
        OBVIOUS
    <2>2. <<j, m>> \in Nat \X Nat /\ <<j, m>>[1] = j /\ <<j, m>>[2] = m
        BY <2>1
    <2>3. ~(<<j, m>>[1] < <<j, m>>[2])
        BY <1>2, <2>2
    <2> QED BY <2>1, <2>2, <2>3
<1> QED BY <1>3

----------------------------------------------------------------------------
(* The command line wallet. *)

\* An anchor in the server's store.
Anchored == [cmd : {"none", "send", "redeem"}, nfs : SUBSET Coins, bound : Int, funding : Int]

\* What a wallet process holds.
Process ==
    [pc : {"idle", "receive", "bind", "post", "wait", "mark", "deliver"},
     cmd : {"none", "send", "redeem"}, mem : [Coins -> Cli!Statuses], left : SUBSET Coins,
     inputs : SUBSET Coins, ctx : Int, anchor : Nat, loc : Nat]

\* A process that has an anchor published its own inputs with it.
OwnsAnchor(p) ==
    /\ proc[p].left \subseteq proc[p].inputs
    /\ proc[p].anchor \in 0..Len(anchors)
    /\ proc[p].pc \in {"wait", "mark", "deliver"} =>
         proc[p].anchor \in DOMAIN anchors /\ anchors[proc[p].anchor].nfs = proc[p].inputs

\* The processes and the coin files.
CliProcs ==
    /\ kind \in Kinds /\ file \in [Coins -> Cli!Statuses] /\ proc \in [Procs -> Process]
    /\ \A p \in Procs : OwnsAnchor(p)

\* The anchors and the chain.
CliChain ==
    /\ anchors \in Seq(Anchored) /\ pool \subseteq DOMAIN anchors
    /\ log \in Seq(DOMAIN anchors) /\ settled \in 0..Len(log)
    /\ \A i, j \in 1..Len(log) : log[i] = log[j] => i = j
    /\ \A i \in 1..Len(log) : log[i] \notin pool

\* The server's reservations.
CliServer ==
    /\ contexts \subseteq reserved /\ expired \subseteq contexts /\ reserved \subseteq Funding
    /\ Cli!NotStranded

\* What a file or a process says is spent has been published.
CliSpent ==
    /\ Cli!SpentWasPublished
    /\ \A p \in Procs, c \in Coins :
         proc[p].mem[c] = "spent" => \E a \in DOMAIN anchors : c \in anchors[a].nfs

\* Credited anchors are settled ones.
CliCredits == credits \subseteq DOMAIN anchors /\ Cli!CreditsStand /\ mishaps \in 0..MaxMishaps

\* The inductive invariant of the command line wallet.
CliInv == CliProcs /\ CliChain /\ CliServer /\ CliSpent /\ CliCredits /\ Cli!RecordBound

\* Everything above holds at the start.
LEMMA CliInit ==
    ASSUME Cli!CliAssumption PROVE Cli!Init => CliInv
<1> SUFFICES ASSUME Cli!Init PROVE CliInv
    OBVIOUS
<1>1. Cli!Quiet \in Process
    BY DEF Cli!Quiet, Process, Cli!Statuses, Cli!NoFunding, Cli!Sentinel
<1>2. CliProcs
    <2>1. file \in [Coins -> Cli!Statuses]
        BY DEF Cli!Init, Cli!Statuses
    <2>2. proc \in [Procs -> Process]
        BY <1>1 DEF Cli!Init
    <2>3. \A p \in Procs : proc[p] = Cli!Quiet
        BY DEF Cli!Init
    <2>4. Len(anchors) = 0
        BY DEF Cli!Init
    <2>5. ASSUME NEW p \in Procs
          PROVE  proc[p].left = {} /\ proc[p].anchor = 0 /\ proc[p].pc = "idle"
        BY <2>3 DEF Cli!Quiet
    <2> QED BY <2>1, <2>2, <2>4, <2>5 DEF CliProcs, OwnsAnchor, Cli!Init
<1>3. CliChain
    BY DEF Cli!Init, CliChain
<1>4. CliServer
    BY DEF Cli!Init, CliServer, Cli!NotStranded
<1>5. CliSpent
    BY DEF Cli!Init, CliSpent, Cli!SpentWasPublished, Cli!Quiet
<1>6. CliCredits
    BY DEF Cli!Init, CliCredits, Cli!CreditsStand, Cli!CliAssumption
<1>7. Cli!RecordBound
    BY DEF Cli!Init, Cli!RecordBound
<1> QED BY <1>2, <1>3, <1>4, <1>5, <1>6, <1>7 DEF CliInv

\* An anchor that a process publishes is one more record with its nullifiers.
LEMMA CliPublish ==
    ASSUME CliProcs, CliChain, NEW p \in Procs, NEW ctx \in Int, NEW f \in Int,
           anchors' = Cli!Published(p, ctx, f)
    PROVE  /\ anchors' \in Seq(Anchored)
           /\ Len(anchors') = Len(anchors) + 1
           /\ DOMAIN anchors' = 1..Len(anchors) + 1
           /\ \A a \in DOMAIN anchors : anchors'[a] = anchors[a]
           /\ anchors'[Cli!Newest] =
                [cmd |-> proc[p].cmd, nfs |-> proc[p].inputs, bound |-> ctx, funding |-> f]
<1> DEFINE r == [cmd |-> proc[p].cmd, nfs |-> proc[p].inputs, bound |-> ctx, funding |-> f]
<1>1. r \in Anchored
    BY DEF CliProcs, Process, Anchored
<1>2. anchors \in Seq(Anchored)
    BY DEF CliChain
<1>3. Cli!Published(p, ctx, f) = Append(anchors, r) /\ Cli!Newest = Len(anchors) + 1
    BY DEF Cli!Published, Cli!Newest
<1> HIDE DEF r
<1>4. DOMAIN anchors = 1..Len(anchors)
    BY <1>2, SeqFacts
<1>5. /\ Append(anchors, r) \in Seq(Anchored) /\ Len(Append(anchors, r)) = Len(anchors) + 1
      /\ DOMAIN Append(anchors, r) = 1..Len(anchors) + 1
      /\ \A i \in 1..Len(anchors) : Append(anchors, r)[i] = anchors[i]
      /\ Append(anchors, r)[Len(anchors) + 1] = r
    BY <1>1, <1>2, AppendFacts
<1>6. Append(anchors, r)[Len(anchors) + 1] = [cmd |-> proc[p].cmd, nfs |-> proc[p].inputs, bound |-> ctx, funding |-> f]
    BY <1>5 DEF r
<1> QED BY <1>3, <1>4, <1>5, <1>6

\* Published anchors are never taken back, nor changed.
CliGrows ==
    /\ Len(anchors) \in Nat /\ Len(anchors') \in Nat /\ Len(anchors) <= Len(anchors')
    /\ DOMAIN anchors = 1..Len(anchors) /\ DOMAIN anchors' = 1..Len(anchors')
    /\ \A a \in DOMAIN anchors : anchors'[a] = anchors[a]

\* What is settled stays where it is.
Stands == settled <= settled' /\ \A i \in 1..settled : log'[i] = log[i]

\* A process publishes a record that is bound to the outpoint it spends.
Publishes(p) ==
    /\ \E f \in Int : anchors' = Cli!Published(p, f, f)
    /\ pool' = pool \union {Cli!Newest} /\ UNCHANGED <<log, settled>>

\* The demo backend publishes straight into a log that is settled.
PublishesDemo(p) ==
    /\ anchors' = Cli!Published(p, 0, 0)
    /\ log' = Append(log, Cli!Newest) /\ settled' = Len(log) + 1 /\ UNCHANGED pool

\* The steps, by what they do to the anchors and the chain.
LEMMA CliMoves ==
    ASSUME Cli!CliAssumption, contexts \subseteq Funding, [Cli!Next]_Cli!vars
    PROVE  \/ UNCHANGED <<anchors, pool, log, settled>>
           \/ \E p \in Procs : Publishes(p) \/ PublishesDemo(p)
           \/ \E a \in 1..MaxAnchors : Cli!Mine(a) \/ Cli!Evict(a)
           \/ Cli!Settle \/ Cli!Reorg
<1> DEFINE Still == UNCHANGED <<anchors, pool, log, settled>>
<1>1. CASE UNCHANGED Cli!vars
    BY <1>1 DEF Cli!vars, Cli!node
<1>2. ASSUME NEW p \in Procs, NEW cmd \in {"send", "redeem"}, NEW ins \in SUBSET Coins,
             Cli!StartSpend(p, cmd, ins)
      PROVE  Still
    BY <1>2 DEF Cli!StartSpend, Cli!node
<1>3. ASSUME NEW p \in Procs, NEW c \in Coins, Cli!Store(p, c)
      PROVE  Still
    BY <1>3 DEF Cli!Store, Cli!node
<1>4. ASSUME NEW p \in Procs, Cli!StartReceiver(p) \/ Cli!StopReceiver(p) \/ Cli!Kill(p)
      PROVE  Still
    BY <1>4 DEF Cli!StartReceiver, Cli!StopReceiver, Cli!Kill, Cli!node
<1>5. ASSUME NEW p \in Procs, Cli!Anchor(p)
      PROVE  Publishes(p) \/ Still
    <2>1. CASE \E f \in Funding : anchors' = Cli!Published(p, f, f) /\ pool' = pool \union {Cli!Newest}
        BY <1>5, <2>1 DEF Cli!Anchor, Publishes, Cli!CliAssumption
    <2>2. CASE UNCHANGED <<anchors, pool>>
        BY <1>5, <2>2 DEF Cli!Anchor
    <2> QED BY <1>5, <2>1, <2>2 DEF Cli!Anchor
<1>6. ASSUME NEW p \in Procs, Cli!ReserveContext(p) \/ Cli!DrawContext(p)
      PROVE  Still
    BY <1>6 DEF Cli!ReserveContext, Cli!DrawContext, Cli!node
<1>7. ASSUME NEW p \in Procs, Cli!Post(p)
      PROVE  Publishes(p) \/ Still
    <2>1. CASE /\ proc[p].ctx \in contexts
               /\ \E f \in Cli!Spends(p) : anchors' = Cli!Published(p, proc[p].ctx, f)
               /\ pool' = pool \union {Cli!Newest}
        <3>1. proc[p].ctx \in Int
            <4>1. Funding \subseteq Int
                BY DEF Cli!CliAssumption
            <4> QED BY <2>1, <4>1
        <3>2. anchors' = Cli!Published(p, proc[p].ctx, proc[p].ctx)
            BY <2>1 DEF Cli!Spends
        <3> QED BY <1>7, <2>1, <3>1, <3>2 DEF Cli!Post, Publishes
    <2>2. CASE UNCHANGED <<anchors, pool>>
        BY <1>7, <2>2 DEF Cli!Post
    <2> QED BY <1>7, <2>1, <2>2 DEF Cli!Post
<1>8. ASSUME NEW p \in Procs, Cli!PostDemo(p)
      PROVE  PublishesDemo(p)
    BY <1>8 DEF Cli!PostDemo, PublishesDemo, Cli!Local
<1>9. ASSUME NEW p \in Procs,
             Cli!Confirmed(p) \/ Cli!GiveUp(p) \/ Cli!MarkSpent(p) \/ Cli!Deliver(p)
      PROVE  Still
    BY <1>9 DEF Cli!Confirmed, Cli!GiveUp, Cli!MarkSpent, Cli!Deliver, Cli!node
<1>10. CASE Cli!Lapse
    BY <1>10 DEF Cli!Lapse, Cli!node
<1>11. ASSUME NEW con \in consigned, Cli!PayeeReceive(con)
       PROVE  Still
    BY <1>11 DEF Cli!PayeeReceive, Cli!node
<1> QED BY <1>1, <1>2, <1>3, <1>4, <1>5, <1>6, <1>7, <1>8, <1>9, <1>10, <1>11 DEF Cli!Next, Cli!Step

\* Anchors and chain: what is published stays, what is settled stays.
LEMMA CliChainStep ==
    ASSUME Cli!CliAssumption, CliProcs, CliChain, CliServer, [Cli!Next]_Cli!vars
    PROVE  CliChain' /\ CliGrows /\ Stands
<1>1. contexts \subseteq Funding
    BY DEF CliServer
<1>2. /\ anchors \in Seq(Anchored) /\ Len(anchors) \in Nat /\ DOMAIN anchors = 1..Len(anchors)
      /\ pool \subseteq DOMAIN anchors
      /\ log \in Seq(DOMAIN anchors) /\ Len(log) \in Nat /\ DOMAIN log = 1..Len(log)
      /\ \A i \in 1..Len(log) : log[i] \in DOMAIN anchors /\ log[i] \notin pool
      /\ \A i, j \in 1..Len(log) : log[i] = log[j] => i = j
      /\ settled \in 0..Len(log)
    BY SeqFacts DEF CliChain
<1>3. CASE UNCHANGED <<anchors, pool, log, settled>>
    BY <1>2, <1>3 DEF CliChain, CliGrows, Stands
<1>4. ASSUME NEW p \in Procs, Publishes(p)
      PROVE  CliChain' /\ CliGrows /\ Stands
    <2>1. PICK f \in Int : anchors' = Cli!Published(p, f, f)
        BY <1>4 DEF Publishes
    <2>2. /\ anchors' \in Seq(Anchored) /\ Len(anchors') = Len(anchors) + 1
          /\ DOMAIN anchors' = 1..Len(anchors) + 1
          /\ \A a \in DOMAIN anchors : anchors'[a] = anchors[a]
        <3> 0 \in Int OBVIOUS
        <3> QED BY <2>1, CliPublish
    <2>3. CliGrows
        BY <2>2, <1>2 DEF CliGrows
    <2>4. pool' = pool \union {Len(anchors) + 1} /\ log' = log /\ settled' = settled
        BY <1>4 DEF Publishes, Cli!Newest
    <2>5. log \in Seq(DOMAIN anchors')
        BY <1>2, <2>2
    <2> QED BY <1>2, <2>2, <2>3, <2>4, <2>5 DEF CliChain, Stands
<1>5. ASSUME NEW p \in Procs, PublishesDemo(p)
      PROVE  CliChain' /\ CliGrows /\ Stands
    <2>1. anchors' = Cli!Published(p, 0, 0)
        BY <1>5 DEF PublishesDemo
    <2>2. /\ anchors' \in Seq(Anchored) /\ Len(anchors') = Len(anchors) + 1
          /\ DOMAIN anchors' = 1..Len(anchors) + 1
          /\ \A a \in DOMAIN anchors : anchors'[a] = anchors[a]
        <3> 0 \in Int OBVIOUS
        <3> QED BY <2>1, CliPublish
    <2>3. CliGrows
        BY <2>2, <1>2 DEF CliGrows
    <2>4. pool' = pool /\ log' = Append(log, Len(anchors) + 1) /\ settled' = Len(log) + 1
        BY <1>5 DEF PublishesDemo, Cli!Newest
    <2>5. log \in Seq(DOMAIN anchors') /\ Len(anchors) + 1 \in DOMAIN anchors'
        BY <1>2, <2>2
    <2>6. /\ log' \in Seq(DOMAIN anchors') /\ Len(log') = Len(log) + 1
          /\ \A i \in 1..Len(log) : log'[i] = log[i]
          /\ log'[Len(log) + 1] = Len(anchors) + 1
        BY <2>4, <2>5, AppendFacts
    <2>7. \A i, j \in 1..Len(log') : log'[i] = log'[j] => i = j
        <3>1. \A i \in 1..Len(log) : log'[i] # Len(anchors) + 1
            BY <1>2, <2>6
        <3> QED BY <1>2, <2>6, <3>1
    <2>8. \A i \in 1..Len(log') : log'[i] \notin pool
        BY <1>2, <2>6
    <2>9. pool' \subseteq DOMAIN anchors' /\ settled' \in 0..Len(log')
        BY <1>2, <2>2, <2>4, <2>6
    <2> QED BY <1>2, <2>2, <2>3, <2>4, <2>6, <2>7, <2>8, <2>9 DEF CliChain, Stands
<1>6. ASSUME NEW a \in 1..MaxAnchors, Cli!Mine(a)
      PROVE  CliChain' /\ CliGrows /\ Stands
    <2>1. a \in pool /\ pool' = pool \ {a} /\ log' = Append(log, a) /\ UNCHANGED <<anchors, settled>>
        BY <1>6 DEF Cli!Mine
    <2>2. /\ log' \in Seq(DOMAIN anchors) /\ Len(log') = Len(log) + 1
          /\ \A i \in 1..Len(log) : log'[i] = log[i]
          /\ log'[Len(log) + 1] = a
        BY <1>2, <2>1, AppendFacts
    <2>3. \A i, j \in 1..Len(log') : log'[i] = log'[j] => i = j
        BY <1>2, <2>1, <2>2
    <2>4. \A i \in 1..Len(log') : log'[i] \notin pool'
        BY <1>2, <2>1, <2>2
    <2> QED BY <1>2, <2>1, <2>2, <2>3, <2>4 DEF CliChain, CliGrows, Stands
<1>7. ASSUME NEW a \in 1..MaxAnchors, Cli!Evict(a)
      PROVE  CliChain' /\ CliGrows /\ Stands
    BY <1>2, <1>7 DEF Cli!Evict, CliChain, CliGrows, Stands
<1>8. CASE Cli!Settle
    BY <1>2, <1>8 DEF Cli!Settle, CliChain, CliGrows, Stands
<1>9. CASE Cli!Reorg
    <2>1. /\ log' = SubSeq(log, 1, settled) /\ UNCHANGED <<anchors, settled>>
          /\ pool' = pool \union (Cli!ToSet(log) \ Cli!ToSet(log'))
        BY <1>9 DEF Cli!Reorg
    <2>2. /\ log' \in Seq(DOMAIN anchors) /\ Len(log') = settled /\ DOMAIN log' = 1..settled
          /\ \A i \in 1..settled : log'[i] = log[i]
        BY <1>2, <2>1, PrefixFacts
    <2>3. Cli!ToSet(log) \subseteq DOMAIN anchors /\ \A i \in 1..settled : log'[i] \in Cli!ToSet(log')
        BY <1>2, <2>2 DEF Cli!ToSet
    <2>4. \A i \in 1..Len(log') : log'[i] \notin pool'
        BY <1>2, <2>1, <2>2, <2>3
    <2>5. \A i, j \in 1..Len(log') : log'[i] = log'[j] => i = j
        BY <1>2, <2>2
    <2> QED BY <1>2, <2>1, <2>2, <2>3, <2>4, <2>5 DEF CliChain, CliGrows, Stands
<1> QED BY <1>1, <1>3, <1>4, <1>5, <1>6, <1>7, <1>8, <1>9, CliMoves

\* Every record that is published is bound to the outpoint it spends.
LEMMA CliBoundStep ==
    ASSUME Cli!CliAssumption, CliProcs, CliChain, CliServer, Cli!RecordBound, [Cli!Next]_Cli!vars
    PROVE  Cli!RecordBound'
<1>1. contexts \subseteq Funding
    BY DEF CliServer
<1>2. CASE UNCHANGED anchors
    BY <1>2 DEF Cli!RecordBound
<1>3. ASSUME NEW p \in Procs, NEW f \in Int, anchors' = Cli!Published(p, f, f)
      PROVE  Cli!RecordBound'
    <2>1. /\ DOMAIN anchors' = 1..Len(anchors) + 1
          /\ \A a \in DOMAIN anchors : anchors'[a] = anchors[a]
          /\ anchors'[Cli!Newest] =
                [cmd |-> proc[p].cmd, nfs |-> proc[p].inputs, bound |-> f, funding |-> f]
        BY <1>3, CliPublish
    <2>2. DOMAIN anchors = 1..Len(anchors) /\ Len(anchors) \in Nat /\ Cli!Newest = Len(anchors) + 1
        BY SeqFacts DEF CliChain, Cli!Newest
    <2>3. anchors'[Cli!Newest].bound = anchors'[Cli!Newest].funding
        BY <2>1
    <2> QED BY <2>1, <2>2, <2>3 DEF Cli!RecordBound
<1>4. ASSUME NEW p \in Procs, Publishes(p) \/ PublishesDemo(p)
      PROVE  Cli!RecordBound'
    BY <1>3, <1>4 DEF Publishes, PublishesDemo
<1>5. ASSUME NEW a \in 1..MaxAnchors, Cli!Mine(a) \/ Cli!Evict(a)
      PROVE  UNCHANGED anchors
    BY <1>5 DEF Cli!Mine, Cli!Evict
<1>6. CASE Cli!Settle \/ Cli!Reorg
    BY <1>2, <1>6 DEF Cli!Settle, Cli!Reorg
<1> QED BY <1>1, <1>2, <1>4, <1>5, <1>6, CliMoves

\* What makes a coin spent in a file or in a process's memory.
Marked(c) ==
    \/ file[c] = "spent"
    \/ \E p \in Procs : proc[p].mem[c] = "spent" \/ (proc[p].pc = "mark" /\ c \in proc[p].left)

\* What a step leaves of the processes and the files.
ProcStep ==
    /\ CliProcs'
    /\ \A c \in Coins : file'[c] = "spent" => Marked(c)
    /\ \A q \in Procs, c \in Coins : proc'[q].mem[c] = "spent" => Marked(c)

\* A step of one process, or of none, that keeps to the following is one.
LEMMA CliOneProc ==
    ASSUME CliProcs, CliGrows, kind' = kind, file' \in [Coins -> Cli!Statuses],
           NEW p \in Procs, proc' \in [Procs -> Process], OwnsAnchor(p)',
           \A q \in Procs : q # p => proc'[q] = proc[q],
           \A c \in Coins : file'[c] = "spent" => Marked(c),
           \A c \in Coins : proc'[p].mem[c] = "spent" => Marked(c)
    PROVE  ProcStep
<1>1. ASSUME NEW q \in Procs PROVE OwnsAnchor(q)'
    <2>1. CASE q = p
        BY <2>1
    <2>2. CASE q # p
        <3>1. OwnsAnchor(q) /\ proc'[q] = proc[q]
            BY <2>2 DEF CliProcs
        <3> QED BY <3>1 DEF OwnsAnchor, CliGrows
    <2> QED BY <2>1, <2>2
<1>2. ASSUME NEW q \in Procs, NEW c \in Coins, proc'[q].mem[c] = "spent" PROVE Marked(c)
    <2>1. CASE q = p
        BY <1>2, <2>1
    <2>2. CASE q # p
        BY <1>2, <2>2 DEF Marked
    <2> QED BY <2>1, <2>2
<1> QED BY <1>1, <1>2 DEF ProcStep, CliProcs

\* A process that ends leaves nothing behind.
LEMMA CliEnd ==
    ASSUME CliProcs, CliGrows, kind' = kind, file' \in [Coins -> Cli!Statuses],
           NEW p \in Procs, Cli!End(p),
           \A c \in Coins : file'[c] = "spent" => Marked(c)
    PROVE  ProcStep
<1>1. Cli!Quiet \in Process
    BY DEF Cli!Quiet, Process, Cli!Statuses, Cli!NoFunding, Cli!Sentinel
<1>2. proc \in [Procs -> Process]
    BY DEF CliProcs
<1>3. proc' \in [Procs -> Process] /\ proc'[p] = Cli!Quiet
    BY <1>1, <1>2 DEF Cli!End
<1>4. \A q \in Procs : q # p => proc'[q] = proc[q]
    BY <1>2 DEF Cli!End
<1>5. /\ Cli!Quiet.left = {} /\ Cli!Quiet.anchor = 0 /\ Cli!Quiet.pc = "idle"
      /\ \A c \in Coins : Cli!Quiet.mem[c] # "spent"
    BY DEF Cli!Quiet
<1>6. OwnsAnchor(p)'
    BY <1>3, <1>5 DEF OwnsAnchor, CliGrows
<1>7. \A c \in Coins : proc'[p].mem[c] # "spent"
    BY <1>3, <1>5
<1> QED BY <1>3, <1>4, <1>6, <1>7, CliOneProc

\* The newest anchor has the nullifiers of the process that published it.
LEMMA CliNewest ==
    ASSUME CliProcs, CliChain, NEW p \in Procs, NEW ctx \in Int, NEW f \in Int,
           anchors' = Cli!Published(p, ctx, f)
    PROVE  /\ Cli!Newest \in DOMAIN anchors' /\ Cli!Newest \in 0..Len(anchors')
           /\ anchors'[Cli!Newest].nfs = proc[p].inputs
<1>1. /\ Len(anchors') = Len(anchors) + 1 /\ DOMAIN anchors' = 1..Len(anchors) + 1
      /\ anchors'[Cli!Newest] =
           [cmd |-> proc[p].cmd, nfs |-> proc[p].inputs, bound |-> ctx, funding |-> f]
    BY CliPublish
<1>2. Len(anchors) \in Nat /\ Cli!Newest = Len(anchors) + 1
    BY SeqFacts DEF CliChain, Cli!Newest
<1>3. anchors'[Cli!Newest].nfs = proc[p].inputs
    BY <1>1
<1> QED BY <1>1, <1>2, <1>3

\* A process that goes on keeps what it remembers and its inputs.
LEMMA CliGoes ==
    ASSUME CliProcs, CliGrows, kind' = kind, file' \in [Coins -> Cli!Statuses],
           \A c \in Coins : file'[c] = "spent" => Marked(c),
           NEW p \in Procs, NEW r \in Process, proc' = [proc EXCEPT ![p] = r],
           r.mem = proc[p].mem, r.left \subseteq proc[p].left, r.inputs = proc[p].inputs,
           r.anchor \in 0..Len(anchors'),
           r.pc \in {"wait", "mark", "deliver"} =>
             r.anchor \in DOMAIN anchors' /\ anchors'[r.anchor].nfs = r.inputs
    PROVE  ProcStep
<1>1. proc \in [Procs -> Process] /\ OwnsAnchor(p)
    BY DEF CliProcs
<1>2. proc' \in [Procs -> Process] /\ proc'[p] = r /\ \A q \in Procs : q # p => proc'[q] = proc[q]
    BY <1>1
<1>3. OwnsAnchor(p)'
    BY <1>1, <1>2 DEF OwnsAnchor
<1>4. \A c \in Coins : proc'[p].mem[c] = "spent" => Marked(c)
    BY <1>2 DEF Marked
<1> QED BY <1>2, <1>3, <1>4, CliOneProc

\* A process whose anchor was published, and that was told so.
LEMMA CliAnswered ==
    ASSUME CliProcs, CliChain, CliGrows, kind' = kind, file' = file,
           NEW p \in Procs, NEW ctx \in Int, NEW f \in Int, NEW pc \in {"wait", "mark"},
           anchors' = Cli!Published(p, ctx, f),
           proc' = [proc EXCEPT ![p].pc = pc, ![p].anchor = Cli!Newest]
    PROVE  ProcStep
<1> DEFINE r == [proc[p] EXCEPT !.pc = pc, !.anchor = Cli!Newest]
<1>1. /\ file \in [Coins -> Cli!Statuses] /\ proc \in [Procs -> Process]
    BY DEF CliProcs
<1>2. proc' = [proc EXCEPT ![p] = r]
    BY <1>1
<1>3. Cli!Newest \in Nat
    BY SeqFacts DEF CliChain, Cli!Newest
<1>4. /\ r \in Process /\ r.mem = proc[p].mem /\ r.left \subseteq proc[p].left
      /\ r.inputs = proc[p].inputs /\ r.anchor = Cli!Newest
    BY <1>1, <1>3 DEF Process
<1> HIDE DEF r
<1>5. /\ Cli!Newest \in DOMAIN anchors' /\ Cli!Newest \in 0..Len(anchors')
      /\ anchors'[Cli!Newest].nfs = proc[p].inputs
    BY CliNewest
<1>6. \A c \in Coins : file'[c] = "spent" => Marked(c)
    BY DEF Marked
<1>7. r.left \subseteq proc[p].left /\ file' \in [Coins -> Cli!Statuses]
    BY <1>1, <1>4
<1> QED BY <1>2, <1>4, <1>5, <1>6, <1>7, CliGoes

\* The processes and the files, step by step.
LEMMA CliProcStep ==
    ASSUME Cli!CliAssumption, CliProcs, CliChain, CliGrows, [Cli!Next]_Cli!vars
    PROVE  ProcStep
<1>0. /\ Cli!Quiet \in Process /\ Cli!Quiet.left = {} /\ Cli!Quiet.anchor = 0
      /\ \A c \in Coins : Cli!Quiet.mem[c] = "none"
    BY DEF Cli!Quiet, Process, Cli!Statuses, Cli!NoFunding, Cli!Sentinel
<1>1. /\ file \in [Coins -> Cli!Statuses] /\ proc \in [Procs -> Process]
      /\ \A q \in Procs : OwnsAnchor(q)
    BY DEF CliProcs
<1>2. \A c \in Coins : file[c] = "spent" => Marked(c)
    BY DEF Marked
<1>3. \A q \in Procs, c \in Coins : proc[q].mem[c] = "spent" => Marked(c)
    BY DEF Marked
<1>4. ASSUME UNCHANGED <<kind, file, proc>> PROVE ProcStep
    <2>1. \A q \in Procs : OwnsAnchor(q)'
        BY <1>1, <1>4 DEF OwnsAnchor, CliGrows
    <2> QED BY <1>1, <1>2, <1>3, <1>4, <2>1 DEF ProcStep, CliProcs
<1>5. ASSUME NEW p \in Procs, NEW cmd \in {"send", "redeem"}, NEW ins \in SUBSET Coins,
             Cli!StartSpend(p, cmd, ins)
      PROVE  ProcStep
    <2> DEFINE r == [Cli!Quiet EXCEPT !.pc = "bind", !.cmd = cmd, !.inputs = ins, !.left = ins]
    <2>1. kind' = kind /\ file' = file /\ proc' = [proc EXCEPT ![p] = r]
        BY <1>5 DEF Cli!StartSpend
    <2>2. /\ r \in Process /\ r.left = ins /\ r.inputs = ins /\ r.anchor = 0 /\ r.pc = "bind"
          /\ \A c \in Coins : r.mem[c] = "none"
        BY <1>0 DEF Process
    <2> HIDE DEF r
    <2>3. proc' \in [Procs -> Process] /\ proc'[p] = r /\ \A q \in Procs : q # p => proc'[q] = proc[q]
        BY <1>1, <2>1, <2>2
    <2>4. OwnsAnchor(p)'
        BY <2>2, <2>3 DEF OwnsAnchor, CliGrows
    <2>5. \A c \in Coins : proc'[p].mem[c] # "spent"
        BY <2>2, <2>3
    <2> QED BY <1>1, <1>2, <2>1, <2>3, <2>4, <2>5, CliOneProc
<1>6. ASSUME NEW p \in Procs, Cli!StartReceiver(p)
      PROVE  ProcStep
    <2> DEFINE r == [Cli!Quiet EXCEPT !.pc = "receive", !.mem = file]
    <2>1. kind' = kind /\ file' = file /\ proc' = [proc EXCEPT ![p] = r]
        BY <1>6 DEF Cli!StartReceiver
    <2>2. /\ r \in Process /\ r.left = {} /\ r.anchor = 0 /\ r.pc = "receive" /\ r.mem = file
        BY <1>0, <1>1 DEF Process
    <2> HIDE DEF r
    <2>3. proc' \in [Procs -> Process] /\ proc'[p] = r /\ \A q \in Procs : q # p => proc'[q] = proc[q]
        BY <1>1, <2>1, <2>2
    <2>4. OwnsAnchor(p)'
        BY <2>2, <2>3 DEF OwnsAnchor, CliGrows
    <2>5. \A c \in Coins : proc'[p].mem[c] = "spent" => Marked(c)
        BY <1>2, <2>2, <2>3
    <2> QED BY <1>1, <1>2, <2>1, <2>3, <2>4, <2>5, CliOneProc
<1>7. ASSUME NEW p \in Procs, Cli!StopReceiver(p) \/ Cli!GiveUp(p) \/ Cli!Deliver(p)
      PROVE  ProcStep
    <2>1. kind' = kind /\ file' = file /\ Cli!End(p)
        BY <1>7 DEF Cli!StopReceiver, Cli!GiveUp, Cli!Deliver
    <2> QED BY <1>1, <1>2, <2>1, CliEnd
<1>8. ASSUME NEW p \in Procs, Cli!Kill(p)
      PROVE  ProcStep
    <2>1. kind' = kind /\ Cli!End(p)
        BY <1>8 DEF Cli!Kill
    <2>2. file' = file \/ \E c \in Coins : file' = [file EXCEPT ![c] = "torn"]
        BY <1>8 DEF Cli!Kill
    <2>3. file' \in [Coins -> Cli!Statuses] /\ \A c \in Coins : file'[c] = "spent" => file[c] = "spent"
        BY <1>1, <2>2 DEF Cli!Statuses
    <2> QED BY <1>2, <2>1, <2>3, CliEnd
<1>9. ASSUME NEW p \in Procs, NEW c \in Coins, Cli!Store(p, c)
      PROVE  ProcStep
    <2> DEFINE k == Cli!Kept(p, c)
    <2>1. kind' = kind /\ file' = [file EXCEPT ![c] = k] /\ proc' = [proc EXCEPT ![p].mem[c] = k]
        BY <1>9 DEF Cli!Store
    <2>2. proc[p] \in Process /\ proc[p].mem \in [Coins -> Cli!Statuses]
        BY <1>1 DEF Process
    <2>3. k \in Cli!Statuses /\ (k = "spent" => proc[p].mem[c] = "spent")
        BY <2>2 DEF Cli!Kept, Cli!Statuses
    <2> HIDE DEF k
    <2> DEFINE m == [proc[p].mem EXCEPT ![c] = k]
    <2>4. m \in [Coins -> Cli!Statuses] /\ \A d \in Coins : m[d] = "spent" => proc[p].mem[d] = "spent"
        BY <2>2, <2>3
    <2>5. proc' = [proc EXCEPT ![p] = [proc[p] EXCEPT !.mem = m]]
        BY <1>1, <2>1, <2>2
    <2> HIDE DEF m
    <2>6. /\ proc' \in [Procs -> Process] /\ \A q \in Procs : q # p => proc'[q] = proc[q]
        BY <1>1, <2>2, <2>4, <2>5 DEF Process
    <2>7. /\ proc'[p].mem = m /\ proc'[p].left = proc[p].left /\ proc'[p].inputs = proc[p].inputs
          /\ proc'[p].anchor = proc[p].anchor /\ proc'[p].pc = proc[p].pc
        BY <1>1, <2>2, <2>5 DEF Process
    <2>8. OwnsAnchor(p)'
        BY <1>1, <2>7 DEF OwnsAnchor, CliGrows
    <2>9. \A d \in Coins : proc'[p].mem[d] = "spent" => Marked(d)
        BY <1>3, <2>4, <2>7
    <2>10. file' \in [Coins -> Cli!Statuses] /\ \A d \in Coins : file'[d] = "spent" => Marked(d)
        BY <1>1, <1>2, <1>3, <2>1, <2>3
    <2> QED BY <2>1, <2>6, <2>8, <2>9, <2>10, CliOneProc
<1>10. ASSUME NEW p \in Procs, Cli!Anchor(p)
       PROVE  ProcStep
    <2>1. kind' = kind /\ file' = file
        BY <1>10 DEF Cli!Anchor
    <2>4. /\ kind' = kind /\ file' \in [Coins -> Cli!Statuses]
          /\ \A c \in Coins : file'[c] = "spent" => Marked(c)
        BY <1>1, <1>2, <2>1
    <2>2. CASE Cli!End(p)
        BY <2>2, <2>4, CliEnd
    <2>3. CASE ~Cli!End(p)
        <3>1. PICK f \in Funding :
                 /\ anchors' = Cli!Published(p, f, f)
                 /\ proc' = [proc EXCEPT ![p].pc = "mark", ![p].anchor = Cli!Newest]
            BY <1>10, <2>3 DEF Cli!Anchor, Cli!Answered
        <3>2. f \in Int
            BY DEF Cli!CliAssumption
        <3> QED BY <1>4, <2>1, <3>1, <3>2, CliAnswered
    <2> QED BY <2>2, <2>3
<1>11. ASSUME NEW p \in Procs, Cli!ReserveContext(p)
       PROVE  ProcStep
    <2>1. kind' = kind /\ file' = file /\ proc[p].pc = "bind"
        BY <1>11 DEF Cli!ReserveContext
    <2>4. /\ kind' = kind /\ file' \in [Coins -> Cli!Statuses]
          /\ \A c \in Coins : file'[c] = "spent" => Marked(c)
        BY <1>1, <1>2, <2>1
    <2>2. CASE Cli!End(p)
        BY <2>2, <2>4, CliEnd
    <2>3. CASE ~Cli!End(p)
        <3> DEFINE S == Cli!Best({g \in Funding \ Cli!StillReserved : Cli!Free(g)})
        <3>1. PICK f \in S : proc' = [proc EXCEPT ![p].pc = "post", ![p].ctx = f]
            BY <1>11, <2>3 DEF Cli!ReserveContext, Cli!Answered
        <3>2. f \in Int
            BY DEF Cli!CliAssumption, Cli!Best
        <3> DEFINE r == [proc[p] EXCEPT !.pc = "post", !.ctx = f]
        <3>3. proc' = [proc EXCEPT ![p] = r]
            BY <1>1, <3>1
        <3>4. /\ r \in Process /\ r.mem = proc[p].mem /\ r.left \subseteq proc[p].left
              /\ r.inputs = proc[p].inputs /\ r.anchor = proc[p].anchor /\ r.pc = "post"
            BY <1>1, <3>2 DEF Process
        <3> HIDE DEF r, S
        <3>5. r.anchor \in 0..Len(anchors')
            BY <1>1, <3>4 DEF OwnsAnchor, CliGrows
        <3>6. r.pc \notin {"wait", "mark", "deliver"}
            BY <3>4
        <3> QED BY <2>4, <3>3, <3>4, <3>5, <3>6, CliGoes
    <2> QED BY <2>2, <2>3
<1>12. ASSUME NEW p \in Procs, Cli!DrawContext(p)
       PROVE  ProcStep
    <2> DEFINE r == [proc[p] EXCEPT !.pc = "post", !.ctx = 0]
    <2>1. kind' = kind /\ file' = file /\ proc' = [proc EXCEPT ![p].pc = "post", ![p].ctx = 0]
        BY <1>12 DEF Cli!DrawContext, Cli!Local
    <2>2. proc' = [proc EXCEPT ![p] = r]
        BY <1>1, <2>1
    <2>3. /\ r \in Process /\ r.mem = proc[p].mem /\ r.left \subseteq proc[p].left
          /\ r.inputs = proc[p].inputs /\ r.anchor = proc[p].anchor /\ r.pc = "post"
        <3> 0 \in Int OBVIOUS
        <3> proc[p] \in Process BY <1>1
        <3> QED BY DEF Process
    <2> HIDE DEF r
    <2>4. r.anchor \in 0..Len(anchors')
        BY <1>1, <2>3 DEF OwnsAnchor, CliGrows
    <2>5. r.pc \notin {"wait", "mark", "deliver"}
        BY <2>3
    <2>6. /\ kind' = kind /\ file' \in [Coins -> Cli!Statuses]
          /\ \A c \in Coins : file'[c] = "spent" => Marked(c)
        BY <1>1, <1>2, <2>1
    <2> QED BY <2>2, <2>3, <2>4, <2>5, <2>6, CliGoes
<1>13. ASSUME NEW p \in Procs, Cli!Post(p)
       PROVE  ProcStep
    <2>1. kind' = kind /\ file' = file
        BY <1>13 DEF Cli!Post
    <2>4. /\ kind' = kind /\ file' \in [Coins -> Cli!Statuses]
          /\ \A c \in Coins : file'[c] = "spent" => Marked(c)
        BY <1>1, <1>2, <2>1
    <2>2. CASE Cli!End(p)
        BY <2>2, <2>4, CliEnd
    <2>3. CASE ~Cli!End(p)
        <3>1. PICK f \in Cli!Spends(p) :
                 /\ anchors' = Cli!Published(p, proc[p].ctx, f)
                 /\ proc' = [proc EXCEPT ![p].pc = "wait", ![p].anchor = Cli!Newest]
            BY <1>13, <2>3 DEF Cli!Post, Cli!Answered
        <3>2. f \in Int /\ proc[p].ctx \in Int
            BY <1>1 DEF Process, Cli!Spends
        <3> QED BY <2>1, <3>1, <3>2, CliAnswered
    <2> QED BY <2>2, <2>3
<1>14. ASSUME NEW p \in Procs, Cli!PostDemo(p)
       PROVE  ProcStep
    <2>1. kind' = kind /\ file' = file /\ anchors' = Cli!Published(p, 0, 0)
        BY <1>14 DEF Cli!PostDemo, Cli!Local
    <2>4. /\ kind' = kind /\ file' \in [Coins -> Cli!Statuses]
          /\ \A c \in Coins : file'[c] = "spent" => Marked(c)
        BY <1>1, <1>2, <2>1
    <2>2. CASE Cli!End(p)
        BY <2>2, <2>4, CliEnd
    <2>3. CASE ~Cli!End(p)
        <3>1. proc' = [proc EXCEPT ![p].pc = "mark", ![p].anchor = Cli!Newest, ![p].loc = Len(log) + 1]
            BY <1>14, <2>3 DEF Cli!PostDemo, Cli!Answered
        <3> DEFINE r == [proc[p] EXCEPT !.pc = "mark", !.anchor = Cli!Newest, !.loc = Len(log) + 1]
        <3>2. proc' = [proc EXCEPT ![p] = r]
            BY <1>1, <3>1
        <3>3. Len(log) + 1 \in Nat /\ Cli!Newest \in Nat
            BY SeqFacts DEF CliChain, Cli!Newest
        <3>4. /\ r \in Process /\ r.mem = proc[p].mem /\ r.left \subseteq proc[p].left
              /\ r.inputs = proc[p].inputs /\ r.anchor = Cli!Newest
            BY <1>1, <3>3 DEF Process
        <3> HIDE DEF r
        <3>5. /\ Cli!Newest \in DOMAIN anchors' /\ Cli!Newest \in 0..Len(anchors')
              /\ anchors'[Cli!Newest].nfs = proc[p].inputs
            BY <2>1, 0 \in Int, CliNewest, Zenon
        <3> QED BY <2>4, <3>2, <3>4, <3>5, CliGoes
    <2> QED BY <2>2, <2>3
<1>15. ASSUME NEW p \in Procs, Cli!Confirmed(p)
       PROVE  ProcStep
    <2>1. kind' = kind /\ file' = file /\ proc[p].pc = "wait"
        BY <1>15 DEF Cli!Confirmed
    <2>2. PICK i \in DOMAIN log : proc' = [proc EXCEPT ![p].pc = "mark", ![p].loc = i]
        BY <1>15 DEF Cli!Confirmed
    <2> DEFINE r == [proc[p] EXCEPT !.pc = "mark", !.loc = i]
    <2>3. proc' = [proc EXCEPT ![p] = r]
        BY <1>1, <2>2
    <2>4. i \in Nat
        BY SeqFacts DEF CliChain
    <2>a. proc[p] \in Process
        BY <1>1
    <2>b. r \in Process
        BY <2>4, <2>a DEF Process
    <2>5. /\ r \in Process /\ r.mem = proc[p].mem /\ r.left \subseteq proc[p].left
          /\ r.inputs = proc[p].inputs /\ r.anchor = proc[p].anchor
        BY <2>a, <2>b DEF Process
    <2> HIDE DEF r
    <2>6. /\ r.anchor \in DOMAIN anchors' /\ r.anchor \in 0..Len(anchors')
          /\ anchors'[r.anchor].nfs = r.inputs
        BY <1>1, <2>1, <2>5 DEF OwnsAnchor, CliGrows
    <2>7. /\ kind' = kind /\ file' \in [Coins -> Cli!Statuses]
          /\ \A c \in Coins : file'[c] = "spent" => Marked(c)
        BY <1>1, <1>2, <2>1
    <2> QED BY <2>3, <2>5, <2>6, <2>7, CliGoes
<1>16. ASSUME NEW p \in Procs, Cli!MarkSpent(p)
       PROVE  ProcStep
    <2>1. kind' = kind /\ proc[p].pc = "mark"
        BY <1>16 DEF Cli!MarkSpent
    <2>2. PICK c \in proc[p].left :
             /\ file' = [file EXCEPT ![c] = "spent"]
             /\ proc' = [proc EXCEPT ![p].left = @ \ {c},
                                     ![p].pc = IF proc[p].left = {c} THEN "deliver" ELSE "mark"]
        BY <1>16 DEF Cli!MarkSpent
    <2> DEFINE r == [proc[p] EXCEPT !.left = @ \ {c},
                                    !.pc = IF proc[p].left = {c} THEN "deliver" ELSE "mark"]
    <2>3. proc' = [proc EXCEPT ![p] = r]
        BY <1>1, <2>2
    <2>a. proc[p] \in Process
        BY <1>1
    <2>b. r \in Process
        BY <2>a DEF Process
    <2>4. /\ r \in Process /\ r.mem = proc[p].mem /\ r.left \subseteq proc[p].left
          /\ r.inputs = proc[p].inputs /\ r.anchor = proc[p].anchor
        BY <2>a, <2>b DEF Process
    <2> HIDE DEF r
    <2>5. /\ r.anchor \in DOMAIN anchors' /\ r.anchor \in 0..Len(anchors')
          /\ anchors'[r.anchor].nfs = r.inputs
        BY <1>1, <2>1, <2>4 DEF OwnsAnchor, CliGrows
    <2>6. Marked(c)
        BY <2>1 DEF Marked
    <2>7. file' \in [Coins -> Cli!Statuses] /\ \A d \in Coins : file'[d] = "spent" => Marked(d)
        BY <1>1, <1>2, <2>2, <2>6 DEF Cli!Statuses
    <2> QED BY <2>1, <2>3, <2>4, <2>5, <2>7, CliGoes
<1>17. ASSUME NEW a \in 1..MaxAnchors, Cli!Mine(a) \/ Cli!Evict(a)
       PROVE  ProcStep
    BY <1>4, <1>17 DEF Cli!Mine, Cli!Evict
<1>18. CASE Cli!Settle \/ Cli!Reorg \/ Cli!Lapse
    BY <1>4, <1>18 DEF Cli!Settle, Cli!Reorg, Cli!Lapse
<1>19. ASSUME NEW con \in consigned, Cli!PayeeReceive(con)
       PROVE  ProcStep
    BY <1>4, <1>19 DEF Cli!PayeeReceive
<1>20. CASE UNCHANGED Cli!vars
    BY <1>4, <1>20 DEF Cli!vars
<1> QED BY <1>5, <1>6, <1>7, <1>8, <1>9, <1>10, <1>11, <1>12, <1>13, <1>14, <1>15, <1>16, <1>17,
           <1>18, <1>19, <1>20 DEF Cli!Next, Cli!Step

\* The server's reservations: one that lapses comes back, one that is used is
\* on record.
LEMMA CliServerStep ==
    ASSUME CliServer, [Cli!Next]_Cli!vars
    PROVE  CliServer'
<1>1. ASSUME UNCHANGED <<reserved, contexts, expired, posted>> PROVE CliServer'
    BY <1>1 DEF CliServer, Cli!NotStranded
<1>2. ASSUME NEW p \in Procs, Cli!ReserveContext(p)
      PROVE  CliServer'
    <2>1. expired' = {} /\ posted' = posted
        BY <1>2 DEF Cli!ReserveContext
    <2>2. \/ \E f \in Funding : reserved' = (reserved \ expired) \union {f} /\ contexts' = (contexts \ expired) \union {f}
          \/ reserved' = reserved \ expired /\ contexts' = contexts \ expired
        BY <1>2 DEF Cli!ReserveContext, Cli!StillReserved, Cli!StillHeld, Cli!Best
    <2> QED BY <2>1, <2>2 DEF CliServer, Cli!NotStranded
<1>3. ASSUME NEW p \in Procs, Cli!Post(p)
      PROVE  CliServer'
    <2>1. /\ contexts' = contexts \ {proc[p].ctx} /\ expired' = expired \ {proc[p].ctx}
          /\ posted' = posted \union ({proc[p].ctx} \intersect contexts) /\ reserved' = reserved
        BY <1>3 DEF Cli!Post
    <2> QED BY <2>1 DEF CliServer, Cli!NotStranded
<1>4. CASE Cli!Lapse
    BY <1>4 DEF Cli!Lapse, CliServer, Cli!NotStranded
<1>5. ASSUME NEW p \in Procs, NEW cmd \in {"send", "redeem"}, NEW ins \in SUBSET Coins,
             Cli!StartSpend(p, cmd, ins)
      PROVE  CliServer'
    BY <1>1, <1>5 DEF Cli!StartSpend, Cli!server
<1>6. ASSUME NEW p \in Procs, NEW c \in Coins, Cli!Store(p, c)
      PROVE  CliServer'
    BY <1>1, <1>6 DEF Cli!Store, Cli!server
<1>7. ASSUME NEW p \in Procs, Cli!StartReceiver(p) \/ Cli!StopReceiver(p) \/ Cli!Kill(p)
      PROVE  CliServer'
    BY <1>1, <1>7 DEF Cli!StartReceiver, Cli!StopReceiver, Cli!Kill, Cli!server
<1>8. ASSUME NEW p \in Procs, Cli!Anchor(p) \/ Cli!DrawContext(p) \/ Cli!PostDemo(p)
      PROVE  CliServer'
    BY <1>1, <1>8 DEF Cli!Anchor, Cli!DrawContext, Cli!PostDemo, Cli!server
<1>9. ASSUME NEW p \in Procs,
             Cli!Confirmed(p) \/ Cli!GiveUp(p) \/ Cli!MarkSpent(p) \/ Cli!Deliver(p)
      PROVE  CliServer'
    BY <1>1, <1>9 DEF Cli!Confirmed, Cli!GiveUp, Cli!MarkSpent, Cli!Deliver, Cli!server
<1>10. ASSUME NEW a \in 1..MaxAnchors, Cli!Mine(a) \/ Cli!Evict(a)
       PROVE  CliServer'
    BY <1>1, <1>10 DEF Cli!Mine, Cli!Evict, Cli!server
<1>11. CASE Cli!Settle \/ Cli!Reorg
    BY <1>1, <1>11 DEF Cli!Settle, Cli!Reorg, Cli!server
<1>12. ASSUME NEW con \in consigned, Cli!PayeeReceive(con)
       PROVE  CliServer'
    BY <1>1, <1>12 DEF Cli!PayeeReceive, Cli!server
<1>13. CASE UNCHANGED Cli!vars
    BY <1>1, <1>13 DEF Cli!vars, Cli!server
<1> QED BY <1>2, <1>3, <1>4, <1>5, <1>6, <1>7, <1>8, <1>9, <1>10, <1>11, <1>12, <1>13
        DEF Cli!Next, Cli!Step

\* What is spent was published, also after the step.
LEMMA CliSpentStep ==
    ASSUME CliProcs, CliSpent, CliGrows, ProcStep
    PROVE  CliSpent'
<1> DEFINE Known(c) == \E a \in DOMAIN anchors : c \in anchors[a].nfs
<1>1. ASSUME NEW c \in Coins, Marked(c) PROVE Known(c)
    <2>1. ASSUME NEW p \in Procs, proc[p].pc = "mark", c \in proc[p].left PROVE Known(c)
        BY <2>1 DEF CliProcs, OwnsAnchor
    <2> QED BY <1>1, <2>1 DEF Marked, CliSpent, Cli!SpentWasPublished
<1>2. ASSUME NEW c \in Coins, Known(c) PROVE Known(c)'
    BY <1>2 DEF CliGrows
<1>3. \A c \in Coins : file'[c] = "spent" => Known(c)'
    BY <1>1, <1>2 DEF ProcStep
<1>4. \A q \in Procs, c \in Coins : proc'[q].mem[c] = "spent" => Known(c)'
    BY <1>1, <1>2 DEF ProcStep
<1> QED BY <1>3, <1>4 DEF CliSpent, Cli!SpentWasPublished

\* A credit stands: the settled part of the chain keeps its places, and a new
\* credit is for the first anchor that binds each of its coins.
LEMMA CliCreditsStep ==
    ASSUME Cli!CliAssumption, CliChain, CliChain', CliCredits, CliGrows, Stands, [Cli!Next]_Cli!vars
    PROVE  CliCredits'
<1> DEFINE First(a, i) == /\ log[i] = a
                          /\ \A c \in anchors[a].nfs :
                               Cli!Binds(a, c) /\ \A j \in 1..i - 1 : ~Cli!Binds(log[j], c)
<1>1. /\ credits \subseteq DOMAIN anchors /\ mishaps \in 0..MaxMishaps /\ MaxMishaps \in Nat
      /\ \A a \in credits : \E i \in 1..settled : First(a, i)
    BY DEF CliCredits, Cli!CreditsStand, Cli!CliAssumption
<1>2. /\ settled \in Nat /\ settled' \in Nat /\ settled <= settled'
      /\ \A i \in 1..settled : log[i] \in DOMAIN anchors
    <2>1. Len(log) \in Nat /\ Len(log') \in Nat /\ \A i \in 1..Len(log) : log[i] \in DOMAIN anchors
        BY SeqFacts DEF CliChain
    <2> QED BY <2>1 DEF CliChain, Stands
<1>3. ASSUME NEW a \in DOMAIN anchors, NEW i \in 1..settled, First(a, i)
      PROVE  \E k \in 1..settled' : First(a, k)'
    <2>1. \A b \in DOMAIN anchors : anchors'[b] = anchors[b]
        BY DEF CliGrows
    <2>2. \A b \in DOMAIN anchors : \A c : Cli!Binds(b, c)' <=> Cli!Binds(b, c)
        BY <2>1 DEF Cli!Binds
    <2>3. \A j \in 1..i : log'[j] = log[j] /\ log[j] \in DOMAIN anchors
        BY <1>2 DEF Stands
    <2>4. i \in 1..settled' /\ i \in 1..i /\ \A j \in 1..i - 1 : j \in 1..i
        BY <1>2
    <2>5. log'[i] = a
        BY <1>3, <2>3, <2>4
    <2>6. ASSUME NEW c \in anchors'[a].nfs PROVE Cli!Binds(a, c)'
        BY <1>3, <2>1, <2>2
    <2>7. ASSUME NEW c \in anchors'[a].nfs, NEW j \in 1..i - 1
          PROVE  ~Cli!Binds(log[j], c)'
        BY <1>3, <2>1, <2>2, <2>3, <2>4
    <2>8. ASSUME NEW c \in anchors'[a].nfs, NEW j \in 1..i - 1
          PROVE  ~Cli!Binds(log[j], c)' /\ log'[j] = log[j]
        BY <2>3, <2>4, <2>7
    <2> QED BY <2>4, <2>5, <2>6, <2>8 DEF Cli!Binds
<1>4. ASSUME NEW a \in credits PROVE \E k \in 1..settled' : First(a, k)'
    BY <1>1, <1>3
<1>5. mishaps' \in 0..MaxMishaps
    <2>1. mishaps' = mishaps \/ Cli!Mishap
        BY ZenonT(60) DEF Cli!Next, Cli!vars, Cli!Step, Cli!StartSpend, Cli!Store, Cli!StartReceiver,
               Cli!StopReceiver, Cli!Kill, Cli!Anchor, Cli!Answered, Cli!ReserveContext,
               Cli!DrawContext, Cli!Post, Cli!PostDemo, Cli!Confirmed, Cli!GiveUp, Cli!MarkSpent,
               Cli!Deliver, Cli!Mine, Cli!Evict, Cli!Settle, Cli!Reorg, Cli!Lapse, Cli!PayeeReceive
    <2> QED BY <1>1, <2>1 DEF Cli!Mishap
<1>6. \/ credits' = credits
      \/ \E con \in consigned : Cli!PayeeReceive(con)
    BY ZenonT(60) DEF Cli!Next, Cli!vars, Cli!Step, Cli!StartSpend, Cli!Store, Cli!StartReceiver,
           Cli!StopReceiver, Cli!Kill, Cli!Anchor, Cli!Answered, Cli!ReserveContext,
           Cli!DrawContext, Cli!Post, Cli!PostDemo, Cli!Confirmed, Cli!GiveUp, Cli!MarkSpent,
           Cli!Deliver, Cli!Mine, Cli!Evict, Cli!Settle, Cli!Reorg, Cli!Lapse
<1>7. DOMAIN anchors \subseteq DOMAIN anchors'
    BY DEF CliGrows
<1>8. CASE credits' = credits
    BY <1>1, <1>4, <1>5, <1>7, <1>8 DEF CliCredits, Cli!CreditsStand
<1>9. ASSUME NEW con \in consigned, Cli!PayeeReceive(con)
      PROVE  CliCredits'
    <2> DEFINE a == con.anchor
    <2>1. credits' = credits \union {a}
        BY <1>9 DEF Cli!PayeeReceive
    <2>2. PICK i \in Cli!PlacesOf(con) :
             /\ i <= settled
             /\ \A c \in anchors[a].nfs : Cli!Binds(a, c) /\ Cli!FirstAt(i, c)
        BY <1>9 DEF Cli!PayeeReceive
    <2>a. i \in DOMAIN log /\ log[i] = a
        BY <2>2 DEF Cli!PlacesOf
    <2>b. i \in Nat /\ 1 <= i
        BY <2>a, SeqFacts DEF CliChain
    <2>3. i \in 1..settled /\ log[i] = a
        BY <1>2, <2>2, <2>a, <2>b
    <2>4. a \in DOMAIN anchors
        BY <1>2, <2>3
    <2>5. First(a, i)
        BY <2>2, <2>3 DEF Cli!FirstAt
    <2>6. \E k \in 1..settled' : First(a, k)'
        BY <1>3, <2>3, <2>4, <2>5
    <2>7. \A b \in credits' : \E k \in 1..settled' : First(b, k)'
        BY <1>4, <2>1, <2>6
    <2> QED BY <1>1, <1>5, <1>7, <2>1, <2>4, <2>7 DEF CliCredits, Cli!CreditsStand
<1> QED BY <1>6, <1>8, <1>9

\* The invariant of the command line wallet, for every set of processes,
\* coins, outpoints and backends.
THEOREM CliInvariant ==
    ASSUME Cli!CliAssumption PROVE Cli!Spec => []CliInv
<1>1. Cli!Init => CliInv
    BY CliInit
<1>2. CliInv /\ [Cli!Next]_Cli!vars => CliInv'
    <2> SUFFICES ASSUME CliInv, [Cli!Next]_Cli!vars PROVE CliInv'
        OBVIOUS
    <2>1. CliProcs /\ CliChain /\ CliServer /\ CliSpent /\ CliCredits /\ Cli!RecordBound
        BY DEF CliInv
    <2>2. CliChain' /\ CliGrows /\ Stands
        BY <2>1, CliChainStep
    <2>3. ProcStep
        BY <2>1, <2>2, CliProcStep
    <2>4. CliServer'
        BY <2>1, CliServerStep
    <2>5. CliSpent'
        BY <2>1, <2>2, <2>3, CliSpentStep
    <2>6. CliCredits'
        BY <2>1, <2>2, CliCreditsStep
    <2>7. Cli!RecordBound'
        BY <2>1, CliBoundStep
    <2> QED BY <2>2, <2>3, <2>4, <2>5, <2>6, <2>7 DEF CliInv, ProcStep
<1> QED BY <1>1, <1>2, PTL DEF Cli!Spec

\* The type invariant of the command line wallet.
THEOREM CliTypeCorrect ==
    ASSUME Cli!CliAssumption PROVE Cli!Spec => []Cli!TypeOK
<1>1. CliInv => Cli!TypeOK
    <2> SUFFICES ASSUME CliInv PROVE Cli!TypeOK
        OBVIOUS
    <2>1. /\ anchors \in Seq(Anchored) /\ log \in Seq(DOMAIN anchors) /\ DOMAIN log = 1..Len(log)
          /\ \A i \in 1..Len(log) : log[i] \in DOMAIN anchors
        BY SeqFacts DEF CliInv, CliChain
    <2>2. ASSUME NEW p \in Procs
          PROVE  /\ proc[p] \in Process /\ proc[p].left \subseteq proc[p].inputs
                 /\ proc[p].anchor \in 0..Len(anchors)
        BY DEF CliInv, CliProcs, OwnsAnchor
    <2>3. ASSUME NEW p \in Procs
          PROVE  /\ proc[p].pc \in {"idle", "receive", "bind", "post", "wait", "mark", "deliver"}
                 /\ proc[p].cmd \in {"none", "send", "redeem"}
                 /\ proc[p].mem \in [Coins -> Cli!Statuses]
                 /\ proc[p].inputs \subseteq Coins
        BY <2>2 DEF Process
    <2>4. Cli!ToSet(log) \subseteq DOMAIN anchors /\ pool \intersect Cli!ToSet(log) = {}
        BY <2>1 DEF CliInv, CliChain, Cli!ToSet
    <2>5. Cli!IsInjective(log)
        BY <2>1 DEF CliInv, CliChain, Cli!IsInjective
    <2> QED BY <2>2, <2>3, <2>4, <2>5 DEF CliInv, CliProcs, CliChain, CliServer, CliCredits, Cli!TypeOK
<1> QED BY <1>1, CliInvariant, PTL

\* What the payee credited stays the first settled anchor to bind each of its
\* coins, whoever spent them twice, crashed or reorganised.
THEOREM CliCreditsStand ==
    ASSUME Cli!CliAssumption PROVE Cli!Spec => []Cli!CreditsStand
<1>1. CliInv => Cli!CreditsStand
    BY DEF CliInv, CliCredits
<1> QED BY <1>1, CliInvariant, PTL

\* No coin pays twice: credited payments have no nullifier in common.
NoDoubleCredit ==
    \A a, b \in credits : a # b => anchors[a].nfs \intersect anchors[b].nfs = {}

\* Two payments that the payee credited never spend the same coin.
THEOREM CliNoDoubleCredit ==
    ASSUME Cli!CliAssumption PROVE Cli!Spec => []NoDoubleCredit
<1>1. CliInv => NoDoubleCredit
    <2> SUFFICES ASSUME CliInv, NEW a \in credits, NEW b \in credits, a # b,
                        NEW c \in anchors[a].nfs, c \in anchors[b].nfs
                 PROVE  FALSE
        BY DEF NoDoubleCredit
    <2> DEFINE First(x, i) == /\ log[i] = x
                              /\ \A d \in anchors[x].nfs :
                                   Cli!Binds(x, d) /\ \A j \in 1..i - 1 : ~Cli!Binds(log[j], d)
    <2>1. \A x \in credits : \E i \in 1..settled : First(x, i)
        BY DEF CliInv, CliCredits, Cli!CreditsStand
    <2>2. PICK i \in 1..settled : First(a, i)
        BY <2>1
    <2>3. PICK k \in 1..settled : First(b, k)
        BY <2>1
    <2>4. settled \in Nat
        BY SeqFacts DEF CliInv, CliChain
    <2>5. i # k
        BY <2>2, <2>3
    <2>6. CASE i < k
        BY <2>2, <2>3, <2>4, <2>6
    <2>7. CASE k < i
        BY <2>2, <2>3, <2>4, <2>7
    <2> QED BY <2>4, <2>5, <2>6, <2>7
<1> QED BY <1>1, CliInvariant, PTL

\* Every anchor's record is bound to the outpoint that its transaction spends.
THEOREM CliRecordBound ==
    ASSUME Cli!CliAssumption PROVE Cli!Spec => []Cli!RecordBound
<1>1. CliInv => Cli!RecordBound
    BY DEF CliInv
<1> QED BY <1>1, CliInvariant, PTL

\* A coin is marked spent only after its nullifier was published.
THEOREM CliSpentWasPublished ==
    ASSUME Cli!CliAssumption PROVE Cli!Spec => []Cli!SpentWasPublished
<1>1. CliInv => Cli!SpentWasPublished
    BY DEF CliInv, CliSpent
<1> QED BY <1>1, CliInvariant, PTL

\* What the server keeps back is held for a client or was asked for.
THEOREM CliNotStranded ==
    ASSUME Cli!CliAssumption PROVE Cli!Spec => []Cli!NotStranded
<1>1. CliInv => Cli!NotStranded
    BY DEF CliInv, CliServer
<1> QED BY <1>1, CliInvariant, PTL

\* A spent coin becomes unspent only by a process that read the wallet before
\* it was spent: put_coin keeps the status that the process knows.
THEOREM CliRedeliveryKeepsSpent ==
    ASSUME Cli!CliAssumption PROVE Cli!Spec => Cli!RedeliveryKeepsSpent
<1> DEFINE A == \A c \in Coins : file[c] = "spent" /\ file'[c] = "unspent" =>
                   \E p \in Procs : proc[p].pc = "receive" /\ proc[p].mem[c] # "spent"
<1>1. CliInv /\ [Cli!Next]_Cli!vars => [A]_Cli!vars
    <2> SUFFICES ASSUME CliInv, Cli!Next PROVE A
        OBVIOUS
    <2> SUFFICES ASSUME NEW c \in Coins, file[c] = "spent", file'[c] = "unspent"
                 PROVE  \E p \in Procs : proc[p].pc = "receive" /\ proc[p].mem[c] # "spent"
        OBVIOUS
    <2>1. file \in [Coins -> Cli!Statuses]
        BY DEF CliInv, CliProcs
    <2>2. \/ \E p \in Procs, d \in Coins : Cli!Store(p, d)
          \/ \E p \in Procs : Cli!MarkSpent(p) \/ Cli!Kill(p)
          \/ UNCHANGED file
        BY DEF Cli!Next, Cli!Step, Cli!StartSpend, Cli!StartReceiver, Cli!StopReceiver, Cli!Anchor,
               Cli!ReserveContext, Cli!DrawContext, Cli!Post, Cli!PostDemo, Cli!Confirmed,
               Cli!GiveUp, Cli!Deliver, Cli!Mine, Cli!Evict, Cli!Settle, Cli!Reorg, Cli!Lapse,
               Cli!PayeeReceive
    <2>3. ASSUME NEW p \in Procs, NEW d \in Coins, Cli!Store(p, d)
          PROVE  proc[p].pc = "receive" /\ proc[p].mem[c] # "spent"
        BY <2>1, <2>3 DEF Cli!Store, Cli!Kept
    <2>4. ASSUME NEW p \in Procs, Cli!MarkSpent(p) PROVE FALSE
        BY <2>1, <2>4 DEF Cli!MarkSpent
    <2>5. ASSUME NEW p \in Procs, Cli!Kill(p) PROVE FALSE
        BY <2>1, <2>5 DEF Cli!Kill
    <2> QED BY <2>2, <2>3, <2>4, <2>5
<1> QED BY <1>1, CliInvariant, PTL DEF Cli!Spec, Cli!RedeliveryKeepsSpent

----------------------------------------------------------------------------
(* The compact block filter client. *)

\* What the assumption says of the header chains.
LEMMA ServedFacts ==
    ASSUME Cbf!CbfAssumption
    PROVE  /\ << >> \in Served /\ Served \subseteq Seq(DOMAIN Header)
           /\ \A c \in Served : \A n \in 0..Len(c) : SubSeq(c, 1, n) \in Served
BY DEF Cbf!CbfAssumption, Cbf!Prefixes

\* A chain that the rules admit is admitted up to each of its blocks.
LEMMA ChainPrefix ==
    ASSUME Cbf!CbfAssumption, NEW c \in Cbf!Chains, NEW n \in 0..Len(c)
    PROVE  SubSeq(c, 1, n) \in Cbf!Chains
<1> DEFINE d == SubSeq(c, 1, n)
<1>1. c \in Served /\ Cbf!ValidChain(c) /\ c \in Seq(DOMAIN Header)
    BY ServedFacts DEF Cbf!Chains
<1>2. Len(c) \in Nat /\ DOMAIN c = 1..Len(c)
    BY <1>1, SeqFacts
<1>3. DOMAIN d = 1..n /\ \A h \in 1..n : d[h] = c[h]
    BY <1>1, PrefixFacts
<1>4. ASSUME NEW h \in DOMAIN d PROVE Cbf!ValidHeader(SubSeq(d, 1, h - 1), d[h])
    <2>1. h \in DOMAIN c /\ d[h] = c[h] /\ h - 1 \in 0..n
        BY <1>2, <1>3
    <2>2. SubSeq(d, 1, h - 1) = SubSeq(c, 1, h - 1)
        BY <1>1, <2>1, PrefixOfPrefix
    <2>3. Cbf!ValidHeader(SubSeq(c, 1, h - 1), c[h])
        BY <1>1, <2>1 DEF Cbf!ValidChain
    <2> QED BY <2>1, <2>2, <2>3
<1>5. Cbf!ValidChain(d)
    BY <1>4 DEF Cbf!ValidChain
<1>6. d \in Served
    BY <1>1, ServedFacts
<1> QED BY <1>5, <1>6 DEF Cbf!Chains

\* The empty chain is one.
LEMMA EmptyChain ==
    ASSUME Cbf!CbfAssumption PROVE << >> \in Cbf!Chains
BY ServedFacts DEF Cbf!Chains, Cbf!ValidChain

\* Two chains agree up to some height and no further.
LEMMA CommonPrefixFacts ==
    ASSUME NEW S, NEW a \in Seq(S), NEW b \in Seq(S)
    PROVE  /\ Cbf!CommonPrefix(a, b) \in 0..Len(a) /\ Cbf!CommonPrefix(a, b) <= Len(b)
           /\ SubSeq(a, 1, Cbf!CommonPrefix(a, b)) = SubSeq(b, 1, Cbf!CommonPrefix(a, b))
           /\ \A i \in 1..Cbf!CommonPrefix(a, b) : a[i] = b[i]
<1> DEFINE Agree(n) == n <= Len(b) /\ SubSeq(a, 1, n) = SubSeq(b, 1, n)
           Ends(n) == n + 1 <= Len(a) /\ n + 1 <= Len(b) => a[n + 1] # b[n + 1]
           T == {k \in 0..Len(a) : Agree(Len(a) - k)}
<1>1. Len(a) \in Nat /\ Len(b) \in Nat
    BY SeqFacts
<1>2. Len(a) \in T
    <2>1. SubSeq(a, 1, 0) = << >> /\ SubSeq(b, 1, 0) = << >>
        BY SubSeqEmpty
    <2> QED BY <1>1, <2>1
<1>3. PICK m \in T : \A j \in T : m <= j
    <2>1. T \subseteq Nat /\ T # {}
        BY <1>1, <1>2
    <2> HIDE DEF T
    <2> QED BY <2>1, LeastNumber
<1> DEFINE n == Len(a) - m
<1>4. n \in 0..Len(a) /\ Agree(n)
    BY <1>1, <1>3
<1>5. Ends(n)
    <2> SUFFICES ASSUME n + 1 <= Len(a), n + 1 <= Len(b), a[n + 1] = b[n + 1] PROVE FALSE
        OBVIOUS
    <2>1. n + 1 \in 0..Len(a) /\ n + 1 \in 0..Len(b) /\ n \in 0..Len(b) /\ n \in Nat
        BY <1>1, <1>4
    <2> HIDE DEF n
    <2>2. /\ SubSeq(a, 1, n + 1) \in Seq(S) /\ Len(SubSeq(a, 1, n + 1)) = n + 1
          /\ \A i \in 1..n + 1 : SubSeq(a, 1, n + 1)[i] = a[i]
        BY <2>1, PrefixFacts
    <2>3. /\ SubSeq(b, 1, n + 1) \in Seq(S) /\ Len(SubSeq(b, 1, n + 1)) = n + 1
          /\ \A i \in 1..n + 1 : SubSeq(b, 1, n + 1)[i] = b[i]
        BY <2>1, PrefixFacts
    <2>4. \A i \in 1..n : a[i] = b[i]
        BY <1>4, <2>1, PrefixFacts
    <2>5. \A i \in 1..n + 1 : i \in 1..n \/ i = n + 1
        BY <2>1
    <2>6. \A i \in 1..n + 1 : SubSeq(a, 1, n + 1)[i] = SubSeq(b, 1, n + 1)[i]
        BY <2>2, <2>3, <2>4, <2>5
    <2>7. SubSeq(a, 1, n + 1) = SubSeq(b, 1, n + 1)
        BY <2>2, <2>3, <2>6, SeqEqual
    <2>8. n = Len(a) - m
        BY DEF n
    <2>9. m - 1 \in T
        <3>1. m - 1 \in 0..Len(a) /\ Len(a) - (m - 1) = n + 1
            BY <1>1, <1>3, <2>1, <2>8
        <3>2. Agree(n + 1)
            BY <2>1, <2>7
        <3> HIDE DEF Agree
        <3> QED BY <3>1, <3>2
    <2>10. m \in Nat /\ m <= m - 1
        <3> HIDE DEF Agree
        <3>1. m \in 0..Len(a)
            BY <1>3
        <3>2. m <= m - 1
            <4> HIDE DEF T
            <4> QED BY <1>3, <2>9
        <3> QED BY <1>1, <3>1, <3>2
    <2> QED BY <2>10
<1> DEFINE P(k) == /\ k <= Len(b) /\ SubSeq(a, 1, k) = SubSeq(b, 1, k)
                   /\ k + 1 <= Len(a) /\ k + 1 <= Len(b) => a[k + 1] # b[k + 1]
<1>6. Cbf!CommonPrefix(a, b) = CHOOSE k \in 0..Len(a) : P(k)
    BY DEF Cbf!CommonPrefix
<1>7. \E k \in 0..Len(a) : P(k)
    BY <1>4, <1>5
<1>8. Cbf!CommonPrefix(a, b) \in 0..Len(a) /\ P(Cbf!CommonPrefix(a, b))
    <2> HIDE DEF P
    <2> QED BY <1>6, <1>7
<1> DEFINE x == Cbf!CommonPrefix(a, b)
<1>9. \A i \in 1..x : SubSeq(a, 1, x)[i] = a[i] /\ SubSeq(b, 1, x)[i] = b[i]
    <2>1. x \in 0..Len(a) /\ x \in 0..Len(b)
        BY <1>1, <1>8
    <2> HIDE DEF x
    <2> QED BY <2>1, PrefixFacts
<1> QED BY <1>8, <1>9

\* The module's own copies of the finite set operators are the library's.
LEMMA CbfCardinality ==
    \A S : Cbf!Cardinality(S) = Cardinality(S) /\ (Cbf!IsFiniteSet(S) <=> IsFiniteSet(S))
BY DEF Cbf!Cardinality, Cardinality, Cbf!IsFiniteSet, IsFiniteSet

\* The sequences that the invariant is about.
CbfTyped ==
    /\ view \in [Peers -> Served] /\ lies \subseteq Liars
    /\ disk \in [headers : Cbf!Chains, filters : Seq(Cbf!Hashes)]
    /\ index \in [lineage : Cbf!Chains, found : SUBSET (Nat \X Cbf!BlockSet)]
    /\ phase \in {"off", "headers", "filters", "persist", "persisting", "ready", "failed"}
    /\ peers \subseteq Peers /\ chain \in Cbf!Chains /\ filters \in Seq(Cbf!Hashes)
    /\ cached \in BOOLEAN /\ mishaps \in 0..MaxMishaps

\* From the end of a sync to the end of the next round of headers, the filter
\* hashes are those that every peer of the session gives for the chain.
Attested ==
    phase \in {"persist", "persisting", "ready"} \/ (phase = "headers" /\ ~cached) =>
        peers # {} /\ \A p \in peers : filters = Cbf!FiltersOf(p, chain)

\* Before the second round they are a prefix of them, unless they come from
\* the cache: then each peer has to attest to them first.
Linked ==
    phase = "filters" /\ ~cached =>
        \A p \in peers : Len(filters) <= Len(chain) /\
                         filters = SubSeq(Cbf!FiltersOf(p, chain), 1, Len(filters))

\* The inductive invariant of the client.
CbfInv == CbfTyped /\ Attested /\ Linked /\ Cbf!IndexIsFullScan

\* The blocks of a served chain.
LEMMA ChainFacts ==
    ASSUME Cbf!CbfAssumption, NEW c \in Served
    PROVE  /\ c \in Seq(Cbf!BlockSet) /\ Len(c) \in Nat /\ DOMAIN c = 1..Len(c)
           /\ \A h \in 1..Len(c) : c[h] \in Cbf!BlockSet
<1>1. c \in Seq(DOMAIN Header) /\ Len(c) \in Nat /\ DOMAIN c = 1..Len(c)
    BY ServedFacts, SeqFacts
<1>2. ASSUME NEW h \in 1..Len(c) PROVE c[h] \in Cbf!BlockSet
    <2>1. c[h] \in Cbf!ToSet(c)
        BY <1>1 DEF Cbf!ToSet
    <2> QED BY <2>1 DEF Cbf!BlockSet
<1> QED BY <1>1, <1>2, ElementOfSeq

\* The hashes a peer gives: one for each block of the chain, of that block,
\* hiding something only if the peer lies.
LEMMA FiltersFacts ==
    ASSUME Cbf!CbfAssumption, NEW p, NEW c \in Served
    PROVE  /\ Cbf!FiltersOf(p, c) \in Seq(Cbf!Hashes) /\ Len(Cbf!FiltersOf(p, c)) = Len(c)
           /\ \A h \in 1..Len(c) :
                /\ Cbf!FiltersOf(p, c)[h] = Cbf!Hash(c[h], p \in lies /\ Cbf!Hidden(c[h]))
                /\ Cbf!FiltersOf(p, c)[h].block = c[h]
                /\ p \notin lies => ~Cbf!FiltersOf(p, c)[h].lie
<1> DEFINE f == Cbf!FiltersOf(p, c)
<1>1. Len(c) \in Nat /\ \A h \in 1..Len(c) : c[h] \in Cbf!BlockSet
    BY ChainFacts
<1>2. f = [h \in 1..Len(c) |-> Cbf!Hash(c[h], p \in lies /\ Cbf!Hidden(c[h]))]
    BY DEF Cbf!FiltersOf
<1> HIDE DEF f
<1>3. ASSUME NEW h \in 1..Len(c)
      PROVE  /\ f[h] = Cbf!Hash(c[h], p \in lies /\ Cbf!Hidden(c[h]))
             /\ f[h].block = c[h] /\ (p \notin lies => ~f[h].lie) /\ f[h] \in Cbf!Hashes
    <2>1. f[h] = Cbf!Hash(c[h], p \in lies /\ Cbf!Hidden(c[h]))
        BY <1>2
    <2> DEFINE v == p \in lies /\ Cbf!Hidden(c[h])
    <2>2. v \in BOOLEAN /\ (p \notin lies => v = FALSE)
        OBVIOUS
    <2>3. f[h] = [block |-> c[h], lie |-> v]
        BY <2>1, Zenon DEF Cbf!Hash
    <2> HIDE DEF v
    <2>4. f[h].block = c[h] /\ f[h].lie = v
        BY <2>3
    <2>5. f[h] \in Cbf!Hashes
        BY <1>1, <2>2, <2>3 DEF Cbf!Hashes
    <2>6. p \notin lies => ~f[h].lie
        BY <2>2, <2>4
    <2> QED BY <2>1, <2>4, <2>5, <2>6
<1>4. f \in Seq(Cbf!Hashes) /\ Len(f) = Len(c)
    <2>1. f \in [1..Len(c) -> Cbf!Hashes]
        BY <1>2, <1>3
    <2>2. f \in Seq(Cbf!Hashes)
        <3> DEFINE n == Len(c)
        <3>1. n \in Nat /\ f \in [1..n -> Cbf!Hashes]
            BY <1>1, <2>1
        <3> HIDE DEF n
        <3> HIDE DEF f
        <3> QED BY <3>1
    <2>3. DOMAIN f = 1..Len(c) /\ DOMAIN f = 1..Len(f) /\ Len(f) \in Nat
        BY <2>1, <2>2, SeqFacts
    <2>4. Len(f) = Len(c)
        BY <1>1, <2>3
    <2> QED BY <2>2, <2>4
<1>5. \A h \in 1..Len(c) :
         /\ f[h] = Cbf!Hash(c[h], p \in lies /\ Cbf!Hidden(c[h]))
         /\ f[h].block = c[h]
         /\ p \notin lies => ~f[h].lie
    BY <1>3
<1> QED BY <1>4, <1>5 DEF f

\* Two chains that agree up to a height have the same filter hashes up to it.
LEMMA FiltersAgree ==
    ASSUME Cbf!CbfAssumption, NEW p, NEW c \in Served, NEW d \in Served,
           NEW n \in 0..Len(c), n <= Len(d), \A i \in 1..n : c[i] = d[i]
    PROVE  SubSeq(Cbf!FiltersOf(p, c), 1, n) = SubSeq(Cbf!FiltersOf(p, d), 1, n)
<1> DEFINE f == Cbf!FiltersOf(p, c)
           g == Cbf!FiltersOf(p, d)
<1>1. Len(c) \in Nat /\ Len(d) \in Nat /\ n \in 0..Len(d)
    BY ChainFacts
<1>2. /\ f \in Seq(Cbf!Hashes) /\ Len(f) = Len(c) /\ g \in Seq(Cbf!Hashes) /\ Len(g) = Len(d)
      /\ \A h \in 1..Len(c) : f[h] = Cbf!Hash(c[h], p \in lies /\ Cbf!Hidden(c[h]))
      /\ \A h \in 1..Len(d) : g[h] = Cbf!Hash(d[h], p \in lies /\ Cbf!Hidden(d[h]))
    BY FiltersFacts
<1> HIDE DEF f, g
<1>3. f \in Seq(Cbf!Hashes) /\ n \in 0..Len(f) /\ g \in Seq(Cbf!Hashes) /\ n \in 0..Len(g)
    BY <1>1, <1>2
<1>4. \A i \in 1..n : i \in 1..Len(c) /\ i \in 1..Len(d)
    BY <1>1
<1>5. \A i \in 1..n : f[i] = g[i]
    BY <1>2, <1>4, Zenon
<1>6. /\ SubSeq(f, 1, n) \in Seq(Cbf!Hashes) /\ Len(SubSeq(f, 1, n)) = n
      /\ \A i \in 1..n : SubSeq(f, 1, n)[i] = f[i]
    BY <1>3, PrefixFacts, Zenon
<1>7. /\ SubSeq(g, 1, n) \in Seq(Cbf!Hashes) /\ Len(SubSeq(g, 1, n)) = n
      /\ \A i \in 1..n : SubSeq(g, 1, n)[i] = g[i]
    BY <1>3, PrefixFacts, Zenon
<1>8. SubSeq(f, 1, n) = SubSeq(g, 1, n)
    BY <1>5, <1>6, <1>7, SeqEqual
<1> QED BY <1>8 DEF f, g

\* Everything above holds at the start.
LEMMA CbfInit ==
    ASSUME Cbf!CbfAssumption PROVE Cbf!Init => CbfInv
<1> SUFFICES ASSUME Cbf!Init PROVE CbfInv
    OBVIOUS
<1>1. << >> \in Cbf!Chains /\ << >> \in Served /\ << >> \in Seq(Cbf!Hashes)
    BY EmptyChain, ServedFacts
<1>2. CbfTyped
    <2>1. disk \in [headers : Cbf!Chains, filters : Seq(Cbf!Hashes)]
        BY <1>1 DEF Cbf!Init
    <2>2. index \in [lineage : Cbf!Chains, found : SUBSET (Nat \X Cbf!BlockSet)]
        BY <1>1 DEF Cbf!Init
    <2>3. view \in [Peers -> Served]
        BY <1>1 DEF Cbf!Init
    <2>4. MaxMishaps \in Nat
        BY DEF Cbf!CbfAssumption
    <2>5. /\ lies \subseteq Liars /\ phase = "off" /\ peers = {} /\ chain = << >>
          /\ filters = << >> /\ cached = FALSE /\ mishaps = 0
        BY DEF Cbf!Init
    <2>6. mishaps \in 0..MaxMishaps
        BY <2>4, <2>5
    <2> QED BY <1>1, <2>1, <2>2, <2>3, <2>5, <2>6 DEF CbfTyped
<1>3. Attested /\ Linked
    BY DEF Cbf!Init, Attested, Linked
<1>4. Cbf!IndexIsFullScan
    <2>1. index.lineage = << >> /\ index.found = {}
        BY DEF Cbf!Init
    <2>2. Cbf!FullScan(index.lineage) = {}
        BY <2>1 DEF Cbf!FullScan
    <2> QED BY <2>1, <2>2 DEF Cbf!IndexIsFullScan
<1> QED BY <1>2, <1>3, <1>4 DEF CbfInv

\* Who lies is fixed, and with it what a peer says of a chain.
LEMMA FiltersFixed ==
    ASSUME lies' = lies
    PROVE  \A p : Cbf!FiltersOf(p, chain)' = Cbf!FiltersOf(p, chain')
BY DEF Cbf!FiltersOf

\* A step that leaves the session as it is.
LEMMA SessionKept ==
    ASSUME CbfInv, UNCHANGED <<lies, phase, peers, chain, filters, cached>>
    PROVE  Attested' /\ Linked'
<1>1. \A p : Cbf!FiltersOf(p, chain)' = Cbf!FiltersOf(p, chain)
    BY DEF Cbf!FiltersOf
<1>2. Attested'
    BY <1>1 DEF CbfInv, Attested
<1>3. Linked'
    BY <1>1 DEF CbfInv, Linked
<1> QED BY <1>2, <1>3

\* The filter hashes of a session that are the beginning of what a peer gives
\* are completed to all of it.
LEMMA SuffixCompletes ==
    ASSUME Cbf!CbfAssumption, CbfTyped, NEW p, Len(filters) <= Len(chain),
           filters = SubSeq(Cbf!FiltersOf(p, chain), 1, Len(filters))
    PROVE  filters \o Cbf!Suffix(p) = Cbf!FiltersOf(p, chain)
<1> DEFINE f == Cbf!FiltersOf(p, chain)
           k == Len(filters)
<1>1. f \in Seq(Cbf!Hashes) /\ Len(f) = Len(chain) /\ Len(chain) \in Nat /\ k \in Nat
    BY FiltersFacts, ChainFacts, SeqFacts DEF CbfTyped, Cbf!Chains
<1>2. Cbf!Suffix(p) = SubSeq(f, k + 1, Len(f))
    BY <1>1 DEF Cbf!Suffix
<1>3. filters = SubSeq(f, 1, k) /\ k <= Len(f)
    BY <1>1
<1> HIDE DEF f, k
<1>4. 1 \in 1..Len(f) + 1 /\ k \in 1 - 1..Len(f) /\ Len(f) \in k..Len(f)
    BY <1>1, <1>3
<1>5. SubSeq(f, 1, k) \o SubSeq(f, k + 1, Len(f)) = SubSeq(f, 1, Len(f))
    BY <1>1, <1>4, ConcatAdjacentSubSeq
<1>6. SubSeq(f, 1, Len(f)) = f
    BY <1>1, SubSeqFull
<1> QED BY <1>2, <1>3, <1>5, <1>6 DEF f

\* A peer that completes attests to everything the session holds: to a cache
\* by its tail and by what the tail links to.
LEMMA CompletesAttests ==
    ASSUME Cbf!CbfAssumption, CbfInv, phase = "filters", NEW p \in peers, Cbf!Completes(p)
    PROVE  filters \o Cbf!Suffix(p) = Cbf!FiltersOf(p, chain)
<1> DEFINE f == Cbf!FiltersOf(p, chain)
           k == Len(filters)
<1>1. CbfTyped /\ Linked /\ cached \in BOOLEAN /\ filters \in Seq(Cbf!Hashes)
    BY DEF CbfInv, CbfTyped
<1>2. f \in Seq(Cbf!Hashes) /\ Len(f) = Len(chain) /\ Len(chain) \in Nat /\ k \in Nat
    BY <1>1, FiltersFacts, ChainFacts, SeqFacts DEF CbfTyped, Cbf!Chains
<1>3. CASE ~cached
    <2>1. k <= Len(chain) /\ filters = SubSeq(f, 1, k)
        BY <1>1, <1>3 DEF Linked
    <2> QED BY <1>1, <2>1, SuffixCompletes
<1>4. CASE cached /\ filters = << >>
    <2>1. k = 0 /\ SubSeq(f, 1, 0) = << >>
        BY <1>4, SubSeqEmpty
    <2>2. k <= Len(chain) /\ filters = SubSeq(f, 1, k)
        BY <1>2, <1>4, <2>1
    <2> QED BY <1>1, <2>2, SuffixCompletes
<1>5. CASE cached /\ filters # << >>
    <2> DEFINE start == IF k > Window THEN k - Window ELSE 0
    <2>1. /\ k <= Len(chain) /\ SubSeq(f, 1, start) = SubSeq(filters, 1, start)
          /\ SubSeq(f, start + 1, k) = SubSeq(filters, start + 1, k)
        BY <1>5 DEF Cbf!Completes, Cbf!ReattestsTail
    <2>2. start \in 0..k
        BY <1>2 DEF Cbf!CbfAssumption
    <2> HIDE DEF start, f, k
    <2>3. k = Len(filters) /\ k \in 0..Len(f) /\ start \in 0..Len(f)
        BY <1>2, <2>1, <2>2 DEF k
    <2>4. /\ \A i \in 1..start : SubSeq(f, 1, start)[i] = f[i]
          /\ \A i \in 1..start : SubSeq(filters, 1, start)[i] = filters[i]
        BY <1>1, <1>2, <2>2, <2>3, PrefixFacts
    <2>5. /\ \A i \in 1..k - (start + 1) + 1 : SubSeq(f, start + 1, k)[i] = f[start + 1 + i - 1]
          /\ \A i \in 1..k - (start + 1) + 1 :
               SubSeq(filters, start + 1, k)[i] = filters[start + 1 + i - 1]
        <3>1. \A i \in start + 1..k : f[i] \in Cbf!Hashes /\ filters[i] \in Cbf!Hashes
            BY <1>1, <1>2, <2>2, <2>3, SeqFacts
        <3>2. start + 1 \in Int /\ k \in Int
            BY <1>2, <2>2
        <3> QED BY <3>1, <3>2, SubSeqProperties
    <2>6. ASSUME NEW i \in 1..k PROVE f[i] = filters[i]
        <3>1. CASE i <= start
            BY <1>2, <2>1, <2>2, <2>4, <3>1
        <3>2. CASE i > start
            <4> DEFINE j == i - start
            <4>1. j \in 1..k - (start + 1) + 1 /\ start + 1 + j - 1 = i
                BY <1>2, <2>2, <3>2
            <4> HIDE DEF j
            <4> QED BY <2>1, <2>5, <4>1
        <3> QED BY <1>2, <2>2, <3>1, <3>2
    <2>7. /\ SubSeq(f, 1, k) \in Seq(Cbf!Hashes) /\ Len(SubSeq(f, 1, k)) = k
          /\ \A i \in 1..k : SubSeq(f, 1, k)[i] = f[i]
        BY <1>2, <2>3, PrefixFacts
    <2>8. filters = SubSeq(f, 1, k)
        <3>1. \A i \in 1..Len(filters) : filters[i] = SubSeq(f, 1, k)[i]
            BY <2>3, <2>6, <2>7
        <3> QED BY <1>1, <2>3, <2>7, <3>1, SeqEqual
    <2>9. Len(filters) <= Len(chain) /\ filters = SubSeq(Cbf!FiltersOf(p, chain), 1, Len(filters))
        BY <2>1, <2>3, <2>8 DEF f
    <2> QED BY <1>1, <2>9, SuffixCompletes
<1> QED BY <1>1, <1>3, <1>4, <1>5

\* The first round.
LEMMA CbfSyncHeaders ==
    ASSUME Cbf!CbfAssumption, CbfInv, Cbf!SyncHeaders
    PROVE  CbfInv'
<1> DEFINE valid == {p \in peers : ~Cbf!Misled(p)}
           candidates == {Cbf!HeaderCandidate(chain, view[p]) : p \in valid}
<1>1. CbfTyped /\ Attested /\ Linked /\ Cbf!IndexIsFullScan
    BY DEF CbfInv
<1>2. phase = "headers" /\ UNCHANGED <<view, lies, disk, index, cached, verdict, mishaps>>
    BY DEF Cbf!SyncHeaders
<1>3. Cbf!IndexIsFullScan'
    BY <1>1, <1>2 DEF Cbf!IndexIsFullScan
<1>4. CASE Cbf!Fail /\ UNCHANGED <<chain, filters>>
    <2>1. CbfTyped'
        BY <1>1, <1>2, <1>4 DEF CbfTyped, Cbf!Fail
    <2>2. Attested' /\ Linked'
        BY <1>4 DEF Attested, Linked, Cbf!Fail
    <2> QED BY <1>3, <2>1, <2>2 DEF CbfInv
<1>5. ASSUME NEW agreed \in candidates, chain' = agreed, filters' = Cbf!Truncated(agreed),
             phase' = "filters", peers' = valid
      PROVE  CbfInv'
    <2> DEFINE n == Cbf!CommonPrefix(chain, agreed)
               k == IF n < Len(filters) THEN n ELSE Len(filters)
    <2>1. agreed \in Cbf!Chains
        <3>1. PICK p \in valid : agreed = Cbf!HeaderCandidate(chain, view[p])
            BY <1>5
        <3>2. view[p] \in Cbf!Chains
            BY <3>1 DEF Cbf!Misled
        <3> QED BY <1>1, <3>1, <3>2 DEF Cbf!HeaderCandidate, CbfTyped
    <2>2. /\ chain \in Served /\ agreed \in Served
          /\ chain \in Seq(Cbf!BlockSet) /\ agreed \in Seq(Cbf!BlockSet)
          /\ Len(chain) \in Nat /\ Len(agreed) \in Nat
        BY <1>1, <2>1, ChainFacts DEF CbfTyped, Cbf!Chains
    <2>3. /\ n \in 0..Len(chain) /\ n <= Len(agreed) /\ \A i \in 1..n : chain[i] = agreed[i]
        <3> HIDE DEF candidates
        <3>1. /\ Cbf!CommonPrefix(chain, agreed) \in 0..Len(chain)
              /\ Cbf!CommonPrefix(chain, agreed) <= Len(agreed)
              /\ \A i \in 1..Cbf!CommonPrefix(chain, agreed) : chain[i] = agreed[i]
            <4>1. chain \in Seq(Cbf!BlockSet) /\ agreed \in Seq(Cbf!BlockSet)
                BY <2>2
            <4> HIDE DEF n, k, valid
            <4> QED BY ONLY <4>1, CommonPrefixFacts
        <3> QED BY <3>1
    <2>4. filters \in Seq(Cbf!Hashes) /\ Len(filters) \in Nat
        BY <1>1, SeqFacts DEF CbfTyped
    <2>5. filters' = SubSeq(filters, 1, k)
        BY <1>5 DEF Cbf!Truncated
    <2> HIDE DEF n
    <2>6. k \in 0..Len(filters) /\ k <= Len(agreed)
        BY <2>2, <2>3, <2>4
    <2>7. filters' \in Seq(Cbf!Hashes) /\ Len(filters') = k
        <3> HIDE DEF k
        <3> QED BY <2>4, <2>5, <2>6, PrefixFacts
    <2>8. CbfTyped'
        BY <1>1, <1>2, <1>5, <2>1, <2>7 DEF CbfTyped
    <2>9. Attested'
        BY <1>5 DEF Attested
    <2>10. ASSUME ~cached, NEW p \in valid
           PROVE  Len(filters') <= Len(chain') /\
                  filters' = SubSeq(Cbf!FiltersOf(p, chain'), 1, Len(filters'))
        <3>1. filters = Cbf!FiltersOf(p, chain)
            BY <1>1, <1>2, <2>10 DEF Attested
        <3>2. Len(filters) = Len(chain)
            BY <2>2, <3>1, FiltersFacts
        <3>3. k = n
            BY <2>2, <2>3, <3>2
        <3> HIDE DEF k
        <3>4. SubSeq(Cbf!FiltersOf(p, chain), 1, n) = SubSeq(Cbf!FiltersOf(p, agreed), 1, n)
            BY <2>2, <2>3, FiltersAgree
        <3>5. filters' = SubSeq(Cbf!FiltersOf(p, agreed), 1, n)
            BY <2>5, <3>1, <3>3, <3>4
        <3> QED BY <1>5, <2>6, <2>7, <3>3, <3>5
    <2>11. Linked'
        <3>1. \A p : Cbf!FiltersOf(p, chain)' = Cbf!FiltersOf(p, chain')
            BY <1>2, FiltersFixed
        <3> QED BY <1>2, <1>5, <2>10, <3>1 DEF Linked
    <2> QED BY <1>3, <2>8, <2>9, <2>11 DEF CbfInv
<1> QED BY <1>4, <1>5 DEF Cbf!SyncHeaders

\* The second round: whatever was held, the peers that stay in the session
\* give exactly the filter hashes it ends with.
LEMMA CbfSyncFilters ==
    ASSUME Cbf!CbfAssumption, CbfInv, Cbf!SyncFilters
    PROVE  CbfInv'
<1>1. CbfTyped /\ Attested /\ Linked /\ Cbf!IndexIsFullScan
    BY DEF CbfInv
<1>2. phase = "filters" /\ UNCHANGED <<view, lies, disk, index, chain, cached, verdict, mishaps>>
    BY DEF Cbf!SyncFilters
<1>3. Cbf!IndexIsFullScan'
    BY <1>1, <1>2 DEF Cbf!IndexIsFullScan
<1>4. CASE Cbf!Fail /\ UNCHANGED filters
    <2>1. CbfTyped'
        BY <1>1, <1>2, <1>4 DEF CbfTyped, Cbf!Fail
    <2>2. Attested' /\ Linked'
        BY <1>4 DEF Attested, Linked, Cbf!Fail
    <2> QED BY <1>3, <2>1, <2>2 DEF CbfInv
<1>6. PICK asked \in SUBSET peers :
         LET done == {p \in asked : Cbf!Completes(p)}
         IN  IF done # {} /\ Cardinality({Cbf!Suffix(p) : p \in done}) = 1
             THEN /\ filters' = filters \o Cbf!Suffix(CHOOSE p \in done : TRUE)
                  /\ peers' = done /\ phase' = "persist"
             ELSE Cbf!Fail /\ UNCHANGED filters
    BY CbfCardinality DEF Cbf!SyncFilters
<1> DEFINE done == {p \in asked : Cbf!Completes(p)}
<1>5. ASSUME done # {}, Cardinality({Cbf!Suffix(p) : p \in done}) = 1,
             filters' = filters \o Cbf!Suffix(CHOOSE p \in done : TRUE),
             peers' = done, phase' = "persist"
      PROVE  CbfInv'
    <2> DEFINE q == CHOOSE p \in done : TRUE
               U == {Cbf!Suffix(p) : p \in done}
    <2>1. q \in done
        BY <1>5
    <2>2. IsFiniteSet(U)
        <3> DEFINE s == [p \in done |-> Cbf!Suffix(p)]
        <3>1. IsFiniteSet(done)
            <4>1. done \in SUBSET Peers /\ IsFiniteSet(Peers)
                <5>1. peers \subseteq Peers /\ done \subseteq asked
                    BY <1>1 DEF CbfTyped
                <5>2. IsFiniteSet(Peers)
                    BY CbfCardinality DEF Cbf!CbfAssumption
                <5> HIDE DEF done
                <5> QED BY <5>1, <5>2
            <4> QED BY <4>1, FS_Subset
        <3>2. s \in Surjection(done, U)
            BY DEF Surjection
        <3> HIDE DEF s, U
        <3> QED BY <3>1, <3>2, FS_Surjection
    <2>3. \A p \in done : Cbf!Suffix(p) = Cbf!Suffix(q)
        <3>1. Cardinality(U) = 1
            BY <1>5
        <3>2. PICK x : U = {x}
            <4> HIDE DEF U
            <4> QED BY <2>2, <3>1, FS_Singleton
        <3>3. Cbf!Suffix(q) = x /\ \A p \in done : Cbf!Suffix(p) = x
            BY <2>1, <3>2
        <3> QED BY <3>3
    <2>4. ASSUME NEW p \in done PROVE filters' = Cbf!FiltersOf(p, chain)
        <3>1. p \in peers /\ Cbf!Completes(p)
            BY <1>5
        <3>2. filters \o Cbf!Suffix(p) = Cbf!FiltersOf(p, chain)
            BY <1>2, <3>1, CompletesAttests
        <3> QED BY <1>5, <2>3, <3>2
    <2>5. filters' \in Seq(Cbf!Hashes)
        BY <1>1, <2>1, <2>4, FiltersFacts DEF CbfTyped, Cbf!Chains
    <2>6. CbfTyped'
        BY <1>1, <1>2, <1>5, <2>5 DEF CbfTyped
    <2>7. \A p : Cbf!FiltersOf(p, chain)' = Cbf!FiltersOf(p, chain)
        BY <1>2, FiltersFixed
    <2>8. Attested' /\ Linked'
        BY <1>5, <2>4, <2>7 DEF Attested, Linked
    <2> QED BY <1>3, <2>6, <2>8 DEF CbfInv
<1> QED BY <1>4, <1>5, <1>6

\* The scan: the index becomes what a full scan of the agreed chain finds.
LEMMA CbfScanSync ==
    ASSUME Cbf!CbfAssumption, CbfInv, Cbf!ScanSync
    PROVE  CbfInv'
<1> DEFINE old == index.lineage
           r == Cbf!CommonPrefix(old, chain)
           new == {<<h, chain[h]>> : h \in {i \in r + 1..Len(chain) : Cbf!FilterMatches(i, "anchor")}}
<1>1. CbfTyped /\ Attested /\ Linked /\ Cbf!IndexIsFullScan
    BY DEF CbfInv
<1>2. phase = "ready" /\ UNCHANGED <<view, lies, disk, phase, peers, chain, filters, cached, mishaps>>
    BY DEF Cbf!ScanSync, Cbf!session
<1>3. index' = [lineage |-> SubSeq(old, 1, r) \o SubSeq(chain, r + 1, Len(chain)),
                found |-> {o \in index.found : o[1] <= r} \union new]
    BY DEF Cbf!ScanSync, Cbf!Reconcile, Cbf!Kept
<1>4. /\ old \in Cbf!Chains /\ chain \in Cbf!Chains /\ old \in Served /\ chain \in Served
      /\ index.found \subseteq Nat \X Cbf!BlockSet
    BY <1>1 DEF CbfTyped, Cbf!Chains
<1>5. /\ old \in Seq(Cbf!BlockSet) /\ Len(old) \in Nat /\ DOMAIN old = 1..Len(old)
      /\ chain \in Seq(Cbf!BlockSet) /\ Len(chain) \in Nat /\ DOMAIN chain = 1..Len(chain)
      /\ \A h \in 1..Len(chain) : chain[h] \in Cbf!BlockSet
    BY <1>4, ChainFacts
<1>6. /\ r \in 0..Len(old) /\ r <= Len(chain) /\ SubSeq(old, 1, r) = SubSeq(chain, 1, r)
      /\ \A i \in 1..r : old[i] = chain[i]
    <2>1. old \in Seq(Cbf!BlockSet) /\ chain \in Seq(Cbf!BlockSet)
        BY <1>5
    <2> HIDE DEF old
    <2>2. /\ Cbf!CommonPrefix(old, chain) \in 0..Len(old) /\ Cbf!CommonPrefix(old, chain) <= Len(chain)
          /\ SubSeq(old, 1, Cbf!CommonPrefix(old, chain)) = SubSeq(chain, 1, Cbf!CommonPrefix(old, chain))
          /\ \A i \in 1..Cbf!CommonPrefix(old, chain) : old[i] = chain[i]
        BY ONLY <2>1, CommonPrefixFacts
    <2> QED BY <2>2
<1> HIDE DEF r
<1>7. SubSeq(old, 1, r) \o SubSeq(chain, r + 1, Len(chain)) = chain
    <2>1. 1 \in 1..Len(chain) + 1 /\ r \in 1 - 1..Len(chain) /\ Len(chain) \in r..Len(chain)
        BY <1>5, <1>6
    <2>2. SubSeq(chain, 1, r) \o SubSeq(chain, r + 1, Len(chain)) = SubSeq(chain, 1, Len(chain))
        BY <1>5, <2>1, ConcatAdjacentSubSeq
    <2> QED BY <1>5, <1>6, <2>2, SubSeqFull
<1>8. index' = [lineage |-> chain, found |-> {o \in index.found : o[1] <= r} \union new]
    BY <1>3, <1>7
<1>9. index'.lineage = chain /\ index'.found = {o \in index.found : o[1] <= r} \union new
    BY <1>8
<1>10. /\ index.found \subseteq Cbf!FullScan(old)
       /\ lies = {} => index.found = Cbf!FullScan(old)
    BY <1>1 DEF Cbf!IndexIsFullScan
<1>11. \A c : Cbf!FullScan(c) = {<<h, c[h]>> : h \in {i \in DOMAIN c : Cbf!Does(c[i], "anchor")}}
    BY DEF Cbf!FullScan
<1>12. index'.found \subseteq Cbf!FullScan(chain)
    <2>1. ASSUME NEW o \in index.found, o[1] <= r PROVE o \in Cbf!FullScan(chain)
        <3>1. PICK h \in {i \in DOMAIN old : Cbf!Does(old[i], "anchor")} : o = <<h, old[h]>>
            BY <1>10, <1>11
        <3>2. o[1] = h
            BY <3>1
        <3>3. h \in 1..r /\ old[h] = chain[h] /\ h \in DOMAIN chain
            BY <1>5, <1>6, <2>1, <3>1, <3>2
        <3>4. Cbf!Does(chain[h], "anchor") /\ o = <<h, chain[h]>>
            BY <3>1, <3>3
        <3> QED BY <1>11, <3>3, <3>4
    <2>2. ASSUME NEW o \in new PROVE o \in Cbf!FullScan(chain)
        <3>1. PICK h \in r + 1..Len(chain) : Cbf!FilterMatches(h, "anchor") /\ o = <<h, chain[h]>>
            BY <2>2
        <3>2. h \in DOMAIN chain
            BY <1>5, <1>6
        <3> QED BY <1>11, <3>1, <3>2 DEF Cbf!FilterMatches
    <2> QED BY <1>9, <2>1, <2>2
<1>13. ASSUME lies = {} PROVE Cbf!FullScan(chain) \subseteq index'.found
    <2> SUFFICES ASSUME NEW h \in DOMAIN chain, Cbf!Does(chain[h], "anchor")
                 PROVE  <<h, chain[h]>> \in index'.found
        BY <1>11
    <2>1. CASE h <= r
        <3>1. h \in 1..r /\ h \in DOMAIN old /\ old[h] = chain[h]
            BY <1>5, <1>6, <2>1
        <3>2. <<h, chain[h]>> \in Cbf!FullScan(old)
            BY <1>11, <3>1
        <3>3. <<h, chain[h]>> \in index.found /\ <<h, chain[h]>>[1] <= r
            BY <1>10, <1>13, <2>1, <3>2
        <3> QED BY <1>9, <3>3
    <2>2. CASE h > r
        <3>1. h \in r + 1..Len(chain)
            BY <1>5, <1>6, <2>2
        <3>2. PICK p \in peers : filters = Cbf!FiltersOf(p, chain)
            BY <1>1, <1>2 DEF Attested
        <3>3. ~filters[h].lie
            BY <1>4, <1>5, <1>13, <3>2, FiltersFacts
        <3>4. Cbf!FilterMatches(h, "anchor")
            BY <3>3 DEF Cbf!FilterMatches
        <3>5. <<h, chain[h]>> \in new
            BY <3>1, <3>4
        <3> QED BY <1>9, <3>5
    <2> QED BY <1>5, <1>6, <2>1, <2>2
<1> HIDE DEF old, new
<1>14. Cbf!FullScan(index.lineage)' = Cbf!FullScan(chain)
    BY <1>9 DEF Cbf!FullScan, Cbf!Does
<1>15. Cbf!IndexIsFullScan'
    BY <1>2, <1>12, <1>13, <1>14 DEF Cbf!IndexIsFullScan
<1>16. index'.found \subseteq Nat \X Cbf!BlockSet
    <2>1. Cbf!FullScan(chain) \subseteq Nat \X Cbf!BlockSet
        BY <1>5, <1>11
    <2> QED BY <1>12, <2>1
<1>17. index' \in [lineage : Cbf!Chains, found : SUBSET (Nat \X Cbf!BlockSet)]
    BY <1>4, <1>8, <1>9, <1>16
<1>18. CbfTyped'
    BY <1>1, <1>2, <1>17 DEF CbfTyped
<1> QED BY <1>2, <1>15, <1>18, SessionKept DEF CbfInv

\* Every step keeps the invariant.
LEMMA CbfStep ==
    ASSUME Cbf!CbfAssumption, CbfInv, [Cbf!Next]_Cbf!vars
    PROVE  CbfInv'
<1>1. CbfTyped /\ Attested /\ Linked /\ Cbf!IndexIsFullScan /\ MaxMishaps \in Nat
    BY DEF CbfInv, Cbf!CbfAssumption
<1>2. << >> \in Cbf!Chains /\ << >> \in Seq(Cbf!Hashes)
    BY EmptyChain
<1>3. ASSUME UNCHANGED <<lies, index>> PROVE Cbf!IndexIsFullScan'
    BY <1>1, <1>3 DEF Cbf!IndexIsFullScan
<1>4. ASSUME Cbf!Mishap PROVE mishaps' \in 0..MaxMishaps
    BY <1>1, <1>4 DEF Cbf!Mishap, CbfTyped
<1>5. CASE UNCHANGED Cbf!vars
    <2>1. CbfTyped'
        BY <1>1, <1>5 DEF Cbf!vars, Cbf!session, CbfTyped
    <2> QED BY <1>3, <1>5, <2>1, SessionKept DEF Cbf!vars, Cbf!session, CbfInv
<1>6. ASSUME NEW p \in Peers, Cbf!Adopt(p) PROVE CbfInv'
    <2>1. UNCHANGED <<lies, disk, index, phase, peers, chain, filters, cached, mishaps>>
        BY <1>6 DEF Cbf!Adopt, Cbf!session
    <2>2. PICK c \in Served : view' = [view EXCEPT ![p] = c]
        BY <1>6 DEF Cbf!Adopt, Cbf!Chains
    <2>3. view' \in [Peers -> Served]
        BY <1>1, <2>2 DEF CbfTyped
    <2>4. CbfTyped'
        BY <1>1, <2>1, <2>3 DEF CbfTyped
    <2> QED BY <1>3, <2>1, <2>4, SessionKept DEF CbfInv
<1>7. ASSUME NEW reached \in SUBSET Peers, Cbf!Connect(reached) PROVE CbfInv'
    <2>1. /\ phase' = "headers" /\ peers' = reached /\ cached' = TRUE
          /\ chain' = disk.headers /\ filters' = disk.filters /\ UNCHANGED <<view, lies, disk, index>>
          /\ mishaps' = mishaps \/ Cbf!Mishap
        BY <1>7 DEF Cbf!Connect
    <2>2. mishaps' \in 0..MaxMishaps
        BY <1>1, <1>4, <2>1 DEF CbfTyped
    <2>3. disk.headers \in Cbf!Chains /\ disk.filters \in Seq(Cbf!Hashes)
        BY <1>1 DEF CbfTyped
    <2>4. CbfTyped'
        BY <1>1, <2>1, <2>2, <2>3 DEF CbfTyped
    <2>5. Attested' /\ Linked'
        BY <2>1 DEF Attested, Linked
    <2> QED BY <1>3, <2>1, <2>4, <2>5 DEF CbfInv
<1>8. CASE Cbf!Resync
    <2>1. /\ phase = "ready" /\ phase' = "headers" /\ cached' = FALSE
          /\ UNCHANGED <<view, lies, disk, index, peers, chain, filters, mishaps>>
        BY <1>8 DEF Cbf!Resync
    <2>2. CbfTyped'
        BY <1>1, <2>1 DEF CbfTyped
    <2>3. Attested' /\ Linked'
        BY <1>1, <2>1 DEF Attested, Linked, Cbf!FiltersOf
    <2> QED BY <1>3, <2>1, <2>2, <2>3 DEF CbfInv
<1>9. CASE Cbf!PersistHeaders
    <2>1. /\ phase = "persist" /\ phase' = "persisting" /\ disk' = [disk EXCEPT !.headers = chain]
          /\ UNCHANGED <<view, lies, index, peers, chain, filters, cached, mishaps>>
        BY <1>9 DEF Cbf!PersistHeaders
    <2>2. disk' \in [headers : Cbf!Chains, filters : Seq(Cbf!Hashes)]
        BY <1>1, <2>1 DEF CbfTyped
    <2>3. CbfTyped'
        BY <1>1, <2>1, <2>2 DEF CbfTyped
    <2>4. Attested' /\ Linked'
        BY <1>1, <2>1 DEF Attested, Linked, Cbf!FiltersOf
    <2> QED BY <1>3, <2>1, <2>3, <2>4 DEF CbfInv
<1>10. CASE Cbf!PersistFilters
    <2>1. /\ phase = "persisting" /\ phase' = "ready" /\ disk' = [disk EXCEPT !.filters = filters]
          /\ UNCHANGED <<view, lies, index, peers, chain, filters, cached, mishaps>>
        BY <1>10 DEF Cbf!PersistFilters
    <2>2. disk' \in [headers : Cbf!Chains, filters : Seq(Cbf!Hashes)]
        BY <1>1, <2>1 DEF CbfTyped
    <2>3. CbfTyped'
        BY <1>1, <2>1, <2>2 DEF CbfTyped
    <2>4. Attested' /\ Linked'
        BY <1>1, <2>1 DEF Attested, Linked, Cbf!FiltersOf
    <2> QED BY <1>3, <2>1, <2>3, <2>4 DEF CbfInv
<1>11. CASE Cbf!Drop
    <2>1. /\ phase' = "off" /\ chain' = << >> /\ filters' = << >> /\ cached' = FALSE
          /\ UNCHANGED <<view, lies, disk, index, peers, mishaps>>
        BY <1>11 DEF Cbf!Drop
    <2>2. CbfTyped'
        BY <1>1, <1>2, <2>1 DEF CbfTyped
    <2>3. Attested' /\ Linked'
        BY <2>1 DEF Attested, Linked
    <2> QED BY <1>3, <2>1, <2>2, <2>3 DEF CbfInv
<1>12. CASE Cbf!Crash
    <2>1. /\ phase' = "off" /\ peers' = {} /\ chain' = << >> /\ filters' = << >> /\ cached' = FALSE
          /\ UNCHANGED <<view, lies, index>> /\ Cbf!Mishap
        BY <1>12 DEF Cbf!Crash
    <2>2. /\ disk \in [headers : Cbf!Chains, filters : Seq(Cbf!Hashes)]
          /\ disk.headers \in Cbf!Chains /\ disk.filters \in Seq(Cbf!Hashes)
        BY <1>1 DEF CbfTyped
    <2>3. Cbf!Prefixes(chain) \subseteq Cbf!Chains
        <3>1. chain \in Cbf!Chains
            BY <1>1 DEF CbfTyped
        <3>2. ASSUME NEW n \in 0..Len(chain) PROVE SubSeq(chain, 1, n) \in Cbf!Chains
            BY <3>1, ChainPrefix
        <3> QED BY <3>2 DEF Cbf!Prefixes
    <2>4. Cbf!Prefixes(filters) \subseteq Seq(Cbf!Hashes)
        <3>1. filters \in Seq(Cbf!Hashes)
            BY <1>1 DEF CbfTyped
        <3>2. ASSUME NEW n \in 0..Len(filters) PROVE SubSeq(filters, 1, n) \in Seq(Cbf!Hashes)
            BY <3>1, PrefixFacts
        <3> QED BY <3>2 DEF Cbf!Prefixes
    <2>5. \/ \E c \in {disk.headers} \union Cbf!Prefixes(chain) : disk' = [disk EXCEPT !.headers = c]
          \/ \E f \in {disk.filters} \union Cbf!Prefixes(filters) : disk' = [disk EXCEPT !.filters = f]
          \/ disk' = disk
        BY <1>12 DEF Cbf!Crash
    <2>6. disk' \in [headers : Cbf!Chains, filters : Seq(Cbf!Hashes)]
        BY <2>2, <2>3, <2>4, <2>5
    <2>7. CbfTyped'
        BY <1>1, <1>2, <1>4, <2>1, <2>6 DEF CbfTyped
    <2>8. Attested' /\ Linked'
        BY <2>1 DEF Attested, Linked
    <2> QED BY <1>3, <2>1, <2>7, <2>8 DEF CbfInv
<1>13. CASE Cbf!DiscardIndex
    <2>1. /\ index' = [lineage |-> << >>, found |-> {}] /\ Cbf!Mishap
          /\ UNCHANGED <<view, lies, disk, phase, peers, chain, filters, cached>>
        BY <1>13 DEF Cbf!DiscardIndex, Cbf!session
    <2>2. index' \in [lineage : Cbf!Chains, found : SUBSET (Nat \X Cbf!BlockSet)]
        BY <1>2, <2>1
    <2>3. CbfTyped'
        BY <1>1, <1>4, <2>1, <2>2 DEF CbfTyped
    <2>4. Cbf!IndexIsFullScan'
        <3>1. index'.lineage = << >> /\ index'.found = {}
            BY <2>1
        <3> QED BY <3>1 DEF Cbf!IndexIsFullScan, Cbf!FullScan
    <2> QED BY <2>1, <2>3, <2>4, SessionKept DEF CbfInv
<1>14. ASSUME NEW birth \in 1..Len(chain), NEW value \in {"right", "wrong"},
              Cbf!VerifyOutpoint(birth, value)
       PROVE  CbfInv'
    <2>1. UNCHANGED <<view, lies, disk, index, mishaps>>
        BY <1>14 DEF Cbf!VerifyOutpoint
    <2>2. CASE UNCHANGED Cbf!session
        <3>1. UNCHANGED <<phase, peers, chain, filters, cached>>
            BY <2>2 DEF Cbf!session
        <3>2. CbfTyped'
            BY <1>1, <2>1, <3>1 DEF CbfTyped
        <3> QED BY <1>3, <2>1, <3>1, <3>2, SessionKept DEF CbfInv
    <2>3. CASE Cbf!Fail /\ UNCHANGED <<chain, filters, cached>>
        <3>1. CbfTyped'
            BY <1>1, <2>1, <2>3 DEF CbfTyped, Cbf!Fail
        <3>2. Attested' /\ Linked'
            BY <2>3 DEF Attested, Linked, Cbf!Fail
        <3> QED BY <1>3, <2>1, <3>1, <3>2 DEF CbfInv
    <2> QED BY <1>14, <2>2, <2>3 DEF Cbf!VerifyOutpoint
<1>15. ASSUME NEW b \in Cbf!BlockSet, NEW height \in 1..Len(chain) + 1, NEW required \in 1..2,
              Cbf!VerifyAnchor(b, height, required)
       PROVE  CbfInv'
    <2>1. UNCHANGED <<view, lies, disk, index, phase, peers, chain, filters, cached, mishaps>>
        BY <1>15 DEF Cbf!VerifyAnchor, Cbf!session
    <2>2. CbfTyped'
        BY <1>1, <2>1 DEF CbfTyped
    <2> QED BY <1>3, <2>1, <2>2, SessionKept DEF CbfInv
<1>16. ASSUME Cbf!SyncHeaders PROVE CbfInv'
    BY <1>16, CbfSyncHeaders
<1>17. ASSUME Cbf!SyncFilters PROVE CbfInv'
    BY <1>17, CbfSyncFilters
<1>18. ASSUME Cbf!ScanSync PROVE CbfInv'
    BY <1>18, CbfScanSync
<1> QED BY <1>5, <1>6, <1>7, <1>8, <1>9, <1>10, <1>11, <1>12, <1>13, <1>14, <1>15, <1>16, <1>17, <1>18
        DEF Cbf!Next

\* The invariant of the filter client, for every set of peers and liars, every
\* set of header chains, and every number of failures.
THEOREM CbfInvariant ==
    ASSUME Cbf!CbfAssumption PROVE Cbf!Spec => []CbfInv
<1>1. Cbf!Init => CbfInv
    BY CbfInit
<1>2. CbfInv /\ [Cbf!Next]_Cbf!vars => CbfInv'
    BY CbfStep
<1> QED BY <1>1, <1>2, PTL DEF Cbf!Spec

\* One hash for each block of the agreed chain, of that very block.
THEOREM CbfFiltersAligned ==
    ASSUME Cbf!CbfAssumption PROVE Cbf!Spec => []Cbf!FiltersAligned
<1>1. CbfInv => Cbf!FiltersAligned
    <2> SUFFICES ASSUME CbfInv, phase = "ready"
                 PROVE  Len(filters) = Len(chain) /\ \A h \in DOMAIN chain : filters[h].block = chain[h]
        BY DEF Cbf!FiltersAligned
    <2>1. chain \in Served
        BY DEF CbfInv, CbfTyped, Cbf!Chains
    <2>2. PICK p \in peers : filters = Cbf!FiltersOf(p, chain)
        BY DEF CbfInv, Attested
    <2>3. DOMAIN chain = 1..Len(chain)
        BY <2>1, ChainFacts
    <2> QED BY <2>1, <2>2, <2>3, FiltersFacts
<1> QED BY <1>1, CbfInvariant, PTL

\* The chain of a finished sync obeys the header rules, and one honest peer in
\* the session means that no filter hash of it is a lie.
THEOREM CbfHonestPeerPrevails ==
    ASSUME Cbf!CbfAssumption PROVE Cbf!Spec => []Cbf!HonestPeerPrevails
<1>1. CbfInv => Cbf!HonestPeerPrevails
    <2> SUFFICES ASSUME CbfInv, phase = "ready"
                 PROVE  /\ chain \in Cbf!Chains
                        /\ peers \ lies # {} => \A h \in DOMAIN filters : ~filters[h].lie
        BY DEF Cbf!HonestPeerPrevails
    <2>1. chain \in Cbf!Chains /\ chain \in Served
        BY DEF CbfInv, CbfTyped, Cbf!Chains
    <2>2. ASSUME NEW p \in peers \ lies, NEW h \in DOMAIN filters PROVE ~filters[h].lie
        <3>1. filters = Cbf!FiltersOf(p, chain)
            BY DEF CbfInv, Attested
        <3>2. DOMAIN filters = 1..Len(chain)
            BY <2>1, <3>1, FiltersFacts, SeqFacts
        <3> QED BY <2>1, <2>2, <3>1, <3>2, FiltersFacts
    <2> QED BY <2>1, <2>2
<1> QED BY <1>1, CbfInvariant, PTL

\* The scan index is a full scan of its lineage.
THEOREM CbfIndexIsFullScan ==
    ASSUME Cbf!CbfAssumption PROVE Cbf!Spec => []Cbf!IndexIsFullScan
<1>1. CbfInv => Cbf!IndexIsFullScan
    BY DEF CbfInv
<1> QED BY <1>1, CbfInvariant, PTL

----------------------------------------------------------------------------
(* The index of anchors. *)

\* A sequence is a prefix of another one if it agrees with it place by place.
LEMMA IdxPrefix ==
    ASSUME NEW S, NEW s \in Seq(S), NEW t \in Seq(S)
    PROVE  Idx!IsPrefix(s, t) <=> Len(s) <= Len(t) /\ \A i \in 1..Len(s) : s[i] = t[i]
<1>1. Len(s) \in Nat /\ Len(t) \in Nat
    BY SeqFacts
<1>2. ASSUME Len(s) <= Len(t)
      PROVE  SubSeq(s, 1, Len(s)) = SubSeq(t, 1, Len(s)) <=> \A i \in 1..Len(s) : s[i] = t[i]
    <2> DEFINE n == Len(s)
    <2>1. n \in 0..Len(s) /\ n \in 0..Len(t)
        BY <1>1, <1>2
    <2> HIDE DEF n
    <2>2. /\ SubSeq(s, 1, n) \in Seq(S) /\ Len(SubSeq(s, 1, n)) = n
          /\ \A i \in 1..n : SubSeq(s, 1, n)[i] = s[i]
        BY <2>1, PrefixFacts
    <2>3. /\ SubSeq(t, 1, n) \in Seq(S) /\ Len(SubSeq(t, 1, n)) = n
          /\ \A i \in 1..n : SubSeq(t, 1, n)[i] = t[i]
        BY <2>1, PrefixFacts
    <2>4. ASSUME \A i \in 1..n : s[i] = t[i] PROVE SubSeq(s, 1, n) = SubSeq(t, 1, n)
        <3>1. \A i \in 1..n : SubSeq(s, 1, n)[i] = SubSeq(t, 1, n)[i]
            BY <2>2, <2>3, <2>4
        <3> QED BY <2>2, <2>3, <3>1, SeqEqual
    <2>5. ASSUME SubSeq(s, 1, n) = SubSeq(t, 1, n) PROVE \A i \in 1..n : s[i] = t[i]
        BY <2>2, <2>3, <2>5
    <2> QED BY <2>4, <2>5 DEF n
<1> QED BY <1>2 DEF Idx!IsPrefix

\* What a concatenation holds.
LEMMA IdxConcat ==
    ASSUME NEW S, NEW s \in Seq(S), NEW t \in Seq(S)
    PROVE  s \o t \in Seq(S) /\ Idx!ToSet(s \o t) = Idx!ToSet(s) \union Idx!ToSet(t)
<1> DEFINE u == s \o t
<1>1. /\ u \in Seq(S) /\ Len(u) = Len(s) + Len(t)
      /\ \A i \in 1..Len(s) + Len(t) : u[i] = IF i <= Len(s) THEN s[i] ELSE t[i - Len(s)]
    BY ConcatProperties
<1>2. /\ DOMAIN s = 1..Len(s) /\ DOMAIN t = 1..Len(t) /\ Len(s) \in Nat /\ Len(t) \in Nat
    BY SeqFacts
<1> HIDE DEF u
<1>3. DOMAIN u = 1..Len(s) + Len(t)
    BY <1>1, SeqFacts
<1>4. ASSUME NEW i \in DOMAIN s PROVE s[i] \in Idx!ToSet(u)
    <2>1. i \in DOMAIN u /\ u[i] = s[i]
        BY <1>1, <1>2, <1>3
    <2> QED BY <2>1 DEF Idx!ToSet
<1>5. ASSUME NEW i \in DOMAIN t PROVE t[i] \in Idx!ToSet(u)
    <2> DEFINE j == Len(s) + i
    <2>1. j \in 1..Len(s) + Len(t) /\ ~(j <= Len(s)) /\ j - Len(s) = i
        BY <1>2
    <2> HIDE DEF j
    <2>2. j \in DOMAIN u /\ u[j] = t[i]
        BY <1>1, <1>3, <2>1
    <2> QED BY <2>2 DEF Idx!ToSet
<1>6. ASSUME NEW i \in DOMAIN u PROVE u[i] \in Idx!ToSet(s) \union Idx!ToSet(t)
    <2>1. CASE i <= Len(s)
        <3>1. i \in DOMAIN s /\ u[i] = s[i]
            BY <1>1, <1>2, <1>3, <2>1
        <3> QED BY <3>1 DEF Idx!ToSet
    <2>2. CASE ~(i <= Len(s))
        <3>1. i - Len(s) \in DOMAIN t /\ u[i] = t[i - Len(s)]
            BY <1>1, <1>2, <1>3, <2>2
        <3> QED BY <3>1 DEF Idx!ToSet
    <2> QED BY <2>1, <2>2
<1>7. Idx!ToSet(u) = Idx!ToSet(s) \union Idx!ToSet(t)
    BY <1>4, <1>5, <1>6 DEF Idx!ToSet
<1> QED BY <1>1, <1>7 DEF u

\* An entry of the index: an anchor and its place in a chain.
Entry == [tx : Txs, height : Nat, pos : Nat]
EntryAt(blocks, h, p) == [tx |-> blocks[h].txs[p], height |-> h, pos |-> p]

\* The anchors of a block are a sequence.
LEMMA IdxBlock ==
    ASSUME NEW b \in Idx!Blocks PROVE b.txs \in Seq(Txs)
<1>1. b.txs \in Idx!SeqOf(Txs, BlockSize)
    BY DEF Idx!Blocks
<1>2. PICK m \in 0..BlockSize : b.txs \in [1..m -> Txs]
    BY <1>1 DEF Idx!SeqOf
<1>3. m \in Nat
    OBVIOUS
<1> QED BY <1>2, <1>3

\* The entries of a block, one for each anchor.
LEMMA IdxEntries ==
    ASSUME NEW blocks \in Seq(Idx!Blocks), NEW h \in 1..Len(blocks)
    PROVE  /\ Idx!EntriesIn(blocks[h], h) \in Seq(Entry)
           /\ Len(Idx!EntriesIn(blocks[h], h)) = Len(blocks[h].txs)
           /\ DOMAIN Idx!EntriesIn(blocks[h], h) = DOMAIN blocks[h].txs
           /\ \A p \in DOMAIN blocks[h].txs :
                Idx!EntriesIn(blocks[h], h)[p] = EntryAt(blocks, h, p)
<1> DEFINE x == blocks[h].txs
           e == Idx!EntriesIn(blocks[h], h)
<1>1. x \in Seq(Txs)
    BY IdxBlock, SeqFacts
<1>2. Len(x) \in Nat /\ DOMAIN x = 1..Len(x) /\ \A p \in 1..Len(x) : x[p] \in Txs
    BY <1>1, SeqFacts
<1>3. h \in Nat
    BY SeqFacts
<1>4. e = [p \in 1..Len(x) |-> [tx |-> x[p], height |-> h, pos |-> p]]
    BY <1>2 DEF Idx!EntriesIn
<1> HIDE DEF e, x
<1>5. e \in [1..Len(x) -> Entry]
    BY <1>2, <1>3, <1>4 DEF Entry
<1>6. e \in Seq(Entry)
    <2> DEFINE n == Len(x)
    <2>1. n \in Nat /\ e \in [1..n -> Entry]
        BY <1>2, <1>5
    <2> HIDE DEF n
    <2> QED BY <2>1
<1>7. Len(e) = Len(x) /\ DOMAIN e = 1..Len(x)
    <2> DEFINE n == Len(x)
    <2>1. n \in Nat /\ e \in [1..n -> Entry]
        BY <1>2, <1>5
    <2> HIDE DEF n
    <2>2. Len(e) = n /\ DOMAIN e = 1..n
        BY <2>1
    <2> QED BY <2>2 DEF n
<1>8. \A p \in DOMAIN x : e[p] = [tx |-> x[p], height |-> h, pos |-> p]
    BY <1>2, <1>4
<1> QED BY <1>2, <1>6, <1>7, <1>8 DEF e, x, EntryAt

\* What a full scan finds, entry by entry.
LEMMA IdxAnchors ==
    ASSUME NEW blocks \in Seq(Idx!Blocks), NEW start, NEW e
    PROVE  e \in Idx!AnchorsOf(blocks, start) <=>
             \E h \in 1..Len(blocks) : h >= start /\
               \E p \in DOMAIN blocks[h].txs : e = EntryAt(blocks, h, p)
<1>1. DOMAIN blocks = 1..Len(blocks)
    BY SeqFacts
<1>2. ASSUME NEW h \in 1..Len(blocks)
      PROVE  e \in Idx!ToSet(Idx!EntriesIn(blocks[h], h)) <=>
               \E p \in DOMAIN blocks[h].txs : e = EntryAt(blocks, h, p)
    <2>1. /\ DOMAIN Idx!EntriesIn(blocks[h], h) = DOMAIN blocks[h].txs
          /\ \A p \in DOMAIN blocks[h].txs :
               Idx!EntriesIn(blocks[h], h)[p] = EntryAt(blocks, h, p)
        BY IdxEntries
    <2> QED BY <2>1 DEF Idx!ToSet
<1>3. e \in Idx!AnchorsOf(blocks, start) <=>
        \E h \in 1..Len(blocks) : h >= start /\ e \in Idx!ToSet(Idx!EntriesIn(blocks[h], h))
    BY <1>1 DEF Idx!AnchorsOf
<1> QED BY <1>2, <1>3

\* A prefix has a part of the anchors.
LEMMA IdxAnchorsPrefix ==
    ASSUME NEW s \in Seq(Idx!Blocks), NEW t \in Seq(Idx!Blocks), NEW start,
           Idx!IsPrefix(s, t)
    PROVE  Idx!AnchorsOf(s, start) \subseteq Idx!AnchorsOf(t, start)
<1> SUFFICES ASSUME NEW e \in Idx!AnchorsOf(s, start) PROVE e \in Idx!AnchorsOf(t, start)
    OBVIOUS
<1>1. Len(s) <= Len(t) /\ \A i \in 1..Len(s) : s[i] = t[i]
    BY IdxPrefix
<1>2. Len(s) \in Nat /\ Len(t) \in Nat
    BY SeqFacts
<1>3. PICK h \in 1..Len(s) : h >= start /\ \E p \in DOMAIN s[h].txs : e = EntryAt(s, h, p)
    BY IdxAnchors
<1>4. h \in 1..Len(t) /\ s[h] = t[h]
    BY <1>1, <1>2
<1>5. \E p \in DOMAIN t[h].txs : e = EntryAt(t, h, p)
    BY <1>3, <1>4 DEF EntryAt
<1> QED BY <1>3, <1>4, <1>5, IdxAnchors

\* The anchors of the last block of a branch.
LastEntries(b) == Idx!EntriesIn(Idx!Last(b), Len(b))

\* The entries of a branch's last block are those of its transactions at that height.
LEMMA IdxLastEntries ==
    ASSUME NEW b \in Seq(Idx!Blocks), b # << >>
    PROVE  /\ LastEntries(b) \in Seq(Entry) /\ Len(b) \in 1..Len(b)
           /\ \A e : e \in Idx!ToSet(LastEntries(b)) <=>
                \E p \in DOMAIN b[Len(b)].txs : e = EntryAt(b, Len(b), p)
<1>1. Len(b) \in 1..Len(b)
    BY SeqFacts, EmptySeq
<1>2. Idx!Last(b) = b[Len(b)]
    BY DEF Idx!Last
<1>3. LastEntries(b) = Idx!EntriesIn(b[Len(b)], Len(b))
    BY <1>2 DEF LastEntries
<1>4. /\ LastEntries(b) \in Seq(Entry) /\ DOMAIN LastEntries(b) = DOMAIN b[Len(b)].txs
      /\ \A p \in DOMAIN b[Len(b)].txs : LastEntries(b)[p] = EntryAt(b, Len(b), p)
    BY <1>1, <1>3, IdxEntries
<1> QED BY <1>1, <1>4 DEF Idx!ToSet

\* One more block adds its own anchors to those of the branch below it.
LEMMA IdxAnchorsNext ==
    ASSUME NEW s \in Seq(Idx!Blocks), NEW b \in Seq(Idx!Blocks), NEW start \in Nat,
           b # << >>, Idx!IsPrefix(s, b), Len(b) = IF s = << >> THEN start ELSE Len(s) + 1
    PROVE  Idx!AnchorsOf(b, start) \subseteq Idx!AnchorsOf(s, start) \union Idx!ToSet(LastEntries(b))
<1> SUFFICES ASSUME NEW e \in Idx!AnchorsOf(b, start), e \notin Idx!ToSet(LastEntries(b))
             PROVE  e \in Idx!AnchorsOf(s, start)
    OBVIOUS
<1>1. Len(s) <= Len(b) /\ \A i \in 1..Len(s) : s[i] = b[i]
    BY IdxPrefix
<1>2. Len(s) \in Nat /\ Len(b) \in Nat
    BY SeqFacts
<1>3. PICK h \in 1..Len(b) : h >= start /\ \E p \in DOMAIN b[h].txs : e = EntryAt(b, h, p)
    BY IdxAnchors
<1>4. h # Len(b)
    BY <1>3, IdxLastEntries
<1>5. h \in 1..Len(s) /\ s[h] = b[h]
    BY <1>1, <1>2, <1>3, <1>4
<1>6. \E p \in DOMAIN s[h].txs : e = EntryAt(s, h, p)
    BY <1>3, <1>5 DEF EntryAt
<1> QED BY <1>3, <1>5, <1>6, IdxAnchors

\* The anchors of its last block are anchors of a branch.
LEMMA IdxAnchorsLast ==
    ASSUME NEW b \in Seq(Idx!Blocks), NEW start \in Nat, b # << >>, Len(b) >= start
    PROVE  Idx!ToSet(LastEntries(b)) \subseteq Idx!AnchorsOf(b, start)
<1>1. Len(b) \in 1..Len(b)
    BY IdxLastEntries
<1> SUFFICES ASSUME NEW e \in Idx!ToSet(LastEntries(b)) PROVE e \in Idx!AnchorsOf(b, start)
    OBVIOUS
<1>2. \E p \in DOMAIN b[Len(b)].txs : e = EntryAt(b, Len(b), p)
    BY IdxLastEntries
<1> QED BY <1>1, <1>2, IdxAnchors

----------------------------------------------------------------------------
(* What an index holds, in memory and on disk. *)

\* The type of an index.
IdxFiles ==
    [start : Nat, scanned : Seq(Idx!Blocks), entries : Seq(Entry), tip : Nat,
     part : Seq(Idx!Blocks), torn : BOOLEAN]

\* The height that is scanned next, and the chain the entries may come from:
\* that of the last whole scan, or the one a block was read from in part.
NextOf(f) == IF f.scanned = << >> THEN f.start ELSE Len(f.scanned) + 1
Branch(f) == IF f.part = << >> THEN f.scanned ELSE f.part

\* The entries are those of the scanned blocks, and more only from the block
\* that was read in part.
Covered(f) ==
    /\ Idx!AnchorsOf(f.scanned, f.start) \subseteq Idx!ToSet(f.entries)
    /\ Idx!ToSet(f.entries) \subseteq Idx!AnchorsOf(Branch(f), f.start)
    /\ f.part # << >> => Idx!IsPrefix(f.scanned, f.part)

\* An index of a chain of n blocks.
Whole(f, n) ==
    /\ f \in IdxFiles
    /\ f.start >= 1 /\ (f.scanned # << >> => Len(f.scanned) >= f.start)
    /\ f.part # << >> => Len(f.part) = NextOf(f) /\ Len(f.part) <= n
    /\ ~f.torn => Covered(f)

\* The empty sequence.
LEMMA IdxEmptySeq ==
    /\ << >> \in Seq(Idx!Blocks) /\ << >> \in Seq(Entry)
    /\ Idx!ToSet(<< >>) = {} /\ \A start : Idx!AnchorsOf(<< >>, start) = {}
<1>1. << >> \in Seq(Idx!Blocks) /\ << >> \in Seq(Entry) /\ DOMAIN << >> = {}
    BY EmptySeq
<1> QED BY <1>1 DEF Idx!ToSet, Idx!AnchorsOf

\* An index that has not read a block.
LEMMA WholeEmpty ==
    ASSUME NEW f \in IdxFiles, NEW n \in Nat, f.start >= 1,
           f.scanned = << >>, f.entries = << >>, f.part = << >>
    PROVE  Whole(f, n)
BY IdxEmptySeq DEF Whole, Covered, Branch

\* What is read stays as the chain grows, whatever tip is remembered.
LEMMA WholeKept ==
    ASSUME NEW m \in Nat, NEW n \in Nat, NEW f, NEW g \in IdxFiles, Whole(f, m), m <= n,
           g.start = f.start, g.scanned = f.scanned, g.entries = f.entries, g.part = f.part,
           g.torn = f.torn
    PROVE  Whole(g, n)
<1>1. f.part \in Seq(Idx!Blocks)
    BY DEF Whole, IdxFiles
<1>2. Len(f.part) \in Nat
    BY <1>1, SeqFacts
<1> QED BY <1>2 DEF Whole, Covered, Branch, NextOf

\* The server begins to read the next block.
LEMMA WholeBegins ==
    ASSUME NEW n \in Nat, NEW f, NEW g \in IdxFiles, Whole(f, n),
           g.start = f.start, g.scanned = f.scanned, g.entries = f.entries,
           g.part # << >>, Len(g.part) = NextOf(f), NextOf(f) <= n,
           ~g.torn => /\ ~f.torn /\ f.part \in {<< >>, g.part}
                      /\ Idx!IsPrefix(f.scanned, g.part)
    PROVE  Whole(g, n)
<1>1. NextOf(g) = NextOf(f)
    BY DEF NextOf
<1>2. f.scanned \in Seq(Idx!Blocks) /\ g.part \in Seq(Idx!Blocks)
    BY DEF Whole, IdxFiles
<1>3. ASSUME ~g.torn PROVE Covered(g)
    <2>1. Covered(f) /\ Idx!IsPrefix(f.scanned, g.part) /\ f.part \in {<< >>, g.part}
        BY <1>3 DEF Whole
    <2>2. Idx!AnchorsOf(f.scanned, f.start) \subseteq Idx!AnchorsOf(g.part, f.start)
        BY <1>2, <2>1, IdxAnchorsPrefix
    <2>3. Idx!ToSet(f.entries) \subseteq Idx!AnchorsOf(g.part, f.start)
        BY <2>1, <2>2 DEF Covered, Branch
    <2> QED BY <2>1, <2>3 DEF Covered, Branch
<1> QED BY <1>1, <1>3 DEF Whole

\* The wallet reads the next block.
LEMMA WholeReads ==
    ASSUME NEW n \in Nat, NEW f, NEW g \in IdxFiles, Whole(f, n),
           g.start = f.start, f.part = << >>, g.part = << >>,
           g.scanned # << >>, Len(g.scanned) = NextOf(f),
           g.entries = f.entries \o LastEntries(g.scanned),
           ~g.torn => ~f.torn /\ Idx!IsPrefix(f.scanned, g.scanned)
    PROVE  Whole(g, n)
<1>1. /\ f.scanned \in Seq(Idx!Blocks) /\ g.scanned \in Seq(Idx!Blocks)
      /\ f.entries \in Seq(Entry) /\ f.start \in Nat
    BY DEF Whole, IdxFiles
<1>2. Len(f.scanned) \in Nat /\ Len(g.scanned) \in Nat
    BY <1>1, SeqFacts
<1>3. Len(g.scanned) >= g.start
    BY <1>1, <1>2 DEF Whole, NextOf
<1>4. LastEntries(g.scanned) \in Seq(Entry)
    BY <1>1, IdxLastEntries
<1>5. Idx!ToSet(g.entries) = Idx!ToSet(f.entries) \union Idx!ToSet(LastEntries(g.scanned))
    BY <1>1, <1>4, IdxConcat
<1>6. ASSUME ~g.torn PROVE Covered(g)
    <2>1. Covered(f) /\ Idx!IsPrefix(f.scanned, g.scanned)
        BY <1>6 DEF Whole
    <2>2. Idx!AnchorsOf(f.scanned, f.start) \subseteq Idx!AnchorsOf(g.scanned, f.start)
        BY <1>1, <2>1, IdxAnchorsPrefix
    <2>3. Idx!AnchorsOf(g.scanned, f.start)
            \subseteq Idx!AnchorsOf(f.scanned, f.start) \union Idx!ToSet(LastEntries(g.scanned))
        BY <1>1, <2>1, IdxAnchorsNext DEF NextOf
    <2>4. Idx!ToSet(LastEntries(g.scanned)) \subseteq Idx!AnchorsOf(g.scanned, f.start)
        BY <1>1, <1>3, IdxAnchorsLast
    <2> QED BY <1>5, <2>1, <2>2, <2>3, <2>4 DEF Covered, Branch
<1> QED BY <1>3, <1>6 DEF Whole

\* The server appends anchors of the block that it reads.
LEMMA WholeAppends ==
    ASSUME NEW n \in Nat, NEW f, NEW g \in IdxFiles, Whole(f, n), f.part # << >>,
           NEW found \in Seq(Entry), Idx!ToSet(found) \subseteq Idx!ToSet(LastEntries(f.part)),
           g.start = f.start, g.scanned = f.scanned, g.part = f.part, g.torn = f.torn,
           g.entries = f.entries \o found
    PROVE  Whole(g, n)
<1>1. /\ f.scanned \in Seq(Idx!Blocks) /\ f.part \in Seq(Idx!Blocks)
      /\ f.entries \in Seq(Entry) /\ f.start \in Nat
    BY DEF Whole, IdxFiles
<1>2. Len(f.scanned) \in Nat /\ Len(f.part) \in Nat
    BY <1>1, SeqFacts
<1>3. Len(f.part) >= f.start
    BY <1>1, <1>2 DEF Whole, NextOf
<1>4. Idx!ToSet(g.entries) = Idx!ToSet(f.entries) \union Idx!ToSet(found)
    BY <1>1, IdxConcat
<1>5. Idx!ToSet(LastEntries(f.part)) \subseteq Idx!AnchorsOf(f.part, f.start)
    BY <1>1, <1>3, IdxAnchorsLast
<1>6. ASSUME ~g.torn PROVE Covered(g)
    <2>1. Covered(f)
        BY <1>6 DEF Whole
    <2> QED BY <1>4, <1>5, <2>1 DEF Covered, Branch
<1>7. NextOf(g) = NextOf(f)
    BY DEF NextOf
<1> QED BY <1>6, <1>7 DEF Whole

\* The server has read the block.
LEMMA WholeEnds ==
    ASSUME NEW n \in Nat, NEW f, NEW g \in IdxFiles, Whole(f, n), f.part # << >>,
           Idx!ToSet(LastEntries(f.part)) \subseteq Idx!ToSet(f.entries),
           g.start = f.start, g.scanned = f.part, g.part = << >>, g.torn = f.torn,
           g.entries = f.entries
    PROVE  Whole(g, n)
<1>1. /\ f.scanned \in Seq(Idx!Blocks) /\ f.part \in Seq(Idx!Blocks)
      /\ f.entries \in Seq(Entry) /\ f.start \in Nat
    BY DEF Whole, IdxFiles
<1>2. Len(f.scanned) \in Nat /\ Len(f.part) \in Nat
    BY <1>1, SeqFacts
<1>3. Len(f.part) >= f.start
    BY <1>1, <1>2 DEF Whole, NextOf
<1>4. ASSUME ~g.torn PROVE Covered(g)
    <2>1. Covered(f)
        BY <1>4 DEF Whole
    <2>2. Idx!AnchorsOf(f.part, f.start)
            \subseteq Idx!AnchorsOf(f.scanned, f.start) \union Idx!ToSet(LastEntries(f.part))
        <3>1. Idx!IsPrefix(f.scanned, f.part) /\ Len(f.part) = NextOf(f)
            BY <2>1 DEF Covered, Whole
        <3> QED BY <1>1, <3>1, IdxAnchorsNext DEF NextOf
    <2> QED BY <2>1, <2>2 DEF Covered, Branch
<1> QED BY <1>3, <1>4 DEF Whole

----------------------------------------------------------------------------
(* The invariant of the index. *)

\* The type of a running scan.
IdxScans ==
    [at : {"idle", "check", "block", "page"}, block : Seq(Idx!Blocks), pos : Nat,
     began : Seq(Idx!Blocks), checked : Nat]

\* The types of the other variables.
IdxTyped ==
    /\ kind \in Kinds /\ chain \in Seq(Idx!Blocks) /\ scan \in IdxScans
    /\ live \in {"down", "stale", "fresh"} /\ reorgs \in Nat

\* Every file is an index of a chain no longer than this one, and the wallet's
\* knows no block read in part.
IdxWhole ==
    /\ Whole(index, Len(chain)) /\ index.tip <= Len(chain)
    /\ disk = Idx!NoFile \/ Whole(disk, Len(chain))
    /\ kind = "bitcoind" => index.part = << >> /\ disk.part = << >>

\* Two branches agree up to a height.
AgreeUpTo(s, c, n) == \A h \in 1..Len(s) : h <= n /\ h <= Len(c) => s[h] = c[h]

\* The height at which an anchor is Required deep for the index.
Deep == index.tip - Required + 1

\* A scan has asked for the tip height.
IdxBegun ==
    scan.at # "idle" => Len(scan.began) = index.tip /\ Len(index.part) <= index.tip

\* A scan has checked the branch of the index.
IdxChecked ==
    scan.at \in {"block", "page"} =>
        /\ scan.checked <= reorgs
        /\ scan.checked = reorgs => Idx!IsPrefix(index.scanned, chain)
        /\ Len(chain) = index.tip => scan.checked = reorgs

\* A scan reads a block page by page.
IdxReading ==
    scan.at = "page" =>
        /\ kind = "esplora" /\ scan.block # << >> /\ scan.block = index.part
        /\ scan.checked = reorgs => Idx!IsPrefix(scan.block, chain)
        /\ AgreeUpTo(scan.block, chain, Deep)
        /\ scan.pos <= Len(LastEntries(scan.block))
        /\ \A p \in 1..scan.pos : LastEntries(scan.block)[p] \in Idx!ToSet(index.entries)

\* What was read since the check, and what a scan that succeeded leaves, agrees
\* with the chain as deep as a reorganisation does not reach.
IdxDeep ==
    /\ scan.at \in {"block", "page"} \/ (scan.at = "idle" /\ live = "fresh")
         => AgreeUpTo(index.scanned, chain, Deep)
    /\ scan.at = "idle" /\ live = "fresh" => index.part = << >>

\* The inductive invariant of the index.
IdxInv == IdxTyped /\ IdxWhole /\ IdxBegun /\ IdxChecked /\ IdxReading /\ IdxDeep

\* The constants, as the proofs need them.
LEMMA IdxConstants ==
    ASSUME Idx!IndexAssumption
    PROVE  /\ Required \in Nat /\ Required >= 1 /\ PageSize \in Nat /\ PageSize >= 1
           /\ BlockSize \in Nat
BY DEF Idx!IndexAssumption

\* The chain grows by one block, and only its last blocks change.
IdxGrows ==
    /\ chain' \in Seq(Idx!Blocks) /\ Len(chain') = Len(chain) + 1
    /\ \A h \in 1..Len(chain) : h <= Len(chain) - Required + 1 => chain'[h] = chain[h]

\* A block mined on the tip leaves every block of the chain in place.
LEMMA IdxExtend ==
    ASSUME chain \in Seq(Idx!Blocks), Idx!Extend
    PROVE  IdxGrows /\ reorgs' = reorgs /\ \A h \in 1..Len(chain) : chain'[h] = chain[h]
<1>1. PICK b \in Idx!Fresh(chain, 0) : chain' = Append(chain, b)
    BY DEF Idx!Extend
<1>2. b \in Idx!Blocks
    BY <1>1 DEF Idx!Fresh
<1>3. chain' \in Seq(Idx!Blocks) /\ Len(chain') = Len(chain) + 1
      /\ \A h \in 1..Len(chain) : chain'[h] = chain[h]
    BY <1>1, <1>2, AppendFacts
<1> QED BY <1>3 DEF IdxGrows, Idx!Extend

\* A reorganisation leaves every block that is Required - 1 below the tip in place.
LEMMA IdxReorg ==
    ASSUME Idx!IndexAssumption, chain \in Seq(Idx!Blocks), Idx!Reorg
    PROVE  IdxGrows /\ reorgs' = reorgs + 1
<1> DEFINE e == [fork |-> 1, txs |-> << >>]
<1>1. PICK d \in 1..Required - 1 :
        /\ d <= Len(chain)
        /\ \E b \in Idx!Fresh(SubSeq(chain, 1, Len(chain) - d), 1) :
             chain' = SubSeq(chain, 1, Len(chain) - d) \o <<b>> \o [i \in 1..d |-> e]
    BY DEF Idx!Reorg
<1> DEFINE base == SubSeq(chain, 1, Len(chain) - d)
<1>2. PICK b \in Idx!Fresh(base, 1) : chain' = base \o <<b>> \o [i \in 1..d |-> e]
    BY <1>1
<1>3. b \in Idx!Blocks
    BY <1>2 DEF Idx!Fresh
<1>4. e \in Idx!Blocks
    <2>1. << >> \in [1..0 -> Txs]
        OBVIOUS
    <2>2. << >> \in Idx!SeqOf(Txs, BlockSize)
        BY <2>1, IdxConstants DEF Idx!SeqOf
    <2> QED BY <2>2 DEF Idx!Blocks
<1>5. d \in Nat /\ d >= 1 /\ d <= Required - 1 /\ Len(chain) \in Nat /\ Len(chain) - d \in 0..Len(chain)
    BY <1>1, IdxConstants, SeqFacts
<1>6. /\ base \in Seq(Idx!Blocks) /\ Len(base) = Len(chain) - d
      /\ \A i \in 1..Len(chain) - d : base[i] = chain[i]
    BY <1>5, PrefixFacts
<1> DEFINE rest == [i \in 1..d |-> e]
<1> HIDE DEF e, base
<1>7. rest \in Seq(Idx!Blocks) /\ Len(rest) = d
    BY <1>4, <1>5
<1> HIDE DEF rest
<1>8. <<b>> \in Seq(Idx!Blocks) /\ Len(<<b>>) = 1
    BY <1>3
<1> DEFINE low == base \o <<b>>
<1>9. /\ low \in Seq(Idx!Blocks) /\ Len(low) = Len(base) + 1
      /\ \A i \in 1..Len(base) : low[i] = base[i]
    <2>1. /\ low \in Seq(Idx!Blocks) /\ Len(low) = Len(base) + Len(<<b>>)
          /\ \A i \in 1..Len(base) + Len(<<b>>) :
               low[i] = IF i <= Len(base) THEN base[i] ELSE <<b>>[i - Len(base)]
        BY ONLY <1>6, <1>8, ConcatProperties
    <2> QED BY <1>5, <1>6, <1>8, <2>1
<1> HIDE DEF low
<1>10. /\ low \o rest \in Seq(Idx!Blocks) /\ Len(low \o rest) = Len(low) + d
       /\ \A i \in 1..Len(low) : (low \o rest)[i] = low[i]
    <2>1. /\ low \o rest \in Seq(Idx!Blocks) /\ Len(low \o rest) = Len(low) + Len(rest)
          /\ \A i \in 1..Len(low) + Len(rest) :
               (low \o rest)[i] = IF i <= Len(low) THEN low[i] ELSE rest[i - Len(low)]
        BY ONLY <1>7, <1>9, ConcatProperties
    <2> QED BY <1>5, <1>6, <1>7, <1>9, <2>1
<1>11. chain' = low \o rest
    BY <1>2 DEF low, rest, base
<1>12. chain' \in Seq(Idx!Blocks) /\ Len(chain') = Len(chain) + 1
    BY <1>5, <1>6, <1>9, <1>10, <1>11
<1>13. ASSUME NEW h \in 1..Len(chain), h <= Len(chain) - Required + 1
       PROVE  chain'[h] = chain[h]
    <2>1. h \in 1..Len(chain) - d /\ h \in 1..Len(base) /\ h \in 1..Len(low)
        BY <1>5, <1>6, <1>9, <1>13, IdxConstants
    <2> QED BY <1>6, <1>9, <1>10, <1>11, <2>1
<1> QED BY <1>12, <1>13 DEF IdxGrows, Idx!Reorg

\* The files of the invariant, field by field.
LEMMA IdxIndexFields ==
    ASSUME IdxInv
    PROVE  /\ index \in IdxFiles /\ index.start \in Nat /\ index.tip \in Nat
           /\ index.scanned \in Seq(Idx!Blocks) /\ index.part \in Seq(Idx!Blocks)
           /\ index.entries \in Seq(Entry) /\ index.torn \in BOOLEAN
           /\ Len(index.scanned) \in Nat /\ Len(index.part) \in Nat
           /\ chain \in Seq(Idx!Blocks) /\ Len(chain) \in Nat
<1>1. index \in IdxFiles /\ chain \in Seq(Idx!Blocks)
    BY DEF IdxInv, IdxTyped, IdxWhole, Whole
<1>2. /\ index.start \in Nat /\ index.tip \in Nat
      /\ index.scanned \in Seq(Idx!Blocks) /\ index.part \in Seq(Idx!Blocks)
      /\ index.entries \in Seq(Entry) /\ index.torn \in BOOLEAN
    BY <1>1 DEF IdxFiles
<1> QED BY <1>1, <1>2, SeqFacts

\* A branch that is a prefix of the chain agrees with it, and remains a prefix
\* of it as the chain only grows.
LEMMA IdxAgrees ==
    ASSUME NEW s \in Seq(Idx!Blocks), NEW c \in Seq(Idx!Blocks), NEW n, Idx!IsPrefix(s, c)
    PROVE  AgreeUpTo(s, c, n)
BY IdxPrefix DEF AgreeUpTo

\* The node's steps keep the invariant.
LEMMA IdxNodeStep ==
    ASSUME Idx!IndexAssumption, IdxInv, IdxGrows, reorgs' \in Nat,
           \/ reorgs' = reorgs + 1
           \/ reorgs' = reorgs /\ \A h \in 1..Len(chain) : chain'[h] = chain[h],
           UNCHANGED <<kind, index, disk, scan, live>>
    PROVE  IdxInv'
<1>1. /\ index.tip \in Nat /\ index \in IdxFiles /\ Len(chain) \in Nat /\ chain \in Seq(Idx!Blocks)
      /\ index.scanned \in Seq(Idx!Blocks) /\ index.part \in Seq(Idx!Blocks)
    BY IdxIndexFields
<1>2. chain' \in Seq(Idx!Blocks) /\ Len(chain') = Len(chain) + 1
    BY DEF IdxGrows
<1>3. IdxTyped'
    BY <1>2 DEF IdxInv, IdxTyped
<1>4. index.tip <= Len(chain)
    BY DEF IdxInv, IdxWhole
<1>5. IdxWhole'
    <2>1. Len(chain') \in Nat /\ Len(chain) <= Len(chain')
        BY <1>1, <1>2
    <2>2. Whole(index, Len(chain'))
        <3>1. Whole(index, Len(chain))
            BY DEF IdxInv, IdxWhole
        <3> QED BY <1>1, <2>1, <3>1, WholeKept
    <2>3. ASSUME disk # Idx!NoFile PROVE Whole(disk, Len(chain'))
        <3>1. Whole(disk, Len(chain))
            BY <2>3 DEF IdxInv, IdxWhole
        <3>2. disk \in IdxFiles
            BY <3>1 DEF Whole
        <3> QED BY <1>1, <2>1, <3>1, <3>2, WholeKept
    <2>4. Idx!NoFile' = Idx!NoFile
        BY DEF Idx!NoFile, Idx!Empty
    <2> QED BY <1>1, <1>2, <1>4, <2>2, <2>3, <2>4 DEF IdxInv, IdxWhole
<1>6. IdxBegun'
    BY DEF IdxInv, IdxBegun
<1>7. ASSUME NEW s \in Seq(Idx!Blocks), Idx!IsPrefix(s, chain), reorgs' = reorgs
      PROVE  Idx!IsPrefix(s, chain')
    <2>1. \A h \in 1..Len(chain) : chain'[h] = chain[h]
        BY <1>7, IdxInv DEF IdxInv, IdxTyped
    <2>2. Len(s) \in Nat
        BY SeqFacts
    <2>3. Len(s) <= Len(chain) /\ \A i \in 1..Len(s) : s[i] = chain[i]
        BY <1>1, <1>7, IdxPrefix
    <2>4. Len(s) <= Len(chain') /\ \A i \in 1..Len(s) : s[i] = chain'[i]
        BY <1>1, <1>2, <2>1, <2>2, <2>3
    <2> QED BY <1>2, <2>4, IdxPrefix
<1>8. Required \in Nat /\ Deep \in Int /\ Deep <= Len(chain) - Required + 1 /\ Deep' = Deep /\ Deep <= Len(chain)
    BY <1>1, <1>4, IdxConstants DEF Deep
<1>9. ASSUME NEW s \in Seq(Idx!Blocks), AgreeUpTo(s, chain, Deep) PROVE AgreeUpTo(s, chain', Deep)
    <2>1. Len(s) \in Nat
        BY SeqFacts
    <2> SUFFICES ASSUME NEW h \in 1..Len(s), h <= Deep PROVE s[h] = chain'[h]
        BY DEF AgreeUpTo
    <2>2. h \in 1..Len(chain) /\ h <= Len(chain) - Required + 1
        BY <1>1, <1>8, <2>1
    <2> QED BY <1>9, <2>2 DEF AgreeUpTo, IdxGrows
<1>10. reorgs \in Nat /\ scan \in IdxScans /\ scan.checked \in Nat /\ scan.block \in Seq(Idx!Blocks)
    BY DEF IdxInv, IdxTyped, IdxScans
<1>11. IdxChecked'
    <2> SUFFICES ASSUME scan.at \in {"block", "page"}
                 PROVE  /\ scan.checked <= reorgs'
                        /\ scan.checked = reorgs' => Idx!IsPrefix(index.scanned, chain')
                        /\ Len(chain') # index.tip
        BY DEF IdxChecked
    <2>1. scan.checked <= reorgs /\ (scan.checked = reorgs => Idx!IsPrefix(index.scanned, chain))
        BY DEF IdxInv, IdxChecked
    <2>2. scan.checked = reorgs' => reorgs' = reorgs
        BY <1>10, <2>1
    <2> QED BY <1>1, <1>2, <1>4, <1>7, <1>10, <2>1, <2>2
<1>12. IdxReading'
    <2> SUFFICES ASSUME scan.at = "page"
                 PROVE  /\ kind = "esplora" /\ scan.block # << >> /\ scan.block = index.part
                        /\ scan.checked = reorgs' => Idx!IsPrefix(scan.block, chain')
                        /\ AgreeUpTo(scan.block, chain', Deep)
                        /\ scan.pos <= Len(LastEntries(scan.block))
                        /\ \A p \in 1..scan.pos : LastEntries(scan.block)[p] \in Idx!ToSet(index.entries)
        BY <1>8 DEF IdxReading, AgreeUpTo, LastEntries, Idx!EntriesIn, Idx!Last, Idx!ToSet
    <2>1. scan.checked <= reorgs /\ IdxReading
        BY DEF IdxInv, IdxChecked
    <2>2. scan.checked = reorgs' => reorgs' = reorgs
        BY <1>10, <2>1
    <2> QED BY <1>7, <1>9, <1>10, <2>1, <2>2 DEF IdxReading
<1>13. IdxDeep'
    <2>1. AgreeUpTo(index.scanned, chain, Deep) => AgreeUpTo(index.scanned, chain', Deep)
        BY <1>1, <1>9
    <2> QED BY <1>8, <2>1 DEF IdxInv, IdxDeep, AgreeUpTo
<1> QED BY <1>3, <1>5, <1>6, <1>11, <1>12, <1>13 DEF IdxInv

\* The first states satisfy the invariant.
LEMMA IdxInit == ASSUME Idx!IndexAssumption, Idx!Init PROVE IdxInv
<1>1. index = Idx!Empty(1) /\ chain = << >> /\ disk = Idx!NoFile /\ scan = Idx!Idle /\ live = "down"
      /\ kind \in Kinds /\ reorgs = 0
    BY DEF Idx!Init
<1>2. << >> \in Seq(Idx!Blocks) /\ << >> \in Seq(Entry) /\ Len(<< >>) = 0
    BY IdxEmptySeq
<1>3. index \in IdxFiles /\ index.start = 1 /\ index.scanned = << >> /\ index.entries = << >>
      /\ index.part = << >> /\ index.tip = 0
    BY <1>1, <1>2 DEF IdxFiles, Idx!Empty
<1>4. disk.part = << >>
    BY <1>1 DEF Idx!NoFile, Idx!Empty
<1>5. scan \in IdxScans /\ scan.at = "idle"
    BY <1>1, <1>2 DEF IdxScans, Idx!Idle
<1>6. IdxTyped
    BY <1>1, <1>2, <1>5 DEF IdxTyped
<1>7. IdxWhole
    <2>1. Whole(index, Len(chain))
        BY <1>1, <1>2, <1>3, WholeEmpty
    <2> QED BY <1>1, <1>2, <1>3, <1>4, <2>1 DEF IdxWhole
<1>8. IdxBegun /\ IdxChecked /\ IdxReading /\ IdxDeep
    BY <1>1, <1>5 DEF IdxBegun, IdxChecked, IdxReading, IdxDeep
<1> QED BY <1>6, <1>7, <1>8 DEF IdxInv

\* A refresh begins.
LEMMA IdxReadTip ==
    ASSUME Idx!IndexAssumption, IdxInv, Idx!ReadTip
    PROVE  IdxInv'
<1>1. /\ index \in IdxFiles /\ index.part \in Seq(Idx!Blocks) /\ Len(index.part) \in Nat
      /\ chain \in Seq(Idx!Blocks) /\ Len(chain) \in Nat
    BY IdxIndexFields
<1>2. /\ scan' = [Idx!Idle EXCEPT !.at = "check", !.began = chain]
      /\ index' = [index EXCEPT !.tip = Len(chain)]
      /\ kind' = kind /\ chain' = chain /\ disk' = disk /\ live' = live /\ reorgs' = reorgs
    BY DEF Idx!ReadTip
<1>3. << >> \in Seq(Idx!Blocks) /\ Len(<< >>) = 0
    BY IdxEmptySeq
<1>4. scan' \in IdxScans /\ scan'.at = "check" /\ scan'.began = chain
    BY <1>1, <1>2, <1>3 DEF IdxScans, Idx!Idle
<1>5. /\ index' \in IdxFiles /\ index'.start = index.start /\ index'.scanned = index.scanned
      /\ index'.entries = index.entries /\ index'.part = index.part /\ index'.torn = index.torn
      /\ index'.tip = Len(chain)
    BY <1>1, <1>2 DEF IdxFiles
<1>6. IdxTyped'
    BY <1>2, <1>4 DEF IdxInv, IdxTyped
<1>7. IdxWhole'
    <2>1. Whole(index, Len(chain))
        BY DEF IdxInv, IdxWhole
    <2>2. Whole(index', Len(chain))
        BY <1>1, <1>5, <2>1, WholeKept
    <2>3. Idx!NoFile' = Idx!NoFile
        BY DEF Idx!NoFile, Idx!Empty
    <2> QED BY <1>1, <1>2, <1>5, <2>2, <2>3 DEF IdxInv, IdxWhole
<1>8. Len(index.part) <= Len(chain)
    BY <1>1, <1>3 DEF IdxInv, IdxWhole, Whole
<1>9. IdxBegun' /\ IdxChecked' /\ IdxReading' /\ IdxDeep'
    BY <1>4, <1>5, <1>8 DEF IdxBegun, IdxChecked, IdxReading, IdxDeep
<1> QED BY <1>6, <1>7, <1>9 DEF IdxInv

\* What a reset leaves.
LEMMA IdxReset ==
    ASSUME NEW f, NEW n \in Nat, Whole(f, n)
    PROVE  /\ Whole(Idx!Reset(f), n) /\ Idx!Reset(f).tip = f.tip
           /\ Idx!Reset(f).scanned = << >> /\ Idx!Reset(f).part = << >>
<1>1. f \in IdxFiles /\ f.start >= 1
    BY DEF Whole
<1>2. << >> \in Seq(Idx!Blocks) /\ << >> \in Seq(Entry)
    BY IdxEmptySeq
<1> DEFINE g == Idx!Reset(f)
<1>3. /\ g \in IdxFiles /\ g.start = f.start /\ g.tip = f.tip /\ g.scanned = << >>
      /\ g.entries = << >> /\ g.part = << >>
    BY <1>1, <1>2 DEF Idx!Reset, IdxFiles
<1> HIDE DEF g
<1>4. Whole(g, n)
    BY <1>1, <1>3, WholeEmpty
<1> QED BY <1>3, <1>4 DEF g

\* The branch of the index is checked.
LEMMA IdxCheckTip ==
    ASSUME Idx!IndexAssumption, IdxInv, Idx!CheckTip
    PROVE  IdxInv'
<1>1. /\ index \in IdxFiles /\ index.part \in Seq(Idx!Blocks) /\ Len(index.part) \in Nat
      /\ chain \in Seq(Idx!Blocks) /\ Len(chain) \in Nat /\ index.tip \in Nat
      /\ index.scanned \in Seq(Idx!Blocks)
    BY IdxIndexFields
<1>2. /\ scan.at = "check" /\ scan' = [scan EXCEPT !.at = "block", !.checked = reorgs]
      /\ \/ Idx!IsPrefix(index.scanned, chain) /\ index' = index /\ disk' = disk
         \/ index' = Idx!Reset(index) /\ disk' \in {index', disk}
      /\ kind' = kind /\ chain' = chain /\ live' = live /\ reorgs' = reorgs
    BY DEF Idx!CheckTip, Idx!StillThere, Idx!Written
<1>3. scan \in IdxScans /\ reorgs \in Nat
    BY DEF IdxInv, IdxTyped
<1>4. /\ scan' \in IdxScans /\ scan'.at = "block" /\ scan'.checked = reorgs
      /\ scan'.began = scan.began
    BY <1>2, <1>3 DEF IdxScans
<1>5. IdxTyped'
    BY <1>2, <1>4 DEF IdxInv, IdxTyped
<1>6. << >> \in Seq(Idx!Blocks) /\ Len(<< >>) = 0
    BY IdxEmptySeq
<1>7. /\ Whole(index', Len(chain)) /\ index'.tip = index.tip
      /\ index'.scanned \in Seq(Idx!Blocks) /\ index'.part \in {<< >>, index.part}
      /\ Idx!IsPrefix(index'.scanned, chain)
    <2>1. Whole(index, Len(chain))
        BY DEF IdxInv, IdxWhole
    <2>2. CASE index' = Idx!Reset(index)
        <3>1. Idx!IsPrefix(<< >>, chain)
            <4>1. Len(<< >>) <= Len(chain) /\ \A i \in 1..Len(<< >>) : << >>[i] = chain[i]
                BY <1>1, <1>6
            <4> QED BY <1>1, <1>6, <4>1, IdxPrefix
        <3> QED BY <1>1, <1>6, <2>1, <2>2, <3>1, IdxReset
    <2> QED BY <1>1, <1>2, <2>1, <2>2
<1>8. IdxWhole'
    <2>1. Idx!NoFile' = Idx!NoFile
        BY DEF Idx!NoFile, Idx!Empty
    <2>2. disk' \in {index', disk}
        BY <1>2
    <2>3. disk' = Idx!NoFile \/ Whole(disk', Len(chain))
        BY <1>7, <2>2 DEF IdxInv, IdxWhole
    <2> QED BY <1>2, <1>7, <2>1, <2>2, <2>3 DEF IdxInv, IdxWhole
<1>9. IdxBegun'
    BY <1>1, <1>2, <1>4, <1>6, <1>7 DEF IdxInv, IdxBegun
<1>10. IdxChecked'
    BY <1>2, <1>3, <1>4, <1>7 DEF IdxChecked
<1>11. AgreeUpTo(index'.scanned, chain, Deep')
    BY <1>1, <1>7, IdxAgrees
<1>12. IdxReading' /\ IdxDeep'
    BY <1>2, <1>4, <1>11 DEF IdxReading, IdxDeep, AgreeUpTo
<1> QED BY <1>5, <1>8, <1>9, <1>10, <1>12 DEF IdxInv

\* The block that is read next, and what it leaves unnoticed.
LEMMA IdxNextBlock ==
    ASSUME Idx!IndexAssumption, IdxInv, scan.at = "block", Idx!NextHeight <= index.tip
    PROVE  LET block == SubSeq(chain, 1, Idx!NextHeight) IN
           /\ block \in Seq(Idx!Blocks) /\ block # << >> /\ Len(block) = NextOf(index)
           /\ NextOf(index) <= index.tip /\ index.tip <= Len(chain)
           /\ Idx!IsPrefix(block, chain)
           /\ ~Idx!Mixes(block) => /\ index.part \in {<< >>, block}
                                   /\ Idx!IsPrefix(index.scanned, block)
<1> DEFINE n == Idx!NextHeight
           block == SubSeq(chain, 1, n)
<1>1. /\ index \in IdxFiles /\ chain \in Seq(Idx!Blocks) /\ Len(chain) \in Nat
      /\ index.tip \in Nat /\ index.start \in Nat
      /\ index.scanned \in Seq(Idx!Blocks) /\ Len(index.scanned) \in Nat
    BY IdxIndexFields
<1>2. n = NextOf(index)
    BY DEF Idx!NextHeight, NextOf
<1>3. index.start >= 1 /\ index.tip <= Len(chain)
    BY DEF IdxInv, IdxWhole, Whole
<1>4. n \in Nat /\ n >= 1 /\ n <= index.tip
    BY <1>1, <1>2, <1>3 DEF NextOf
<1> HIDE DEF n
<1>5. n \in 0..Len(chain)
    BY <1>1, <1>3, <1>4
<1>6. block \in Seq(Idx!Blocks) /\ Len(block) = n /\ \A i \in 1..n : block[i] = chain[i]
    BY <1>1, <1>5, PrefixFacts
<1> HIDE DEF block
<1>7. block # << >>
    BY <1>4, <1>6
<1>8. Idx!IsPrefix(block, chain)
    BY <1>1, <1>5, <1>6, IdxPrefix
<1>9. ASSUME ~Idx!Mixes(block)
      PROVE  index.part \in {<< >>, block} /\ Idx!IsPrefix(index.scanned, block)
    <2>1. index.part \in {<< >>, block}
        BY <1>9 DEF Idx!Mixes
    <2>2. CASE scan.checked # reorgs
        BY <1>9, <2>1, <2>2 DEF Idx!Mixes
    <2>3. CASE scan.checked = reorgs
        <3>1. Idx!IsPrefix(index.scanned, chain)
            BY <2>3 DEF IdxInv, IdxChecked
        <3>2. \A i \in 1..Len(index.scanned) : index.scanned[i] = chain[i]
            BY <1>1, <3>1, IdxPrefix
        <3>3. Len(index.scanned) <= n
            BY <1>1, <1>2, <1>4, EmptySeq DEF NextOf
        <3>4. \A i \in 1..Len(index.scanned) : index.scanned[i] = block[i]
            BY <1>1, <1>4, <1>6, <3>2, <3>3
        <3> QED BY <1>1, <1>6, <2>1, <3>3, <3>4, IdxPrefix
    <2> QED BY <2>2, <2>3
<1> QED BY <1>2, <1>3, <1>4, <1>6, <1>7, <1>8, <1>9 DEF block, n

\* The server asks for the next block.
LEMMA IdxFetchServer ==
    ASSUME Idx!IndexAssumption, IdxInv, Idx!FetchBlock, kind = "esplora"
    PROVE  IdxInv'
<1> DEFINE block == SubSeq(chain, 1, Idx!NextHeight)
           v == index.torn \/ Idx!Mixes(block)
<1>1. /\ index \in IdxFiles /\ chain \in Seq(Idx!Blocks) /\ Len(chain) \in Nat
      /\ index.tip \in Nat /\ index.torn \in BOOLEAN
    BY IdxIndexFields
<1>2. /\ scan.at = "block" /\ Idx!NextHeight <= index.tip
      /\ scan' = [scan EXCEPT !.at = "page", !.block = block, !.pos = 0]
      /\ index' = [[index EXCEPT !.torn = v] EXCEPT !.part = block]
      /\ disk' = index'
      /\ kind' = kind /\ chain' = chain /\ live' = live /\ reorgs' = reorgs
    BY DEF Idx!FetchBlock, Idx!Written
<1>3. /\ block \in Seq(Idx!Blocks) /\ block # << >> /\ Len(block) = NextOf(index)
      /\ NextOf(index) <= index.tip /\ index.tip <= Len(chain)
      /\ Idx!IsPrefix(block, chain)
      /\ ~Idx!Mixes(block) => index.part \in {<< >>, block} /\ Idx!IsPrefix(index.scanned, block)
    BY <1>2, IdxNextBlock
<1>4. v \in BOOLEAN
    OBVIOUS
<1>5. ~v => /\ ~index.torn /\ index.part \in {<< >>, block}
            /\ Idx!IsPrefix(index.scanned, block)
    BY <1>3
<1> HIDE DEF block, v
<1>6. /\ index' \in IdxFiles /\ index'.start = index.start /\ index'.scanned = index.scanned
      /\ index'.entries = index.entries /\ index'.part = block /\ index'.torn = v
      /\ index'.tip = index.tip
    BY <1>1, <1>2, <1>3, <1>4 DEF IdxFiles
<1>7. scan \in IdxScans /\ reorgs \in Nat
    BY DEF IdxInv, IdxTyped
<1>8. /\ scan' \in IdxScans /\ scan'.at = "page" /\ scan'.block = block /\ scan'.pos = 0
      /\ scan'.began = scan.began /\ scan'.checked = scan.checked
    BY <1>2, <1>3, <1>7 DEF IdxScans
<1>9. Len(block) \in Nat
    BY <1>3, SeqFacts
<1>10. Whole(index', Len(chain))
    <2>1. Whole(index, Len(chain))
        BY DEF IdxInv, IdxWhole
    <2>2. NextOf(index) <= Len(chain)
        BY <1>1, <1>3, <1>9
    <2>3. ~index'.torn => /\ ~index.torn /\ index.part \in {<< >>, index'.part}
                          /\ Idx!IsPrefix(index.scanned, index'.part)
        BY <1>5, <1>6
    <2>4. index'.part # << >> /\ Len(index'.part) = NextOf(index)
        BY <1>3, <1>6
    <2> QED BY <1>1, <1>6, <2>1, <2>2, <2>3, <2>4, WholeBegins
<1>11. IdxTyped'
    BY <1>2, <1>8 DEF IdxInv, IdxTyped
<1>12. IdxWhole'
    BY <1>2, <1>3, <1>6, <1>10 DEF IdxWhole
<1>13. IdxBegun'
    BY <1>2, <1>3, <1>6, <1>8 DEF IdxInv, IdxBegun
<1>14. IdxChecked'
    BY <1>2, <1>6, <1>8 DEF IdxInv, IdxChecked
<1>15. Deep' = Deep
    BY <1>6 DEF Deep
<1>16. IdxReading'
    <2>1. AgreeUpTo(block, chain, Deep)
        BY <1>1, <1>3, IdxAgrees
    <2>2. LastEntries(block) \in Seq(Entry)
        BY <1>3, IdxLastEntries
    <2>3. 0 <= Len(LastEntries(block))
        BY <2>2, SeqFacts
    <2> QED BY <1>2, <1>3, <1>6, <1>8, <1>15, <2>1, <2>3 DEF IdxReading
<1>17. IdxDeep'
    BY <1>2, <1>6, <1>8, <1>15 DEF IdxInv, IdxDeep, AgreeUpTo
<1> QED BY <1>11, <1>12, <1>13, <1>14, <1>16, <1>17 DEF IdxInv

\* The wallet reads the next block.
LEMMA IdxFetchWallet ==
    ASSUME Idx!IndexAssumption, IdxInv, Idx!FetchBlock, kind # "esplora"
    PROVE  IdxInv'
<1> DEFINE block == SubSeq(chain, 1, Idx!NextHeight)
           v == index.torn \/ Idx!Mixes(block)
           found == Idx!EntriesIn(Idx!Last(block), Len(block))
<1>1. /\ index \in IdxFiles /\ chain \in Seq(Idx!Blocks) /\ Len(chain) \in Nat
      /\ index.tip \in Nat /\ index.torn \in BOOLEAN /\ index.entries \in Seq(Entry)
    BY IdxIndexFields
<1>2. /\ scan.at = "block" /\ Idx!NextHeight <= index.tip
      /\ scan' = scan /\ disk' = disk
      /\ index' = [[index EXCEPT !.torn = v] EXCEPT !.scanned = block, !.entries = index.entries \o found]
      /\ kind' = kind /\ chain' = chain /\ live' = live /\ reorgs' = reorgs
    BY <1>1 DEF Idx!FetchBlock, Idx!Written, IdxFiles
<1>3. /\ block \in Seq(Idx!Blocks) /\ block # << >> /\ Len(block) = NextOf(index)
      /\ NextOf(index) <= index.tip /\ index.tip <= Len(chain)
      /\ Idx!IsPrefix(block, chain)
      /\ ~Idx!Mixes(block) => index.part \in {<< >>, block} /\ Idx!IsPrefix(index.scanned, block)
    BY <1>2, IdxNextBlock
<1>4. v \in BOOLEAN
    OBVIOUS
<1>5. ~v => ~index.torn /\ Idx!IsPrefix(index.scanned, block)
    BY <1>3
<1>6. found = LastEntries(block)
    BY DEF LastEntries
<1> HIDE DEF block, v, found
<1>7. found \in Seq(Entry)
    BY <1>3, <1>6, IdxLastEntries
<1>8. index.entries \o found \in Seq(Entry)
    BY <1>1, <1>7, IdxConcat
<1>9. /\ index' \in IdxFiles /\ index'.start = index.start /\ index'.scanned = block
      /\ index'.entries = index.entries \o found /\ index'.part = index.part /\ index'.torn = v
      /\ index'.tip = index.tip
    BY <1>1, <1>2, <1>3, <1>4, <1>8 DEF IdxFiles
<1>10. index.part = << >>
    BY DEF IdxInv, IdxTyped, IdxWhole, Idx!IndexAssumption
<1>11. Whole(index', Len(chain))
    <2>1. Whole(index, Len(chain))
        BY DEF IdxInv, IdxWhole
    <2>2. ~index'.torn => ~index.torn /\ Idx!IsPrefix(index.scanned, index'.scanned)
        BY <1>5, <1>9
    <2>3. index'.scanned # << >> /\ Len(index'.scanned) = NextOf(index)
        BY <1>3, <1>9
    <2>4. index'.entries = index.entries \o LastEntries(index'.scanned)
        BY <1>6, <1>9
    <2> QED BY <1>1, <1>9, <1>10, <2>1, <2>2, <2>3, <2>4, WholeReads
<1>12. IdxTyped'
    BY <1>2 DEF IdxInv, IdxTyped
<1>13. IdxWhole'
    <2>1. Idx!NoFile' = Idx!NoFile
        BY DEF Idx!NoFile, Idx!Empty
    <2> QED BY <1>2, <1>3, <1>9, <1>10, <1>11, <2>1 DEF IdxInv, IdxWhole
<1>14. IdxBegun'
    BY <1>2, <1>9 DEF IdxInv, IdxBegun
<1>15. IdxChecked'
    BY <1>2, <1>3, <1>9 DEF IdxInv, IdxChecked
<1>16. IdxReading'
    BY <1>2 DEF IdxReading
<1>17. IdxDeep'
    <2>1. AgreeUpTo(block, chain, Deep')
        BY <1>1, <1>3, IdxAgrees
    <2> QED BY <1>2, <1>9, <1>10, <2>1 DEF IdxDeep, AgreeUpTo
<1> QED BY <1>12, <1>13, <1>14, <1>15, <1>16, <1>17 DEF IdxInv

\* A page of the block that is being read.
LEMMA IdxPage ==
    ASSUME Idx!IndexAssumption, IdxInv, scan.at = "page"
    PROVE  /\ LastEntries(scan.block) \in Seq(Entry) /\ Idx!Page \in Seq(Entry)
           /\ Idx!ToSet(Idx!Page) \subseteq Idx!ToSet(LastEntries(scan.block))
           /\ scan.pos + Len(Idx!Page) <= Len(LastEntries(scan.block))
           /\ Len(Idx!Page) \in Nat /\ Len(Idx!Page) <= PageSize
           /\ Len(Idx!Page) < PageSize => scan.pos + Len(Idx!Page) = Len(LastEntries(scan.block))
           /\ \A p \in 1..scan.pos + Len(Idx!Page) :
                LastEntries(scan.block)[p] \in Idx!ToSet(index.entries) \union Idx!ToSet(Idx!Page)
<1> DEFINE all == LastEntries(scan.block)
           end == scan.pos + PageSize
           last == IF end < Len(all) THEN end ELSE Len(all)
           page == SubSeq(all, scan.pos + 1, last)
<1>1. /\ scan.block # << >> /\ scan.block \in Seq(Idx!Blocks) /\ scan.pos \in Nat
      /\ scan.pos <= Len(all)
      /\ \A p \in 1..scan.pos : all[p] \in Idx!ToSet(index.entries)
    BY DEF IdxInv, IdxTyped, IdxScans, IdxReading
<1>2. Idx!Page = page
    BY <1>1 DEF Idx!Page, LastEntries
<1>3. all \in Seq(Entry)
    BY <1>1, IdxLastEntries
<1> HIDE DEF all
<1>4. Len(all) \in Nat /\ DOMAIN all = 1..Len(all) /\ \A i \in 1..Len(all) : all[i] \in Entry
    BY <1>3, SeqFacts
<1>5. PageSize \in Nat /\ PageSize >= 1
    BY IdxConstants
<1>6. /\ last \in Nat /\ scan.pos <= last /\ last <= Len(all) /\ last - scan.pos <= PageSize
      /\ last - scan.pos < PageSize => last = Len(all)
    BY <1>1, <1>4, <1>5
<1> HIDE DEF last
<1>7. scan.pos + 1 \in Int /\ last \in Int /\ \A i \in scan.pos + 1 .. last : all[i] \in Entry
    BY <1>1, <1>4, <1>6
<1>8. /\ page \in Seq(Entry)
      /\ Len(page) = IF scan.pos + 1 <= last THEN last - (scan.pos + 1) + 1 ELSE 0
      /\ \A i \in 1 .. last - (scan.pos + 1) + 1 : page[i] = all[(scan.pos + 1) + i - 1]
    BY ONLY <1>7, SubSeqProperties
<1> HIDE DEF page
<1>9. Len(page) = last - scan.pos /\ \A i \in 1..Len(page) : page[i] = all[scan.pos + i]
    <2>1. Len(page) = last - scan.pos
        BY <1>1, <1>6, <1>8
    <2>2. ASSUME NEW i \in 1..Len(page) PROVE page[i] = all[scan.pos + i]
        <3>1. i \in 1 .. last - (scan.pos + 1) + 1 /\ (scan.pos + 1) + i - 1 = scan.pos + i
            BY <1>1, <1>6, <2>1
        <3> QED BY <1>8, <3>1
    <2> QED BY <2>1, <2>2
<1>10. DOMAIN page = 1..Len(page)
    BY <1>8, SeqFacts
<1>11. Idx!ToSet(page) \subseteq Idx!ToSet(all)
    <2> SUFFICES ASSUME NEW i \in DOMAIN page PROVE page[i] \in Idx!ToSet(all)
        BY DEF Idx!ToSet
    <2>1. i \in 1..last - scan.pos /\ page[i] = all[scan.pos + i]
        BY <1>9, <1>10
    <2>2. scan.pos + i \in DOMAIN all
        <3>1. /\ scan.pos \in Nat /\ last \in Nat /\ last <= Len(all) /\ Len(all) \in Nat
              /\ i \in 1..last - scan.pos
            BY <1>1, <1>4, <1>6, <2>1
        <3>2. scan.pos + i \in 1..Len(all)
            BY ONLY <3>1
        <3> QED BY <1>4, <3>2
    <2> QED BY <2>1, <2>2 DEF Idx!ToSet
<1>12. ASSUME NEW p \in 1..scan.pos + Len(page)
       PROVE  all[p] \in Idx!ToSet(index.entries) \union Idx!ToSet(page)
    <2>1. CASE p <= scan.pos
        BY <1>1, <1>6, <1>9, <2>1
    <2>2. CASE ~(p <= scan.pos)
        <3> DEFINE i == p - scan.pos
        <3>1. i \in 1..Len(page) /\ scan.pos + i = p
            BY <1>1, <1>6, <1>9, <2>2
        <3> HIDE DEF i
        <3>2. i \in DOMAIN page /\ page[i] = all[p]
            BY <1>9, <1>10, <3>1
        <3> QED BY <3>2 DEF Idx!ToSet
    <2> QED BY <2>1, <2>2
<1>13. /\ scan.pos + Len(page) <= Len(all) /\ Len(page) \in Nat /\ Len(page) <= PageSize
       /\ Len(page) < PageSize => scan.pos + Len(page) = Len(all)
    BY <1>1, <1>6, <1>9
<1> QED BY <1>2, <1>3, <1>8, <1>11, <1>12, <1>13 DEF all

\* The server appends the next page.
LEMMA IdxFetchPage ==
    ASSUME Idx!IndexAssumption, IdxInv, Idx!FetchPage
    PROVE  IdxInv'
<1> DEFINE all == LastEntries(scan.block)
           page == Idx!Page
           found == [index EXCEPT !.entries = index.entries \o page]
<1>1. /\ index \in IdxFiles /\ chain \in Seq(Idx!Blocks) /\ Len(chain) \in Nat
      /\ index.tip \in Nat /\ index.torn \in BOOLEAN /\ index.entries \in Seq(Entry)
    BY IdxIndexFields
<1>2. /\ scan.at = "page" /\ disk' = index'
      /\ \/ /\ Len(page) < PageSize
            /\ index' = [found EXCEPT !.scanned = scan.block, !.part = << >>]
            /\ scan' = [scan EXCEPT !.at = "block"]
         \/ /\ ~(Len(page) < PageSize)
            /\ index' = found /\ scan' = [scan EXCEPT !.pos = scan.pos + PageSize]
      /\ kind' = kind /\ chain' = chain /\ live' = live /\ reorgs' = reorgs
    BY <1>1 DEF Idx!FetchPage, IdxFiles
<1>3. /\ all \in Seq(Entry) /\ page \in Seq(Entry) /\ Idx!ToSet(page) \subseteq Idx!ToSet(all)
      /\ scan.pos + Len(page) <= Len(all) /\ Len(page) \in Nat /\ Len(page) <= PageSize
      /\ Len(page) < PageSize => scan.pos + Len(page) = Len(all)
      /\ \A p \in 1..scan.pos + Len(page) : all[p] \in Idx!ToSet(index.entries) \union Idx!ToSet(page)
    BY <1>2, IdxPage
<1>4. /\ kind = "esplora" /\ scan.block # << >> /\ scan.block = index.part
      /\ scan.checked = reorgs => Idx!IsPrefix(scan.block, chain)
      /\ AgreeUpTo(scan.block, chain, Deep) /\ scan.pos \in Nat
      /\ scan.block \in Seq(Idx!Blocks) /\ scan \in IdxScans
    BY <1>2 DEF IdxInv, IdxTyped, IdxScans, IdxReading
<1>5. /\ index.entries \o page \in Seq(Entry)
      /\ Idx!ToSet(index.entries \o page) = Idx!ToSet(index.entries) \union Idx!ToSet(page)
    BY <1>1, <1>3, IdxConcat
<1>6. PageSize \in Nat
    BY IdxConstants
<1> HIDE DEF all, page
<1>7. /\ found \in IdxFiles /\ found.start = index.start /\ found.scanned = index.scanned
      /\ found.part = index.part /\ found.torn = index.torn /\ found.tip = index.tip
      /\ found.entries = index.entries \o page
    BY <1>1, <1>5 DEF IdxFiles
<1> HIDE DEF found
<1>8. Whole(found, Len(chain))
    <2>1. Whole(index, Len(chain))
        BY DEF IdxInv, IdxWhole
    <2>2. index.part # << >> /\ Idx!ToSet(page) \subseteq Idx!ToSet(LastEntries(index.part))
        BY <1>3, <1>4 DEF all
    <2> QED BY <1>1, <1>3, <1>7, <2>1, <2>2, WholeAppends
<1>9. Idx!ToSet(found.entries) = Idx!ToSet(index.entries) \union Idx!ToSet(page)
    BY <1>5, <1>7
<1>10. /\ index.tip <= Len(chain) /\ Len(scan.began) = index.tip /\ Len(index.part) <= index.tip
       /\ scan.checked <= reorgs /\ (Len(chain) = index.tip => scan.checked = reorgs)
       /\ (scan.checked = reorgs => Idx!IsPrefix(index.scanned, chain))
       /\ AgreeUpTo(index.scanned, chain, Deep)
    BY <1>2 DEF IdxInv, IdxWhole, IdxBegun, IdxChecked, IdxDeep
<1>11. CASE Len(page) < PageSize
    <2>1. /\ index' = [found EXCEPT !.scanned = scan.block, !.part = << >>]
          /\ scan' = [scan EXCEPT !.at = "block"]
        BY <1>2, <1>11
    <2>2. << >> \in Seq(Idx!Blocks) /\ Len(<< >>) = 0
        BY IdxEmptySeq
    <2>3. /\ index' \in IdxFiles /\ index'.start = found.start /\ index'.scanned = found.part
          /\ index'.part = << >> /\ index'.torn = found.torn /\ index'.tip = index.tip
          /\ index'.entries = found.entries
        BY <1>4, <1>7, <2>1, <2>2 DEF IdxFiles
    <2>4. /\ scan' \in IdxScans /\ scan'.at = "block" /\ scan'.began = scan.began
          /\ scan'.checked = scan.checked
        BY <1>4, <2>1 DEF IdxScans
    <2>5. Whole(index', Len(chain))
        <3>1. DOMAIN all = 1..Len(all)
            BY <1>3, SeqFacts
        <3>2. Idx!ToSet(all) \subseteq Idx!ToSet(found.entries)
            BY <1>3, <1>9, <1>11, <3>1 DEF Idx!ToSet
        <3>3. found.part # << >> /\ Idx!ToSet(LastEntries(found.part)) \subseteq Idx!ToSet(found.entries)
            BY <1>4, <1>7, <3>2 DEF all
        <3> QED BY <1>1, <1>7, <1>8, <2>3, <3>3, WholeEnds
    <2>6. IdxTyped'
        BY <1>2, <2>4 DEF IdxInv, IdxTyped
    <2>7. IdxWhole'
        BY <1>2, <1>4, <1>10, <2>3, <2>5 DEF IdxWhole
    <2>8. IdxBegun'
        BY <1>1, <1>10, <2>2, <2>3, <2>4 DEF IdxBegun
    <2>9. IdxChecked'
        BY <1>2, <1>4, <1>7, <1>10, <2>3, <2>4 DEF IdxChecked
    <2>10. IdxReading'
        BY <2>4 DEF IdxReading
    <2>11. IdxDeep'
        <3>1. Deep' = Deep /\ index'.scanned = scan.block
            BY <1>4, <1>7, <2>3 DEF Deep
        <3> QED BY <1>2, <1>4, <2>4, <3>1 DEF IdxDeep, AgreeUpTo
    <2> QED BY <2>6, <2>7, <2>8, <2>9, <2>10, <2>11 DEF IdxInv
<1>12. CASE ~(Len(page) < PageSize)
    <2>1. index' = found /\ scan' = [scan EXCEPT !.pos = scan.pos + PageSize]
        BY <1>2, <1>12
    <2>2. Len(page) = PageSize
        BY <1>3, <1>6, <1>12
    <2>3. /\ scan' \in IdxScans /\ scan'.at = "page" /\ scan'.began = scan.began
          /\ scan'.checked = scan.checked /\ scan'.block = scan.block
          /\ scan'.pos = scan.pos + Len(page)
        <3> DEFINE k == scan.pos + PageSize
        <3>1. k \in Nat /\ k = scan.pos + Len(page) /\ scan' = [scan EXCEPT !.pos = k]
            BY <1>4, <1>6, <2>1, <2>2
        <3> HIDE DEF k
        <3>2. /\ scan' \in IdxScans /\ scan'.at = scan.at /\ scan'.began = scan.began
              /\ scan'.checked = scan.checked /\ scan'.block = scan.block /\ scan'.pos = k
            BY <1>4, <3>1 DEF IdxScans
        <3> QED BY <1>2, <3>1, <3>2
    <2>4. IdxTyped'
        BY <1>2, <2>3 DEF IdxInv, IdxTyped
    <2>5. IdxWhole'
        BY <1>2, <1>4, <1>7, <1>8, <1>10, <2>1 DEF IdxWhole
    <2>6. IdxBegun'
        BY <1>7, <1>10, <2>1, <2>3 DEF IdxBegun
    <2>7. IdxChecked'
        BY <1>2, <1>7, <1>10, <2>1, <2>3 DEF IdxChecked
    <2>8. Deep' = Deep
        BY <1>7, <2>1 DEF Deep
    <2>9. IdxReading'
        <3>1. scan'.pos <= Len(all) /\ \A p \in 1..scan'.pos : all[p] \in Idx!ToSet(index'.entries)
            BY <1>3, <1>9, <2>1, <2>3
        <3> QED BY <1>2, <1>4, <1>7, <2>1, <2>3, <2>8, <3>1 DEF IdxReading, all
    <2>10. IdxDeep'
        BY <1>2, <1>7, <1>10, <2>1, <2>3, <2>8 DEF IdxDeep, AgreeUpTo
    <2> QED BY <2>4, <2>5, <2>6, <2>7, <2>9, <2>10 DEF IdxInv
<1> QED BY <1>11, <1>12

\* A scan succeeds.
LEMMA IdxScanDone ==
    ASSUME Idx!IndexAssumption, IdxInv, Idx!ScanDone
    PROVE  IdxInv' /\ index.part = << >> /\ index' = index /\ chain' = chain
<1>1. /\ scan.at = "block" /\ Idx!NextHeight > index.tip /\ scan' = Idx!Idle
      /\ disk' \in {index, disk}
      /\ kind' = kind /\ chain' = chain /\ index' = index /\ reorgs' = reorgs /\ live' = "fresh"
    BY DEF Idx!ScanDone
<1>2. /\ index.tip \in Nat /\ Len(index.part) \in Nat /\ index.start \in Nat
      /\ Len(index.scanned) \in Nat
    BY IdxIndexFields
<1>3. index.part = << >>
    <2>1. Idx!NextHeight = NextOf(index)
        BY DEF Idx!NextHeight, NextOf
    <2>2. index.part # << >> => Len(index.part) = NextOf(index)
        BY DEF IdxInv, IdxWhole, Whole
    <2>3. Len(index.part) <= index.tip
        BY <1>1 DEF IdxInv, IdxBegun
    <2> QED BY <1>1, <1>2, <2>1, <2>2, <2>3
<1>4. << >> \in Seq(Idx!Blocks)
    BY IdxEmptySeq
<1>5. scan' \in IdxScans /\ scan'.at = "idle"
    BY <1>1, <1>4 DEF IdxScans, Idx!Idle
<1>6. IdxTyped'
    BY <1>1, <1>5 DEF IdxInv, IdxTyped
<1>7. IdxWhole'
    <2>1. Idx!NoFile' = Idx!NoFile
        BY DEF Idx!NoFile, Idx!Empty
    <2> QED BY <1>1, <1>3, <2>1 DEF IdxInv, IdxWhole
<1>8. IdxBegun' /\ IdxChecked' /\ IdxReading'
    BY <1>5 DEF IdxBegun, IdxChecked, IdxReading
<1>9. Deep' = Deep
    BY <1>1 DEF Deep
<1>10. IdxDeep'
    BY <1>1, <1>3, <1>5, <1>9 DEF IdxInv, IdxDeep, AgreeUpTo
<1> QED BY <1>1, <1>3, <1>6, <1>7, <1>8, <1>10 DEF IdxInv

\* Between scans, unless one succeeded, the invariant is about the files only.
LEMMA IdxRests ==
    ASSUME IdxInv, scan' = Idx!Idle, live' \in {"down", "stale"},
           kind' = kind, chain' = chain, reorgs' = reorgs, Whole(index', Len(chain)),
           index'.tip <= Len(chain), disk' = Idx!NoFile \/ Whole(disk', Len(chain)),
           kind = "bitcoind" => index'.part = << >> /\ disk'.part = << >>
    PROVE  IdxInv'
<1>1. << >> \in Seq(Idx!Blocks)
    BY IdxEmptySeq
<1>2. scan' \in IdxScans /\ scan'.at = "idle"
    BY <1>1 DEF IdxScans, Idx!Idle
<1>3. IdxTyped'
    BY <1>2 DEF IdxInv, IdxTyped
<1>4. Idx!NoFile' = Idx!NoFile
    BY DEF Idx!NoFile, Idx!Empty
<1>5. IdxWhole'
    BY <1>4 DEF IdxWhole
<1>6. IdxBegun' /\ IdxChecked' /\ IdxReading' /\ IdxDeep'
    BY <1>2 DEF IdxBegun, IdxChecked, IdxReading, IdxDeep
<1> QED BY <1>3, <1>5, <1>6 DEF IdxInv

\* A call of the server to the node fails.
LEMMA IdxScanFails ==
    ASSUME Idx!IndexAssumption, IdxInv, Idx!ScanFails
    PROVE  IdxInv'
<1> DEFINE page == Idx!Page
<1>1. /\ index \in IdxFiles /\ chain \in Seq(Idx!Blocks) /\ Len(chain) \in Nat
      /\ index.entries \in Seq(Entry)
    BY IdxIndexFields
<1>2. PICK n \in 0..(IF scan.at = "page" THEN Len(page) ELSE 0) :
        index' = [index EXCEPT !.entries = @ \o SubSeq(page, 1, n)]
    BY DEF Idx!ScanFails
<1> DEFINE found == SubSeq(page, 1, n)
<1>3. /\ kind = "esplora" /\ scan' = Idx!Idle /\ live' \in {"down", "stale"} /\ disk' = index'
      /\ kind' = kind /\ chain' = chain /\ reorgs' = reorgs
    BY DEF Idx!ScanFails
<1>4. Whole(index, Len(chain)) /\ index.tip <= Len(chain)
    BY DEF IdxInv, IdxWhole
<1>5. Whole(index', Len(chain)) /\ index'.tip = index.tip
    <2>1. CASE scan.at = "page"
        <3>1. /\ page \in Seq(Entry) /\ LastEntries(scan.block) \in Seq(Entry)
              /\ Idx!ToSet(page) \subseteq Idx!ToSet(LastEntries(scan.block))
            BY <2>1, IdxPage
        <3>2. scan.block = index.part /\ index.part # << >>
            BY <2>1 DEF IdxInv, IdxReading
        <3> HIDE DEF page
        <3>3. n \in 0..Len(page)
            BY <2>1
        <3>4. found \in Seq(Entry) /\ DOMAIN found = 1..n /\ \A i \in 1..n : found[i] = page[i]
            BY <3>1, <3>3, PrefixFacts
        <3>5. DOMAIN page = 1..Len(page) /\ Len(page) \in Nat
            BY <3>1, SeqFacts
        <3>6. index' = [index EXCEPT !.entries = index.entries \o found]
            BY <1>1, <1>2 DEF IdxFiles
        <3> HIDE DEF found
        <3>7. Idx!ToSet(found) \subseteq Idx!ToSet(LastEntries(index.part))
            <4>1. Idx!ToSet(found) \subseteq Idx!ToSet(page)
                BY <3>3, <3>4, <3>5 DEF Idx!ToSet
            <4> QED BY <3>1, <3>2, <4>1
        <3>8. index.entries \o found \in Seq(Entry)
            BY <1>1, <3>4, IdxConcat
        <3>9. /\ index' \in IdxFiles /\ index'.start = index.start /\ index'.scanned = index.scanned
              /\ index'.part = index.part /\ index'.torn = index.torn /\ index'.tip = index.tip
              /\ index'.entries = index.entries \o found
            BY <1>1, <3>6, <3>8 DEF IdxFiles
        <3> QED BY <1>1, <1>4, <3>2, <3>4, <3>7, <3>9, WholeAppends
    <2>2. CASE scan.at # "page"
        <3>1. n = 0
            BY <2>2
        <3>2. found = << >>
            BY <3>1, SubSeqEmpty
        <3>3. index.entries \o << >> = index.entries
            BY <1>1, ConcatEmptySeq
        <3>4. index' = [index EXCEPT !.entries = index.entries \o found]
            BY <1>1, <1>2 DEF IdxFiles
        <3> HIDE DEF found
        <3>5. index' = index
            BY <1>1, <3>2, <3>3, <3>4 DEF IdxFiles
        <3> QED BY <1>4, <3>5
    <2> QED BY <2>1, <2>2
<1>6. index'.tip <= Len(chain) /\ Whole(disk', Len(chain)) /\ kind # "bitcoind"
    BY <1>3, <1>4, <1>5
<1> QED BY <1>3, <1>5, <1>6, IdxRests

\* What a new process opens.
LEMMA IdxLoad ==
    ASSUME Idx!IndexAssumption, IdxInv, NEW f0,
           f0 = Idx!NoFile \/ Whole(f0, Len(chain)), Idx!Load(f0)
    PROVE  /\ Whole(index', Len(chain)) /\ index'.tip = 0
           /\ f0.part = << >> => index'.part = << >>
<1>1. chain \in Seq(Idx!Blocks) /\ Len(chain) \in Nat
    BY IdxIndexFields
<1>2. CASE f0 = Idx!NoFile
    <2> DEFINE s == IF kind = "esplora" THEN 1 ELSE Idx!TipStart
    <2>1. index' = Idx!Empty(s)
        BY <1>2 DEF Idx!Load
    <2>2. s \in Nat /\ s >= 1
        BY <1>1 DEF Idx!TipStart
    <2> HIDE DEF s
    <2>3. << >> \in Seq(Idx!Blocks) /\ << >> \in Seq(Entry)
        BY IdxEmptySeq
    <2>4. /\ index' \in IdxFiles /\ index'.start = s /\ index'.scanned = << >>
          /\ index'.entries = << >> /\ index'.part = << >> /\ index'.tip = 0
        BY <2>1, <2>2, <2>3 DEF IdxFiles, Idx!Empty
    <2>5. Whole(index', Len(chain))
        BY <1>1, <2>2, <2>4, WholeEmpty
    <2> QED BY <2>4, <2>5
<1>3. CASE f0 # Idx!NoFile
    <2>1. Whole(f0, Len(chain)) /\ index' = [f0 EXCEPT !.tip = 0]
        BY <1>3 DEF Idx!Load
    <2>2. f0 \in IdxFiles
        BY <2>1 DEF Whole
    <2>3. /\ index' \in IdxFiles /\ index'.start = f0.start /\ index'.scanned = f0.scanned
          /\ index'.entries = f0.entries /\ index'.part = f0.part /\ index'.torn = f0.torn
          /\ index'.tip = 0
        BY <2>1, <2>2 DEF IdxFiles
    <2>4. Len(chain) <= Len(chain) /\ Whole(f0, Len(chain))
        BY <1>1, <2>1
    <2>5. Whole(index', Len(chain))
        BY ONLY <1>1, <2>3, <2>4, WholeKept
    <2> QED BY <2>3, <2>5
<1> QED BY <1>2, <1>3

\* A new process opens the file.
LEMMA IdxRestart ==
    ASSUME Idx!IndexAssumption, IdxInv, Idx!Restart \/ Idx!RestartInWrite
    PROVE  IdxInv'
<1>1. Len(chain) \in Nat
    BY IdxIndexFields
<1>2. /\ disk = Idx!NoFile \/ Whole(disk, Len(chain))
      /\ kind = "bitcoind" => disk.part = << >>
    BY DEF IdxInv, IdxWhole
<1>3. Idx!NoFile.part = << >>
    BY DEF Idx!NoFile, Idx!Empty
<1>4. /\ scan' = Idx!Idle /\ live' = "down" /\ kind' = kind /\ chain' = chain /\ reorgs' = reorgs
      /\ Idx!Load(disk')
      /\ disk' = disk \/ disk' = Idx!NoFile
    BY DEF Idx!Restart, Idx!RestartInWrite
<1>5. /\ disk' = Idx!NoFile \/ Whole(disk', Len(chain))
      /\ kind = "bitcoind" => disk'.part = << >>
    BY <1>2, <1>3, <1>4
<1>6. /\ Whole(index', Len(chain)) /\ index'.tip = 0
      /\ disk'.part = << >> => index'.part = << >>
    BY <1>4, <1>5, IdxLoad
<1>7. index'.tip <= Len(chain)
    BY <1>1, <1>6
<1> QED BY <1>4, <1>5, <1>6, <1>7, IdxRests

\* Every step keeps the invariant.
LEMMA IdxStep ==
    ASSUME Idx!IndexAssumption, IdxInv, [Idx!Next]_(Idx!vars)
    PROVE  IdxInv'
<1>1. chain \in Seq(Idx!Blocks) /\ reorgs \in Nat
    BY DEF IdxInv, IdxTyped
<1>2. CASE Idx!Extend
    <2>1. IdxGrows /\ reorgs' = reorgs /\ \A h \in 1..Len(chain) : chain'[h] = chain[h]
        BY <1>1, <1>2, IdxExtend
    <2>2. UNCHANGED <<kind, index, disk, scan, live>>
        BY <1>2 DEF Idx!Extend
    <2>3. reorgs' \in Nat
        BY <1>1, <2>1
    <2> QED BY <2>1, <2>2, <2>3, IdxNodeStep
<1>3. CASE Idx!Reorg
    <2>1. IdxGrows /\ reorgs' = reorgs + 1
        BY <1>1, <1>3, IdxReorg
    <2>2. UNCHANGED <<kind, index, disk, scan, live>>
        BY <1>3 DEF Idx!Reorg
    <2>3. reorgs' \in Nat
        BY <1>1, <2>1
    <2> QED BY <2>1, <2>2, <2>3, IdxNodeStep
<1>4. CASE Idx!ReadTip BY <1>4, IdxReadTip
<1>5. CASE Idx!CheckTip BY <1>5, IdxCheckTip
<1>6. CASE Idx!FetchBlock BY <1>6, IdxFetchServer, IdxFetchWallet
<1>7. CASE Idx!FetchPage BY <1>7, IdxFetchPage
<1>8. CASE Idx!ScanDone BY <1>8, IdxScanDone
<1>9. CASE Idx!ScanFails BY <1>9, IdxScanFails
<1>10. CASE Idx!Restart \/ Idx!RestartInWrite BY <1>10, IdxRestart
<1>11. CASE UNCHANGED Idx!vars
    <2>1. /\ kind' = kind /\ chain' = chain /\ index' = index /\ disk' = disk /\ scan' = scan
          /\ live' = live /\ reorgs' = reorgs
        BY <1>11 DEF Idx!vars
    <2>2. Idx!NoFile' = Idx!NoFile
        BY DEF Idx!NoFile, Idx!Empty
    <2> QED BY <2>1, <2>2 DEF IdxInv, IdxTyped, IdxWhole, IdxBegun, IdxChecked, IdxReading,
                IdxDeep, Deep, AgreeUpTo
<1> QED BY <1>2, <1>3, <1>4, <1>5, <1>6, <1>7, <1>8, <1>9, <1>10, <1>11
        DEF Idx!Next, Idx!ScanStep

\* The invariant of the index of anchors: in memory and on disk it holds, of a
\* branch, everything up to a height and nothing beyond it except a part of the
\* block being read, and what a running scan has checked still agrees with the
\* node's chain as deep as no reorganisation reaches.
THEOREM IdxInvariant == ASSUME Idx!IndexAssumption PROVE Idx!Spec => []IdxInv
<1>1. Idx!Init => IdxInv
    BY IdxInit
<1>2. IdxInv /\ [Idx!Next]_(Idx!vars) => IdxInv'
    BY IdxStep
<1> QED BY <1>1, <1>2, PTL DEF Idx!Spec

\* An anchor in the index is preceded there by every anchor that precedes it on
\* its branch, whatever scans failed, processes ended or blocks were replaced,
\* as long as the scan that meets a reorganisation notices it.
THEOREM IdxNothingSkipped ==
    ASSUME Idx!IndexAssumption PROVE Idx!Spec => []Idx!NothingSkipped
<1>1. IdxInv => Idx!NothingSkipped
    <2> SUFFICES ASSUME IdxInv, ~index.torn PROVE Covered(index)
        BY DEF Idx!NothingSkipped, Covered, Branch
    <2> QED BY DEF IdxInv, IdxWhole, Whole
<1> QED BY <1>1, IdxInvariant, PTL

\* After a scan that succeeded, an anchor that the index shows Required deep is
\* in the node's chain, and stays there while the chain grows and is reorganised.
THEOREM IdxSettledIsMined ==
    ASSUME Idx!IndexAssumption PROVE Idx!Spec => []Idx!SettledIsMined
<1>1. IdxInv => Idx!SettledIsMined
    <2> SUFFICES ASSUME IdxInv, live = "fresh", scan.at = "idle", ~index.torn,
                        NEW e \in Idx!ToSet(index.entries),
                        index.tip - e.height + 1 >= Required
                 PROVE  e \in Idx!AnchorsOf(chain, index.start)
        BY DEF Idx!SettledIsMined, Idx!SettledMined
    <2>1. /\ index.scanned \in Seq(Idx!Blocks) /\ chain \in Seq(Idx!Blocks) /\ Len(chain) \in Nat
          /\ index.tip \in Nat /\ Len(index.scanned) \in Nat
        BY IdxIndexFields
    <2>2. index.part = << >> /\ AgreeUpTo(index.scanned, chain, Deep)
        BY DEF IdxInv, IdxDeep
    <2>3. e \in Idx!AnchorsOf(index.scanned, index.start)
        BY <2>2 DEF IdxInv, IdxWhole, Whole, Covered, Branch
    <2>4. PICK h \in 1..Len(index.scanned) : h >= index.start /\
            \E p \in DOMAIN index.scanned[h].txs : e = EntryAt(index.scanned, h, p)
        BY <2>1, <2>3, IdxAnchors
    <2>5. e.height = h
        BY <2>4 DEF EntryAt
    <2>6. index.tip <= Len(chain)
        BY DEF IdxInv, IdxWhole
    <2>7. Required \in Nat /\ Required >= 1
        BY IdxConstants DEF Idx!IndexAssumption
    <2>8. h <= Deep /\ h \in 1..Len(chain)
        BY <2>1, <2>5, <2>6, <2>7 DEF Deep
    <2>9. chain[h] = index.scanned[h]
        BY <2>1, <2>2, <2>8 DEF AgreeUpTo
    <2>10. \E p \in DOMAIN chain[h].txs : e = EntryAt(chain, h, p)
        BY <2>4, <2>9 DEF EntryAt
    <2> QED BY <2>1, <2>4, <2>8, <2>10, IdxAnchors
<1> QED BY <1>1, IdxInvariant, PTL

\* A scan during which the chain did not change leaves the index of a full scan
\* of the chain, whatever branch, page or file it started from.
THEOREM IdxScanIsComplete ==
    ASSUME Idx!IndexAssumption PROVE Idx!Spec => Idx!ScanIsComplete
<1>1. ASSUME IdxInv, [Idx!Next]_(Idx!vars), scan.at = "block", scan'.at = "idle", live' = "fresh",
             chain = scan.began, ~index.torn
      PROVE  Idx!ToSet(index.entries) = Idx!AnchorsOf(chain, index.start)
    <2>1. Idx!ScanDone
        <3>1. ~UNCHANGED Idx!vars
            BY <1>1 DEF Idx!vars
        <3>2. ~Idx!Extend /\ ~Idx!Reorg /\ ~Idx!ReadTip /\ ~Idx!CheckTip /\ ~Idx!FetchPage
            BY <1>1 DEF Idx!Extend, Idx!Reorg, Idx!ReadTip, Idx!CheckTip, Idx!FetchPage
        <3>3. ~Idx!ScanFails /\ ~Idx!Restart /\ ~Idx!RestartInWrite
            BY <1>1 DEF Idx!ScanFails, Idx!Restart, Idx!RestartInWrite
        <3>4. ~Idx!FetchBlock
            <4> DEFINE block == SubSeq(chain, 1, Idx!NextHeight)
            <4>1. scan \in IdxScans
                BY <1>1 DEF IdxInv, IdxTyped
            <4> SUFFICES ASSUME Idx!FetchBlock PROVE scan'.at # "idle"
                BY <1>1
            <4>2. scan' = [scan EXCEPT !.at = "page", !.block = block, !.pos = 0] \/ scan' = scan
                BY DEF Idx!FetchBlock
            <4> HIDE DEF block
            <4> QED BY <1>1, <4>1, <4>2 DEF IdxScans
        <3> QED BY <1>1, <3>1, <3>2, <3>3, <3>4 DEF Idx!Next, Idx!ScanStep
    <2>2. index.part = << >> /\ Idx!NextHeight > index.tip
        BY <1>1, <2>1, IdxScanDone DEF Idx!ScanDone
    <2>3. /\ index.scanned \in Seq(Idx!Blocks) /\ chain \in Seq(Idx!Blocks) /\ Len(chain) \in Nat
          /\ index.tip \in Nat /\ Len(index.scanned) \in Nat /\ index.start \in Nat
        BY <1>1, IdxIndexFields
    <2>4. Len(chain) = index.tip
        BY <1>1 DEF IdxInv, IdxBegun
    <2>5. Idx!IsPrefix(index.scanned, chain)
        BY <1>1, <2>4 DEF IdxInv, IdxChecked
    <2>6. Idx!ToSet(index.entries) = Idx!AnchorsOf(index.scanned, index.start)
        BY <1>1, <2>2 DEF IdxInv, IdxWhole, Whole, Covered, Branch
    <2>7. CASE index.scanned = << >>
        <3>1. index.start > Len(chain)
            BY <2>2, <2>4, <2>7 DEF Idx!NextHeight
        <3>2. Idx!AnchorsOf(index.scanned, index.start) = {}
            BY <2>7, IdxEmptySeq
        <3>3. ASSUME NEW e \in Idx!AnchorsOf(chain, index.start) PROVE FALSE
            <4>1. \E h \in 1..Len(chain) : h >= index.start
                BY <2>3, <3>3, IdxAnchors
            <4> QED BY <2>3, <3>1, <4>1
        <3> QED BY <2>6, <3>2, <3>3
    <2>8. CASE index.scanned # << >>
        <3>1. Len(index.scanned) <= Len(chain) /\ \A i \in 1..Len(index.scanned) : index.scanned[i] = chain[i]
            BY <2>3, <2>5, IdxPrefix
        <3>2. Len(index.scanned) = Len(chain)
            BY <2>2, <2>3, <2>4, <2>8, <3>1 DEF Idx!NextHeight
        <3>3. index.scanned = chain
            BY <2>3, <3>1, <3>2, SeqEqual
        <3> QED BY <2>6, <3>3
    <2> QED BY <2>7, <2>8
<1>2. IdxInv /\ [Idx!Next]_(Idx!vars) =>
        [scan.at = "block" /\ scan'.at = "idle" /\ live' = "fresh" /\ chain = scan.began /\ ~index.torn
           => Idx!ToSet(index.entries) = Idx!AnchorsOf(chain, index.start)]_(Idx!vars)
    BY <1>1
<1> QED BY <1>2, IdxInvariant, PTL DEF Idx!Spec, Idx!ScanIsComplete

----------------------------------------------------------------------------
(* Receiving: places in a chain. *)

\* A chain, by the anchors of its blocks.
RcvChains == Seq(Seq(Txs))

\* The places of a chain's anchors.
Place(blocks, l) == \E h \in 1..Len(blocks) : \E p \in 1..Len(blocks[h]) : l = <<h, p>>

\* The anchor at a place.
TxOf(blocks, l) == blocks[l[1]][l[2]]

\* A chain and each of its blocks are sequences.
LEMMA RcvBlocks ==
    ASSUME NEW blocks \in RcvChains
    PROVE  /\ Len(blocks) \in Nat /\ DOMAIN blocks = 1..Len(blocks)
           /\ \A h \in 1..Len(blocks) :
                /\ blocks[h] \in Seq(Txs) /\ Len(blocks[h]) \in Nat
                /\ DOMAIN blocks[h] = 1..Len(blocks[h])
                /\ \A p \in 1..Len(blocks[h]) : blocks[h][p] \in Txs
<1>1. Len(blocks) \in Nat /\ DOMAIN blocks = 1..Len(blocks) /\ \A h \in 1..Len(blocks) : blocks[h] \in Seq(Txs)
    BY SeqFacts DEF RcvChains
<1>2. ASSUME NEW h \in 1..Len(blocks)
      PROVE  /\ blocks[h] \in Seq(Txs) /\ Len(blocks[h]) \in Nat /\ DOMAIN blocks[h] = 1..Len(blocks[h])
             /\ \A p \in 1..Len(blocks[h]) : blocks[h][p] \in Txs
    BY <1>1, SeqFacts
<1> QED BY <1>1, <1>2

\* A place is a pair of numbers, and the transaction there is one.
LEMMA RcvPlace ==
    ASSUME NEW blocks \in RcvChains, NEW l, Place(blocks, l)
    PROVE  /\ l \in Nat \X Nat /\ l[1] \in 1..Len(blocks) /\ l[2] \in 1..Len(blocks[l[1]])
           /\ l = <<l[1], l[2]>> /\ TxOf(blocks, l) \in Txs
<1>1. PICK h \in 1..Len(blocks) : \E p \in 1..Len(blocks[h]) : l = <<h, p>>
    BY DEF Place
<1>2. PICK p \in 1..Len(blocks[h]) : l = <<h, p>>
    BY <1>1
<1>3. Len(blocks) \in Nat /\ Len(blocks[h]) \in Nat /\ blocks[h][p] \in Txs
    BY <1>1, <1>2, RcvBlocks
<1>4. l[1] = h /\ l[2] = p
    BY <1>2
<1>5. h \in Nat /\ p \in Nat
    BY <1>3
<1> QED BY <1>1, <1>2, <1>3, <1>4, <1>5 DEF TxOf

\* What a view shows: every place, except those of transactions it hides.
LEMMA RcvConfirmed ==
    ASSUME NEW v, v.blocks \in RcvChains, NEW l
    PROVE  /\ l \in Confirmed(v) <=> Place(v.blocks, l) /\ TxOf(v.blocks, l) \notin v.hidden
           /\ TxAt(v, l) = TxOf(v.blocks, l)
<1> DEFINE b == v.blocks
<1>1. TxAt(v, l) = TxOf(b, l)
    BY DEF TxAt, TxOf
<1>2. DOMAIN b = 1..Len(b) /\ \A h \in 1..Len(b) : DOMAIN b[h] = 1..Len(b[h])
    BY RcvBlocks
<1>3. l \in UNION {{h} \X DOMAIN b[h] : h \in DOMAIN b} <=> Place(b, l)
    <2>1. ASSUME l \in UNION {{h} \X DOMAIN b[h] : h \in DOMAIN b} PROVE Place(b, l)
        <3>1. PICK h \in DOMAIN b : l \in {h} \X DOMAIN b[h]
            BY <2>1
        <3>2. l = <<h, l[2]>> /\ l[2] \in DOMAIN b[h]
            BY <3>1
        <3> QED BY <1>2, <3>1, <3>2 DEF Place
    <2>2. ASSUME Place(b, l) PROVE l \in UNION {{h} \X DOMAIN b[h] : h \in DOMAIN b}
        <3>1. PICK h \in 1..Len(b) : \E p \in 1..Len(b[h]) : l = <<h, p>>
            BY <2>2 DEF Place
        <3>2. PICK p \in 1..Len(b[h]) : l = <<h, p>>
            BY <3>1
        <3>3. h \in DOMAIN b /\ p \in DOMAIN b[h]
            BY <1>2, <3>1, <3>2
        <3>4. l \in {h} \X DOMAIN b[h]
            BY <3>2, <3>3
        <3> QED BY <3>3, <3>4
    <2> QED BY <2>1, <2>2
<1>4. l \in Confirmed(v) <=> Place(b, l) /\ TxAt(v, l) \notin v.hidden
    BY <1>3 DEF Confirmed
<1> QED BY <1>1, <1>4

\* The views of the model.
LEMMA RcvView ==
    ASSUME NEW blocks, NEW unmined
    PROVE  /\ View(blocks, unmined).blocks = blocks /\ View(blocks, unmined).sentinel = unmined
           /\ View(blocks, unmined).hidden = {}
           /\ Hiding(blocks, unmined).blocks = blocks /\ Hiding(blocks, unmined).sentinel = {}
           /\ Hiding(blocks, unmined).hidden = unmined
BY DEF View, Hiding

\* The transactions of a chain.
LEMMA RcvMined ==
    ASSUME NEW blocks \in RcvChains, NEW t
    PROVE  t \in Mined(blocks) <=> \E h \in 1..Len(blocks) : \E p \in 1..Len(blocks[h]) : t = blocks[h][p]
<1> DEFINE v == View(blocks, {})
<1>1. v.blocks = blocks /\ v.hidden = {}
    BY RcvView
<1>2. t \in Mined(blocks) <=> \E l \in Confirmed(v) : t = TxAt(v, l)
    BY DEF Mined
<1> HIDE DEF v
<1>3. \A l : /\ l \in Confirmed(v) <=> Place(blocks, l)
             /\ TxAt(v, l) = TxOf(blocks, l)
    BY <1>1, RcvConfirmed
<1>4. \A h, p : TxOf(blocks, <<h, p>>) = blocks[h][p]
    BY DEF TxOf
<1>5. ASSUME NEW l, Place(blocks, l), t = TxOf(blocks, l)
      PROVE  \E h \in 1..Len(blocks) : \E p \in 1..Len(blocks[h]) : t = blocks[h][p]
    BY <1>4, <1>5 DEF Place
<1>6. ASSUME NEW h \in 1..Len(blocks), NEW p \in 1..Len(blocks[h]), t = blocks[h][p]
      PROVE  Place(blocks, <<h, p>>) /\ t = TxOf(blocks, <<h, p>>)
    BY <1>4, <1>6 DEF Place
<1> QED BY <1>2, <1>3, <1>5, <1>6

\* The earliest of some places.
LEMMA RcvEarliest ==
    ASSUME NEW L, L \subseteq Nat \X Nat, L # {}
    PROVE  Earliest(L) \in L /\ \A k \in L : k = Earliest(L) \/ Before(Earliest(L), k)
<1>1. PICK m \in {l[1] : l \in L} : \A j \in {l[1] : l \in L} : m <= j
    <2> DEFINE T == {l[1] : l \in L}
    <2>1. T \subseteq Nat /\ T # {}
        OBVIOUS
    <2> HIDE DEF T
    <2>2. \E m \in T : \A j \in T : m <= j
        BY <2>1, LeastNumber
    <2> QED BY <2>2 DEF T
<1>2. PICK q \in {l[2] : l \in {k \in L : k[1] = m}} : \A j \in {l[2] : l \in {k \in L : k[1] = m}} : q <= j
    <2> DEFINE T == {l[2] : l \in {k \in L : k[1] = m}}
    <2>1. T \subseteq Nat /\ T # {}
        BY <1>1
    <2> HIDE DEF T
    <2>2. \E q \in T : \A j \in T : q <= j
        BY <2>1, LeastNumber
    <2> QED BY <2>2 DEF T
<1>3. PICK e \in L : e[1] = m /\ e[2] = q
    BY <1>2
<1>4. ASSUME NEW k \in L PROVE k = e \/ Before(e, k)
    <2>1. k \in Nat \X Nat /\ e \in Nat \X Nat
        OBVIOUS
    <2>2. /\ k = <<k[1], k[2]>> /\ e = <<e[1], e[2]>>
          /\ k[1] \in Nat /\ k[2] \in Nat /\ e[1] \in Nat /\ e[2] \in Nat
        BY <2>1
    <2>3. e[1] <= k[1]
        BY <1>1, <1>3
    <2>4. k[1] = e[1] => e[2] <= k[2]
        BY <1>2, <1>3
    <2>5. k[1] = e[1] /\ k[2] = e[2] => k = e
        BY <2>2
    <2>6. e[1] < k[1] \/ (e[1] = k[1] /\ e[2] < k[2]) \/ (k[1] = e[1] /\ k[2] = e[2])
        BY <2>2, <2>3, <2>4
    <2> QED BY <2>5, <2>6 DEF Before
<1>5. \E l \in L : \A k \in L : k = l \/ Before(l, k)
    BY <1>4
<1> QED BY <1>5 DEF Earliest

\* A place before all others is the earliest one.
LEMMA RcvEarliestIs ==
    ASSUME NEW L, L \subseteq Nat \X Nat, NEW l \in L, \A k \in L : k = l \/ Before(l, k)
    PROVE  Earliest(L) = l
<1> DEFINE e == Earliest(L)
<1>1. e \in L /\ \A k \in L : k = e \/ Before(e, k)
    BY RcvEarliest
<1> HIDE DEF e
<1>2. l[1] \in Nat /\ l[2] \in Nat /\ e[1] \in Nat /\ e[2] \in Nat
    BY <1>1
<1>3. ~(Before(l, e) /\ Before(e, l))
    BY <1>2 DEF Before
<1> QED BY <1>1, <1>3 DEF e

----------------------------------------------------------------------------
(* Where a consignment's anchor and a nullifier are in a view. *)

\* No transaction is in a chain twice.
Unique(blocks) ==
    \A k, l : Place(blocks, k) /\ Place(blocks, l) /\ TxOf(blocks, k) = TxOf(blocks, l) => k = l

\* The places of a view without a mempool transaction.
LEMMA RcvFind ==
    ASSUME NEW v, v.blocks \in RcvChains, v.sentinel = {}, NEW c, NEW l
    PROVE  l \in Find(v, c) <=>
             /\ Place(v.blocks, l) /\ TxOf(v.blocks, l) \notin v.hidden
             /\ TxOf(v.blocks, l) = Consignment[c].txid /\ Consignment[c].loc \in {l, Sentinel}
<1>1. l \in Find(v, c) <=>
        /\ l \in Confirmed(v) /\ TxAt(v, l) = Consignment[c].txid
        /\ Consignment[c].loc \in {l, Sentinel}
    BY DEF Find
<1> QED BY <1>1, RcvConfirmed

\* Where a nullifier occurs in such a view.
LEMMA RcvOccurrences ==
    ASSUME NEW v, v.blocks \in RcvChains, NEW nf
    PROVE  /\ \A l : l \in NullifierOccurrences(v, nf) <=>
                /\ Place(v.blocks, l) /\ TxOf(v.blocks, l) \notin v.hidden
                /\ EntryMatches(TxOf(v.blocks, l), nf)
           /\ NullifierOccurrences(v, nf) \subseteq Nat \X Nat
<1>1. ASSUME NEW l
      PROVE  l \in NullifierOccurrences(v, nf) <=>
                /\ Place(v.blocks, l) /\ TxOf(v.blocks, l) \notin v.hidden
                /\ EntryMatches(TxOf(v.blocks, l), nf)
    <2>1. /\ l \in Confirmed(v) <=> Place(v.blocks, l) /\ TxOf(v.blocks, l) \notin v.hidden
          /\ TxAt(v, l) = TxOf(v.blocks, l)
        BY RcvConfirmed
    <2>2. l \in NullifierOccurrences(v, nf) <=>
            l \in Confirmed(v) /\ EntryMatches(TxAt(v, l), nf)
        BY DEF NullifierOccurrences
    <2> QED BY <2>1, <2>2
<1>2. ASSUME NEW l \in NullifierOccurrences(v, nf) PROVE l \in Nat \X Nat
    BY <1>1, <1>2, RcvPlace
<1> QED BY <1>1, <1>2

\* The first occurrence, when there is one, and what it is otherwise.
LEMMA RcvFirst ==
    ASSUME NEW v, v.blocks \in RcvChains, v.sentinel = {}, NEW nf
    PROVE  /\ NullifierOccurrences(v, nf) = {} => FirstOccurrence(v, nf) = NoLocation
           /\ NullifierOccurrences(v, nf) # {} =>
                /\ FirstOccurrence(v, nf) \in NullifierOccurrences(v, nf)
                /\ \A k \in NullifierOccurrences(v, nf) :
                     k = FirstOccurrence(v, nf) \/ Before(FirstOccurrence(v, nf), k)
<1> DEFINE L == NullifierOccurrences(v, nf)
<1>1. L \subseteq Nat \X Nat
    BY RcvOccurrences
<1>2. FirstOccurrence(v, nf) = IF L # {} THEN Earliest(L) ELSE NoLocation
    BY DEF FirstOccurrence
<1> HIDE DEF L
<1>3. L # {} => Earliest(L) \in L /\ \A k \in L : k = Earliest(L) \/ Before(Earliest(L), k)
    BY <1>1, RcvEarliest
<1> QED BY <1>2, <1>3 DEF L

\* No place is one of the two that stand for none.
LEMMA RcvNowhere ==
    ASSUME NEW blocks \in RcvChains, NEW l, Place(blocks, l)
    PROVE  l # Sentinel /\ l # NoLocation
<1>1. l[1] \in 1..Len(blocks) /\ Len(blocks) \in Nat
    BY RcvPlace, RcvBlocks
<1>2. l[1] >= 1
    BY <1>1
<1> QED BY <1>2 DEF Sentinel, NoLocation

\* In a chain without repetition the anchor of a consignment has one place.
LEMMA RcvLocate ==
    ASSUME NEW v, v.blocks \in RcvChains, v.sentinel = {}, Unique(v.blocks), NEW c,
           NEW l \in Find(v, c)
    PROVE  Locate(v, c) = l
<1>1. ASSUME NEW k \in Find(v, c) PROVE k = l
    <2>1. /\ Place(v.blocks, k) /\ TxOf(v.blocks, k) = Consignment[c].txid
          /\ Place(v.blocks, l) /\ TxOf(v.blocks, l) = Consignment[c].txid
        BY RcvFind
    <2> QED BY <2>1 DEF Unique
<1> QED BY <1>1 DEF Locate

----------------------------------------------------------------------------
(* Asking two backends, one of which hides transactions. *)

\* The cross-check knows the first occurrence in the whole chain.
LEMMA RcvCrossFirst ==
    ASSUME NEW whole, NEW part, whole.blocks \in RcvChains, part.blocks = whole.blocks,
           whole.hidden = {}, whole.sentinel = {}, part.sentinel = {}, NEW nf,
           NEW views, \/ views = <<part, whole>> \/ views = <<whole, part>>
    PROVE  CrossFirst(views, nf) = FirstOccurrence(whole, nf)
<1> DEFINE f == FirstOccurrence(whole, nf)
           g == FirstOccurrence(part, nf)
           W == NullifierOccurrences(whole, nf)
           P == NullifierOccurrences(part, nf)
           L == {f, g} \ {NoLocation}
<1>1. {FirstOccurrence(views[i], nf) : i \in DOMAIN views} = {f, g}
    <2>1. CASE views = <<part, whole>>
        <3>1. DOMAIN views = {1, 2} /\ views[1] = part /\ views[2] = whole
            BY <2>1
        <3> QED BY <3>1
    <2>2. CASE views = <<whole, part>>
        <3>1. DOMAIN views = {1, 2} /\ views[1] = whole /\ views[2] = part
            BY <2>2
        <3> QED BY <3>1
    <2> QED BY <2>1, <2>2
<1>2. CrossFirst(views, nf) = IF L # {} THEN Earliest(L) ELSE NoLocation
    BY <1>1 DEF CrossFirst
<1>3. P \subseteq W /\ W \subseteq Nat \X Nat
    <2>1. W \subseteq Nat \X Nat
        BY RcvOccurrences
    <2>2. \A l : l \in P => Place(whole.blocks, l) /\ EntryMatches(TxOf(whole.blocks, l), nf)
        BY RcvOccurrences
    <2>3. \A l : l \in W <=> Place(whole.blocks, l) /\ EntryMatches(TxOf(whole.blocks, l), nf)
        BY RcvOccurrences
    <2> QED BY <2>1, <2>2, <2>3
<1>4. /\ W = {} => f = NoLocation
      /\ W # {} => f \in W /\ \A k \in W : k = f \/ Before(f, k)
    BY RcvFirst
<1>5. /\ P = {} => g = NoLocation
      /\ P # {} => g \in P
    BY RcvFirst
<1>6. \A l \in W : l # NoLocation
    <2> SUFFICES ASSUME NEW l \in W PROVE l # NoLocation
        OBVIOUS
    <2>1. Place(whole.blocks, l)
        BY RcvOccurrences
    <2> QED BY <2>1, RcvNowhere
<1> HIDE DEF f, g, W, P
<1>7. CASE W = {}
    <2>1. L = {}
        BY <1>3, <1>4, <1>5, <1>7
    <2> QED BY <1>2, <1>4, <1>7, <2>1 DEF f
<1>8. CASE W # {}
    <2>1. f \in L /\ L \subseteq W
        BY <1>3, <1>4, <1>5, <1>6, <1>8
    <2>2. L \subseteq Nat \X Nat /\ \A k \in L : k = f \/ Before(f, k)
        BY <1>3, <1>4, <1>8, <2>1
    <2> HIDE DEF L
    <2>3. Earliest(L) = f
        BY <2>1, <2>2, RcvEarliestIs
    <2> QED BY <1>2, <2>1, <2>3 DEF f
<1> QED BY <1>7, <1>8

\* On a chain without repetition, a backend that hides transactions cannot make
\* the cross-check accept what the whole chain refuses.
LEMMA RcvExposed ==
    ASSUME NEW blocks \in RcvChains, Unique(blocks) PROVE Exposed(blocks)
<1> DEFINE whole == View(blocks, {})
<1> SUFFICES ASSUME NEW hidden \in SUBSET Mined(blocks), NEW c \in Consignments,
                    \/ CrossAccepts(<<Hiding(blocks, hidden), whole>>, c, Required)
                    \/ CrossAccepts(<<whole, Hiding(blocks, hidden)>>, c, Required)
             PROVE  Accepts(whole, c, Required)
    BY DEF Exposed
<1> DEFINE part == Hiding(blocks, hidden)
<1>1. /\ whole.blocks = blocks /\ whole.sentinel = {} /\ whole.hidden = {}
      /\ part.blocks = blocks /\ part.sentinel = {}
    BY RcvView
<1> HIDE DEF whole, part
<1>2. PICK views : /\ views = <<part, whole>> \/ views = <<whole, part>>
                   /\ CrossAccepts(views, c, Required)
    BY DEF part
<1>3. \A i \in DOMAIN views : views[i] = part \/ views[i] = whole
    BY <1>2
<1> DEFINE first == [nf \in Nullifiers(c) |-> CrossFirst(views, nf)]
           holders == {i \in DOMAIN views : Find(views[i], c) # {}}
           i0 == CHOOSE i \in holders : \A j \in holders : i <= j
           present == views[i0]
<1>4. /\ holders # {} /\ Consignment[c].asset = "valid" /\ Consignment[c].owned
      /\ AnchorAccepted(present, c, Required, first)
    BY <1>2 DEF CrossAccepts
<1>5. first = [nf \in Nullifiers(c) |-> FirstOccurrence(whole, nf)]
    <2>1. \A nf \in Nullifiers(c) : CrossFirst(views, nf) = FirstOccurrence(whole, nf)
        BY <1>1, <1>2, RcvCrossFirst
    <2> QED BY <2>1
<1>6. present \in {part, whole}
    <2>1. DOMAIN views = {1, 2}
        BY <1>2
    <2>2. \E i \in holders : \A j \in holders : i <= j
        <3>1. holders \subseteq Nat
            BY <2>1
        <3> HIDE DEF holders
        <3> QED BY <1>4, <3>1, LeastNumber
    <2>3. i0 \in holders
        BY <2>2
    <2> QED BY <1>3, <2>3
<1> HIDE DEF first, present, holders, i0
<1>7. /\ Find(present, c) # {} /\ Distinct(Consignment[c].nullifiers)
      /\ ProofRecordExists(Consignment[c].txid, Consignment[c].nullifiers)
      /\ ProofValid(Consignment[c].txid, c)
      /\ ConfirmationsAt(present, Locate(present, c)) >= Required
      /\ BindsNullifiers(Consignment[c].txid, c)
      /\ \A nf \in Nullifiers(c) : first[nf] = Locate(present, c)
    BY <1>4 DEF AnchorAccepted
<1>8. PICK l : l \in Find(present, c)
    BY <1>7
<1>9. l \in Find(whole, c)
    <2>1. CASE present = part
        <3>1. /\ Place(blocks, l) /\ TxOf(blocks, l) = Consignment[c].txid
              /\ Consignment[c].loc \in {l, Sentinel}
            BY <1>1, <1>8, <2>1, RcvFind
        <3> QED BY <1>1, <3>1, RcvFind
    <2> QED BY <1>6, <1>8, <2>1
<1>10. Locate(present, c) = l /\ Locate(whole, c) = l
    <2>1. present.blocks = blocks /\ present.sentinel = {}
        BY <1>1, <1>6
    <2>2. Locate(present, c) = l
        BY <1>8, <2>1, RcvLocate
    <2>3. Locate(whole, c) = l
        BY <1>1, <1>9, RcvLocate
    <2> QED BY <2>2, <2>3
<1>11. ConfirmationsAt(whole, l) = ConfirmationsAt(present, l)
    BY <1>1, <1>6 DEF ConfirmationsAt
<1>12. AnchorAccepted(whole, c, Required, first)
    BY <1>7, <1>9, <1>10, <1>11 DEF AnchorAccepted
<1> QED BY <1>4, <1>5, <1>12 DEF Accepts

----------------------------------------------------------------------------
(* The chain of a network that mines and reorganises. *)

\* The constants, as the proofs need them.
LEMMA RcvConstants ==
    ASSUME ReceiveAssumption
    PROVE  Required \in Nat /\ Required >= 1 /\ BlockSize \in Nat
BY DEF ReceiveAssumption

\* A block is made of distinct transactions of the pool.
LEMMA RcvNextBlock ==
    ASSUME ReceiveAssumption, NEW unmined \in SUBSET Txs, NEW b \in NextBlocks(unmined)
    PROVE  /\ b \in Seq(Txs) /\ Len(b) \in Nat
           /\ \A p \in 1..Len(b) : b[p] \in unmined
           /\ \A p, q \in 1..Len(b) : b[p] = b[q] => p = q
<1>1. PICK n \in 0..BlockSize : b \in [1..n -> unmined]
    BY DEF NextBlocks
<1>2. n \in Nat /\ b \in [1..n -> Txs]
    BY <1>1, RcvConstants
<1>3. b \in Seq(Txs) /\ Len(b) = n /\ DOMAIN b = 1..n
    BY <1>2
<1>4. \A p, q \in DOMAIN b : b[p] = b[q] => p = q
    BY DEF NextBlocks
<1> QED BY <1>1, <1>2, <1>3, <1>4

\* The bottom of a chain without repetition has none.
LEMMA RcvBottom ==
    ASSUME NEW base \in RcvChains, NEW top \in RcvChains, Len(base) <= Len(top),
           \A h \in 1..Len(base) : base[h] = top[h]
    PROVE  /\ \A l : Place(base, l) => Place(top, l) /\ TxOf(top, l) = TxOf(base, l)
           /\ Unique(top) => Unique(base)
           /\ Mined(base) \subseteq Mined(top)
<1>1. Len(base) \in Nat /\ Len(top) \in Nat
    BY RcvBlocks
<1>2. ASSUME NEW l, Place(base, l) PROVE Place(top, l) /\ TxOf(top, l) = TxOf(base, l)
    <2>1. l[1] \in 1..Len(base) /\ l[2] \in 1..Len(base[l[1]]) /\ l = <<l[1], l[2]>>
        BY <1>2, RcvPlace
    <2>2. l[1] \in 1..Len(top) /\ l[2] \in 1..Len(top[l[1]]) /\ base[l[1]] = top[l[1]]
        BY <1>1, <2>1
    <2> QED BY <2>1, <2>2 DEF Place, TxOf
<1>3. Unique(top) => Unique(base)
    BY <1>2 DEF Unique
<1>4. ASSUME NEW t \in Mined(base) PROVE t \in Mined(top)
    <2>1. PICK h \in 1..Len(base) : \E p \in 1..Len(base[h]) : t = base[h][p]
        BY RcvMined
    <2>2. h \in 1..Len(top) /\ base[h] = top[h]
        BY <1>1, <2>1
    <2> QED BY <2>1, <2>2, RcvMined
<1> QED BY <1>2, <1>3, <1>4

\* A chain with a new block, and empty ones above it, repeats nothing and shows
\* no transaction that neither the chain below nor the pool had.
LEMMA RcvGrown ==
    ASSUME ReceiveAssumption, NEW base \in RcvChains, Unique(base), NEW unmined \in SUBSET Txs,
           unmined \intersect Mined(base) = {}, NEW b \in NextBlocks(unmined),
           NEW top \in RcvChains, Len(base) + 1 <= Len(top),
           \A h \in 1..Len(base) : top[h] = base[h], top[Len(base) + 1] = b,
           \A h \in 1..Len(top) : h > Len(base) + 1 => top[h] = << >>
    PROVE  Unique(top) /\ Mined(top) \subseteq Mined(base) \union unmined
<1>1. Len(base) \in Nat /\ Len(top) \in Nat
    BY RcvBlocks
<1>2. /\ Len(b) \in Nat /\ \A p \in 1..Len(b) : b[p] \in unmined
      /\ \A p, q \in 1..Len(b) : b[p] = b[q] => p = q
    BY RcvNextBlock
<1>3. ASSUME NEW l, Place(top, l)
      PROVE  \/ /\ Place(base, l) /\ TxOf(base, l) = TxOf(top, l)
                /\ TxOf(top, l) \in Mined(base)
             \/ /\ l = <<Len(base) + 1, l[2]>> /\ l[2] \in 1..Len(b)
                /\ TxOf(top, l) = b[l[2]] /\ TxOf(top, l) \in unmined
    <2>1. l[1] \in 1..Len(top) /\ l[2] \in 1..Len(top[l[1]]) /\ l = <<l[1], l[2]>>
        BY <1>3, RcvPlace
    <2>2. CASE l[1] <= Len(base)
        <3>1. l[1] \in 1..Len(base) /\ top[l[1]] = base[l[1]]
            BY <1>1, <2>1, <2>2
        <3>2. Place(base, l) /\ TxOf(base, l) = TxOf(top, l)
            BY <2>1, <3>1 DEF Place, TxOf
        <3>3. TxOf(top, l) \in Mined(base)
            BY <2>1, <3>1, RcvMined DEF TxOf
        <3> QED BY <3>2, <3>3
    <2>3. CASE l[1] = Len(base) + 1
        <3>1. top[l[1]] = b
            BY <2>3
        <3> QED BY <1>2, <2>1, <2>3, <3>1 DEF TxOf
    <2>4. CASE l[1] > Len(base) + 1
        <3>1. top[l[1]] = << >>
            BY <2>1, <2>4
        <3>2. Len(<< >>) = 0
            OBVIOUS
        <3> QED BY <2>1, <3>1, <3>2
    <2> QED BY <1>1, <2>1, <2>2, <2>3, <2>4
<1>4. Unique(top)
    <2> SUFFICES ASSUME NEW k, NEW l, Place(top, k), Place(top, l), TxOf(top, k) = TxOf(top, l)
                 PROVE  k = l
        BY DEF Unique
    <2>1. TxOf(top, k) \in unmined <=> TxOf(top, k) \notin Mined(base)
        BY <1>3
    <2>2. CASE TxOf(top, k) \in Mined(base)
        <3>1. Place(base, k) /\ TxOf(base, k) = TxOf(top, k) /\ Place(base, l) /\ TxOf(base, l) = TxOf(top, l)
            BY <1>3, <2>1, <2>2
        <3> QED BY <3>1 DEF Unique
    <2>3. CASE TxOf(top, k) \notin Mined(base)
        <3>1. /\ k = <<Len(base) + 1, k[2]>> /\ k[2] \in 1..Len(b) /\ TxOf(top, k) = b[k[2]]
              /\ l = <<Len(base) + 1, l[2]>> /\ l[2] \in 1..Len(b) /\ TxOf(top, l) = b[l[2]]
            BY <1>3, <2>3
        <3>2. k[2] \in 1..Len(b) /\ l[2] \in 1..Len(b) /\ b[k[2]] = b[l[2]]
            BY <3>1
        <3>3. k[2] = l[2]
            BY ONLY <1>2, <3>2
        <3> QED BY <3>1, <3>3
    <2> QED BY <2>2, <2>3
<1>5. ASSUME NEW t \in Mined(top) PROVE t \in Mined(base) \union unmined
    <2>1. PICK h \in 1..Len(top) : \E p \in 1..Len(top[h]) : t = top[h][p]
        BY RcvMined
    <2>2. PICK p \in 1..Len(top[h]) : t = top[h][p]
        BY <2>1
    <2>3. Place(top, <<h, p>>) /\ TxOf(top, <<h, p>>) = t
        BY <2>1, <2>2 DEF Place, TxOf
    <2> QED BY <1>3, <2>3
<1> QED BY <1>4, <1>5

\* What the network keeps.
RcvNet ==
    /\ chain \in RcvChains /\ mempool \in SUBSET Txs /\ final \in Nat
    /\ Unique(chain) /\ mempool \intersect Mined(chain) = {}
    /\ final >= Len(chain) - Required + 1 /\ final <= Len(chain)

\* What a step that changes the chain leaves.
RcvMoved ==
    /\ RcvNet' /\ final <= final' /\ \A h \in 1..final : chain'[h] = chain[h]
    /\ (mempool \union Mined(chain))' \subseteq mempool \union Mined(chain)

\* How the final height follows a chain that grew.
LEMMA RcvSettle ==
    ASSUME ReceiveAssumption, RcvNet, Len(chain') = Len(chain) + 1, final' = Settle(chain')
    PROVE  /\ final' \in Nat /\ final <= final' /\ final' <= Len(chain')
           /\ final' >= Len(chain') - Required + 1
<1>1. Len(chain) \in Nat /\ final \in Nat /\ final <= Len(chain) /\ Required \in Nat /\ Required >= 1
    BY RcvBlocks, RcvConstants DEF RcvNet
<1> QED BY <1>1 DEF Settle

\* A block is mined.
LEMMA RcvMine == ASSUME ReceiveAssumption, RcvNet, Mine PROVE RcvMoved
<1>1. PICK b \in NextBlocks(mempool) : chain' = Append(chain, b)
    BY DEF Mine
<1>2. mempool \in SUBSET Txs /\ chain \in Seq(Seq(Txs))
    BY DEF RcvNet, RcvChains
<1>3. b \in Seq(Txs)
    BY <1>2, RcvNextBlock
<1>4. /\ chain' \in RcvChains /\ Len(chain') = Len(chain) + 1
      /\ \A h \in 1..Len(chain) : chain'[h] = chain[h]
      /\ chain'[Len(chain) + 1] = b
    BY <1>1, <1>2, <1>3, AppendFacts DEF RcvChains
<1>5. Len(chain) \in Nat /\ final \in Nat /\ final <= Len(chain)
    BY RcvBlocks DEF RcvNet
<1>6. Unique(chain') /\ Mined(chain') \subseteq Mined(chain) \union mempool
    <2>1. \A h \in 1..Len(chain') : h > Len(chain) + 1 => chain'[h] = << >>
        BY <1>4, <1>5
    <2>2. chain \in RcvChains /\ Unique(chain) /\ mempool \intersect Mined(chain) = {}
        BY DEF RcvNet
    <2>3. Len(chain) + 1 <= Len(chain')
        BY <1>4, <1>5
    <2> QED BY ONLY <1>1, <1>2, <1>4, <2>1, <2>2, <2>3, ReceiveAssumption, RcvGrown
<1>7. mempool' \subseteq mempool /\ mempool' \intersect Mined(chain') = {}
    BY DEF Mine
<1>8. /\ final' \in Nat /\ final <= final' /\ final' <= Len(chain') /\ final' >= Len(chain') - Required + 1
    BY <1>4, RcvSettle DEF Mine
<1>9. Mined(chain)' = Mined(chain')
    BY DEF Mined, Confirmed, View, TxAt
<1>10. Unique(chain)' <=> Unique(chain')
    BY DEF Unique, Place, TxOf
<1>11. RcvNet'
    BY <1>2, <1>4, <1>6, <1>7, <1>8, <1>9, <1>10 DEF RcvNet
<1>12. \A h \in 1..final : chain'[h] = chain[h]
    BY <1>4, <1>5
<1> QED BY <1>6, <1>7, <1>8, <1>9, <1>11, <1>12 DEF RcvMoved

\* The last block is replaced.
LEMMA RcvReorg == ASSUME ReceiveAssumption, RcvNet, Reorg PROVE RcvMoved
<1> DEFINE base == SubSeq(chain, 1, Len(chain) - 1)
           unmined == {t \in mempool \union Mined(chain) : t \notin Mined(base)}
<1>1. PICK b \in NextBlocks(unmined) :
        /\ chain' = base \o <<b, << >>>>
        /\ mempool' = {t \in unmined : t \notin Mined(chain') /\
                                    \A u \in Mined(chain') : ~Conflicting(t, u)}
    BY DEF Reorg
<1>2. /\ chain \in Seq(Seq(Txs)) /\ chain \in RcvChains /\ Len(chain) \in Nat /\ Len(chain) >= 1
      /\ final \in Nat /\ Len(chain) > final /\ mempool \in SUBSET Txs
    BY RcvBlocks DEF RcvNet, RcvChains, Reorg
<1>3. Len(chain) - 1 \in 0..Len(chain)
    BY <1>2
<1>4. /\ base \in RcvChains /\ base \in Seq(Seq(Txs)) /\ Len(base) = Len(chain) - 1
      /\ \A h \in 1..Len(chain) - 1 : base[h] = chain[h]
    BY <1>2, <1>3, PrefixFacts DEF RcvChains
<1>5. Mined(chain) \subseteq Txs
    <2> SUFFICES ASSUME NEW t \in Mined(chain) PROVE t \in Txs
        OBVIOUS
    <2>1. PICK h \in 1..Len(chain) : \E p \in 1..Len(chain[h]) : t = chain[h][p]
        BY <1>2, RcvMined
    <2> QED BY <1>2, <2>1, RcvBlocks
<1>6. unmined \in SUBSET Txs /\ unmined \intersect Mined(base) = {} /\ unmined \subseteq mempool \union Mined(chain)
    BY <1>2, <1>5
<1> HIDE DEF base, unmined
<1>7. Unique(base) /\ Mined(base) \subseteq Mined(chain)
    <2>1. Len(base) <= Len(chain) /\ \A h \in 1..Len(base) : base[h] = chain[h]
        BY <1>2, <1>4
    <2>2. Unique(chain)
        BY DEF RcvNet
    <2> QED BY ONLY <1>2, <1>4, <2>1, <2>2, RcvBottom
<1>8. b \in Seq(Txs)
    BY <1>6, RcvNextBlock
<1>9. /\ chain' \in RcvChains /\ Len(chain') = Len(base) + 2
      /\ \A h \in 1..Len(base) : chain'[h] = base[h]
      /\ chain'[Len(base) + 1] = b /\ chain'[Len(base) + 2] = << >>
    <2> DEFINE two == <<b, << >>>>
    <2>1. two \in Seq(Seq(Txs)) /\ Len(two) = 2 /\ two[1] = b /\ two[2] = << >>
        BY <1>8
    <2> HIDE DEF two
    <2>2. /\ base \o two \in Seq(Seq(Txs)) /\ Len(base \o two) = Len(base) + Len(two)
          /\ \A i \in 1..Len(base) + Len(two) :
               (base \o two)[i] = IF i <= Len(base) THEN base[i] ELSE two[i - Len(base)]
        BY ONLY <1>4, <2>1, ConcatProperties
    <2>3. Len(base) \in Nat
        BY <1>2, <1>4
    <2>4. \A i \in 1..Len(base) : (base \o two)[i] = base[i]
        BY <2>1, <2>2, <2>3
    <2>5. (base \o two)[Len(base) + 1] = b
        <3>1. Len(base) + 1 \in 1..Len(base) + Len(two) /\ ~(Len(base) + 1 <= Len(base))
              /\ Len(base) + 1 - Len(base) = 1
            BY <2>1, <2>3
        <3> QED BY <2>1, <2>2, <3>1
    <2>6. (base \o two)[Len(base) + 2] = << >>
        <3>1. Len(base) + 2 \in 1..Len(base) + Len(two) /\ ~(Len(base) + 2 <= Len(base))
              /\ Len(base) + 2 - Len(base) = 2
            BY <2>1, <2>3
        <3> QED BY <2>1, <2>2, <3>1
    <2>7. chain' = base \o two
        BY <1>1 DEF two
    <2> QED BY <2>1, <2>2, <2>4, <2>5, <2>6, <2>7 DEF RcvChains
<1>10. Len(base) \in Nat /\ Len(chain') = Len(chain) + 1
    BY <1>2, <1>4, <1>9
<1>11. Unique(chain') /\ Mined(chain') \subseteq Mined(base) \union unmined
    <2>1. \A h \in 1..Len(chain') : h > Len(base) + 1 => chain'[h] = << >>
        <3> SUFFICES ASSUME NEW h \in 1..Len(chain'), h > Len(base) + 1 PROVE chain'[h] = << >>
            OBVIOUS
        <3>1. h = Len(base) + 2
            BY <1>9, <1>10
        <3> QED BY <1>9, <3>1
    <2>2. Len(base) + 1 <= Len(chain')
        BY <1>9, <1>10
    <2> QED BY ONLY <1>1, <1>4, <1>6, <1>7, <1>9, <2>1, <2>2, ReceiveAssumption, RcvGrown
<1>12. mempool' \subseteq unmined /\ mempool' \intersect Mined(chain') = {}
    BY <1>1
<1>13. /\ final' \in Nat /\ final <= final' /\ final' <= Len(chain') /\ final' >= Len(chain') - Required + 1
    BY <1>10, RcvSettle DEF Reorg
<1>14. Mined(chain)' = Mined(chain')
    BY DEF Mined, Confirmed, View, TxAt
<1>15. Unique(chain)' <=> Unique(chain')
    BY DEF Unique, Place, TxOf
<1>16. RcvNet'
    BY <1>6, <1>9, <1>11, <1>12, <1>13, <1>14, <1>15 DEF RcvNet
<1>17. \A h \in 1..final : chain'[h] = chain[h]
    <2> SUFFICES ASSUME NEW h \in 1..final PROVE chain'[h] = chain[h]
        OBVIOUS
    <2>1. h \in 1..Len(chain) - 1 /\ h \in 1..Len(base)
        BY <1>2, <1>4
    <2> QED BY <1>4, <1>9, <2>1
<1>18. (mempool \union Mined(chain))' \subseteq mempool \union Mined(chain)
    BY <1>6, <1>7, <1>11, <1>12, <1>14
<1> QED BY <1>13, <1>16, <1>17, <1>18 DEF RcvMoved

----------------------------------------------------------------------------
(* Settled payments. *)

\* The anchor of a consignment is at a final place, and every nullifier of the
\* consignment occurs there first.
SettledAt(c, l) ==
    /\ Place(chain, l) /\ l[1] <= final /\ TxOf(chain, l) = Consignment[c].txid
    /\ Consignment[c].loc \in {l, Sentinel}
    /\ \A nf \in Nullifiers(c) :
         /\ EntryMatches(Consignment[c].txid, nf)
         /\ \A k : Place(chain, k) /\ EntryMatches(TxOf(chain, k), nf) => k = l \/ Before(l, k)

\* What is settled stays where it is as the chain moves.
LEMMA RcvSettledMoves ==
    ASSUME RcvNet, RcvMoved, NEW c, NEW l, SettledAt(c, l)
    PROVE  SettledAt(c, l)'
<1>1. /\ chain \in RcvChains /\ chain' \in RcvChains /\ final \in Nat /\ final' \in Nat
      /\ final <= final' /\ final <= Len(chain) /\ final' <= Len(chain')
      /\ \A h \in 1..final : chain'[h] = chain[h]
    BY DEF RcvNet, RcvMoved
<1>2. Len(chain) \in Nat /\ Len(chain') \in Nat
    BY <1>1, RcvBlocks
<1>3. /\ l[1] \in 1..Len(chain) /\ l[2] \in 1..Len(chain[l[1]]) /\ l = <<l[1], l[2]>>
      /\ l[1] <= final /\ l[2] \in Nat
    BY <1>1, RcvPlace DEF SettledAt
<1>4. l[1] \in 1..final /\ l[1] \in 1..Len(chain') /\ chain'[l[1]] = chain[l[1]] /\ l[1] <= final'
    BY <1>1, <1>2, <1>3
<1>5. Place(chain', l) /\ TxOf(chain', l) = TxOf(chain, l)
    BY <1>3, <1>4 DEF Place, TxOf
<1>6. ASSUME NEW k, Place(chain', k), NEW nf \in Nullifiers(c), EntryMatches(TxOf(chain', k), nf)
      PROVE  k = l \/ Before(l, k)
    <2>1. k[1] \in 1..Len(chain') /\ k[2] \in 1..Len(chain'[k[1]]) /\ k = <<k[1], k[2]>>
        BY <1>1, <1>6, RcvPlace
    <2>2. CASE k[1] <= final
        <3>1. k[1] \in 1..final /\ k[1] \in 1..Len(chain) /\ chain'[k[1]] = chain[k[1]]
            BY <1>1, <1>2, <2>1, <2>2
        <3>2. Place(chain, k) /\ TxOf(chain, k) = TxOf(chain', k)
            BY <2>1, <3>1 DEF Place, TxOf
        <3> QED BY <1>6, <3>2 DEF SettledAt
    <2>3. CASE ~(k[1] <= final)
        <3>1. l[1] < k[1]
            BY <1>1, <1>2, <1>3, <2>1, <2>3
        <3> QED BY <3>1 DEF Before
    <2> QED BY <2>2, <2>3
<1>7. /\ Place(chain', l) /\ l[1] <= final' /\ TxOf(chain', l) = Consignment[c].txid
      /\ Consignment[c].loc \in {l, Sentinel}
      /\ \A nf \in Nullifiers(c) :
         /\ EntryMatches(Consignment[c].txid, nf)
         /\ \A k : Place(chain', k) /\ EntryMatches(TxOf(chain', k), nf) => k = l \/ Before(l, k)
    BY <1>4, <1>5, <1>6 DEF SettledAt
<1>8. (\A k : Place(chain, k)' <=> Place(chain', k)) /\ \A k : TxOf(chain, k)' = TxOf(chain', k)
    BY DEF Place, TxOf
<1>9. Sentinel' = Sentinel
    BY DEF Sentinel
<1> QED BY <1>7, <1>8, <1>9 DEF SettledAt, Place, TxOf, Before, Nullifiers, EntryMatches,
            EnvelopeOccurrence, BatchCommit, Binding

\* The snapshot that the host holds: as deep as it shows anything Required deep,
\* it is the chain.
RcvHeld ==
    /\ held \in RcvChains /\ Len(held) - Required + 1 <= final
    /\ \A h \in 1..Len(held) : h <= Len(held) - Required + 1 => held[h] = chain[h]

\* A place that is not later than one within a bound is within it.
LEMMA NotLater ==
    ASSUME NEW a \in Nat, NEW b \in Nat, NEW n \in Int, NEW i \in 1..a, NEW j \in 1..b,
           i <= j, j <= n
    PROVE  i \in 1..b /\ i <= n
OBVIOUS

\* What is accepted Required deep in such a snapshot is settled.
LEMMA RcvAccepted ==
    ASSUME ReceiveAssumption, RcvNet, NEW blocks \in RcvChains,
           Len(blocks) - Required + 1 <= final,
           \A h \in 1..Len(blocks) : h <= Len(blocks) - Required + 1 => blocks[h] = chain[h],
           NEW c, Accepts(View(blocks, {}), c, Required)
    PROVE  \E l : SettledAt(c, l)
<1> DEFINE v == View(blocks, {})
           l == Locate(v, c)
           n == Len(blocks) - Required + 1
<1>1. v.blocks = blocks /\ v.sentinel = {} /\ v.hidden = {}
    BY RcvView
<1>2. /\ Find(v, c) # {} /\ ConfirmationsAt(v, l) >= Required
      /\ \A nf \in Nullifiers(c) : FirstOccurrence(v, nf) = l
    BY DEF Accepts, AnchorAccepted
<1> HIDE DEF v
<1>3. l \in Find(v, c)
    BY <1>2 DEF Locate
<1> HIDE DEF l
<1>4. /\ Place(blocks, l) /\ TxOf(blocks, l) = Consignment[c].txid
      /\ Consignment[c].loc \in {l, Sentinel}
    BY <1>1, <1>3, RcvFind
<1>5. /\ l[1] \in 1..Len(blocks) /\ l[2] \in 1..Len(blocks[l[1]]) /\ l = <<l[1], l[2]>>
      /\ l # Sentinel /\ l # NoLocation
    BY <1>4, RcvPlace, RcvNowhere
<1>6. Len(blocks) \in Nat /\ Len(chain) \in Nat /\ Required \in Nat /\ final \in Nat /\ final <= Len(chain)
    BY RcvBlocks, RcvConstants DEF RcvNet
<1>7. l[1] <= n /\ n <= final
    BY <1>1, <1>2, <1>5, <1>6 DEF ConfirmationsAt
<1>8. l[1] \in 1..Len(chain) /\ l[1] <= final /\ blocks[l[1]] = chain[l[1]]
    BY <1>5, <1>6, <1>7
<1>9. Place(chain, l) /\ TxOf(chain, l) = Consignment[c].txid
    BY <1>4, <1>5, <1>8 DEF Place, TxOf
<1>10. ASSUME NEW nf \in Nullifiers(c)
       PROVE  /\ EntryMatches(Consignment[c].txid, nf)
              /\ \A k : Place(chain, k) /\ EntryMatches(TxOf(chain, k), nf) => k = l \/ Before(l, k)
    <2>1. FirstOccurrence(v, nf) = l
        BY <1>2
    <2>2. /\ l \in NullifierOccurrences(v, nf)
          /\ \A k \in NullifierOccurrences(v, nf) : k = l \/ Before(l, k)
        BY <1>1, <1>5, <2>1, RcvFirst
    <2>3. EntryMatches(TxOf(blocks, l), nf)
        BY <1>1, <2>2, RcvOccurrences
    <2>4. ASSUME NEW k, Place(chain, k), EntryMatches(TxOf(chain, k), nf)
          PROVE  k = l \/ Before(l, k)
        <3>1. k[1] \in 1..Len(chain) /\ k[2] \in 1..Len(chain[k[1]]) /\ k = <<k[1], k[2]>>
            BY <2>4, RcvPlace DEF RcvNet
        <3>2. CASE k[1] <= l[1]
            <4>a. k[1] \in 1..Len(chain) /\ l[1] \in 1..Len(blocks)
                BY <1>5, <3>1, Zenon
            <4>b. Len(chain) \in Nat /\ Len(blocks) \in Nat /\ n \in Int
                BY <1>6
            <4>c. k[1] <= l[1] /\ l[1] <= n
                BY <1>7, <3>2, Zenon
            <4>d. k[1] \in 1..Len(blocks) /\ k[1] <= n
                <5> DEFINE x == k[1]
                           y == l[1]
                <5>1. x \in 1..Len(chain) /\ y \in 1..Len(blocks) /\ x <= y /\ y <= n
                    BY <4>a, <4>c, Zenon
                <5> HIDE DEF n, x, y
                <5>2. x \in 1..Len(blocks) /\ x <= n
                    BY <4>b, <5>1, NotLater
                <5> QED BY <5>2 DEF x
            <4>1. k[1] \in 1..Len(blocks) /\ k[1] <= n /\ blocks[k[1]] = chain[k[1]]
                BY <4>d
            <4>2. Place(blocks, k) /\ TxOf(blocks, k) = TxOf(chain, k)
                BY <3>1, <4>1 DEF Place, TxOf
            <4>3. k \in NullifierOccurrences(v, nf)
                BY <1>1, <2>4, <4>2, RcvOccurrences
            <4> QED BY <2>2, <4>3
        <3>3. CASE ~(k[1] <= l[1])
            <4>1. l[1] < k[1]
                BY <1>5, <1>6, <3>1, <3>3
            <4> QED BY <4>1 DEF Before
        <3> QED BY <3>2, <3>3
    <2> QED BY <1>4, <2>3, <2>4
<1> QED BY <1>4, <1>8, <1>9, <1>10 DEF SettledAt

\* What is settled is found, and first, in the chain.
LEMMA RcvSettledFirst ==
    ASSUME RcvNet, NEW c, NEW l, SettledAt(c, l)
    PROVE  /\ Find(View(chain, {}), c) # {}
           /\ \A nf \in Nullifiers(c) :
                FirstOccurrence(View(chain, {}), nf) = Locate(View(chain, {}), c)
<1> DEFINE v == View(chain, {})
<1>1. v.blocks = chain /\ v.sentinel = {} /\ v.hidden = {} /\ chain \in RcvChains /\ Unique(chain)
    BY RcvView DEF RcvNet
<1> HIDE DEF v
<1>2. l \in Find(v, c)
    BY <1>1, RcvFind DEF SettledAt
<1>3. Locate(v, c) = l
    BY <1>1, <1>2, RcvLocate
<1>4. ASSUME NEW nf \in Nullifiers(c) PROVE FirstOccurrence(v, nf) = l
    <2> DEFINE L == NullifierOccurrences(v, nf)
    <2>1. L \subseteq Nat \X Nat
        BY <1>1, RcvOccurrences
    <2>2. l \in L /\ \A k \in L : k = l \/ Before(l, k)
        BY <1>1, RcvOccurrences DEF SettledAt
    <2>3. FirstOccurrence(v, nf) = IF L # {} THEN Earliest(L) ELSE NoLocation
        BY <1>1 DEF FirstOccurrence
    <2> HIDE DEF L
    <2>4. Earliest(L) = l
        BY <2>1, <2>2, RcvEarliestIs
    <2> QED BY <2>2, <2>3, <2>4
<1> QED BY <1>2, <1>3, <1>4 DEF v

----------------------------------------------------------------------------
(* The account. *)

\* The type of the account's coins.
Wallets ==
    [CoinSet -> [status : {"absent", "unspent", "frozen", "spent"},
                     anchor : Parents \union {NoTx}]]

\* A settled row is of a payment that is settled on the chain.
RcvRows ==
    /\ rows \in [Consignments -> [finality : Finalities, depth : Int]]
    /\ \A c \in Consignments : rows[c].finality = "settled" => \E l : SettledAt(c, l)

\* The types of what is not related to the chain.
RcvWallet == coins \in Wallets /\ order \in Seq(Consignments)

\* What may be relied on as seen was seen within the maximum age: what is
\* visible now, what has a young receipt, what the running proof has observed.
RcvSeen ==
    /\ op \in [state : {"none", "proving", "observed", "proved", "signed", "final"},
               coin : CoinSet \union {NoCoin}, deps : SUBSET Parents, seen : BOOLEAN]
    /\ Parents \intersect (mempool \union Mined(chain)) \subseteq recent
    /\ fresh \subseteq recent
    /\ op.seen => op.deps \subseteq recent

\* The inductive invariant of the account.
RcvInv == RcvNet /\ RcvHeld /\ RcvRows /\ RcvWallet /\ RcvSeen

\* What depends on the network only does not change while it rests.
LEMMA RcvRests ==
    ASSUME RcvNet, chain' = chain, final' = final, mempool' = mempool
    PROVE  /\ RcvNet' /\ Mined(chain)' = Mined(chain)
           /\ \A c, l : SettledAt(c, l)' <=> SettledAt(c, l)
<1>1. Mined(chain)' = Mined(chain)
    BY DEF Mined, Confirmed, View, TxAt
<1>2. RcvNet'
    BY <1>1 DEF RcvNet, Unique, Place, TxOf
<1>3. \A c, l : SettledAt(c, l)' <=> SettledAt(c, l)
    BY DEF SettledAt, Place, TxOf, Before, Nullifiers, EntryMatches,
            EnvelopeOccurrence, BatchCommit, Binding, Sentinel
<1> QED BY <1>1, <1>2, <1>3

\* A transaction that is visible is in the mempool or in a block.
LEMMA RcvVisible ==
    ASSUME chain \in RcvChains, NEW t, Visible(t)
    PROVE  t \in mempool \union Mined(chain)
<1>1. ASSUME t \notin mempool PROVE t \in Mined(chain)
    <2>1. PICK h \in DOMAIN chain : \E p \in DOMAIN chain[h] : chain[h][p] = t
        BY <1>1 DEF Visible
    <2>2. h \in 1..Len(chain) /\ DOMAIN chain[h] = 1..Len(chain[h])
        BY <2>1, RcvBlocks
    <2> QED BY <2>1, <2>2, RcvMined
<1> QED BY <1>1

\* Constants that the primes leave alone.
LEMMA RcvPrimes ==
    /\ Parents' = Parents /\ CoinSet' = CoinSet /\ NoTx' = NoTx
    /\ NoCoin' = NoCoin /\ Finalities' = Finalities /\ Wallets' = Wallets
<1>1. /\ Parents' = Parents /\ CoinSet' = CoinSet /\ NoTx' = NoTx
      /\ NoCoin' = NoCoin /\ Finalities' = Finalities
    BY DEF Parents, CoinSet, NoTx, NoCoin, Finalities
<1> QED BY <1>1 DEF Wallets

\* What a credit leaves in a wallet.
LEMMA RcvCredited ==
    ASSUME NEW c \in Consignments, NEW w \in Wallets, NEW parent \in {NoTx, Consignment[c].txid}
    PROVE  [w EXCEPT ![Consignment[c].coin] = Credited(Consignment[c].coin, parent, w)] \in Wallets
<1> DEFINE k == Consignment[c].coin
<1>1. k \in CoinSet /\ parent \in Parents \union {NoTx}
    BY DEF CoinSet, Parents
<1> HIDE DEF k
<1>2. w[k] \in [status : {"absent", "unspent", "frozen", "spent"}, anchor : Parents \union {NoTx}]
    BY <1>1 DEF Wallets
<1>3. Credited(k, parent, w) \in
        [status : {"absent", "unspent", "frozen", "spent"}, anchor : Parents \union {NoTx}]
    BY <1>1, <1>2 DEF Credited
<1>4. [w EXCEPT ![k] = Credited(k, parent, w)] \in Wallets
    BY <1>3 DEF Wallets
<1> QED BY <1>4 DEF k

\* An empty wallet.
LEMMA RcvNoCoins == [k \in CoinSet |-> Absent] \in Wallets
BY DEF Wallets, Absent

\* A row replayed over a wallet leaves a wallet.
LEMMA RcvReplayRow ==
    ASSUME NEW c \in Consignments, NEW w \in Wallets PROVE ReplayRow(w, c) \in Wallets
<1>1. /\ [w EXCEPT ![Consignment[c].coin] = Credited(Consignment[c].coin, Consignment[c].txid, w)] \in Wallets
      /\ [w EXCEPT ![Consignment[c].coin] = Credited(Consignment[c].coin, NoTx, w)] \in Wallets
    BY RcvCredited
<1> QED BY <1>1 DEF ReplayRow

\* So do all rows, in any order and number: of a row that did not, the first
\* one would be replayed over a wallet.
LEMMA RcvReplayed == ASSUME order \in Seq(Consignments) PROVE Replayed \in Wallets
<1> DEFINE N == Len(order)
           none == [k \in CoinSet |-> Absent]
           Runs(g, n) == \A i \in 0..n : g[i] = IF i = 0 THEN none ELSE ReplayRow(g[i - 1], order[i])
<1>1. N \in Nat /\ \A i \in 1..N : order[i] \in Consignments
    BY SeqFacts
<1>2. none \in Wallets
    BY RcvNoCoins
<1> HIDE DEF none
<1>3. \A n \in 0..N : \E g \in [0..n -> Wallets] : Runs(g, n)
    <2> DEFINE T == {n \in 0..N : ~\E g \in [0..n -> Wallets] : Runs(g, n)}
    <2> SUFFICES ASSUME T # {} PROVE FALSE
        OBVIOUS
    <2>1. PICK m \in T : \A j \in T : m <= j
        <3>1. T \subseteq Nat
            BY <1>1
        <3> HIDE DEF T
        <3> QED BY <3>1, LeastNumber
    <2>2. m \in Nat /\ m <= N
        BY <1>1
    <2>3. CASE m = 0
        <3> DEFINE g == [i \in 0..0 |-> none]
        <3>1. g \in [0..0 -> Wallets] /\ Runs(g, 0)
            BY <1>2
        <3> QED BY <2>3, <3>1
    <2>4. CASE m # 0
        <3>1. m - 1 \in 0..N /\ m - 1 \notin T /\ m \in 1..N
            <4> HIDE DEF T
            <4> QED BY <1>1, <2>1, <2>2, <2>4
        <3>2. PICK g \in [0..m - 1 -> Wallets] : Runs(g, m - 1)
            BY <3>1
        <3> DEFINE next == ReplayRow(g[m - 1], order[m])
        <3>3. next \in Wallets
            <4>1. g[m - 1] \in Wallets /\ order[m] \in Consignments
                BY <1>1, <2>2, <3>1, <3>2
            <4> QED BY <4>1, RcvReplayRow
        <3> DEFINE h == [i \in 0..m |-> IF i = m THEN next ELSE g[i]]
        <3>4. h \in [0..m -> Wallets]
            BY <2>2, <2>4, <3>2, <3>3
        <3>5. Runs(h, m)
            <4> SUFFICES ASSUME NEW i \in 0..m
                         PROVE  h[i] = IF i = 0 THEN none ELSE ReplayRow(h[i - 1], order[i])
                OBVIOUS
            <4>1. CASE i = m
                <5>1. h[m] = next /\ h[m - 1] = g[m - 1]
                    BY <2>2, <2>4
                <5> QED BY <2>4, <4>1, <5>1
            <4>2. CASE i # m
                <5>1. i \in 0..m - 1 /\ h[i] = g[i]
                    BY <2>2, <4>2
                <5>2. i # 0 => i - 1 \in 0..m /\ i - 1 # m
                    BY <2>2, <4>2
                <5>3. i # 0 => h[i - 1] = g[i - 1]
                    BY <5>2
                <5> HIDE DEF h
                <5> QED BY <3>2, <5>1, <5>3
            <4> QED BY <4>1, <4>2
        <3> HIDE DEF h, next
        <3> QED BY <2>1, <3>4, <3>5
    <2> QED BY <2>3, <2>4
<1> DEFINE f == CHOOSE f : f = [i \in 0..N |-> IF i = 0 THEN none ELSE ReplayRow(f[i - 1], order[i])]
<1>4. PICK g \in [0..N -> Wallets] : Runs(g, N)
    BY <1>1, <1>3
<1>5. g = [i \in 0..N |-> IF i = 0 THEN none ELSE ReplayRow(g[i - 1], order[i])]
    BY <1>4
<1>6. f = [i \in 0..N |-> IF i = 0 THEN none ELSE ReplayRow(f[i - 1], order[i])]
    BY <1>5
<1>7. Replayed = f[N]
    BY DEF Replayed, none
<1> HIDE DEF f
<1>8. \A i \in 0..N : f[i] = g[i]
    <2> DEFINE T == {i \in 0..N : f[i] # g[i]}
    <2> SUFFICES ASSUME T # {} PROVE FALSE
        OBVIOUS
    <2>1. PICK m \in T : \A j \in T : m <= j
        <3>1. T \subseteq Nat
            BY <1>1
        <3> HIDE DEF T
        <3> QED BY <3>1, LeastNumber
    <2>2. m \in 0..N /\ f[m] # g[m]
        BY <2>1
    <2>3. m # 0
        BY <1>4, <1>6, <2>2
    <2>4. m - 1 \in 0..N /\ m - 1 \notin T
        BY <1>1, <2>1, <2>2, <2>3
    <2>5. f[m - 1] = g[m - 1]
        BY <2>4
    <2>6. f[m] = ReplayRow(f[m - 1], order[m]) /\ g[m] = ReplayRow(g[m - 1], order[m])
        BY <1>4, <1>6, <2>2, <2>3
    <2> QED BY <2>2, <2>5, <2>6
<1> QED BY <1>1, <1>4, <1>7, <1>8

\* The network's steps that change the chain.
LEMMA RcvChainStep ==
    ASSUME ReceiveAssumption, RcvInv, Mine \/ Reorg
    PROVE  RcvInv'
<1>1. RcvMoved
    BY RcvMine, RcvReorg DEF RcvInv
<1>2. /\ held' = held /\ rows' = rows /\ order' = order /\ coins' = coins /\ op' = op
      /\ fresh' = fresh /\ recent' = recent
    BY DEF Mine, Reorg
<1>3. RcvNet' /\ RcvNet
    BY <1>1 DEF RcvMoved, RcvInv
<1>4. RcvHeld'
    <2>1. /\ held \in RcvChains /\ Len(held) - Required + 1 <= final
          /\ \A h \in 1..Len(held) : h <= Len(held) - Required + 1 => held[h] = chain[h]
        BY DEF RcvInv, RcvHeld
    <2>2. final \in Nat /\ final' \in Nat /\ final <= final' /\ \A h \in 1..final : chain'[h] = chain[h]
        BY <1>1 DEF RcvInv, RcvNet, RcvMoved
    <2>3. Len(held) \in Nat /\ Required \in Nat
        BY <2>1, RcvBlocks, RcvConstants
    <2>4. Len(held) - Required + 1 <= final'
        BY <2>1, <2>2, <2>3
    <2>5. ASSUME NEW h \in 1..Len(held), h <= Len(held) - Required + 1 PROVE held[h] = chain'[h]
        <3>1. h \in 1..final
            BY <2>1, <2>2, <2>3, <2>5
        <3> QED BY <2>1, <2>2, <2>5, <3>1
    <2> QED BY <1>2, <2>1, <2>4, <2>5 DEF RcvHeld, RcvChains
<1>5. RcvRows'
    <2>1. ASSUME NEW c \in Consignments, rows[c].finality = "settled" PROVE \E l : SettledAt(c, l)'
        <3>1. PICK l : SettledAt(c, l)
            BY <2>1 DEF RcvInv, RcvRows
        <3>2. SettledAt(c, l)'
            BY <1>1, <1>3, <3>1, RcvSettledMoves
        <3> QED BY <3>2
    <2>2. rows \in [Consignments -> [finality : Finalities, depth : Int]]
        BY DEF RcvInv, RcvRows
    <2> QED BY <1>2, <2>1, <2>2, RcvPrimes DEF RcvRows
<1>6. RcvWallet'
    BY <1>2, RcvPrimes DEF RcvInv, RcvWallet
<1>7. RcvSeen'
    <2>1. (mempool \union Mined(chain))' \subseteq mempool \union Mined(chain)
        BY <1>1 DEF RcvMoved
    <2> QED BY <1>2, <2>1, RcvPrimes DEF RcvInv, RcvSeen
<1> QED BY <1>3, <1>4, <1>5, <1>6, <1>7 DEF RcvInv

\* Steps that leave the chain alone keep what is said of it.
LEMMA RcvKeeps ==
    ASSUME RcvInv, chain' = chain, final' = final, held' = held \/ held' = chain
    PROVE  /\ RcvHeld'
           /\ (/\ rows' \in [Consignments -> [finality : Finalities, depth : Int]]
               /\ \A c \in Consignments : rows'[c].finality = "settled" =>
                    rows[c].finality = "settled" \/ \E l : SettledAt(c, l)) => RcvRows'
<1>1. RcvHeld'
    <2>1. CASE held' = held
        BY <2>1 DEF RcvInv, RcvHeld, RcvChains
    <2>2. CASE held' = chain
        BY <2>2 DEF RcvInv, RcvNet, RcvHeld, RcvChains
    <2> QED BY <2>1, <2>2
<1>2. \A c, l : SettledAt(c, l)' <=> SettledAt(c, l)
    BY DEF SettledAt, Place, TxOf, Before, Nullifiers, EntryMatches,
            EnvelopeOccurrence, BatchCommit, Binding, Sentinel
<1>3. ASSUME rows' \in [Consignments -> [finality : Finalities, depth : Int]],
             \A c \in Consignments : rows'[c].finality = "settled" =>
               rows[c].finality = "settled" \/ \E l : SettledAt(c, l)
      PROVE  RcvRows'
    <2>1. ASSUME NEW c \in Consignments, rows'[c].finality = "settled" PROVE \E l : SettledAt(c, l)'
        BY <1>2, <1>3, <2>1 DEF RcvInv, RcvRows
    <2> QED BY <1>3, <2>1, RcvPrimes DEF RcvRows
<1> QED BY <1>1, <1>3

\* The network's other steps, and the passing of time.
LEMMA RcvNetworkStep ==
    ASSUME RcvInv, \/ \E t \in Txs : Broadcast(t) \/ Evict(t)
                   \/ Lapse
    PROVE  RcvInv'
<1>1. /\ chain' = chain /\ final' = final /\ held' = held /\ rows' = rows /\ order' = order
      /\ coins' = coins
    BY DEF Broadcast, Evict, Lapse
<1>2. Mined(chain)' = Mined(chain) /\ (Unique(chain)' <=> Unique(chain))
    BY <1>1 DEF Mined, Confirmed, View, TxAt, Unique, Place, TxOf
<1>3. chain \in RcvChains /\ mempool \in SUBSET Txs /\ mempool \intersect Mined(chain) = {}
    BY DEF RcvInv, RcvNet
<1>4. RcvHeld' /\ RcvRows'
    BY <1>1, RcvKeeps DEF RcvInv, RcvRows
<1>5. RcvWallet'
    BY <1>1, RcvPrimes DEF RcvInv, RcvWallet
<1>6. CASE \E t \in Txs : Broadcast(t)
    <2>1. PICK t \in Txs : Broadcast(t)
        BY <1>6
    <2>2. /\ mempool' \subseteq mempool \union {t} /\ recent' = recent \union ({t} \intersect Parents)
          /\ op' = op /\ fresh' = fresh
        BY <2>1 DEF Broadcast
    <2>3. t \notin Mined(chain)
        <3> SUFFICES ASSUME t \in Mined(chain) PROVE Visible(t)
            BY <2>1 DEF Broadcast
        <3>1. PICK h \in 1..Len(chain) : \E p \in 1..Len(chain[h]) : t = chain[h][p]
            BY <1>3, RcvMined
        <3>2. h \in DOMAIN chain /\ DOMAIN chain[h] = 1..Len(chain[h])
            BY <1>3, <3>1, RcvBlocks
        <3> QED BY <3>1, <3>2 DEF Visible
    <2>4. RcvNet'
        BY <1>1, <1>2, <1>3, <2>2, <2>3 DEF RcvInv, RcvNet
    <2>5. RcvSeen'
        BY <1>2, <2>2, RcvPrimes DEF RcvInv, RcvSeen
    <2> QED BY <1>4, <1>5, <2>4, <2>5 DEF RcvInv
<1>7. CASE \E t \in Txs : Evict(t)
    <2>1. mempool' \subseteq mempool /\ recent' = recent /\ op' = op /\ fresh' = fresh
        BY <1>7 DEF Evict
    <2>2. RcvNet'
        BY <1>1, <1>2, <1>3, <2>1 DEF RcvInv, RcvNet
    <2>3. RcvSeen'
        BY <1>2, <2>1, RcvPrimes DEF RcvInv, RcvSeen
    <2> QED BY <1>4, <1>5, <2>2, <2>3 DEF RcvInv
<1>8. CASE Lapse
    <2>1. /\ mempool' = mempool /\ fresh' = {} /\ op' = [op EXCEPT !.seen = FALSE]
          /\ recent' = Parents \intersect (mempool \union Mined(chain))
        BY <1>8 DEF Lapse
    <2>2. RcvNet'
        BY <1>1, <1>2, <2>1 DEF RcvInv, RcvNet
    <2>3. /\ op' \in [state : {"none", "proving", "observed", "proved", "signed", "final"},
               coin : CoinSet \union {NoCoin}, deps : SUBSET Parents, seen : BOOLEAN]
          /\ op'.seen = FALSE
        BY <2>1 DEF RcvInv, RcvSeen
    <2>4. RcvSeen'
        BY <1>2, <2>1, <2>3, RcvPrimes DEF RcvSeen
    <2> QED BY <1>4, <1>5, <2>2, <2>4 DEF RcvInv
<1> QED BY <1>6, <1>7, <1>8

\* A row that is frozen was not settled, and a coin that is frozen is a coin.
LEMMA RcvFreeze ==
    ASSUME RcvInv, NEW t, Freeze(t)
    PROVE  /\ rows' \in [Consignments -> [finality : Finalities, depth : Int]]
           /\ \A c \in Consignments : rows'[c].finality = "settled" => rows[c].finality = "settled"
           /\ coins' \in Wallets
<1>1. rows \in [Consignments -> [finality : Finalities, depth : Int]] /\ coins \in Wallets
    BY DEF RcvInv, RcvRows, RcvWallet
<1>2. rows' = FrozenRows(t) /\ coins' = FrozenCoins(t)
    BY DEF Freeze
<1>3. "frozen" \in Finalities
    BY DEF Finalities
<1>4. rows' \in [Consignments -> [finality : Finalities, depth : Int]]
    BY <1>1, <1>2, <1>3 DEF FrozenRows
<1>5. ASSUME NEW c \in Consignments, rows'[c].finality = "settled" PROVE rows[c].finality = "settled"
    BY <1>1, <1>2, <1>5 DEF FrozenRows
<1>6. coins' \in Wallets
    BY <1>1, <1>2 DEF Wallets, FrozenCoins
<1> QED BY <1>4, <1>5, <1>6

\* The depth that a provisional view gives a consignment is a number.
LEMMA RcvDepth ==
    ASSUME ReceiveAssumption, RcvInv, NEW c, Find(MergedView(held, c), c) # {}
    PROVE  DepthIn(MergedView(held, c), c) \in Int
<1> DEFINE v == MergedView(held, c)
           l == Locate(v, c)
<1>1. v.blocks = held /\ held \in RcvChains
    BY RcvView DEF RcvInv, RcvHeld, MergedView
<1>2. Len(v.blocks) \in Nat /\ Required \in Nat
    BY <1>1, RcvBlocks, RcvConstants
<1> HIDE DEF v
<1>3. l \in Find(v, c)
    BY DEF Locate, v
<1> HIDE DEF l
<1>4. l \in Confirmed(v) \/ l = Sentinel
    BY <1>3 DEF Find
<1>5. l # Sentinel => l[1] \in Nat
    BY <1>1, <1>4, RcvConfirmed, RcvPlace
<1>6. ConfirmationsAt(v, l) \in Int
    BY <1>2, <1>5 DEF ConfirmationsAt
<1> QED BY <1>2, <1>6 DEF DepthIn, v, l

\* The order of rows.
LEMMA RcvCreated ==
    ASSUME order \in Seq(Consignments), NEW c \in Consignments
    PROVE  Created(c) \in Seq(Consignments)
BY AppendFacts DEF Created

\* A consignment is verified against a snapshot.
LEMMA RcvVerify ==
    ASSUME ReceiveAssumption, RcvInv, NEW c \in Consignments, VerifyConsignment(c)
    PROVE  RcvInv'
<1>1. PICK blocks \in {held, chain} : Accepts(View(blocks, {}), c, Required)
    BY DEF VerifyConsignment
<1>2. /\ chain' = chain /\ final' = final /\ mempool' = mempool /\ recent' = recent
      /\ held' = held /\ op' = op /\ fresh' = fresh
      /\ coins' = [coins EXCEPT ![Consignment[c].coin] = Credited(Consignment[c].coin, NoTx, coins)]
      /\ rows' = [rows EXCEPT ![c] = [finality |-> "settled", depth |-> Required]]
      /\ order' = Created(c)
    BY DEF VerifyConsignment, world
<1>3. /\ blocks \in RcvChains /\ Len(blocks) - Required + 1 <= final
      /\ \A h \in 1..Len(blocks) : h <= Len(blocks) - Required + 1 => blocks[h] = chain[h]
    <2>1. CASE blocks = held
        BY <2>1 DEF RcvInv, RcvHeld
    <2>2. CASE blocks = chain
        <3>1. final \in Nat /\ Len(chain) \in Nat /\ Required \in Nat
              /\ final >= Len(chain) - Required + 1 /\ chain \in RcvChains
            BY RcvBlocks, RcvConstants DEF RcvInv, RcvNet
        <3> QED BY <2>2, <3>1
    <2> QED BY <1>1, <2>1, <2>2
<1>4. \E l : SettledAt(c, l)
    BY <1>1, <1>3, RcvAccepted DEF RcvInv
<1>5. rows \in [Consignments -> [finality : Finalities, depth : Int]] /\ coins \in Wallets
      /\ order \in Seq(Consignments)
    BY DEF RcvInv, RcvRows, RcvWallet
<1>6. /\ rows' \in [Consignments -> [finality : Finalities, depth : Int]]
      /\ \A d \in Consignments : d # c => rows'[d] = rows[d]
    BY <1>2, <1>5, RcvConstants DEF Finalities
<1>7. RcvHeld' /\ RcvRows'
    <2>1. \A d \in Consignments : rows'[d].finality = "settled" =>
            rows[d].finality = "settled" \/ \E l : SettledAt(d, l)
        BY <1>4, <1>6
    <2> QED BY <1>2, <1>6, <2>1, RcvKeeps
<1>8. coins' \in Wallets
    BY <1>2, <1>5, RcvCredited
<1>9. order' \in Seq(Consignments)
    BY <1>2, <1>5, RcvCreated
<1>10. RcvWallet'
    BY <1>8, <1>9, RcvPrimes DEF RcvWallet
<1>11. RcvNet' /\ Mined(chain)' = Mined(chain)
    BY <1>2, RcvRests DEF RcvInv
<1>12. RcvSeen'
    BY <1>2, <1>11, RcvPrimes DEF RcvInv, RcvSeen
<1> QED BY <1>7, <1>10, <1>11, <1>12 DEF RcvInv

\* A consignment is credited provisionally.
LEMMA RcvCreditProvisionally ==
    ASSUME ReceiveAssumption, RcvInv, NEW c \in Consignments, CreditProvisionally(c)
    PROVE  /\ rows' \in [Consignments -> [finality : Finalities, depth : Int]]
           /\ \A d \in Consignments : rows'[d].finality = "settled" => rows[d].finality = "settled"
           /\ coins' \in Wallets /\ order' \in Seq(Consignments)
<1> DEFINE r == ProvisionalRow(c, MergedView(held, c))
<1>1. /\ rows' = [rows EXCEPT ![c] = r] /\ order' = Created(c)
      /\ coins' = [coins EXCEPT ![Consignment[c].coin] =
                     Credited(Consignment[c].coin, Consignment[c].txid, coins)]
      /\ Find(MergedView(held, c), c) # {}
    BY DEF CreditProvisionally, Accepts, AnchorAccepted
<1>2. rows \in [Consignments -> [finality : Finalities, depth : Int]] /\ coins \in Wallets
      /\ order \in Seq(Consignments)
    BY DEF RcvInv, RcvRows, RcvWallet
<1>3. DepthIn(MergedView(held, c), c) \in Int
    BY <1>1, RcvDepth
<1>4. r \in [finality : Finalities, depth : Int] /\ (r.finality = "settled" => rows[c].finality = "settled")
    BY <1>3 DEF ProvisionalRow, Finalities
<1> HIDE DEF r
<1>5. /\ rows' \in [Consignments -> [finality : Finalities, depth : Int]]
      /\ rows'[c] = r /\ \A d \in Consignments : d # c => rows'[d] = rows[d]
    BY <1>1, <1>2, <1>4
<1>6. coins' \in Wallets
    BY <1>1, <1>2, RcvCredited
<1>7. order' \in Seq(Consignments)
    BY <1>1, <1>2, RcvCreated
<1>8. \A d \in Consignments : rows'[d].finality = "settled" => rows[d].finality = "settled"
    BY <1>4, <1>5
<1> QED BY <1>5, <1>6, <1>7, <1>8

\* What a step of the account has to show that leaves the network alone and
\* settles nothing.
LEMMA RcvAccountStep ==
    ASSUME RcvInv, chain' = chain, final' = final, mempool' = mempool, held' = held \/ held' = chain,
           rows' \in [Consignments -> [finality : Finalities, depth : Int]],
           \A c \in Consignments : rows'[c].finality = "settled" => rows[c].finality = "settled",
           coins' \in Wallets, order' \in Seq(Consignments),
           recent' = recent, fresh' \subseteq recent,
           op' \in [state : {"none", "proving", "observed", "proved", "signed", "final"},
                    coin : CoinSet \union {NoCoin}, deps : SUBSET Parents, seen : BOOLEAN],
           op'.seen => op'.deps \subseteq recent
    PROVE  RcvInv'
<1>1. RcvNet' /\ Mined(chain)' = Mined(chain)
    BY RcvRests DEF RcvInv
<1>2. RcvHeld' /\ RcvRows'
    BY RcvKeeps
<1>3. RcvWallet'
    BY RcvPrimes DEF RcvWallet
<1>4. RcvSeen'
    BY <1>1, RcvPrimes DEF RcvInv, RcvSeen
<1> QED BY <1>1, <1>2, <1>3, <1>4 DEF RcvInv

\* What the invariant says of the account, for such steps.
LEMMA RcvAccount ==
    ASSUME RcvInv
    PROVE  /\ rows \in [Consignments -> [finality : Finalities, depth : Int]]
           /\ coins \in Wallets /\ order \in Seq(Consignments) /\ fresh \subseteq recent
           /\ op \in [state : {"none", "proving", "observed", "proved", "signed", "final"},
                      coin : CoinSet \union {NoCoin}, deps : SUBSET Parents, seen : BOOLEAN]
           /\ op.seen => op.deps \subseteq recent
           /\ op.deps \subseteq Parents /\ chain \in RcvChains
           /\ NoOp \in [state : {"none", "proving", "observed", "proved", "signed", "final"},
                            coin : CoinSet \union {NoCoin}, deps : SUBSET Parents, seen : BOOLEAN]
           /\ NoOp.seen = FALSE
BY DEF RcvInv, RcvNet, RcvRows, RcvWallet, RcvSeen, NoOp

\* A parent that is visible was seen within the maximum age.
LEMMA RcvSeenNow ==
    ASSUME RcvInv, NEW t \in Parents, Visible(t) PROVE t \in recent
<1>1. t \in mempool \union Mined(chain)
    BY RcvVisible DEF RcvInv, RcvNet
<1> QED BY <1>1 DEF RcvInv, RcvSeen

\* The provisional verifications.
LEMMA RcvVerifyProvisionally ==
    ASSUME ReceiveAssumption, RcvInv, NEW c \in Consignments,
           VerifyUnconfirmed(c) \/ VerifyObserved(c)
    PROVE  RcvInv'
<1>1. /\ chain' = chain /\ final' = final /\ mempool' = mempool /\ recent' = recent
      /\ held' = held /\ op' = op /\ fresh' = fresh
      /\ \/ CreditProvisionally(c)
         \/ Freeze(Consignment[c].txid) /\ order' = order
    BY DEF VerifyUnconfirmed, VerifyObserved, world
<1>2. /\ rows' \in [Consignments -> [finality : Finalities, depth : Int]]
      /\ \A d \in Consignments : rows'[d].finality = "settled" => rows[d].finality = "settled"
      /\ coins' \in Wallets /\ order' \in Seq(Consignments)
    BY <1>1, RcvCreditProvisionally, RcvFreeze, RcvAccount
<1> QED BY <1>1, <1>2, RcvAccount, RcvAccountStep

\* A proof begins.
LEMMA RcvBeginProof ==
    ASSUME RcvInv, NEW k \in CoinSet, BeginProof(k) PROVE RcvInv'
<1>1. /\ chain' = chain /\ final' = final /\ mempool' = mempool /\ recent' = recent
      /\ held' = held /\ rows' = rows /\ order' = order /\ coins' = coins /\ fresh' = fresh
      /\ op' = [state |-> "proving", coin |-> k, deps |-> {coins[k].anchor} \ {NoTx}, seen |-> FALSE]
    BY DEF BeginProof, world
<1>2. coins[k].anchor \in Parents \union {NoTx}
    BY RcvAccount DEF Wallets
<1>3. /\ op' \in [state : {"none", "proving", "observed", "proved", "signed", "final"},
                  coin : CoinSet \union {NoCoin}, deps : SUBSET Parents, seen : BOOLEAN]
      /\ op'.seen = FALSE
    BY <1>1, <1>2
<1> QED BY <1>1, <1>3, RcvAccount, RcvAccountStep

\* It looks for the parents.
LEMMA RcvObserveParents ==
    ASSUME RcvInv, ObserveParents PROVE RcvInv'
<1>1. /\ chain' = chain /\ final' = final /\ mempool' = mempool /\ recent' = recent
      /\ held' = held /\ order' = order /\ fresh' = fresh
    BY DEF ObserveParents, world
<1>2. CASE /\ \A t \in op.deps : Visible(t)
           /\ op' = [op EXCEPT !.state = "observed", !.seen = TRUE] /\ rows' = rows /\ coins' = coins
    <2>1. op.deps \subseteq recent
        BY <1>2, RcvSeenNow, RcvAccount
    <2>2. /\ op' \in [state : {"none", "proving", "observed", "proved", "signed", "final"},
                      coin : CoinSet \union {NoCoin}, deps : SUBSET Parents, seen : BOOLEAN]
          /\ op'.deps = op.deps
        BY <1>2, RcvAccount
    <2> QED BY <1>1, <1>2, <2>1, <2>2, RcvAccount, RcvAccountStep
<1>3. CASE \E t \in op.deps : Freeze(t) /\ op' = NoOp
    <2>1. /\ rows' \in [Consignments -> [finality : Finalities, depth : Int]]
          /\ \A c \in Consignments : rows'[c].finality = "settled" => rows[c].finality = "settled"
          /\ coins' \in Wallets
        BY <1>3, RcvFreeze
    <2>2. op' \in [state : {"none", "proving", "observed", "proved", "signed", "final"},
                   coin : CoinSet \union {NoCoin}, deps : SUBSET Parents, seen : BOOLEAN]
          /\ op'.seen = FALSE
        BY <1>3, RcvAccount
    <2> QED BY <1>1, <2>1, <2>2, RcvAccount, RcvAccountStep
<1> QED BY <1>2, <1>3 DEF ObserveParents

\* It is committed.
LEMMA RcvFinishProof ==
    ASSUME RcvInv, FinishProof PROVE RcvInv'
<1>1. /\ chain' = chain /\ final' = final /\ mempool' = mempool /\ recent' = recent
      /\ held' = held /\ rows' = rows /\ order' = order /\ coins' = coins
      /\ \/ /\ op' = [op EXCEPT !.state = "proved"]
            /\ fresh' = IF op.seen THEN fresh \union op.deps ELSE fresh \ op.deps
         \/ op' = NoOp /\ fresh' = fresh
    BY DEF FinishProof, world, ObservedAt
<1>2. /\ op' \in [state : {"none", "proving", "observed", "proved", "signed", "final"},
                  coin : CoinSet \union {NoCoin}, deps : SUBSET Parents, seen : BOOLEAN]
      /\ op'.seen => op'.deps \subseteq recent
    BY <1>1, RcvAccount
<1>3. fresh' \subseteq recent
    BY <1>1, RcvAccount
<1> QED BY <1>1, <1>2, <1>3, RcvAccount, RcvAccountStep

\* Whoever signs has seen the parents within the maximum age.
LEMMA RcvParentsRecent ==
    ASSUME RcvInv, ParentsSeen PROVE op.deps \subseteq recent
<1>1. \A t \in op.deps \ fresh : Visible(t)
    BY DEF ParentsSeen
<1>2. \A t \in op.deps \ fresh : t \in recent
    BY <1>1, RcvSeenNow, RcvAccount
<1> QED BY <1>2, RcvAccount

\* The child is signed, or a parent is missing.
LEMMA RcvSign ==
    ASSUME RcvInv, Sign PROVE RcvInv'
<1>1. /\ chain' = chain /\ final' = final /\ mempool' = mempool /\ recent' = recent
      /\ held' = held /\ order' = order
    BY DEF Sign, world
<1>2. CASE /\ ParentsSeen /\ op' = [op EXCEPT !.state = "signed"] /\ fresh' = fresh \union op.deps
           /\ rows' = rows /\ coins' = coins
    <2>1. op.deps \subseteq recent
        BY <1>2, RcvParentsRecent
    <2>2. /\ op' \in [state : {"none", "proving", "observed", "proved", "signed", "final"},
                      coin : CoinSet \union {NoCoin}, deps : SUBSET Parents, seen : BOOLEAN]
          /\ op'.deps = op.deps
        BY <1>2, RcvAccount
    <2>3. fresh' \subseteq recent
        BY <1>2, <2>1, RcvAccount
    <2> QED BY <1>1, <1>2, <2>1, <2>2, <2>3, RcvAccount, RcvAccountStep
<1>3. CASE (\E t \in op.deps \ fresh : Freeze(t)) /\ op' = op /\ fresh' = fresh
    <2>1. /\ rows' \in [Consignments -> [finality : Finalities, depth : Int]]
          /\ \A c \in Consignments : rows'[c].finality = "settled" => rows[c].finality = "settled"
          /\ coins' \in Wallets
        BY <1>3, RcvFreeze
    <2> QED BY <1>1, <1>3, <2>1, RcvAccount, RcvAccountStep
<1> QED BY <1>2, <1>3 DEF Sign

\* A spent coin is a coin.
LEMMA RcvSpentIn ==
    ASSUME NEW w \in Wallets, NEW k PROVE SpentIn(w, k) \in Wallets
BY DEF SpentIn, Wallets

\* The operation is cancelled or its child observed.
LEMMA RcvCancelFinalize ==
    ASSUME RcvInv, Cancel \/ Finalize PROVE RcvInv'
<1>1. /\ chain' = chain /\ final' = final /\ mempool' = mempool /\ recent' = recent
      /\ held' = held /\ rows' = rows /\ order' = order /\ fresh' = fresh
      /\ op' = NoOp \/ op' = [op EXCEPT !.state = "final"]
      /\ coins' = coins \/ coins' = SpentIn(coins, op.coin)
    BY DEF Cancel, Finalize, world
<1>2. coins' \in Wallets
    BY <1>1, RcvAccount, RcvSpentIn
<1>3. /\ op' \in [state : {"none", "proving", "observed", "proved", "signed", "final"},
                  coin : CoinSet \union {NoCoin}, deps : SUBSET Parents, seen : BOOLEAN]
      /\ op'.seen => op'.deps \subseteq recent
    BY <1>1, RcvAccount
<1> QED BY <1>1, <1>2, <1>3, RcvAccount, RcvAccountStep

\* The process ends, and the account is opened again.
LEMMA RcvCrashOpen ==
    ASSUME RcvInv, Crash \/ Open PROVE RcvInv'
<1>1. /\ chain' = chain /\ final' = final /\ mempool' = mempool /\ recent' = recent
      /\ held' = held /\ rows' = rows /\ order' = order /\ fresh' = fresh
      /\ op' = NoOp \/ op' = op
      /\ coins' \in {[k \in CoinSet |-> Absent], Replayed, SpentIn(Replayed, op.coin)}
    BY DEF Crash, Open, world
<1>2. Replayed \in Wallets
    BY RcvAccount, RcvReplayed
<1>3. coins' \in Wallets
    BY <1>1, <1>2, RcvNoCoins, RcvSpentIn
<1>4. /\ op' \in [state : {"none", "proving", "observed", "proved", "signed", "final"},
                  coin : CoinSet \union {NoCoin}, deps : SUBSET Parents, seen : BOOLEAN]
      /\ op'.seen => op'.deps \subseteq recent
    BY <1>1, RcvAccount
<1> QED BY <1>1, <1>3, <1>4, RcvAccount, RcvAccountStep

\* The host exports a snapshot, or nothing happens.
LEMMA RcvExport ==
    ASSUME RcvInv, ExportSnapshot \/ UNCHANGED vars PROVE RcvInv'
<1>1. /\ chain' = chain /\ final' = final /\ mempool' = mempool /\ recent' = recent
      /\ held' = held \/ held' = chain
      /\ rows' = rows /\ order' = order /\ coins' = coins /\ fresh' = fresh /\ op' = op
    BY DEF ExportSnapshot, world, vars
<1> QED BY <1>1, RcvAccount, RcvAccountStep

\* Initially nothing is mined, received or seen.
LEMMA RcvInit == ASSUME ReceiveAssumption, Init PROVE RcvInv
<1>1. /\ chain = << >> /\ final = 0 /\ mempool = {} /\ held = << >>
      /\ rows = [c \in Consignments |-> NoRow] /\ order = << >>
      /\ coins = [k \in CoinSet |-> Absent] /\ op = NoOp /\ fresh = {} /\ recent = {}
    BY DEF Init
<1>2. << >> \in RcvChains /\ Len(<< >>) = 0 /\ << >> \in Seq(Consignments)
    BY DEF RcvChains
<1>3. \A l : ~Place(<< >>, l)
    BY <1>2 DEF Place
<1>4. \A t : t \notin Mined(<< >>)
    BY <1>2, RcvMined
<1>5. Required \in Nat /\ Required >= 1
    BY RcvConstants
<1>6. RcvNet
    BY <1>1, <1>2, <1>3, <1>5 DEF RcvNet, Unique
<1>7. RcvHeld
    BY <1>1, <1>2, <1>5 DEF RcvHeld
<1>8. RcvRows
    <2>1. "none" \in Finalities
        BY DEF Finalities
    <2> QED BY <1>1, <2>1 DEF RcvRows, NoRow
<1>9. RcvWallet
    BY <1>1, <1>2, RcvNoCoins DEF RcvWallet
<1>10. RcvSeen
    BY <1>1, <1>4 DEF RcvSeen, NoOp
<1> QED BY <1>6, <1>7, <1>8, <1>9, <1>10 DEF RcvInv

\* Every step keeps the invariant.
LEMMA RcvStep ==
    ASSUME ReceiveAssumption, RcvInv, [Next]_vars PROVE RcvInv'
<1>1. CASE Mine \/ Reorg BY <1>1, RcvChainStep
<1>2. CASE (\E t \in Txs : Broadcast(t) \/ Evict(t)) \/ Lapse BY <1>2, RcvNetworkStep
<1>3. CASE ExportSnapshot \/ UNCHANGED vars BY <1>3, RcvExport
<1>4. ASSUME NEW c \in Consignments, VerifyConsignment(c) PROVE RcvInv' BY <1>4, RcvVerify
<1>5. ASSUME NEW c \in Consignments, VerifyUnconfirmed(c) \/ VerifyObserved(c) PROVE RcvInv'
    BY <1>5, RcvVerifyProvisionally
<1>6. ASSUME NEW k \in CoinSet, BeginProof(k) PROVE RcvInv' BY <1>6, RcvBeginProof
<1>7. CASE ObserveParents BY <1>7, RcvObserveParents
<1>8. CASE FinishProof BY <1>8, RcvFinishProof
<1>9. CASE Sign BY <1>9, RcvSign
<1>10. CASE Cancel \/ Finalize BY <1>10, RcvCancelFinalize
<1>11. CASE Crash \/ Open BY <1>11, RcvCrashOpen
<1> QED BY <1>1, <1>2, <1>3, <1>4, <1>5, <1>6, <1>7, <1>8, <1>9, <1>10, <1>11 DEF Next

\* The invariant of a receiving account.
THEOREM RcvInvariant == Spec => []RcvInv
<1> USE ReceiveAssumption
<1>1. Init => RcvInv
    BY RcvInit
<1>2. RcvInv /\ [Next]_vars => RcvInv'
    BY RcvStep
<1> QED BY <1>1, <1>2, PTL DEF Spec

\* A payment that the account calls settled is on the chain, and is the first
\* anchor there to publish each of its nullifiers, however old the snapshot that
\* it was verified against and whatever was reorganised since.
THEOREM RcvSettledIsFirst == Spec => []SettledIsFirst
<1> USE ReceiveAssumption
<1>1. RcvInv => SettledIsFirst
    <2> SUFFICES ASSUME RcvInv, NEW c \in Consignments, rows[c].finality = "settled"
                 PROVE  /\ Find(View(chain, {}), c) # {}
                        /\ \A nf \in Nullifiers(c) :
                             FirstOccurrence(View(chain, {}), nf) = Locate(View(chain, {}), c)
        BY DEF SettledIsFirst
    <2>1. PICK l : SettledAt(c, l)
        BY DEF RcvInv, RcvRows
    <2> QED BY <2>1, RcvSettledFirst DEF RcvInv
<1> QED BY <1>1, RcvInvariant, PTL

\* Two settled payments of different anchors share no nullifier.
NoDoublePayment ==
    \A c, d \in Consignments :
        /\ rows[c].finality = "settled" /\ rows[d].finality = "settled"
        /\ Nullifiers(c) \intersect Nullifiers(d) # {}
        => Consignment[c].txid = Consignment[d].txid

\* No coin is paid to the account twice, by different anchors, as settled.
THEOREM RcvNoDoublePayment == Spec => []NoDoublePayment
<1> USE ReceiveAssumption
<1>1. RcvInv => NoDoublePayment
    <2> SUFFICES ASSUME RcvInv, NEW c \in Consignments, NEW d \in Consignments,
                        rows[c].finality = "settled", rows[d].finality = "settled",
                        NEW nf \in Nullifiers(c) \intersect Nullifiers(d)
                 PROVE  Consignment[c].txid = Consignment[d].txid
        BY DEF NoDoublePayment
    <2>1. PICK k : SettledAt(c, k)
        BY DEF RcvInv, RcvRows
    <2>2. PICK l : SettledAt(d, l)
        BY DEF RcvInv, RcvRows
    <2>3. /\ k = l \/ Before(l, k)
          /\ l = k \/ Before(k, l)
        BY <2>1, <2>2 DEF SettledAt
    <2>4. k \in Nat \X Nat /\ l \in Nat \X Nat
        BY <2>1, <2>2, RcvPlace DEF SettledAt, RcvInv, RcvNet
    <2>5. k[1] \in Nat /\ k[2] \in Nat /\ l[1] \in Nat /\ l[2] \in Nat
        BY <2>4
    <2>6. ~(Before(l, k) /\ Before(k, l))
        BY <2>5 DEF Before
    <2>7. k = l
        BY <2>3, <2>6
    <2> QED BY <2>1, <2>2, <2>7 DEF SettledAt
<1> QED BY <1>1, RcvInvariant, PTL

\* A child of unconfirmed coins is signed only if each parent was in a mempool
\* or a block at some moment of the maximum observation age.
THEOREM RcvSignedParentRecent == Spec => SignedParentRecent
<1> USE ReceiveAssumption
<1>1. ASSUME RcvInv, [Next]_vars, op.state = "proved", op'.state = "signed"
      PROVE  op.deps \subseteq recent
    <2>1. op.state # op'.state
        BY <1>1
    <2>2. \/ Sign \/ op' = op \/ op' = NoOp \/ op' = [op EXCEPT !.seen = FALSE]
          \/ \E k \in CoinSet : BeginProof(k)
          \/ ObserveParents \/ FinishProof \/ Finalize
        BY <1>1 DEF Next, Broadcast, Evict, Mine, Reorg, Lapse, ExportSnapshot,
            VerifyConsignment, VerifyUnconfirmed, VerifyObserved, Cancel, Crash, Open,
            vars
    <2>3. ~ObserveParents /\ ~FinishProof /\ ~Finalize /\ ~\E k \in CoinSet : BeginProof(k)
        BY <1>1 DEF ObserveParents, FinishProof, Finalize, BeginProof
    <2>4. op' # NoOp
        BY <1>1 DEF NoOp
    <2>5. op' # [op EXCEPT !.seen = FALSE]
        BY <1>1, RcvAccount
    <2>6. Sign
        BY <2>1, <2>2, <2>3, <2>4, <2>5
    <2>7. ParentsSeen
        BY <1>1, <2>1, <2>6 DEF Sign
    <2> QED BY <1>1, <2>7, RcvParentsRecent
<1>2. RcvInv /\ [Next]_vars =>
        [op.state = "proved" /\ op'.state = "signed" => op.deps \subseteq recent]_vars
    BY <1>1
<1> QED BY <1>2, RcvInvariant, PTL DEF Spec, SignedParentRecent

\* A backend that hides transactions cannot make a cross-check of two backends
\* accept what the whole chain refuses, on any chain that the network leads to.
THEOREM RcvCrossCheckSound == Spec => CrossCheckSound
<1> USE ReceiveAssumption
<1>1. ASSUME RcvInv' PROVE Exposed(chain')
    <2>1. chain' \in RcvChains /\ Unique(chain')
        <3>1. chain' \in RcvChains' /\ Unique(chain)'
            BY <1>1 DEF RcvInv, RcvNet
        <3> QED BY <3>1 DEF RcvChains, Unique, Place, TxOf
    <2> QED BY <2>1, RcvExposed
<1>2. RcvInv' => [order = << >> /\ chain' # chain => Exposed(chain')]_chain
    BY <1>1
<1> QED BY <1>2, RcvInvariant, PTL DEF CrossCheckSound

============================================================================
