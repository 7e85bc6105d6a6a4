----------------------------- MODULE CliWallet -----------------------------
(***************************************************************************)
(* The command line wallet: processes that share one wallet directory,     *)
(* anchor through a Bitcoin node or an anchor server, and pay someone who  *)
(* accepts by the order of the anchors on the chain.                       *)
(*                                                                         *)
(* A process reads the directory once, when it starts; the Signal listener *)
(* lives on with what it read.  A spend is anchored first and its inputs   *)
(* are marked spent afterwards, one file each.  The chain is the sequence  *)
(* of mined anchors, the first `settled` of them Required deep; a location *)
(* is a place in that sequence.  A context is the outpoint it derives      *)
(* from, a coin stands for its nullifier.                                  *)
(***************************************************************************)
EXTENDS Integers, Sequences, FiniteSets, SequencesExt

CONSTANTS
    Procs,          \* processes of the wallet
    Coins,          \* coins minted to the wallet, their consignments on the way
    Kinds,          \* the backends to consider
    Funding,        \* outpoints the node's or server's wallet can spend, by value
    MaxAnchors,     \* bound: anchors published
    MaxMishaps      \* bound: crashes, lost replies, expiries, reorganisations

ASSUME CliAssumption ==
    /\ Kinds \subseteq {"bitcoind", "server", "demo"} /\ Kinds # {}
    /\ Funding \subseteq Nat \ {0} /\ MaxAnchors \in Nat /\ MaxMishaps \in Nat

Local == 0              \* a context the wallet draws itself, for a demo server
Sentinel == 0           \* MEMPOOL_LOCATION
NoFunding == -1

VARIABLES
    kind,       \* the backend
    file,       \* the coin files
    proc,       \* the processes
    anchors,    \* every anchor ever published
    pool,       \* anchors in the mempool
    log,        \* anchors in the order they were mined
    settled,    \* how many of them are Required deep
    reserved,   \* outpoints the server does not offer
    contexts,   \* reservations a client may still use
    expired,    \* reservations older than the server holds them
    posted,     \* history: outpoints an anchor was asked for
    consigned,  \* consignments written for the payee
    credits,    \* anchors the payee credited
    mishaps     \* mishaps so far

server == <<reserved, contexts, expired, posted>>
node == <<anchors, pool, log, settled>>
vars == <<kind, file, proc, node, server, consigned, credits, mishaps>>

Quiet == [pc |-> "idle", cmd |-> "none", mem |-> [c \in Coins |-> "none"], left |-> {},
          inputs |-> {}, ctx |-> NoFunding, anchor |-> 0, loc |-> Sentinel]

Statuses == {"none", "unspent", "spent", "torn"}

TypeOK ==
    /\ kind \in Kinds /\ file \in [Coins -> Statuses]
    /\ \A p \in Procs :
        /\ proc[p].pc \in {"idle", "receive", "bind", "post", "wait", "mark", "deliver"}
        /\ proc[p].cmd \in {"none", "send", "redeem"}
        /\ proc[p].mem \in [Coins -> Statuses]
        /\ proc[p].left \subseteq proc[p].inputs /\ proc[p].inputs \subseteq Coins
        /\ proc[p].anchor \in 0..Len(anchors)
    /\ pool \subseteq DOMAIN anchors /\ ToSet(log) \subseteq DOMAIN anchors
    /\ IsInjective(log) /\ pool \intersect ToSet(log) = {}
    /\ settled \in 0..Len(log)
    /\ contexts \subseteq reserved /\ expired \subseteq contexts /\ reserved \subseteq Funding
    /\ credits \subseteq DOMAIN anchors /\ mishaps \in 0..MaxMishaps

Init ==
    /\ kind \in Kinds
    /\ file = [c \in Coins |-> "none"] /\ proc = [p \in Procs |-> Quiet]
    /\ anchors = << >> /\ pool = {} /\ log = << >> /\ settled = 0
    /\ reserved = {} /\ contexts = {} /\ expired = {} /\ posted = {}
    /\ consigned = {} /\ credits = {} /\ mishaps = 0

Mishap == mishaps < MaxMishaps /\ mishaps' = mishaps + 1

----------------------------------------------------------------------------
(* Starting a process. *)

\* Every file must decode.
WalletOpens == \A c \in Coins : file[c] # "torn"

Goto(p, pc) == proc' = [proc EXCEPT ![p].pc = pc]
End(p) == proc' = [proc EXCEPT ![p] = Quiet]

\* send takes two inputs the wallet has and, unless the user allows it, has
\* not spent; redeem takes one that is not spent.
CanSend(ins) == Cardinality(ins) = 2 /\ \A c \in ins : file[c] # "none"
CanRedeem(ins) == Cardinality(ins) = 1 /\ \A c \in ins : file[c] = "unspent"

Spendable(cmd, ins) ==
    \/ cmd = "send" /\ CanSend(ins)
    \/ cmd = "redeem" /\ CanRedeem(ins)

StartSpend(p, cmd, ins) ==
    /\ proc[p].pc = "idle" /\ WalletOpens /\ Spendable(cmd, ins)
    /\ Len(anchors) < MaxAnchors
    /\ proc' = [proc EXCEPT ![p] = [Quiet EXCEPT !.pc = "bind", !.cmd = cmd,
                                        !.inputs = ins, !.left = ins]]
    /\ UNCHANGED <<kind, file, node, server, consigned, credits, mishaps>>

\* receive and the Signal listener read the directory and then take one
\* consignment or many.
StartReceiver(p) ==
    /\ proc[p].pc = "idle" /\ WalletOpens
    /\ proc' = [proc EXCEPT ![p] = [Quiet EXCEPT !.pc = "receive", !.mem = file]]
    /\ UNCHANGED <<kind, file, node, server, consigned, credits, mishaps>>

StopReceiver(p) ==
    /\ proc[p].pc = "receive" /\ End(p)
    /\ UNCHANGED <<kind, file, node, server, consigned, credits, mishaps>>

----------------------------------------------------------------------------
(* Receiving. *)

\* A coin that is stored already keeps its status, as this process knows it.
Kept(p, c) == IF proc[p].mem[c] = "none" THEN "unspent" ELSE proc[p].mem[c]

\* The consignment is accepted (its mint is Required deep) and the coin stored.
Store(p, c) ==
    /\ proc[p].pc = "receive"
    /\ file' = [file EXCEPT ![c] = Kept(p, c)]
    /\ proc' = [proc EXCEPT ![p].mem[c] = Kept(p, c)]
    /\ UNCHANGED <<kind, node, server, consigned, credits, mishaps>>

----------------------------------------------------------------------------
(* Anchoring. *)

Live == pool \union ToSet(log)
Free(f) == \A a \in Live : anchors[a].funding # f

\* What a process publishes: its nullifiers bound to a context, in a
\* transaction that spends an outpoint.
Published(p, ctx, f) == Append(anchors, [cmd |-> proc[p].cmd, nfs |-> proc[p].inputs,
                                          bound |-> ctx, funding |-> f])
Newest == Len(anchors) + 1

\* The answer to a call reaches the process, or it fails there although the
\* call was served.
Answered(p, good) ==
    \/ proc' = good /\ UNCHANGED mishaps
    \/ End(p) /\ Mishap

\* anchor, through a node: an outpoint is chosen, the record built against it
\* and the transaction broadcast.  Without funds the command fails.
Anchor(p) ==
    /\ proc[p].pc = "bind" /\ kind = "bitcoind"
    /\ \/ \E f \in Funding :
            /\ Free(f) /\ anchors' = Published(p, f, f) /\ pool' = pool \union {Newest}
            /\ Answered(p, [proc EXCEPT ![p].pc = "mark", ![p].anchor = Newest])
       \/ /\ \A f \in Funding : ~Free(f)
          /\ End(p) /\ UNCHANGED <<anchors, pool, mishaps>>
    /\ UNCHANGED <<kind, file, log, settled, server, consigned, credits>>

StillReserved == reserved \ expired

StillHeld == contexts \ expired

\* The outpoint of the highest value.
Best(S) == {f \in S : \A g \in S : g <= f}

\* reserve_context: lapsed reservations are released, then the best outpoint
\* that is unspent and not reserved is held for this client.
ReserveContext(p) ==
    /\ proc[p].pc = "bind" /\ kind = "server"
    /\ \/ \E f \in Best({g \in Funding \ StillReserved : Free(g)}) :
            /\ reserved' = StillReserved \union {f}
            /\ contexts' = StillHeld \union {f}
            /\ Answered(p, [proc EXCEPT ![p].pc = "post", ![p].ctx = f])
       \/ /\ \A f \in Funding \ StillReserved : ~Free(f)
          /\ reserved' = StillReserved /\ contexts' = StillHeld
          /\ End(p) /\ UNCHANGED mishaps
    /\ expired' = {}
    /\ UNCHANGED <<kind, file, node, posted, consigned, credits>>

\* A demo server has no such route: the wallet draws the context.
DrawContext(p) ==
    /\ proc[p].pc = "bind" /\ kind = "demo"
    /\ proc' = [proc EXCEPT ![p].pc = "post", ![p].ctx = Local]
    /\ UNCHANGED <<kind, file, node, server, consigned, credits, mishaps>>

\* Mutant: the outpoint that happens to be free is spent.
SpendsAny(p) == {f \in Funding : Free(f)}

\* The outpoint an anchor for this process spends.
Spends(p) == {f \in {proc[p].ctx} : Free(f)}

\* broadcast_anchor: the reservation is used up first, whatever follows.
Post(p) ==
    /\ proc[p].pc = "post" /\ kind = "server"
    /\ contexts' = contexts \ {proc[p].ctx} /\ expired' = expired \ {proc[p].ctx}
    /\ posted' = posted \union ({proc[p].ctx} \intersect contexts)
    /\ \/ /\ proc[p].ctx \in contexts
          /\ \E f \in Spends(p) : anchors' = Published(p, proc[p].ctx, f)
          /\ pool' = pool \union {Newest}
          /\ Answered(p, [proc EXCEPT ![p].pc = "wait", ![p].anchor = Newest])
       \/ /\ proc[p].ctx \notin contexts \/ Spends(p) = {}
          /\ End(p) /\ UNCHANGED <<anchors, pool, mishaps>>
    /\ UNCHANGED <<kind, file, log, settled, reserved, consigned, credits>>

\* The demo server appends to its own log and advances it past Required.
PostDemo(p) ==
    /\ proc[p].pc = "post" /\ kind = "demo"
    /\ anchors' = Published(p, Local, Local)
    /\ log' = Append(log, Newest) /\ settled' = Len(log) + 1
    /\ Answered(p, [proc EXCEPT ![p].pc = "mark", ![p].anchor = Newest, ![p].loc = Len(log) + 1])
    /\ UNCHANGED <<kind, file, pool, server, consigned, credits>>

\* Every ten seconds the server is asked where the anchor was mined ...
Confirmed(p) ==
    /\ proc[p].pc = "wait"
    /\ \E i \in DOMAIN log : log[i] = proc[p].anchor /\
           proc' = [proc EXCEPT ![p].pc = "mark", ![p].loc = i]
    /\ UNCHANGED <<kind, file, node, server, consigned, credits, mishaps>>

\* ... for two hours, or until a request fails.
\* Mutant: it waits as long as it takes.
GiveUpNever(p) == FALSE /\ UNCHANGED vars
GiveUp(p) ==
    /\ proc[p].pc = "wait" /\ End(p)
    /\ UNCHANGED <<kind, file, node, server, consigned, credits, mishaps>>

----------------------------------------------------------------------------
(* After the anchor. *)

\* mark_spent, one input at a time.
MarkSpent(p) ==
    /\ proc[p].pc = "mark"
    /\ \E c \in proc[p].left :
        /\ file' = [file EXCEPT ![c] = "spent"]
        /\ proc' = [proc EXCEPT ![p].left = @ \ {c},
                                ![p].pc = IF proc[p].left = {c} THEN "deliver" ELSE "mark"]
    /\ UNCHANGED <<kind, node, server, consigned, credits, mishaps>>

\* The consignment is written for delivery.
Deliver(p) ==
    /\ proc[p].pc = "deliver" /\ End(p)
    /\ consigned' = consigned \union {[anchor |-> proc[p].anchor, loc |-> proc[p].loc]}
    /\ UNCHANGED <<kind, file, node, server, credits, mishaps>>

\* A process is killed; a file it was writing is cut short.
Kill(p) ==
    /\ Mishap /\ proc[p].pc # "idle" /\ End(p)
    /\ \/ UNCHANGED file
       \/ \E c \in Coins : /\ proc[p].pc = "receive" \/ (proc[p].pc = "mark" /\ c \in proc[p].left)
                          /\ file' = [file EXCEPT ![c] = "torn"]
    /\ UNCHANGED <<kind, node, server, consigned, credits>>

----------------------------------------------------------------------------
(* The chain. *)

Mine(a) ==
    /\ a \in pool /\ pool' = pool \ {a} /\ log' = Append(log, a)
    /\ UNCHANGED <<kind, file, proc, anchors, settled, server, consigned, credits, mishaps>>

Settle ==
    /\ settled < Len(log) /\ settled' = Len(log)
    /\ UNCHANGED <<kind, file, proc, anchors, pool, log, server, consigned, credits, mishaps>>

Reorg ==
    /\ Mishap /\ settled < Len(log) /\ log' = SubSeq(log, 1, settled)
    /\ pool' = pool \union (ToSet(log) \ ToSet(log'))
    /\ UNCHANGED <<kind, file, proc, anchors, settled, server, consigned, credits>>

Evict(a) ==
    /\ Mishap /\ a \in pool /\ pool' = pool \ {a}
    /\ UNCHANGED <<kind, file, proc, anchors, log, settled, server, consigned, credits>>

\* The time a reservation is held for passes.
Lapse ==
    /\ Mishap /\ expired # contexts /\ expired' = contexts
    /\ UNCHANGED <<kind, file, proc, node, reserved, contexts, posted, consigned, credits>>

----------------------------------------------------------------------------
(* The payee. *)

Binds(a, c) == c \in anchors[a].nfs /\ anchors[a].bound = anchors[a].funding

\* The place of a consignment's anchor: by transaction if the sender knew no
\* location, else exactly there.
PlacesOf(con) == {i \in DOMAIN log : log[i] = con.anchor /\ con.loc \in {Sentinel, i}}

\* Mutant: any published occurrence will do.
FirstAnywhere(i, c) == TRUE
FirstAt(i, c) == \A j \in 1..i - 1 : ~Binds(log[j], c)

PayeeReceive(con) ==
    /\ con \in consigned /\ anchors[con.anchor].cmd = "send"
    /\ \E i \in PlacesOf(con) :
        /\ i <= settled
        /\ \A c \in anchors[con.anchor].nfs : Binds(con.anchor, c) /\ FirstAt(i, c)
    /\ credits' = credits \union {con.anchor}
    /\ UNCHANGED <<kind, file, proc, node, server, consigned, mishaps>>

\* What a running command does next.
Step(p) ==
    \/ Anchor(p) \/ ReserveContext(p) \/ DrawContext(p) \/ Post(p) \/ PostDemo(p)
    \/ Confirmed(p) \/ GiveUp(p) \/ MarkSpent(p) \/ Deliver(p)

Next ==
    \/ \E p \in Procs :
        \/ \E cmd \in {"send", "redeem"}, ins \in SUBSET Coins : StartSpend(p, cmd, ins)
        \/ \E c \in Coins : Store(p, c)
        \/ StartReceiver(p) \/ StopReceiver(p) \/ Step(p) \/ Kill(p)
    \/ \E a \in 1..MaxAnchors : Mine(a) \/ Evict(a)
    \/ Settle \/ Reorg \/ Lapse
    \/ \E con \in consigned : PayeeReceive(con)

\* A started command keeps running; how long the chain takes is not known.
Spec == Init /\ [][Next]_vars /\ \A p \in Procs : WF_vars(Step(p))

----------------------------------------------------------------------------
(* Properties. *)

\* Whatever was sent twice, by mistake, by two processes or after a crash, no
\* two credited payments spend the same coin, and what was credited stays the
\* first to spend its coins.
CreditsStand ==
    \A a \in credits :
        \E i \in 1..settled : log[i] = a /\
            \A c \in anchors[a].nfs : Binds(a, c) /\ \A j \in 1..i - 1 : ~Binds(log[j], c)

\* A coin is marked spent only after its nullifier was published: no failure
\* of the backend makes a coin unusable that was never anchored.
SpentWasPublished ==
    \A c \in Coins : file[c] = "spent" => \E a \in DOMAIN anchors : c \in anchors[a].nfs

\* Redelivery of a coin that was spent does not make it unspent again, unless
\* the process that stores it read the wallet before the coin was spent.
RedeliveryKeepsSpent ==
    [][\A c \in Coins : file[c] = "spent" /\ file'[c] = "unspent" =>
          \E p \in Procs : proc[p].pc = "receive" /\ proc[p].mem[c] # "spent"]_vars

\* Every anchor's record is bound to the outpoint its transaction spends, also
\* when a reservation lapsed and went to another client in between.
RecordBound == \A a \in DOMAIN anchors : anchors[a].bound = anchors[a].funding

\* An outpoint the server keeps back is held for a client or was asked to be
\* spent: an abandoned reservation returns to use.
NotStranded == reserved \subseteq contexts \union posted

\* A command ends: it never waits for the chain, the server or another process
\* without bound.
CommandsEnd ==
    \A p \in Procs : proc[p].pc \notin {"idle", "receive"} ~> proc[p].pc = "idle"

-----------------------------------------------------------------------------
(* What documents or comments promise and the code does not keep; TLC       *)
(* refutes it on the instance of the module's run (README, Findings).       *)

\* Redelivery of an already-stored coin must not resurrect it if it has been
\* spent since.
SpentStays == [][\A c \in Coins : file[c] = "spent" => file'[c] # "unspent"]_vars
=============================================================================
