---------------------------- MODULE AnchorIndex ----------------------------
(***************************************************************************)
(* The index of anchors that a backend keeps of a Bitcoin node's chain: by *)
(* the bitcoind backend of the command line wallet, which scans whole      *)
(* blocks and rewrites its file at the end of a refresh, and by the        *)
(* esplora backend of the anchor server, which reads a block page by page, *)
(* appends every anchor to its cache as it goes and serves snapshots to    *)
(* wallets.  Each call to the node is a step of its own: the chain may     *)
(* extend or reorganise between any two of them, and any call may fail.    *)
(*                                                                         *)
(* Hashes are ideal: the hash of a block is the chain that ends with it.   *)
(* Marker flags and funding outpoints, which the files also hold, are left *)
(* out.                                                                    *)
(***************************************************************************)
EXTENDS Integers, Sequences, FiniteSets, SequencesExt

CONSTANTS
    Txs,            \* anchor transactions
    Kinds,          \* the backends to consider
    Required,       \* confirmations after which a wallet credits an anchor
    PageSize,       \* transactions in a page of a block
    BlockSize,      \* bound: anchors in a block
    MaxHeight,      \* bound: blocks of the chain
    MaxReorgs,      \* bound: reorganisations
    MaxMishaps      \* bound: failed calls, crashes and deleted files

ASSUME IndexAssumption ==
    /\ Kinds \subseteq {"bitcoind", "esplora"} /\ Kinds # {}
    /\ Required \in Nat \ {0} /\ PageSize \in Nat \ {0}
    /\ BlockSize \in Nat /\ MaxHeight \in Nat /\ MaxReorgs \in Nat /\ MaxMishaps \in Nat

VARIABLES
    kind,       \* which backend this is
    chain,      \* the node's best chain
    index,      \* start height, last scanned block, entries, tip height, and as
                \* history the block read in part and whether branches were mixed
    disk,       \* what the index file holds
    scan,       \* where the running scan is
    live,       \* may wallets read the index, and did the last scan succeed
    reorgs,     \* reorganisations so far
    mishaps     \* mishaps so far

vars == <<kind, chain, index, disk, scan, live, reorgs, mishaps>>

Idle == [at |-> "idle", block |-> << >>, pos |-> 0, began |-> << >>, checked |-> 0]
Empty(start) == [start |-> start, scanned |-> << >>, entries |-> << >>, tip |-> 0,
                 part |-> << >>, torn |-> FALSE]
NoFile == Empty(0)

Blocks == [fork : {0, 1}, txs : SeqOf(Txs, BlockSize)]
Entries == [tx : Txs, height : 1..MaxHeight, pos : 1..BlockSize]

TypeOK ==
    /\ kind \in Kinds /\ chain \in Seq(Blocks) /\ Len(chain) <= MaxHeight
    /\ \A f \in {index, disk} :
        /\ f.start \in 0..MaxHeight /\ f.tip \in 0..MaxHeight
        /\ f.scanned \in Seq(Blocks) /\ f.entries \in Seq(Entries)
    /\ scan.at \in {"idle", "check", "block", "page"}
    /\ live \in {"down", "stale", "fresh"} /\ reorgs \in 0..MaxReorgs /\ mishaps \in 0..MaxMishaps

----------------------------------------------------------------------------
(* The anchors of a chain. *)

EntriesIn(block, height) ==
    [p \in DOMAIN block.txs |-> [tx |-> block.txs[p], height |-> height, pos |-> p]]

\* What a full scan of a chain finds from a height on.
AnchorsOf(blocks, start) ==
    UNION {ToSet(EntriesIn(blocks[h], h)) : h \in {x \in DOMAIN blocks : x >= start}}

Mined(blocks) == UNION {ToSet(b.txs) : b \in ToSet(blocks)}

----------------------------------------------------------------------------
(* The node. *)

Fresh(blocks, fork) ==
    {b \in Blocks : b.fork = fork /\ IsInjective(b.txs) /\ ToSet(b.txs) \intersect Mined(blocks) = {}}

Extend ==
    /\ Len(chain) < MaxHeight
    /\ \E b \in Fresh(chain, 0) : chain' = Append(chain, b)
    /\ UNCHANGED <<kind, index, disk, scan, live, reorgs, mishaps>>

\* The last blocks, fewer than Required, are replaced by one more.
Reorg ==
    /\ reorgs < MaxReorgs /\ reorgs' = reorgs + 1 /\ Len(chain) < MaxHeight
    /\ \E d \in 1..Required - 1 :
        /\ d <= Len(chain)
        /\ LET base == SubSeq(chain, 1, Len(chain) - d)
           IN \E b \in Fresh(base, 1) :
                chain' = base \o <<b>> \o [i \in 1..d |-> [fork |-> 1, txs |-> << >>]]
    /\ UNCHANGED <<kind, index, disk, scan, live, mishaps>>

----------------------------------------------------------------------------
(* Opening and scanning. *)

Mishap == mishaps < MaxMishaps /\ mishaps' = mishaps + 1

Init ==
    /\ kind \in Kinds /\ chain = << >>
    /\ index = Empty(1) /\ disk = NoFile
    /\ scan = Idle /\ live = "down"
    /\ reorgs = 0 /\ mishaps = 0

\* The wallet's file is the whole index of the last refresh that found new
\* blocks; the server's cache has every line as it was scanned.
Written(new) == IF kind = "esplora" THEN new ELSE disk

\* A refresh begins by asking for the tip height, and remembers it at once.
ReadTip ==
    /\ scan.at = "idle"
    /\ scan' = [Idle EXCEPT !.at = "check", !.began = chain]
    /\ index' = [index EXCEPT !.tip = Len(chain)]
    /\ UNCHANGED <<kind, chain, disk, live, reorgs, mishaps>>

Reset(f) == [f EXCEPT !.scanned = << >>, !.entries = << >>, !.part = << >>, !.torn = FALSE]

\* Is the block scanned last still the node's at its height?
\* Mutant: hashes in two byte orders are compared.
NeverThere(f) == f.scanned = << >>
StillThere(f) == IsPrefix(f.scanned, chain)

CheckTip ==
    /\ scan.at = "check" /\ scan' = [scan EXCEPT !.at = "block", !.checked = reorgs]
    /\ IF StillThere(index) THEN UNCHANGED <<index, disk>>
       ELSE index' = Reset(index) /\ disk' = Written(Reset(index))
    /\ UNCHANGED <<kind, chain, live, reorgs, mishaps>>

NextHeight == IF index.scanned = << >> THEN index.start ELSE Len(index.scanned) + 1

\* Does this block join another branch to the entries, unnoticed, because the
\* chain was reorganised after the check, be it back and forth, or after a
\* block was read in part?
Mixes(block) ==
    \/ scan.checked # reorgs /\ ~IsPrefix(index.scanned, block)
    \/ index.part \notin {<< >>, block}

\* The hash at the next height, and for the wallet the whole block by that
\* hash: a reorganisation after the first call does not change what the second
\* returns.
FetchBlock ==
    /\ scan.at = "block" /\ NextHeight <= index.tip
    /\ LET block == SubSeq(chain, 1, NextHeight)
           seen == [index EXCEPT !.torn = @ \/ Mixes(block)]
       IN IF kind = "esplora"
          THEN /\ scan' = [scan EXCEPT !.at = "page", !.block = block, !.pos = 0]
               /\ index' = [seen EXCEPT !.part = block]
          ELSE /\ index' = [seen EXCEPT !.scanned = block,
                              !.entries = @ \o EntriesIn(Last(block), Len(block))]
               /\ UNCHANGED scan
    /\ disk' = Written(index')
    /\ UNCHANGED <<kind, chain, live, reorgs, mishaps>>

\* The next page of the block; a page that is not full is the last one.
Page ==
    LET all == IF scan.block = << >> THEN << >> ELSE EntriesIn(Last(scan.block), Len(scan.block))
        end == scan.pos + PageSize
    IN SubSeq(all, scan.pos + 1, IF end < Len(all) THEN end ELSE Len(all))

\* Mutant: a block is scanned once its first page was.
FetchPageFirst ==
    /\ scan.at = "page" /\ scan' = [scan EXCEPT !.at = "block"]
    /\ index' = [index EXCEPT !.entries = @ \o Page, !.scanned = scan.block, !.part = << >>]
    /\ disk' = index'
    /\ UNCHANGED <<kind, chain, live, reorgs, mishaps>>

FetchPage ==
    /\ scan.at = "page"
    /\ LET found == [index EXCEPT !.entries = @ \o Page]
       IN IF Len(Page) < PageSize
          THEN index' = [found EXCEPT !.scanned = scan.block, !.part = << >>] /\ scan' = [scan EXCEPT !.at = "block"]
          ELSE index' = found /\ scan' = [scan EXCEPT !.pos = @ + PageSize]
    /\ disk' = index'
    /\ UNCHANGED <<kind, chain, live, reorgs, mishaps>>

\* Nothing is left below the tip read at the start.  The wallet writes its
\* file, if it scanned a block.
ScanDone ==
    /\ scan.at = "block" /\ NextHeight > index.tip
    /\ scan' = Idle /\ live' = "fresh"
    /\ disk' = IF kind = "bitcoind" /\ index.scanned # disk.scanned THEN index ELSE disk
    /\ UNCHANGED <<kind, chain, index, reorgs, mishaps>>

\* Mutant: a failed check of the tip is not reported.
ScanFailsUnnoticed ==
    /\ Mishap /\ kind = "esplora" /\ scan.at = "check" /\ scan' = Idle
    /\ UNCHANGED <<kind, chain, index, disk, live, reorgs>>

\* A call to the node fails: the server's scan is over, what it found stays, a
\* page may have been written in part, and it goes on serving.  A command of
\* the wallet ends instead.
ScanFails ==
    /\ Mishap /\ kind = "esplora" /\ scan.at # "idle" /\ scan' = Idle
    /\ live' = IF live = "down" THEN "down" ELSE "stale"
    /\ \E n \in 0..(IF scan.at = "page" THEN Len(Page) ELSE 0) :
        index' = [index EXCEPT !.entries = @ \o SubSeq(Page, 1, n)]
    /\ disk' = index'
    /\ UNCHANGED <<kind, chain, reorgs>>

\* The process ends and a new one opens the file.  Without one the wallet
\* starts at the tip and the server at its birth height.  Nothing is served
\* before a scan has succeeded.
TipStart == IF Len(chain) = 0 THEN 1 ELSE Len(chain)

Load(file) ==
    IF file = NoFile
    THEN index' = Empty(IF kind = "esplora" THEN 1 ELSE TipStart)
    ELSE index' = [file EXCEPT !.tip = 0]

Restart ==
    /\ Mishap /\ Load(disk) /\ scan' = Idle /\ live' = "down"
    /\ UNCHANGED <<kind, chain, disk, reorgs>>

\* The process ended inside the wallet's write: the file is cut short, open
\* refuses it, and its owner deletes it.
RestartInWrite ==
    /\ Mishap /\ kind = "bitcoind" /\ scan.at = "block" /\ NextHeight > index.tip
    /\ disk' = NoFile /\ Load(NoFile) /\ scan' = Idle /\ live' = "down"
    /\ UNCHANGED <<kind, chain, reorgs>>

ScanStep == ReadTip \/ CheckTip \/ FetchBlock \/ FetchPage \/ ScanDone

Next == Extend \/ Reorg \/ ScanStep \/ ScanFails \/ Restart \/ RestartInWrite

\* The server polls and the wallet refreshes again and again.
Spec == Init /\ [][Next]_vars /\ WF_vars(ScanStep)

----------------------------------------------------------------------------
(* Properties. *)

\* Below, an index is torn if it holds entries of two branches because the
\* chain was reorganised inside a scan, or between a block read in part and the
\* next attempt at it; neither is noticed.

\* An anchor in the index is preceded there by every anchor that precedes it
\* on its branch, also after failed scans, restarts and reorganisations that
\* were noticed: so the first occurrence of a nullifier in the index is the
\* first occurrence since its start height.
NothingSkipped ==
    ~index.torn =>
        LET branch == IF index.part = << >> THEN index.scanned ELSE index.part
        IN /\ AnchorsOf(index.scanned, index.start) \subseteq ToSet(index.entries)
           /\ ToSet(index.entries) \subseteq AnchorsOf(branch, index.start)

\* A scan during which the chain did not change leaves the index of a full
\* scan, whatever branch, page or file it started from.
ScanIsComplete ==
    [][scan.at = "block" /\ scan'.at = "idle" /\ live' = "fresh" /\ chain = scan.began /\ ~index.torn
         => ToSet(index.entries) = AnchorsOf(chain, index.start)]_vars

\* Anchors that the index shows Required deep are in the chain.
SettledMined ==
    \A e \in ToSet(index.entries) :
        index.tip - e.height + 1 >= Required => e \in AnchorsOf(chain, index.start)

\* After a scan that succeeded, an anchor shown Required deep is in the chain
\* and stays there.
SettledIsMined == live = "fresh" /\ scan.at = "idle" /\ ~index.torn => SettledMined

\* A chain that stops changing is scanned to its tip.
CatchesUp == <>[](index.scanned = chain)

-----------------------------------------------------------------------------
(* What documents or comments promise and the code does not keep; TLC       *)
(* refutes it on the instance of the module's run (README, Findings).       *)

\* The chain is checked before each scan and an index that no longer agrees is
\* dropped: what wallets are served as Required deep is in the chain.
ServedIsMined == live # "down" /\ scan.at = "idle" /\ ~index.torn => SettledMined
=============================================================================
