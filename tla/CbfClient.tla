----------------------------- MODULE CbfClient -----------------------------
(***************************************************************************)
(* The compact-block-filter light client over peers that move on their own.*)
(*                                                                         *)
(* A sync has two rounds of questions, headers and then filter headers,    *)
(* each put to every peer in parallel, and two writes to a cache that is   *)
(* loaded by the next connection.  Peers extend and reorganise between the *)
(* rounds, some lie: about filters, which no block header commits to, or   *)
(* by serving headers that break the rules of HeaderRules.  The process    *)
(* may stop inside either write.  On top of the agreed chain sit the scan  *)
(* index, the check of a funding outpoint and the full scan.               *)
(*                                                                         *)
(* A header chain is the sequence of its blocks above genesis.  The one    *)
(* with the most work need not be the longest.  The hash of a filter is    *)
(* the block with whether the filter hides what is in it; a filter header  *)
(* commits to the whole sequence of hashes up to it.                       *)
(***************************************************************************)
EXTENDS HeaderRules

CONSTANTS
    Peers,          \* the configured peers
    Liars,          \* peers that may lie
    Served,         \* the header chains that peers serve: a prefix-closed set
    Content,        \* Content[b]: what the transactions of block b do, in order
    MinPeers,       \* peers a funding verification insists on
    Window,         \* FILTER_CACHE_REATTEST_BLOCKS
    MaxMishaps      \* bound: unreachable peers and stops of the process

ASSUME CbfAssumption ==
    /\ IsFiniteSet(Peers) /\ Liars \subseteq Peers
    /\ << >> \in Served /\ Served \subseteq Seq(DOMAIN Header)
    /\ \A c \in Served : Prefixes(c) \subseteq Served
    /\ \A c \in Served : \A h \in DOMAIN c :
         \A i \in DOMAIN Content[c[h]] : Content[c[h]][i] \in {"create", "spend", "anchor"}
    /\ MinPeers \in Nat /\ Window \in Nat \ {0} /\ MaxMishaps \in Nat

\* The ones that the rules admit, the work of each, and the blocks of all of them.
Chains == {c \in Served : ValidChain(c)}
Work == [c \in Served |-> ChainWork(c)]
BlockSet == UNION {ToSet(c) : c \in Served}

VARIABLES
    view,       \* view[p]: the chain peer p is on
    lies,       \* the peers that lie
    disk,       \* headers.bin and filter-hashes.bin
    index,      \* scan-index.log: the scanned lineage and the occurrences in it
    phase,      \* where the client is
    peers,      \* peers of the session
    chain,      \* HeaderChain
    filters,    \* FilterHeaderChain
    cached,     \* was this session's state loaded from the cache
    verdict,    \* the last OutpointVerdict or AnchorVerdict
    mishaps

session == <<phase, peers, chain, filters, cached>>
vars == <<view, lies, disk, index, session, verdict, mishaps>>

Hash(b, lie) == [block |-> b, lie |-> lie]
Hashes == [block : BlockSet, lie : BOOLEAN]

TypeOK ==
    /\ view \in [Peers -> Served] /\ lies \subseteq Liars
    /\ disk.headers \in Chains /\ disk.filters \in Seq(Hashes)
    /\ index.lineage \in Chains /\ index.found \subseteq Nat \X BlockSet
    /\ phase \in {"off", "headers", "filters", "persist", "persisting", "ready", "failed"}
    /\ peers \subseteq Peers /\ chain \in Chains /\ filters \in Seq(Hashes)
    /\ cached \in BOOLEAN
    /\ verdict \in {"none", "unspent", "spent", "not_found", "mismatch", "confirmed", "absent", "young"}
    /\ mishaps \in 0..MaxMishaps

Init ==
    /\ view = [p \in Peers |-> << >>] /\ lies \in SUBSET Liars
    /\ disk = [headers |-> << >>, filters |-> << >>]
    /\ index = [lineage |-> << >>, found |-> {}]
    /\ phase = "off" /\ peers = {} /\ chain = << >> /\ filters = << >> /\ cached = FALSE
    /\ verdict = "none" /\ mishaps = 0

Mishap == mishaps < MaxMishaps /\ mishaps' = mishaps + 1

----------------------------------------------------------------------------
(* Peers. *)

\* A peer takes any valid chain with more work than its own; one that lies may also go on
\* with headers that only look like work.
Adopt(p) ==
    /\ \E c \in IF p \in lies THEN Served ELSE Chains :
         Work[c] > Work[view[p]] /\ view' = [view EXCEPT ![p] = c]
    /\ verdict' = "none"
    /\ UNCHANGED <<lies, disk, index, session, mishaps>>

Hidden(b) == Content[b] # << >>

\* The filter hashes a peer gives for a chain.
FiltersOf(p, c) == [h \in 1..Len(c) |-> Hash(c[h], p \in lies /\ Hidden(c[h]))]

----------------------------------------------------------------------------
(* Headers. *)

CommonPrefix(a, b) ==
    CHOOSE n \in 0..Len(a) :
        /\ n <= Len(b) /\ SubSeq(a, 1, n) = SubSeq(b, 1, n)
        /\ n + 1 <= Len(a) /\ n + 1 <= Len(b) => a[n + 1] # b[n + 1]

\* A clone of our chain follows the peer across a fork; a peer that is merely
\* behind has nothing to send and the clone stays as it is.
HeaderCandidate(base, c) == IF CommonPrefix(base, c) = Len(c) THEN base ELSE c

\* connect: the caches are loaded and every reachable peer is asked.
Connect(reached) ==
    /\ phase = "off" /\ reached # {}
    /\ IF reached = Peers THEN UNCHANGED mishaps ELSE Mishap
    /\ phase' = "headers" /\ peers' = reached /\ cached' = TRUE
    /\ chain' = disk.headers /\ filters' = disk.filters
    /\ verdict' = "none"
    /\ UNCHANGED <<view, lies, disk, index>>

\* sync on a session that is open.
Resync ==
    /\ phase = "ready" /\ phase' = "headers" /\ cached' = FALSE
    /\ verdict' = "none"
    /\ UNCHANGED <<view, lies, disk, index, peers, chain, filters, mishaps>>

Fail == phase' = "failed" /\ peers' = {}

\* The filter hashes that the new header chain leaves standing.
Truncated(agreed) ==
    LET n == CommonPrefix(chain, agreed)
    IN SubSeq(filters, 1, IF n < Len(filters) THEN n ELSE Len(filters))

\* Mutant: headers are taken as they come.
NeverMisled(p) == FALSE

\* append_validated refuses a header of what the peer serves: the peer is left out.
Misled(p) == view[p] \notin Chains

\* The clones of the other peers must have reached the same tip.
SyncHeaders ==
    LET valid == {p \in peers : ~Misled(p)}
        candidates == {HeaderCandidate(chain, view[p]) : p \in valid}
    IN /\ phase = "headers"
       /\ IF Cardinality(candidates) = 1
          THEN \E agreed \in candidates :
                 /\ chain' = agreed /\ filters' = Truncated(agreed)
                 /\ phase' = "filters" /\ peers' = valid
          ELSE Fail /\ UNCHANGED <<chain, filters>>
       /\ UNCHANGED <<view, lies, disk, index, cached, verdict, mishaps>>

----------------------------------------------------------------------------
(* Filter headers. *)

\* A peer answers for a stop block of its own chain, and may for a stale one.
Answers(p) == IsPrefix(chain, view[p])

\* Mutant: only the hashes of the tail are compared, not what they link to.
TailOnlyReattests(p) ==
    LET start == IF Len(filters) > Window THEN Len(filters) - Window ELSE 0
    IN SubSeq(FiltersOf(p, chain), start + 1, Len(filters)) = SubSeq(filters, start + 1, Len(filters))

\* reattest_tail: the tail must be exactly the peer's, and the header before
\* it the one our whole prefix derives.
ReattestsTail(p) ==
    LET start == IF Len(filters) > Window THEN Len(filters) - Window ELSE 0
        mine == FiltersOf(p, chain)
    IN /\ Len(filters) <= Len(chain)
       /\ SubSeq(mine, 1, start) = SubSeq(filters, 1, start)
       /\ SubSeq(mine, start + 1, Len(filters)) = SubSeq(filters, start + 1, Len(filters))

\* fetch_range: the suffix must link to what is held; nothing is asked when
\* there is no suffix.
Links(p) == Len(filters) >= Len(chain) \/ SubSeq(FiltersOf(p, chain), 1, Len(filters)) = filters

Completes(p) == (cached /\ filters # << >> => ReattestsTail(p)) /\ Links(p)

Suffix(p) == SubSeq(FiltersOf(p, chain), Len(filters) + 1, Len(chain))

\* A peer that does not complete is left out; those that do must agree.
SyncFilters ==
    /\ phase = "filters"
    /\ \E asked \in SUBSET peers :
         LET done == {p \in asked : Completes(p)}
         IN /\ {p \in peers : Answers(p)} \subseteq asked
            /\ IF done # {} /\ Cardinality({Suffix(p) : p \in done}) = 1
               THEN /\ filters' = filters \o Suffix(CHOOSE p \in done : TRUE)
                    /\ peers' = done /\ phase' = "persist"
               ELSE Fail /\ UNCHANGED filters
    /\ UNCHANGED <<view, lies, disk, index, chain, cached, verdict, mishaps>>

----------------------------------------------------------------------------
(* The cache. *)

PersistHeaders ==
    /\ phase = "persist" /\ phase' = "persisting"
    /\ disk' = [disk EXCEPT !.headers = chain]
    /\ UNCHANGED <<view, lies, index, peers, chain, filters, cached, verdict, mishaps>>

PersistFilters ==
    /\ phase = "persisting" /\ phase' = "ready"
    /\ disk' = [disk EXCEPT !.filters = filters]
    /\ UNCHANGED <<view, lies, index, peers, chain, filters, cached, verdict, mishaps>>

\* Mutant: the owner syncs again on the session that failed.
DropReused ==
    /\ phase = "failed" /\ phase' = "headers"
    /\ UNCHANGED <<view, lies, disk, index, peers, chain, filters, cached, verdict, mishaps>>

\* A session that failed is never used again: its owner drops it.
Drop ==
    /\ phase = "failed" /\ phase' = "off"
    /\ chain' = << >> /\ filters' = << >> /\ cached' = FALSE
    /\ UNCHANGED <<view, lies, disk, index, peers, verdict, mishaps>>

\* Files are written in place: a stop inside a write leaves a prefix, and a
\* ragged one is loaded as nothing.
Crash ==
    /\ Mishap /\ phase # "off" /\ phase' = "off"
    /\ disk' \in CASE phase = "persist" -> {[disk EXCEPT !.headers = c] : c \in {disk.headers} \union Prefixes(chain)}
                   [] phase = "persisting" -> {[disk EXCEPT !.filters = f] : f \in {disk.filters} \union Prefixes(filters)}
                   [] OTHER -> {disk}
    /\ peers' = {} /\ chain' = << >> /\ filters' = << >> /\ cached' = FALSE
    /\ verdict' = "none"
    /\ UNCHANGED <<view, lies, index>>

----------------------------------------------------------------------------
(* What the session is for. *)

Does(b, what) == \E i \in DOMAIN Content[b] : Content[b][i] = what

\* anchors_in_block, over every block of a window: the full scan.
FullScan(c) == {<<h, c[h]>> : h \in {i \in DOMAIN c : Does(c[i], "anchor")}}

\* filter_matches: a filter that hides a block's content matches nothing in it.
FilterMatches(h, what) == ~filters[h].lie /\ Does(chain[h], what)

\* reconcile_chain_view: the last height the index and the session agree on.
Reconcile == CommonPrefix(index.lineage, chain)

\* Mutant: the occurrences of an abandoned branch stay.
KeptAll == index.found

Kept == {o \in index.found : o[1] <= Reconcile}

\* scan_sync: occurrences above the common ancestor go, and every filter from
\* there to the tip is asked for the marker.  The file is replaced atomically.
ScanSync ==
    /\ phase = "ready" /\ index.lineage # chain
    /\ index' = [lineage |-> SubSeq(index.lineage, 1, Reconcile) \o SubSeq(chain, Reconcile + 1, Len(chain)),
                 found |-> Kept \union {<<h, chain[h]>> :
                             h \in {i \in Reconcile + 1..Len(chain) : FilterMatches(i, "anchor")}}]
    /\ verdict' = "none"
    /\ UNCHANGED <<view, lies, disk, session, mishaps>>

\* ScanIndex::open finds a file that is damaged or not its own: the index starts afresh.
DiscardIndex ==
    /\ Mishap /\ phase = "off" /\ index.lineage # << >>
    /\ index' = [lineage |-> << >>, found |-> {}]
    /\ UNCHANGED <<view, lies, disk, session, verdict>>

\* inspect_outpoint_block over every block whose filter matches, in order.
\* What is known of the outpoint so far goes in and comes out.
Inspect(b, known, value) ==
    LET f[i \in 0..Len(Content[b])] ==
            IF i = 0 THEN known
            ELSE IF f[i - 1] \in {"spent", "not_found", "mismatch"} THEN f[i - 1]
            ELSE CASE Content[b][i] = "create" -> IF value = "right" THEN "created" ELSE "mismatch"
                   [] Content[b][i] = "spend" -> IF f[i - 1] = "created" THEN "spent" ELSE "not_found"
                   [] OTHER -> f[i - 1]
    IN f[Len(Content[b])]

Inspected(birth, value) ==
    LET f[h \in birth - 1..Len(chain)] ==
            IF h = birth - 1 THEN "absent"
            ELSE IF f[h - 1] \notin {"absent", "created"} \/ filters[h].lie THEN f[h - 1]
            ELSE Inspect(chain[h], f[h - 1], value)
    IN f[Len(chain)]

\* verify of the funding outpoint: with too few peers the session is dropped.
VerifyOutpoint(birth, value) ==
    /\ phase = "ready" /\ birth \in 1..Len(chain)
    /\ IF Cardinality(peers) >= MinPeers
       THEN /\ LET last == Inspected(birth, value)
               IN verdict' = CASE last = "created" -> "unspent" [] last = "absent" -> "not_found"
                               [] OTHER -> last
            /\ UNCHANGED session
       ELSE Fail /\ UNCHANGED <<chain, filters, cached, verdict>>
    /\ UNCHANGED <<view, lies, disk, index, mishaps>>

\* verify_anchor: the record must be in the transaction at the claimed place
\* of the agreed chain and deep enough.  The block decides, not its filter.
AnchorVerdict(b, height, required) ==
    IF height > Len(chain) \/ chain[height] # b \/ ~Does(b, "anchor") THEN "absent"
    ELSE IF Len(chain) - height + 1 < required THEN "young" ELSE "confirmed"

VerifyAnchor(b, height, required) ==
    /\ phase = "ready" /\ verdict' = AnchorVerdict(b, height, required)
    /\ UNCHANGED <<view, lies, disk, index, session, mishaps>>

Next ==
    \/ \E p \in Peers : Adopt(p)
    \/ \E reached \in SUBSET Peers : Connect(reached)
    \/ Resync \/ SyncHeaders \/ SyncFilters \/ PersistHeaders \/ PersistFilters
    \/ Drop \/ Crash \/ ScanSync \/ DiscardIndex
    \/ \E birth \in 1..Len(chain), value \in {"right", "wrong"} : VerifyOutpoint(birth, value)
    \/ \E b \in BlockSet, height \in 1..Len(chain) + 1, required \in 1..2 : VerifyAnchor(b, height, required)

\* The owner asks again after a failure and a session's threads end; peers
\* that can see more work take it.
Fairness ==
    /\ WF_vars(Connect(Peers)) /\ WF_vars(SyncHeaders) /\ WF_vars(SyncFilters)
    /\ WF_vars(PersistHeaders) /\ WF_vars(PersistFilters) /\ WF_vars(Drop)
    /\ \A p \in Peers : WF_vars(Adopt(p))

Spec == Init /\ [][Next]_vars /\ Fairness

----------------------------------------------------------------------------
(* Properties. *)

\* When a sync has ended, there is one filter hash for each block of the
\* agreed chain, of that very block, whatever was reorganised, dropped or half
\* written before.
FiltersAligned ==
    phase = "ready" => /\ Len(filters) = Len(chain)
                       /\ \A h \in DOMAIN chain : filters[h].block = chain[h]

\* The chain of a sync that has ended obeys the rules for headers, whoever served it.  One
\* honest peer that stays in the session is enough for the filters: then none of the chain
\* is a lie, not even one that was cached when no honest peer was there.
HonestPeerPrevails ==
    phase = "ready" =>
        /\ chain \in Chains
        /\ peers \ lies # {} => \A h \in DOMAIN filters : ~filters[h].lie

\* The scan index is what a full scan of its lineage finds: nothing of an
\* abandoned branch, and nothing missing unless some peer lies.
IndexIsFullScan ==
    /\ index.found \subseteq FullScan(index.lineage)
    /\ lies = {} => index.found = FullScan(index.lineage)

\* An outpoint is called unspent only if the agreed chain creates it and no
\* block of it spends it, unless a filter in the way is a lie.
UnspentSound ==
    verdict = "unspent" =>
        /\ \E h \in DOMAIN chain : Does(chain[h], "create")
        /\ \A h \in DOMAIN chain : Does(chain[h], "spend") => filters[h].lie

\* Some filter hash on disk is not of the header on disk at its height.
Torn == \E h \in DOMAIN disk.filters : h <= Len(disk.headers) /\ disk.filters[h].block # disk.headers[h]

\* If no peer lies and no stop ever leaves the two caches of different
\* branches, the client agrees on a chain again and again, however its peers
\* moved and whichever sync failed.
SyncRecovers == lies = {} /\ [](~Torn) => []<>(phase = "ready")

-----------------------------------------------------------------------------
(* What documents or comments promise and the code does not keep; TLC       *)
(* refutes it on the instance of the module's run (README, Findings).       *)

\* A peer that answers and contradicts the filters is a hard error: when the
\* round succeeds, every peer that answered has those very filter hashes.
EveryPeerAttests ==
    [][phase = "filters" /\ phase' = "persist" =>
         \A p \in peers : Answers(p) => FiltersOf(p, chain) = filters']_vars
=============================================================================
