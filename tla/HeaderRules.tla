----------------------------- MODULE HeaderRules -----------------------------
(***************************************************************************)
(* Proof-of-work rules for Bitcoin headers (opencsv-cbf::network): which   *)
(* target the next header must have, when a header may follow a chain, and *)
(* how much work a chain has.                                              *)
(*                                                                         *)
(* The numbers are those of a network scaled down: targets and hashes are  *)
(* below Params.space (2^256 in the code), and the mantissa of a compact   *)
(* target has three digits of base Params.base (256).                      *)
(***************************************************************************)
EXTENDS Integers, Sequences, FiniteSets, SequencesExt

CONSTANTS
    Params,     \* consensus parameters of the network, with the name of its genesis block
    Header      \* block -> [prev, time, bits, hash]; bits is the target that they encode

ASSUME ParamsAssumption ==
    /\ {Params.interval, Params.timespan, Params.median} \subseteq Nat \ {0}
    /\ Params.spacing \in Nat /\ Params.base \in Nat \ {0, 1}
    /\ Params.limit \in 1..Params.space - 1
    /\ {Params.minDifficulty, Params.noRetargeting} \subseteq BOOLEAN
    /\ Params.genesis \in DOMAIN Header

\* from_compact: a mantissa, its sign bit clear, times a power of the base
Representable(target) ==
    \E e \in 0..target : \E m \in 0..(Params.base ^ 3 \div 2) - 1 : target = m * Params.base ^ e

\* to_compact: the digits below the mantissa are cut off.
Compact(target) == Max({t \in 0..target : Representable(t)})

\* work_from_target
WorkOf(target) == (Params.space - 1 - target) \div (target + 1) + 1

\* The blocks of a chain from genesis on; the last one is at height Len(c).
FromGenesis(c) == <<Params.genesis>> \o c
BlockAt(c, height) == FromGenesis(c)[height + 1]

\* median_time_past, of at most Params.median (11) blocks at the end of c
MedianTimePast(c) ==
    LET from == IF Len(c) + 1 > Params.median THEN Len(c) + 2 - Params.median ELSE 1
        last == SubSeq(FromGenesis(c), from, Len(c) + 1)
        times == SortSeq([i \in DOMAIN last |-> Header[last[i]].time], <)
    IN  times[Len(times) \div 2 + 1]

\* next_work_required at a height that is a multiple of the interval.  The time is that of
\* one block interval less than the period has.
Retarget(c) ==
    LET prev == Header[Last(FromGenesis(c))]
        first == Header[BlockAt(c, Len(c) + 1 - Params.interval)]
        low == Params.timespan \div 4
        high == Params.timespan * 4
        actual == Max({low, Min({high, prev.time - first.time})})
    IN  Compact(Min({Params.limit, (prev.bits * actual) \div Params.timespan}))

\* The last height of the period that is not of minimum difficulty, or the period's first
LastRegular(c) ==
    Max({h \in 0..Len(c) : h % Params.interval = 0 \/ Header[BlockAt(c, h)].bits # Params.limit})

\* required_bits of a header with this time on top of c
RequiredBits(c, time) ==
    LET prev == Header[Last(FromGenesis(c))]
    IN  IF Params.noRetargeting THEN prev.bits
        ELSE IF (Len(c) + 1) % Params.interval = 0 THEN Retarget(c)
        ELSE IF ~Params.minDifficulty THEN prev.bits
        ELSE IF time > prev.time + 2 * Params.spacing THEN Params.limit
        ELSE Header[BlockAt(c, LastRegular(c))].bits

\* validate_header: may block b follow the chain c?
ValidHeader(c, b) ==
    LET header == Header[b]
    IN  /\ header.prev = Last(FromGenesis(c))
        /\ header.bits = RequiredBits(c, header.time)
        /\ header.bits \in 1..Params.limit
        /\ header.hash <= header.bits
        /\ header.time > MedianTimePast(c)

ValidChain(c) == \A h \in DOMAIN c : ValidHeader(SubSeq(c, 1, h - 1), c[h])

\* HeaderChain::tip_work
ChainWork(c) ==
    FoldSeq(LAMBDA b, work : work + WorkOf(Header[b].bits), 0, FromGenesis(c))
=============================================================================
