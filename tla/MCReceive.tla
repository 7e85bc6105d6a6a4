----------------------------- MODULE MCReceive -----------------------------
(* Coin k1 is paid by a member of batch t1 and, after a fee replacement, by    *)
(* the same member of t2, which spends the same stock.  The sender also spends *)
(* the coin's nullifier in t3, to someone else.                                *)
EXTENDS Receive, TLC

CONSTANTS t1, t2, t3

Solo(ctx, slots) == [ctx |-> ctx, kind |-> "xfer", slots |-> slots, envelope |-> {},
                     commit |-> "none", canonical |-> TRUE]
Batch(ctx, envelope) == [ctx |-> ctx, kind |-> "batch", slots |-> {}, envelope |-> envelope,
                         commit |-> <<envelope, ctx>>, canonical |-> TRUE]
Pays(txid, coin) == [txid |-> txid, loc |-> <<0, 0>>, nullifiers |-> <<"n1">>, coin |-> coin,
                     owned |-> TRUE, asset |-> "valid", provenNullifiers |-> {"n1"},
                     provenCoin |-> coin]

MCTxs == {t1, t2, t3}
MCAnchor == (t1 :> Batch("f1", {<<"n1", "f1">>, <<"n2", "f1">>}))
         @@ (t2 :> Batch("f1", {<<"n1", "f1">>, <<"n2", "f1">>}))
         @@ (t3 :> Solo("f3", {<<"n1", "f3">>}))

\* A consignment is named by the transaction it refers to.
MCConsignments == {t1, t2}
MCConsignment == (t1 :> Pays(t1, "k1")) @@ (t2 :> Pays(t2, "k1"))

Symmetry == Permutations({t1, t2})
=============================================================================
