----------------------------- MODULE CoinLedger -----------------------------
(***************************************************************************)
(* What a wallet promises about its coins while it is open: a coin enters  *)
(* the book as provisional or as settled; provisional may become settled   *)
(* and never the other way round; what is spent stays spent.  Closing the  *)
(* wallet forgets the whole book, never a part of it.                      *)
(***************************************************************************)
CONSTANT Coins

VARIABLE book

Entries == {"absent", "provisional", "settled", "spent"}

LedgerInit == book = [c \in Coins |-> "absent"]

\* Where one step may take a coin.
MayBecome(entry) ==
    CASE entry = "absent"      -> {"absent", "provisional", "settled"}
      [] entry = "provisional" -> {"provisional", "settled", "spent"}
      [] entry = "settled"     -> {"settled", "spent"}
      [] entry = "spent"       -> {"spent"}

Post == /\ book' \in [Coins -> Entries]
        /\ \A c \in Coins : book'[c] \in MayBecome(book[c])

Forget == book' = [c \in Coins |-> "absent"]

LedgerNext == Post \/ Forget

LedgerSpec == LedgerInit /\ [][LedgerNext]_book
=============================================================================
