-------------------------- MODULE MCProtocolWallet --------------------------
(* Values of the constants of ProtocolWallet that a configuration cannot      *)
(* write: sequences of amounts.                                               *)
EXTENDS ProtocolWallet

PaymentsDef == {<<4>>, <<2, 2>>}
=============================================================================
