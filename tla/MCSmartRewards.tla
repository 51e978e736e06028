--------------------------- MODULE MCSmartRewards ---------------------------
(* Small instances of SmartRewards for TLC. *)
EXTENDS SmartRewards, TLC

CONSTANTS out1, back1, act1

In(t, a, v) == [type |-> "in", tx |-> t, addr |-> a, value |-> v, locked |-> FALSE]
Out(t, a, v) == [type |-> "out", tx |-> t, addr |-> a, value |-> v, locked |-> FALSE]

\* Address 1 sends all it has to 2, gets it back and is activated again.
Transfers ==
    (out1 :> <<In(out1, 1, 2), Out(out1, 2, 2)>>) @@
    (back1 :> <<In(back1, 2, 2), Out(back1, 1, 2)>>) @@
    (act1 :> <<In(act1, 1, 2), Out(act1, 1, 2)>>)
OutAndActivate == [t \in {out1, act1} |-> Transfers[t]]

\* Coinbases pay address 1, or nobody that matters.
AnyTx == [payee : {NoAddr}, tx : Txs \cup {NoTx}]
TxOrPayee == AnyTx \cup [payee : {1}, tx : {NoTx}]

TwoEach == [a \in Addr |-> 2]
=============================================================================
