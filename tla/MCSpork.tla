------------------------------- MODULE MCSpork -------------------------------
(* Small instances of Spork for TLC. *)
EXTENDS Spork

CONSTANTS s1, n1, n2

\* A signer and one other node.
Pair == {{s1, n1}}
\* A signer that only outside peers know, and two connected nodes.
Apart == {{n1, n2}}

\* All clocks agree.
NoOffset == [n \in Signers |-> 0]
=============================================================================
