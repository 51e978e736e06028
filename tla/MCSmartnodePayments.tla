------------------------ MODULE MCSmartnodePayments ------------------------
(* A small instance of SmartnodePayments for TLC. *)
EXTENDS SmartnodePayments

CONSTANTS m1, m3, x, y, z

Vote(s, h, ps) == [smartnode |-> s, height |-> h, payees |-> ps]

\* m1 votes twice for height 3, with a vote for height 2 in between; together with this
\* node's vote three payees can have two signatures each.  The smartnode of y is one
\* that this node does not know.
SomeVotes == {Vote(m1, 2, {x, y}), Vote(m1, 3, {x, y}), Vote(m1, 3, {y, z})}

OwnPayee == [s \in Smartnodes |-> IF s = m1 THEN x ELSE z]

\* m3 is first for height 3 and last for height 2.
Ranks == [h \in Heights |-> [s \in Smartnodes |-> IF (s = m3) = (h = 3) THEN 1 ELSE 2]]
=============================================================================
