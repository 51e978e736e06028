---------------------------- MODULE MCInstantSend ----------------------------
(* Small instances of InstantSend for TLC. *)
EXTENDS InstantSend, TLC

CONSTANTS t1, t2, o1, o2, m1, m2, m3

\* t1 spends o1, t2 spends o1 and o2: they conflict on o1 only.
InputsOverlap == [t \in {t1, t2} |-> IF t = t1 THEN {o1} ELSE {o1, o2}]
\* Both spend the same single outpoint.
InputsSame == [t \in {t1, t2} |-> {o1}]

\* Every vote of the other smartnodes, double votes included.
VotesOfPeers == {v \in Votes : v.smartnode # Self}

\* m1 votes for t1 and m2 for t2.
OneVoterEach == {v \in Votes : (v.tx = t1) = (v.smartnode = m1)}

NoVotes == {}

\* With InputsSame, VotesOfPeers and Fixed3 the rivals are interchangeable, and so
\* are the voters that are not this node.
Interchangeable == Permutations({t1, t2}) \cup Permutations({m2, m3})

\* The ranks never change.
Fixed3 == {[o \in Outpoints |-> {m1, m2, m3}]}
\* The one entitled voter changes.
Moving1 == {[o \in Outpoints |-> {m1}], [o \in Outpoints |-> {m2}]}
Fixed1 == {[o \in Outpoints |-> {m2}]}
Fixed2 == {[o \in Outpoints |-> {m1, m2}]}
=============================================================================
