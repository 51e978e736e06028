---------------------------- MODULE SporkRegister ----------------------------
(***************************************************************************)
(* What the spork manager promises: every node holds, for every spork id,  *)
(* nothing or a message whose text was signed with the spork key, and a    *)
(* node without the key replaces what it holds only by a message with a    *)
(* later time.  A node forgets everything when it restarts.                *)
(***************************************************************************)
EXTENDS Integers

CONSTANTS
    Nodes, Signers, SporkIDs, Values, None,
    Text(_)     \* what a signature of a message is about

Sporks == [id : SporkIDs, value : Values, time : Nat]

VARIABLES
    signed,     \* every message signed so far
    register    \* what each node holds for each id

rvars == <<signed, register>>

Init ==
    /\ signed = {}
    /\ register = [n \in Nodes |-> [i \in SporkIDs |-> None]]

\* The key holders sign something more.
Sign ==
    /\ signed \subseteq signed' /\ signed' \subseteq Sporks
    /\ UNCHANGED register

\* The node holds another message for the id i, without the key a later one.
Take(n, i) ==
    LET m == register'[n][i] IN
    /\ m # None /\ m \in Sporks /\ m.id = i
    /\ \E s \in signed : Text(s) = Text(m)
    /\ \/ n \in Signers
       \/ register[n][i] = None
       \/ register[n][i].time < m.time
    /\ register' = [register EXCEPT ![n][i] = m]
    /\ UNCHANGED signed

Forget(n) ==
    /\ register' = [register EXCEPT ![n] = [i \in SporkIDs |-> None]]
    /\ UNCHANGED signed

Next ==
    \/ Sign
    \/ \E n \in Nodes, i \in SporkIDs : Take(n, i)
    \/ \E n \in Nodes : Forget(n)

Spec == Init /\ [][Next]_rvars
=============================================================================
