-------------------------------- MODULE Spork --------------------------------
(***************************************************************************)
(* CSporkManager (smartnode/spork.cpp) on several nodes, with the part of  *)
(* the peer-to-peer layer that carries sporks (net_processing.cpp).        *)
(*                                                                         *)
(* A node runs one message handler thread, which takes ProcessMessage and  *)
(* SendMessages in turn, and RPC threads, which run UpdateSpork.  Neither  *)
(* ProcessSpork nor UpdateSpork holds a lock around mapSporks and          *)
(* mapSporksActive, so each is two steps here: the handler compares times  *)
(* and then stores, the RPC announces and then stores.  One update at a    *)
(* time runs on a node.                                                    *)
(*                                                                         *)
(* A message is id, value and signing time, which is also what GetHash     *)
(* hashes: the signature is not part of the hash.  What is signed is the   *)
(* text of the three numbers without separators, so a signature holds for  *)
(* every message with the same text.  No time is too far in the future to  *)
(* be taken.  Values are not negative here.  The times at which            *)
(* AskFor retries are left out: a queued request may go out at any time.   *)
(* A node has a tip whenever it handles messages, so the early return of   *)
(* ProcessSpork without one is never taken.                                *)
(***************************************************************************)
EXTENDS Integers, Sequences, FiniteSets

CONSTANTS
    Nodes,
    Signers,        \* nodes started with -sporkkey
    Pairs,          \* pairs of nodes that may be connected
    SporkIDs,
    Values,
    None,           \* no message
    Offset,         \* GetAdjustedTime() - the true time, for the signers
    OutsideTimes,   \* signing times in messages of outside peers
    MaxTime,        \* bound on the clock
    MaxUpdates,     \* bound on calls of UpdateSpork
    MaxNoise        \* bound on restarts, lost connections, messages of outside
                    \* peers and failed syncs, taken together

Sporks == [id : SporkIDs, value : Values, time : Nat]

\* What the code of a node sees of a message: its signature may be broken.
Received == [spork : Sporks, intact : BOOLEAN]

\* Links are directed here: <<a, b>> carries what a sends to b.
Links == {l \in Nodes \X Nodes : {l[1], l[2]} \in Pairs /\ l[1] # l[2]}

ASSUME SporkAssumption ==
    /\ Signers \subseteq Nodes
    /\ Pairs \subseteq SUBSET Nodes
    /\ SporkIDs \subseteq Nat /\ Values \subseteq Nat /\ OutsideTimes \subseteq Nat
    /\ None \notin Sporks
    /\ None \notin Received
    /\ Offset \in [Signers -> Nat]
    /\ MaxTime \in Nat \ {0} /\ MaxUpdates \in Nat /\ MaxNoise \in Nat

VARIABLES
    mapSporks,          \* per node, the messages it can serve
    mapSporksActive,    \* per node and id, the message in force
    handling,           \* the message between ProcessSpork's check and its store
    updating,           \* the message UpdateSpork has announced and not stored
    stage,              \* "ibd", "chain" (not synced) or "synced"
    connected,          \* pairs with a live connection
    vInventoryToSend,   \* per link, hashes waiting to be announced
    setAskFor,          \* per link, hashes asked for, or to be asked for
    mapAskFor,          \* per link, hashes to be asked for
    chan,               \* per link, messages on their way, in order
    signed,             \* history: what was signed with the spork key
    now, updates, noise

managerVars == <<mapSporks, mapSporksActive>>
queueVars == <<vInventoryToSend, setAskFor, mapAskFor>>
boundVars == <<now, updates, noise>>
vars == <<managerVars, handling, updating, stage, connected, queueVars, chan,
          signed, boundVars>>

Message ==
    [type : {"inv", "getdata"}, sporks : SUBSET Sporks]
        \cup [type : {"spork"}, spork : Sporks] \cup [type : {"getsporks"}]

TypeOK ==
    /\ mapSporks \in [Nodes -> SUBSET Sporks]
    /\ mapSporksActive \in [Nodes -> [SporkIDs -> Sporks \cup {None}]]
    /\ handling \in [Nodes -> Received \cup {None}]
    /\ updating \in [Nodes -> Sporks \cup {None}]
    /\ stage \in [Nodes -> {"ibd", "chain", "synced"}]
    /\ connected \subseteq Pairs
    /\ vInventoryToSend \in [Links -> SUBSET Sporks]
    /\ setAskFor \in [Links -> SUBSET Sporks]
    /\ mapAskFor \in [Links -> SUBSET Sporks]
    /\ chan \in [Links -> Seq(Message)]
    /\ signed \subseteq Sporks
    /\ now \in 1 .. MaxTime

-----------------------------------------------------------------------------
(* Helpers *)

Disturb == noise < MaxNoise /\ noise' = noise + 1

\* The messages in the channel c.
Elements(c) == {c[i] : i \in DOMAIN c}

Up(l) == {l[1], l[2]} \in connected
Back(l) == <<l[2], l[1]>>

\* The message handler thread of n is free.
Idle(n) == handling[n] = None

AlreadyHave(n, m) == m \in mapSporks[n]

\* Mutant of Seen: a message of the same time is taken.
SeenOlder(n, m) ==
    /\ mapSporksActive[n][m.id] # None
    /\ mapSporksActive[n][m.id].time > m.time

\* ProcessSpork's early return: what is active was signed no earlier.
Seen(n, m) ==
    /\ mapSporksActive[n][m.id] # None
    /\ mapSporksActive[n][m.id].time >= m.time

\* How many digits lexical_cast writes for n.
Digits(n) == CHOOSE k \in 1 .. 19 : n < 10 ^ k /\ (k = 1 \/ n >= 10 ^ (k - 1))

\* The digits of n after those of t.
Written(t, n) == t * 10 ^ Digits(n) + n

\* Mutant of Text: the value is not signed.
TextWithoutValue(m) == Written(m.id, m.time)

\* strMessage of Sign and CheckSignature: id, value and time in one row.
Text(m) == Written(Written(m.id, m.value), m.time)

\* The spork key has signed this text.
TextSigned(m) == \E s \in signed : Text(s) = Text(m)

\* The signature is the one the spork key made for this text.
CheckSignature(r) == r.intact /\ TextSigned(r.spork)

\* CConnman::RelayInv: queue the hash for every connected peer.
Relay(n, m) ==
    vInventoryToSend' = [l \in Links |->
        IF l[1] = n /\ Up(l) THEN vInventoryToSend[l] \cup {m} ELSE vInventoryToSend[l]]

Store(n, m) ==
    /\ mapSporks' = [mapSporks EXCEPT ![n] = @ \cup {m}]
    /\ mapSporksActive' = [mapSporksActive EXCEPT ![n][m.id] = m]

\* Take the head of l away.
Consume(l) == chan' = [chan EXCEPT ![l] = Tail(@)]

\* Sequences that list the set S once.
Listings(S) ==
    {s \in [1 .. Cardinality(S) -> S] : \A x \in S : \E i \in DOMAIN s : s[i] = x}

\* Take the head of l away and answer with one spork message per member of S.
Answer(l, S) ==
    \E s \in Listings(S) :
        chan' = [chan EXCEPT
            ![l] = Tail(@),
            ![Back(l)] = @ \o [i \in DOMAIN s |-> [type |-> "spork", spork |-> s[i]]]]

-----------------------------------------------------------------------------
(* The RPC threads of the holders of the spork key *)

(***************************************************************************)
(* UpdateSpork up to the announcement: sign with the adjusted time, queue  *)
(* the hash for all peers.  It does not look at what is active.            *)
(***************************************************************************)
UpdateSpork(n, i, v) ==
    LET m == [id |-> i, value |-> v, time |-> now + Offset[n]] IN
    /\ updates < MaxUpdates
    /\ updating[n] = None
    /\ signed' = signed \cup {m}
    /\ Relay(n, m)
    /\ updating' = [updating EXCEPT ![n] = m]
    /\ updates' = updates + 1
    /\ UNCHANGED <<managerVars, handling, stage, connected, setAskFor, mapAskFor, chan,
                   now, noise>>

\* UpdateSpork after the announcement.
UpdateSporkStores(n) ==
    /\ updating[n] # None
    /\ Store(n, updating[n])
    /\ updating' = [updating EXCEPT ![n] = None]
    /\ UNCHANGED <<handling, stage, connected, queueVars, chan, signed, boundVars>>

-----------------------------------------------------------------------------
(* ProcessSpork *)

\* The spork message from link l: no longer asked for, and compared.
ReceiveSpork(l) ==
    /\ Idle(l[2])
    /\ chan[l] # <<>> /\ Head(chan[l]).type = "spork"
    /\ LET m == Head(chan[l]).spork IN
       /\ setAskFor' = [setAskFor EXCEPT ![Back(l)] = @ \ {m}]
       /\ handling' = IF Seen(l[2], m) THEN handling
                      ELSE [handling EXCEPT ![l[2]] = [spork |-> m, intact |-> TRUE]]
    /\ Consume(l)
    /\ UNCHANGED <<managerVars, updating, stage, connected, vInventoryToSend, mapAskFor,
                   signed, boundVars>>

\* A peer outside the model sends an old message again, or another one.
ReceiveFromOutside(n, r) ==
    /\ Idle(n)
    /\ ~Seen(n, r.spork)
    /\ Disturb
    /\ handling' = [handling EXCEPT ![n] = r]
    /\ UNCHANGED <<managerVars, updating, stage, connected, queueVars, chan, signed,
                   now, updates>>

\* The rest of ProcessSpork.  A bad signature bans the outside peer.
Handled(n) == handling' = [handling EXCEPT ![n] = None]

\* Mutant of StoreSpork: the message is in force and announced, but not kept.
StoreSporkUnserved(n) ==
    /\ ~Idle(n)
    /\ CheckSignature(handling[n])
    /\ mapSporksActive' = [mapSporksActive EXCEPT ![n][handling[n].spork.id] = handling[n].spork]
    /\ Relay(n, handling[n].spork)
    /\ Handled(n)
    /\ UNCHANGED <<mapSporks, updating, stage, connected, setAskFor, mapAskFor, chan,
                   signed, boundVars>>

StoreSpork(n) ==
    /\ ~Idle(n)
    /\ CheckSignature(handling[n])
    /\ Store(n, handling[n].spork)
    /\ Relay(n, handling[n].spork)
    /\ Handled(n)
    /\ UNCHANGED <<updating, stage, connected, setAskFor, mapAskFor, chan, signed, boundVars>>

RejectSpork(n) ==
    /\ ~Idle(n)
    /\ ~CheckSignature(handling[n])
    /\ Handled(n)
    /\ UNCHANGED <<managerVars, updating, stage, connected, queueVars, chan, signed,
                   boundVars>>

-----------------------------------------------------------------------------
(* The rest of the message handler thread *)

\* Mutant of InForce: an entry for every id, also the ones without a message.
InForceAll(n) == {mapSporksActive[n][i] : i \in SporkIDs}

\* The entries of mapSporksActive.
InForce(n) == {mapSporksActive[n][i] : i \in SporkIDs} \ {None}

\* GETSPORKS: everything in force at the receiver.
ReceiveGetSporks(l) ==
    /\ Idle(l[2])
    /\ chan[l] # <<>> /\ Head(chan[l]).type = "getsporks"
    /\ Answer(l, InForce(l[2]))
    /\ UNCHANGED <<managerVars, handling, updating, stage, connected, queueVars, signed,
                   boundVars>>

\* GETDATA: what is in mapSporks; the asking node ignores NOTFOUND.
ReceiveGetData(l) ==
    /\ Idle(l[2])
    /\ chan[l] # <<>> /\ Head(chan[l]).type = "getdata"
    /\ Answer(l, {m \in Head(chan[l]).sporks : AlreadyHave(l[2], m)})
    /\ UNCHANGED <<managerVars, handling, updating, stage, connected, queueVars, signed,
                   boundVars>>

\* AskFor: queue a request to the peer of l for what was not asked of it before.
AskFor(l, S) ==
    /\ setAskFor' = [setAskFor EXCEPT ![l] = @ \cup S]
    /\ mapAskFor' = [mapAskFor EXCEPT ![l] = @ \cup (S \ setAskFor[l])]

\* INV: nothing during the initial block download, otherwise ask for what is new.
ReceiveInv(l) ==
    /\ Idle(l[2])
    /\ chan[l] # <<>> /\ Head(chan[l]).type = "inv"
    /\ AskFor(Back(l), {m \in Head(chan[l]).sporks :
                            stage[l[2]] # "ibd" /\ ~AlreadyHave(l[2], m)})
    /\ Consume(l)
    /\ UNCHANGED <<managerVars, handling, updating, stage, connected, vInventoryToSend,
                   signed, boundVars>>

\* Mutant of Wanted: the test is the wrong way round.
WantedInverted(n, due) == {m \in due : AlreadyHave(n, m)}

\* The hashes of due that SendMessages still asks for.
Wanted(n, due) == {m \in due : ~AlreadyHave(n, m)}

\* A message of this type for S, unless S is empty.
Push(type, S) == IF S = {} THEN <<>> ELSE <<[type |-> type, sporks |-> S]>>

(***************************************************************************)
(* SendMessages to the peer of l: all announcements, and getdata for those *)
(* of the queued requests that are due.  A request is forgotten when the   *)
(* message has arrived meanwhile.                                          *)
(***************************************************************************)
SendMessages(l, due) ==
    LET n == l[1]
        ask == Wanted(n, due) IN
    /\ Idle(n) /\ Up(l)
    /\ vInventoryToSend[l] # {} \/ due # {}
    /\ chan' = [chan EXCEPT ![l] = @ \o Push("inv", vInventoryToSend[l]) \o Push("getdata", ask)]
    /\ vInventoryToSend' = [vInventoryToSend EXCEPT ![l] = {}]
    /\ mapAskFor' = [mapAskFor EXCEPT ![l] = @ \ due]
    /\ setAskFor' = [setAskFor EXCEPT ![l] = @ \ (due \ ask)]
    /\ UNCHANGED <<managerVars, handling, updating, stage, connected, signed, boundVars>>

-----------------------------------------------------------------------------
(* Connections, restarts, the clock *)

\* VERSION on both sides: whoever is not synced asks for the sporks.
Connect(p) ==
    /\ p \notin connected
    /\ connected' = connected \cup {p}
    /\ chan' = [l \in Links |->
          IF {l[1], l[2]} = p /\ stage[l[1]] # "synced"
          THEN <<[type |-> "getsporks"]>> ELSE chan[l]]
    /\ UNCHANGED <<managerVars, handling, updating, stage, queueVars, signed, boundVars>>

\* What a node knows about a peer, and what is on its way, is lost with the
\* connection.
Disconnected(ps) ==
    LET Emptied(f, e) == [l \in Links |-> IF {l[1], l[2]} \in ps THEN e ELSE f[l]] IN
    /\ connected' = connected \ ps
    /\ vInventoryToSend' = Emptied(vInventoryToSend, {})
    /\ setAskFor' = Emptied(setAskFor, {})
    /\ mapAskFor' = Emptied(mapAskFor, {})
    /\ chan' = Emptied(chan, <<>>)

Disconnect(p) ==
    /\ p \in connected
    /\ Disturb
    /\ Disconnected({p})
    /\ UNCHANGED <<managerVars, handling, updating, stage, signed, now, updates>>

\* Neither map is written to disk.
Restart(n) ==
    /\ Disturb
    /\ mapSporks' = [mapSporks EXCEPT ![n] = {}]
    /\ mapSporksActive' = [mapSporksActive EXCEPT ![n] = [i \in SporkIDs |-> None]]
    /\ handling' = [handling EXCEPT ![n] = None]
    /\ updating' = [updating EXCEPT ![n] = None]
    /\ stage' = [stage EXCEPT ![n] = "ibd"]
    /\ Disconnected({p \in Pairs : n \in p})
    /\ UNCHANGED <<signed, now, updates>>

\* IsInitialBlockDownload turns false for good, and the smartnode sync finishes.
StageReached(n) ==
    /\ stage[n] # "synced"
    /\ stage' = [stage EXCEPT ![n] = IF @ = "ibd" THEN "chain" ELSE "synced"]
    /\ UNCHANGED <<managerVars, handling, updating, connected, queueVars, chan, signed,
                   boundVars>>

\* The smartnode sync starts again.
SyncReset(n) ==
    /\ stage[n] = "synced"
    /\ Disturb
    /\ stage' = [stage EXCEPT ![n] = "chain"]
    /\ UNCHANGED <<managerVars, handling, updating, connected, queueVars, chan, signed,
                   now, updates>>

Tick ==
    /\ now < MaxTime
    /\ now' = now + 1
    /\ UNCHANGED <<managerVars, handling, updating, stage, connected, queueVars, chan,
                   signed, updates, noise>>

-----------------------------------------------------------------------------
(* The specification *)

Init ==
    /\ mapSporks = [n \in Nodes |-> {}]
    /\ mapSporksActive = [n \in Nodes |-> [i \in SporkIDs |-> None]]
    /\ handling = [n \in Nodes |-> None]
    /\ updating = [n \in Nodes |-> None]
    /\ stage = [n \in Nodes |-> "ibd"]
    /\ connected = {}
    /\ vInventoryToSend = [l \in Links |-> {}]
    /\ setAskFor = [l \in Links |-> {}]
    /\ mapAskFor = [l \in Links |-> {}]
    /\ chan = [l \in Links |-> <<>>]
    /\ signed = {}
    /\ now = 1 /\ updates = 0 /\ noise = 0

\* Messages an outside peer can send: any, but a good signature only with a text
\* that was signed.
Outside ==
    {r \in [spork : [id : SporkIDs, value : Values, time : OutsideTimes],
            intact : BOOLEAN] : r.intact => TextSigned(r.spork)}

Receive(l) ==
    ReceiveSpork(l) \/ ReceiveGetSporks(l) \/ ReceiveGetData(l) \/ ReceiveInv(l)

Next ==
    \/ \E n \in Signers, i \in SporkIDs, v \in Values : UpdateSpork(n, i, v)
    \/ \E n \in Signers : UpdateSporkStores(n)
    \/ \E l \in Links : ReceiveSpork(l)
    \/ \E n \in Nodes, r \in Outside : ReceiveFromOutside(n, r)
    \/ \E n \in Nodes : StoreSpork(n)
    \/ \E n \in Nodes : RejectSpork(n)
    \/ \E l \in Links : ReceiveGetSporks(l)
    \/ \E l \in Links : ReceiveGetData(l)
    \/ \E l \in Links : ReceiveInv(l)
    \/ \E l \in Links : \E due \in SUBSET mapAskFor[l] : SendMessages(l, due)
    \/ \E p \in Pairs : Connect(p)
    \/ \E p \in Pairs : Disconnect(p)
    \/ \E n \in Nodes : Restart(n)
    \/ \E n \in Nodes : StageReached(n)
    \/ \E n \in Nodes : SyncReset(n)
    \/ Tick

\* The message handler thread of every node serves its peers in turn and
\* finishes what it handles; the retry time of every request comes; an RPC that
\* has begun ends.
Fairness ==
    /\ \A l \in Links : WF_vars(Receive(l)) /\ WF_vars(SendMessages(l, mapAskFor[l]))
    /\ \A n \in Nodes : WF_vars(StoreSpork(n) \/ RejectSpork(n))
    /\ \A n \in Signers : WF_vars(UpdateSporkStores(n))

Spec == Init /\ [][Next]_vars /\ Fairness

-----------------------------------------------------------------------------
(* Properties *)

Register == INSTANCE SporkRegister WITH register <- mapSporksActive

\* Whatever outside peers send and however messages are delayed, a node's
\* mapSporksActive holds only messages whose text the spork key signed, and on a
\* node without the key ProcessSpork replaces a spork only by one with a later
\* time, so an older value never comes back.
NewestVerifiedWins == Register!Init /\ [][Register!Next]_(Register!rvars)

\* A message in force was signed as it is, and not only its text, if its id and
\* its time are as long as those in all signed messages: the signature of Sign
\* does not tell other messages of one text apart.
SignedIfAsLong ==
    \A n \in Nodes : \A m \in InForce(n) :
        (\A s \in signed : Digits(s.id) = Digits(m.id) /\ Digits(s.time) = Digits(m.time))
            => m \in signed

\* What a node without the key announces (Relay at the end of ProcessSpork) it
\* can serve from mapSporks when the getdata comes, however long that takes:
\* no request for it is answered with NOTFOUND, which the asking node ignores.
AnnouncedIsServed ==
    \A l \in Links : l[1] \notin Signers =>
        /\ vInventoryToSend[l] \subseteq mapSporks[l[1]]
        /\ mapAskFor[Back(l)] \subseteq mapSporks[l[1]]
        /\ \A x \in Elements(chan[l]) :
              x.type = "inv" => x.sporks \subseteq mapSporks[l[1]]
        /\ \A x \in Elements(chan[Back(l)]) :
              x.type = "getdata" => x.sporks \subseteq mapSporks[l[1]]

\* m is announced by l[1] on l, or on its way.
Announced(l, m) ==
    \/ m \in vInventoryToSend[l]
    \/ \E x \in Elements(chan[l]) : x.type = "inv" /\ m \in x.sporks

Asked(l) == \E x \in Elements(chan[l]) : x.type = "getsporks"

\* What the signers and outside peers can send up to the clock's bound.
Sendable == [id : SporkIDs, value : Values, time : (1 .. MaxTime + 1) \cup OutsideTimes]

\* What a node without the key announces to a peer past its initial block
\* download, and what any node has in force when a peer's getsporks comes, is
\* overtaken at that peer by ProcessSpork, unless the connection is lost first.
SporksReachPeers ==
    \A l \in Links : \A m \in Sendable :
        l[2] \notin Signers =>
            (\/ l[1] \notin Signers /\ Announced(l, m) /\ stage[l[2]] # "ibd"
             \/ Asked(Back(l)) /\ mapSporksActive[l[1]][m.id] = m)
                ~> (Seen(l[2], m) \/ ~Up(l))
=============================================================================
