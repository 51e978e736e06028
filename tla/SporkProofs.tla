----------------------------- MODULE SporkProofs -----------------------------
(***************************************************************************)
(* Spork implements SporkRegister, is type correct and serves what it      *)
(* announces, for any nodes, signers, connections, clock offsets and       *)
(* bounds.                                                                 *)
(***************************************************************************)
EXTENDS Spork, FiniteSetTheorems, TLAPS

\* Pending updates were signed.
SignedOK == updating \in [Nodes -> signed \cup {None}]

\* Between ProcessSpork's check and its store nothing else changes the active
\* spork of a node without the key, so the check still holds at the store.
HandlingOK ==
    \A n \in Nodes \ Signers : handling[n] # None => ~Seen(n, handling[n].spork)

RegisterInv == SignedOK /\ HandlingOK

-----------------------------------------------------------------------------

\* Nothing is signed, held or handled at the start.
LEMMA RegisterInvInit == Init => RegisterInv
  BY SporkAssumption DEF Init, RegisterInv, SignedOK, HandlingOK

\* UpdateSpork signs a message of the right type and leaves the registers alone.
LEMMA UpdateSporkStep ==
  ASSUME TypeOK, RegisterInv, NEW n \in Signers, NEW i \in SporkIDs, NEW v \in Values,
         UpdateSpork(n, i, v)
  PROVE  RegisterInv' /\ Register!Sign
<1> DEFINE m == [id |-> i, value |-> v, time |-> now + Offset[n]]
<1>1. m \in Sporks
  BY SporkAssumption DEF TypeOK, Sporks
<1>2. /\ signed' = signed \cup {m}
      /\ updating' = [updating EXCEPT ![n] = m]
      /\ UNCHANGED <<mapSporksActive, handling>>
  BY DEF UpdateSpork, managerVars
<1> HIDE DEF m
<1>3. SignedOK'
  BY <1>1, <1>2, SporkAssumption DEF RegisterInv, SignedOK
<1>4. HandlingOK'
  BY <1>2 DEF RegisterInv, HandlingOK, Seen
<1>5. Register!Sign
  BY <1>1, <1>2 DEF TypeOK, Register!Sign, Register!Sporks, Sporks
<1> QED
  BY <1>3, <1>4, <1>5 DEF RegisterInv

\* UpdateSpork's store puts a signed message into the register of a signer.
LEMMA UpdateSporkStoresStep ==
  ASSUME TypeOK, RegisterInv, NEW n \in Signers, UpdateSporkStores(n)
  PROVE  RegisterInv' /\ \E i \in SporkIDs : Register!Take(n, i)
<1> DEFINE m == updating[n]
<1>1. n \in Nodes /\ m \in signed /\ m \in Sporks /\ m.id \in SporkIDs
  BY SporkAssumption DEF TypeOK, RegisterInv, SignedOK, UpdateSporkStores, Sporks
<1>2. /\ mapSporksActive' = [mapSporksActive EXCEPT ![n][m.id] = m]
      /\ updating' = [updating EXCEPT ![n] = None]
      /\ UNCHANGED <<signed, handling>>
  BY DEF UpdateSporkStores, Store, boundVars
<1> HIDE DEF m
<1>3. SignedOK'
  BY <1>1, <1>2 DEF RegisterInv, SignedOK
<1>4. HandlingOK'
  BY <1>1, <1>2 DEF TypeOK, RegisterInv, HandlingOK, Seen
<1>5. Register!Take(n, m.id)
  <2>1. mapSporksActive'[n][m.id] = m /\ m # None
    BY <1>1, <1>2, SporkAssumption DEF TypeOK
  <2> QED
    BY <1>1, <1>2, <2>1 DEF Register!Take, Register!Sporks, Sporks
<1> QED
  BY <1>1, <1>3, <1>4, <1>5 DEF RegisterInv

\* ProcessSpork's store puts a message with a signed text into the register, and
\* on a node without the key a later one than it holds.
LEMMA StoreSporkStep ==
  ASSUME TypeOK, RegisterInv, NEW n \in Nodes, StoreSpork(n)
  PROVE  RegisterInv' /\ \E i \in SporkIDs : Register!Take(n, i)
<1> DEFINE m == handling[n].spork
<1>1. /\ TextSigned(m) /\ m \in Sporks /\ m.id \in SporkIDs /\ m.time \in Nat
      /\ handling[n] # None
  BY DEF TypeOK, StoreSpork, CheckSignature, Idle, Received, Sporks
<1>2. /\ mapSporksActive' = [mapSporksActive EXCEPT ![n][m.id] = m]
      /\ handling' = [handling EXCEPT ![n] = None]
      /\ UNCHANGED <<signed, updating>>
  BY DEF StoreSpork, Store, Handled, boundVars
<1>3. n \notin Signers => ~Seen(n, m)
  BY <1>1 DEF RegisterInv, HandlingOK
<1> HIDE DEF m
<1>4. SignedOK'
  BY <1>1, <1>2 DEF RegisterInv, SignedOK
<1>5. HandlingOK'
  BY <1>1, <1>2 DEF TypeOK, RegisterInv, HandlingOK, Seen
<1>6. n \in Signers \/ mapSporksActive[n][m.id] = None \/ mapSporksActive[n][m.id].time < m.time
  <2>1. mapSporksActive[n][m.id] # None => mapSporksActive[n][m.id].time \in Nat
    BY <1>1 DEF TypeOK, Sporks
  <2> QED
    BY <1>1, <1>3, <2>1 DEF Seen
<1>7. Register!Take(n, m.id)
  <2>1. mapSporksActive'[n][m.id] = m /\ m # None
    BY <1>1, <1>2, SporkAssumption DEF TypeOK
  <2> QED
    BY <1>1, <1>2, <1>6, <2>1 DEF Register!Take, Register!Sporks, Sporks, TextSigned
<1> QED
  BY <1>1, <1>4, <1>5, <1>7 DEF RegisterInv

\* A restart empties the register.
LEMMA RestartStep ==
  ASSUME TypeOK, RegisterInv, NEW n \in Nodes, Restart(n)
  PROVE  RegisterInv' /\ Register!Forget(n)
<1>1. /\ mapSporksActive' = [mapSporksActive EXCEPT ![n] = [i \in SporkIDs |-> None]]
      /\ handling' = [handling EXCEPT ![n] = None]
      /\ updating' = [updating EXCEPT ![n] = None]
      /\ UNCHANGED signed
  BY DEF Restart
<1>2. SignedOK'
  BY <1>1 DEF RegisterInv, SignedOK
<1>3. HandlingOK'
  BY <1>1 DEF TypeOK, RegisterInv, HandlingOK, Seen
<1>4. Register!Forget(n)
  BY <1>1 DEF Register!Forget
<1> QED
  BY <1>2, <1>3, <1>4 DEF RegisterInv

\* Steps that leave the manager, the handler and the history alone.
LEMMA QuietStep ==
  ASSUME RegisterInv, UNCHANGED <<signed, mapSporksActive, updating, handling>>
  PROVE  RegisterInv' /\ UNCHANGED Register!rvars
  BY DEF RegisterInv, SignedOK, HandlingOK, Seen, Register!rvars

\* The handler begins with a message only after comparing it.
LEMMA BeginStep ==
  ASSUME TypeOK, RegisterInv, NEW n \in Nodes, NEW r, ~Seen(n, r.spork),
         handling' = [handling EXCEPT ![n] = r],
         UNCHANGED <<signed, mapSporksActive, updating>>
  PROVE  RegisterInv' /\ UNCHANGED Register!rvars
  BY DEF TypeOK, RegisterInv, SignedOK, HandlingOK, Seen, Register!rvars

\* Every step preserves the invariant and is a step of the register.
LEMMA RegisterStep ==
  ASSUME TypeOK, RegisterInv, [Next]_vars
  PROVE  RegisterInv' /\ [Register!Next]_(Register!rvars)
<1>1. ASSUME NEW n \in Signers, NEW i \in SporkIDs, NEW v \in Values, UpdateSpork(n, i, v)
      PROVE  RegisterInv' /\ Register!Next
  BY <1>1, UpdateSporkStep DEF Register!Next
<1>2. ASSUME NEW n \in Signers, UpdateSporkStores(n)
      PROVE  RegisterInv' /\ Register!Next
  BY <1>2, UpdateSporkStoresStep, SporkAssumption DEF Register!Next
<1>3. ASSUME NEW l \in Links, ReceiveSpork(l)
      PROVE  RegisterInv' /\ UNCHANGED Register!rvars
  <2> DEFINE m == Head(chan[l]).spork
  <2>1. l[2] \in Nodes /\ UNCHANGED <<signed, mapSporksActive, updating>>
    BY <1>3 DEF ReceiveSpork, Links, managerVars, boundVars
  <2>2. CASE Seen(l[2], m)
    BY <1>3, <2>1, <2>2, QuietStep DEF ReceiveSpork
  <2>3. CASE ~Seen(l[2], m)
    <3> DEFINE r == [spork |-> m, intact |-> TRUE]
    <3>1. handling' = [handling EXCEPT ![l[2]] = r] /\ r.spork = m
      BY <1>3, <2>3 DEF ReceiveSpork
    <3> HIDE DEF m, r
    <3> QED
      BY <2>1, <2>3, <3>1, BeginStep
  <2> QED
    BY <2>2, <2>3
<1>4. ASSUME NEW n \in Nodes, NEW r \in Outside, ReceiveFromOutside(n, r)
      PROVE  RegisterInv' /\ UNCHANGED Register!rvars
  BY <1>4, BeginStep DEF ReceiveFromOutside, managerVars
<1>5. ASSUME NEW n \in Nodes, StoreSpork(n)
      PROVE  RegisterInv' /\ Register!Next
  BY <1>5, StoreSporkStep DEF Register!Next
<1>6. ASSUME NEW n \in Nodes, RejectSpork(n)
      PROVE  RegisterInv' /\ UNCHANGED Register!rvars
  BY <1>6 DEF RejectSpork, Handled, managerVars, boundVars, TypeOK, RegisterInv, SignedOK,
              HandlingOK, Seen, Register!rvars
<1>7. ASSUME NEW l \in Links, ReceiveGetSporks(l) \/ ReceiveGetData(l) \/ ReceiveInv(l)
      PROVE  RegisterInv' /\ UNCHANGED Register!rvars
  BY <1>7, QuietStep DEF ReceiveGetSporks, ReceiveGetData, ReceiveInv, managerVars, boundVars
<1>8. ASSUME NEW l \in Links, NEW due \in SUBSET mapAskFor[l], SendMessages(l, due)
      PROVE  RegisterInv' /\ UNCHANGED Register!rvars
  BY <1>8, QuietStep DEF SendMessages, managerVars, boundVars
<1>9. ASSUME NEW p \in Pairs, Connect(p) \/ Disconnect(p)
      PROVE  RegisterInv' /\ UNCHANGED Register!rvars
  BY <1>9, QuietStep DEF Connect, Disconnect, managerVars, boundVars
<1>10. ASSUME NEW n \in Nodes, Restart(n)
       PROVE  RegisterInv' /\ Register!Next
  BY <1>10, RestartStep DEF Register!Next
<1>11. ASSUME NEW n \in Nodes, StageReached(n) \/ SyncReset(n)
       PROVE  RegisterInv' /\ UNCHANGED Register!rvars
  BY <1>11, QuietStep DEF StageReached, SyncReset, managerVars, boundVars
<1>12. ASSUME Tick
       PROVE  RegisterInv' /\ UNCHANGED Register!rvars
  BY <1>12, QuietStep DEF Tick, managerVars
<1>13. ASSUME UNCHANGED vars
       PROVE  RegisterInv' /\ UNCHANGED Register!rvars
  BY <1>13, QuietStep DEF vars, managerVars, boundVars
<1> QED
  BY <1>1, <1>2, <1>3, <1>4, <1>5, <1>6, <1>7, <1>8, <1>9, <1>10, <1>11, <1>12, <1>13 DEF Next

-----------------------------------------------------------------------------
(* Channels *)

\* The way back of a link is a link between the same nodes.
LEMMA BackLink ==
  ASSUME NEW l \in Links
  PROVE  /\ Back(l) \in Links /\ Back(Back(l)) = l /\ Back(l) # l
         /\ l[1] \in Nodes /\ l[2] \in Nodes
         /\ Back(l)[1] = l[2] /\ Back(l)[2] = l[1]
  BY DEF Links, Back

\* Taking the head away leaves only messages that were there.
LEMMA TailElements ==
  ASSUME NEW M, NEW c \in Seq(M), c # <<>>
  PROVE  /\ Tail(c) \in Seq(M) /\ Head(c) \in M /\ Head(c) \in Elements(c)
         /\ Elements(Tail(c)) \subseteq Elements(c)
<1>1. Len(c) \in Nat /\ Len(c) # 0 /\ DOMAIN c = 1 .. Len(c)
  OBVIOUS
<1>2. Tail(c) \in Seq(M) /\ Head(c) = c[1] /\ c[1] \in M
  BY <1>1
<1>3. Len(Tail(c)) = Len(c) - 1 /\ DOMAIN Tail(c) = 1 .. Len(c) - 1
  BY <1>1
<1>4. \A i \in 1 .. Len(c) - 1 : Tail(c)[i] = c[i + 1] /\ i + 1 \in 1 .. Len(c)
  BY <1>1
<1> QED
  BY <1>1, <1>2, <1>3, <1>4 DEF Elements

\* A concatenation has the messages of its parts.
LEMMA ConcatElements ==
  ASSUME NEW M, NEW c \in Seq(M), NEW d \in Seq(M)
  PROVE  /\ c \o d \in Seq(M)
         /\ Elements(c \o d) \subseteq Elements(c) \cup Elements(d)
<1>1. c \o d \in Seq(M) /\ Len(c \o d) = Len(c) + Len(d)
  OBVIOUS
<1>2. ASSUME NEW i \in 1 .. Len(c) + Len(d)
      PROVE  (c \o d)[i] \in Elements(c) \cup Elements(d)
  <2>1. CASE i <= Len(c)
    BY <2>1 DEF Elements
  <2>2. CASE i > Len(c)
    <3>1. (c \o d)[i] = d[i - Len(c)] /\ i - Len(c) \in 1 .. Len(d)
      BY <2>2
    <3> QED
      BY <3>1 DEF Elements
  <2> QED
    BY <2>1, <2>2
<1>3. DOMAIN (c \o d) = 1 .. Len(c) + Len(d)
  BY <1>1
<1> QED
  BY <1>1, <1>2, <1>3 DEF Elements

\* An answer is a sequence of spork messages.
LEMMA ListedElements ==
  ASSUME NEW S \in SUBSET Sporks, IsFiniteSet(S), NEW s \in Listings(S)
  PROVE  LET d == [i \in DOMAIN s |-> [type |-> "spork", spork |-> s[i]]] IN
         d \in Seq(Message) /\ \A x \in Elements(d) : x.type = "spork"
<1> DEFINE d == [i \in DOMAIN s |-> [type |-> "spork", spork |-> s[i]]]
<1>1. Cardinality(S) \in Nat
  BY FS_CardinalityType
<1>2. s \in [1 .. Cardinality(S) -> S] /\ DOMAIN s = 1 .. Cardinality(S)
  BY DEF Listings
<1>3. \A i \in DOMAIN s : d[i] \in Message /\ d[i].type = "spork"
  BY <1>2 DEF Message
<1>4. d \in [1 .. Cardinality(S) -> Message]
  BY <1>2, <1>3
<1>5. d \in Seq(Message)
  BY <1>1, <1>4
<1>6. \A x \in Elements(d) : x.type = "spork"
  BY <1>3 DEF Elements
<1> QED
  BY <1>5, <1>6

\* Push yields at most one message, with the given type and hashes.
LEMMA PushElements ==
  ASSUME NEW type \in {"inv", "getdata"}, NEW S \in SUBSET Sporks
  PROVE  /\ Push(type, S) \in Seq(Message)
         /\ \A x \in Elements(Push(type, S)) : x.type = type /\ x.sporks = S
<1>1. CASE S = {}
  BY <1>1 DEF Push, Elements
<1>2. CASE S # {}
  <2> DEFINE x == [type |-> type, sporks |-> S]
  <2>1. Push(type, S) = <<x>> /\ x \in Message
    BY <1>2 DEF Push, Message
  <2>2. x.type = type /\ x.sporks = S
    OBVIOUS
  <2> HIDE DEF x
  <2> QED
    BY <2>1, <2>2 DEF Elements
<1> QED
  BY <1>1, <1>2

\* Taking a message away adds none.
LEMMA ConsumeStep ==
  ASSUME TypeOK, NEW l \in Links, chan[l] # <<>>, Consume(l)
  PROVE  /\ chan' \in [Links -> Seq(Message)]
         /\ \A k \in Links : Elements(chan'[k]) \subseteq Elements(chan[k])
<1>1. chan \in [Links -> Seq(Message)] /\ chan' = [chan EXCEPT ![l] = Tail(chan[l])]
  BY DEF TypeOK, Consume
<1>2. Tail(chan[l]) \in Seq(Message) /\ Elements(Tail(chan[l])) \subseteq Elements(chan[l])
  BY <1>1, TailElements
<1> QED
  BY <1>1, <1>2

\* An answer adds spork messages only.
LEMMA AnswerStep ==
  ASSUME TypeOK, NEW l \in Links, chan[l] # <<>>,
         NEW S \in SUBSET Sporks, IsFiniteSet(S), Answer(l, S)
  PROVE  /\ chan' \in [Links -> Seq(Message)]
         /\ \A k \in Links : \A x \in Elements(chan'[k]) :
               x \in Elements(chan[k]) \/ x.type = "spork"
<1>1. PICK s \in Listings(S) :
        chan' = [chan EXCEPT
            ![l] = Tail(@),
            ![Back(l)] = @ \o [i \in DOMAIN s |-> [type |-> "spork", spork |-> s[i]]]]
  BY DEF Answer
<1> DEFINE d == [i \in DOMAIN s |-> [type |-> "spork", spork |-> s[i]]]
<1>2. d \in Seq(Message) /\ \A x \in Elements(d) : x.type = "spork"
  BY ListedElements
<1> HIDE DEF d
<1>3. Back(l) \in Links /\ Back(l) # l
  BY BackLink
<1>4. chan \in [Links -> Seq(Message)]
  BY DEF TypeOK
<1>5. /\ chan' \in [Links -> Seq(Message)]
      /\ chan'[l] = Tail(chan[l])
      /\ chan'[Back(l)] = chan[Back(l)] \o d
      /\ \A k \in Links : k # l /\ k # Back(l) => chan'[k] = chan[k]
  <2>1. chan' = [[chan EXCEPT ![l] = Tail(chan[l])] EXCEPT ![Back(l)] = chan[Back(l)] \o d]
    BY <1>1, <1>3, <1>4 DEF d
  <2>2. Tail(chan[l]) \in Seq(Message) /\ chan[Back(l)] \o d \in Seq(Message)
    BY <1>2, <1>3, <1>4, TailElements, ConcatElements
  <2> QED
    BY <1>3, <1>4, <2>1, <2>2
<1>6. Elements(Tail(chan[l])) \subseteq Elements(chan[l])
  BY <1>4, TailElements
<1>7. Elements(chan[Back(l)] \o d) \subseteq Elements(chan[Back(l)]) \cup Elements(d)
  BY <1>2, <1>3, <1>4, ConcatElements
<1> QED
  BY <1>2, <1>5, <1>6, <1>7

\* What is needed to keep announcements served: maps that only grow, and new
\* announcements and requests only of what is in them.
LEMMA ServedStep ==
  ASSUME AnnouncedIsServed,
         \A n \in Nodes : mapSporks[n] \subseteq mapSporks'[n],
         \A l \in Links : l[1] \notin Signers =>
            /\ vInventoryToSend'[l] \subseteq vInventoryToSend[l] \cup mapSporks'[l[1]]
            /\ mapAskFor'[Back(l)] \subseteq mapSporks'[l[1]]
            /\ \A x \in Elements(chan'[l]) :
                  \/ x \in Elements(chan[l])
                  \/ x.type = "inv" => x.sporks \subseteq mapSporks'[l[1]]
            /\ \A x \in Elements(chan'[Back(l)]) :
                  \/ x \in Elements(chan[Back(l)])
                  \/ x.type = "getdata" => x.sporks \subseteq mapSporks'[l[1]]
  PROVE  AnnouncedIsServed'
<1> SUFFICES ASSUME NEW l \in Links, l[1] \notin Signers
             PROVE  /\ vInventoryToSend'[l] \subseteq mapSporks'[l[1]]
                    /\ mapAskFor'[Back(l)] \subseteq mapSporks'[l[1]]
                    /\ \A x \in Elements(chan'[l]) :
                          x.type = "inv" => x.sporks \subseteq mapSporks'[l[1]]
                    /\ \A x \in Elements(chan'[Back(l)]) :
                          x.type = "getdata" => x.sporks \subseteq mapSporks'[l[1]]
  BY DEF AnnouncedIsServed, Elements, Back
<1>1. mapSporks[l[1]] \subseteq mapSporks'[l[1]]
  BY BackLink
<1>2. /\ vInventoryToSend[l] \subseteq mapSporks[l[1]]
      /\ \A x \in Elements(chan[l]) : x.type = "inv" => x.sporks \subseteq mapSporks[l[1]]
      /\ \A x \in Elements(chan[Back(l)]) :
            x.type = "getdata" => x.sporks \subseteq mapSporks[l[1]]
  BY DEF AnnouncedIsServed
<1>3. vInventoryToSend'[l] \subseteq mapSporks'[l[1]] /\ mapAskFor'[Back(l)] \subseteq mapSporks'[l[1]]
  BY <1>1, <1>2
<1>4. ASSUME NEW x \in Elements(chan'[l]), x.type = "inv"
      PROVE  x.sporks \subseteq mapSporks'[l[1]]
  BY <1>1, <1>2, <1>4
<1>5. ASSUME NEW x \in Elements(chan'[Back(l)]), x.type = "getdata"
      PROVE  x.sporks \subseteq mapSporks'[l[1]]
  BY <1>1, <1>2, <1>5
<1> QED
  BY <1>3, <1>4, <1>5

-----------------------------------------------------------------------------
(* Types and service *)

\* What is in force is kept, and what is kept is finite, so every answer is.
HeldOK ==
    \A n \in Nodes : IsFiniteSet(mapSporks[n]) /\ InForce(n) \subseteq mapSporks[n]

NetInv == TypeOK /\ RegisterInv /\ HeldOK /\ AnnouncedIsServed

\* What a step has to establish besides RegisterStep.
Kept == TypeOK' /\ HeldOK' /\ AnnouncedIsServed'

\* Empty maps, queues and channels satisfy the invariant.
LEMMA NetInvInit == Init => NetInv
<1> SUFFICES ASSUME Init PROVE NetInv
  OBVIOUS
<1>1. TypeOK
  <2>1. <<>> \in Seq(Message)
    OBVIOUS
  <2>2. now \in 1 .. MaxTime
    BY SporkAssumption DEF Init
  <2> QED
    BY <2>1, <2>2 DEF Init, TypeOK
<1>2. HeldOK
  BY FS_EmptySet DEF Init, HeldOK, InForce
<1>3. AnnouncedIsServed
  BY BackLink DEF Init, AnnouncedIsServed, Elements
<1> QED
  BY <1>1, <1>2, <1>3, RegisterInvInit DEF NetInv

\* Relay queues the message on the links of its node only.
LEMMA RelayStep ==
  ASSUME TypeOK, NEW n \in Nodes, NEW m \in Sporks, Relay(n, m)
  PROVE  /\ vInventoryToSend' \in [Links -> SUBSET Sporks]
         /\ \A l \in Links : vInventoryToSend'[l] \subseteq vInventoryToSend[l] \cup {m}
         /\ \A l \in Links : l[1] # n => vInventoryToSend'[l] = vInventoryToSend[l]
  BY DEF TypeOK, Relay

\* A stored message is kept and in force.
LEMMA StoreHeld ==
  ASSUME TypeOK, HeldOK, NEW n \in Nodes, NEW m \in Sporks, m.id \in SporkIDs,
         mapSporksActive' = [mapSporksActive EXCEPT ![n][m.id] = m],
         mapSporks' = [mapSporks EXCEPT ![n] = mapSporks[n] \cup {m}]
  PROVE  HeldOK'
<1>1. IsFiniteSet(mapSporks[n] \cup {m})
  BY FS_AddElement DEF HeldOK
<1>2. \A k \in Nodes : IsFiniteSet(mapSporks'[k])
  BY <1>1 DEF TypeOK, HeldOK
<1>3. ASSUME NEW k \in Nodes, NEW i \in SporkIDs, mapSporksActive'[k][i] # None
      PROVE  mapSporksActive'[k][i] \in mapSporks'[k]
  BY <1>3 DEF TypeOK, HeldOK, InForce
<1> QED
  BY <1>2, <1>3 DEF HeldOK, InForce

\* The announcement of a signer is not among the served ones.
LEMMA UpdateSporkKept ==
  ASSUME NetInv, NEW n \in Signers, NEW i \in SporkIDs, NEW v \in Values,
         UpdateSpork(n, i, v)
  PROVE  Kept
<1> DEFINE m == [id |-> i, value |-> v, time |-> now + Offset[n]]
<1>1. m \in Sporks
  BY SporkAssumption DEF NetInv, TypeOK, Sporks
<1>2. /\ signed' = signed \cup {m}
      /\ updating' = [updating EXCEPT ![n] = m]
      /\ Relay(n, m)
      /\ UNCHANGED <<managerVars, handling, stage, connected, setAskFor, mapAskFor, chan, now>>
  BY DEF UpdateSpork
<1> HIDE DEF m
<1>3. n \in Nodes
  BY SporkAssumption
<1>4. /\ vInventoryToSend' \in [Links -> SUBSET Sporks]
      /\ \A l \in Links : l[1] # n => vInventoryToSend'[l] = vInventoryToSend[l]
  BY <1>1, <1>2, <1>3, RelayStep DEF NetInv
<1>5. TypeOK'
  BY <1>1, <1>2, <1>4 DEF NetInv, TypeOK, managerVars
<1>6. HeldOK'
  BY <1>2 DEF NetInv, HeldOK, InForce, managerVars
<1>7. AnnouncedIsServed'
  <2>1. UNCHANGED <<mapSporks, mapAskFor, chan>>
    BY <1>2 DEF managerVars
  <2>2. \A l \in Links : l[1] \notin Signers =>
          /\ vInventoryToSend'[l] = vInventoryToSend[l]
          /\ mapAskFor[Back(l)] \subseteq mapSporks[l[1]]
    BY <1>4 DEF NetInv, AnnouncedIsServed
  <2> QED
    BY <2>1, <2>2, ServedStep DEF NetInv
<1> QED
  BY <1>5, <1>6, <1>7 DEF Kept

\* UpdateSpork's store adds a signed message.
LEMMA UpdateSporkStoresKept ==
  ASSUME NetInv, NEW n \in Signers, UpdateSporkStores(n)
  PROVE  Kept
<1> DEFINE m == updating[n]
<1>1. n \in Nodes /\ m \in signed /\ m \in Sporks /\ m.id \in SporkIDs
  BY SporkAssumption DEF NetInv, TypeOK, RegisterInv, SignedOK, UpdateSporkStores, Sporks
<1>2. /\ mapSporksActive' = [mapSporksActive EXCEPT ![n][m.id] = m]
      /\ mapSporks' = [mapSporks EXCEPT ![n] = mapSporks[n] \cup {m}]
      /\ updating' = [updating EXCEPT ![n] = None]
      /\ UNCHANGED <<signed, handling, stage, connected, queueVars, chan, now>>
  BY DEF UpdateSporkStores, Store, boundVars
<1> HIDE DEF m
<1>3. TypeOK'
  BY <1>1, <1>2 DEF NetInv, TypeOK, queueVars
<1>4. HeldOK'
  BY <1>1, <1>2, StoreHeld DEF NetInv
<1>5. AnnouncedIsServed'
  <2>1. \A k \in Nodes : mapSporks[k] \subseteq mapSporks'[k]
    BY <1>1, <1>2 DEF NetInv, TypeOK
  <2>2. ASSUME NEW l \in Links, l[1] \notin Signers
        PROVE  mapAskFor[Back(l)] \subseteq mapSporks'[l[1]]
    BY <1>1, <2>1, <2>2, BackLink DEF NetInv, AnnouncedIsServed
  <2> QED
    BY <1>2, <2>1, <2>2, ServedStep DEF NetInv, queueVars
<1> QED
  BY <1>3, <1>4, <1>5 DEF Kept

\* ProcessSpork announces what it has just put into mapSporks.
LEMMA StoreSporkKept ==
  ASSUME NetInv, NEW n \in Nodes, StoreSpork(n)
  PROVE  Kept
<1> DEFINE m == handling[n].spork
<1>1. m \in Sporks /\ m.id \in SporkIDs
  BY DEF NetInv, TypeOK, StoreSpork, Idle, Received, Sporks
<1>2. /\ mapSporksActive' = [mapSporksActive EXCEPT ![n][m.id] = m]
      /\ mapSporks' = [mapSporks EXCEPT ![n] = mapSporks[n] \cup {m}]
      /\ handling' = [handling EXCEPT ![n] = None]
      /\ Relay(n, m)
      /\ UNCHANGED <<signed, updating, stage, connected, setAskFor, mapAskFor, chan, now>>
  BY DEF StoreSpork, Store, Handled, boundVars
<1> HIDE DEF m
<1>3. /\ vInventoryToSend' \in [Links -> SUBSET Sporks]
      /\ \A l \in Links : vInventoryToSend'[l] \subseteq vInventoryToSend[l] \cup {m}
      /\ \A l \in Links : l[1] # n => vInventoryToSend'[l] = vInventoryToSend[l]
  BY <1>1, <1>2, RelayStep DEF NetInv
<1>4. TypeOK'
  BY <1>1, <1>2, <1>3 DEF NetInv, TypeOK
<1>5. HeldOK'
  BY <1>1, <1>2, StoreHeld DEF NetInv
<1>6. AnnouncedIsServed'
  <2>1. \A k \in Nodes : mapSporks[k] \subseteq mapSporks'[k]
    BY <1>2 DEF NetInv, TypeOK
  <2>2. m \in mapSporks'[n]
    BY <1>2 DEF NetInv, TypeOK
  <2>3. ASSUME NEW l \in Links, l[1] \notin Signers
        PROVE  /\ mapAskFor[Back(l)] \subseteq mapSporks'[l[1]]
               /\ vInventoryToSend'[l] \subseteq vInventoryToSend[l] \cup mapSporks'[l[1]]
    <3>1. mapAskFor[Back(l)] \subseteq mapSporks[l[1]] /\ mapSporks[l[1]] \subseteq mapSporks'[l[1]]
      BY <2>1, <2>3, BackLink DEF NetInv, AnnouncedIsServed
    <3> QED
      BY <1>3, <2>2, <3>1
  <2> QED
    BY <1>2, <2>1, <2>3, ServedStep DEF NetInv
<1> QED
  BY <1>4, <1>5, <1>6 DEF Kept

\* The first half of ProcessSpork takes a message of the right type.
LEMMA ReceiveSporkKept ==
  ASSUME NetInv, NEW l \in Links, ReceiveSpork(l)
  PROVE  Kept
<1> DEFINE m == Head(chan[l]).spork
<1>1. chan[l] # <<>> /\ Consume(l) /\ Head(chan[l]).type = "spork"
  BY DEF ReceiveSpork
<1>2. m \in Sporks
  <2>1. Head(chan[l]) \in Message
    BY <1>1, TailElements DEF NetInv, TypeOK
  <2> QED
    BY <1>1, <2>1 DEF Message
<1>3. /\ chan' \in [Links -> Seq(Message)]
      /\ \A k \in Links : Elements(chan'[k]) \subseteq Elements(chan[k])
  BY <1>1, ConsumeStep DEF NetInv
<1>4. /\ setAskFor' = [setAskFor EXCEPT ![Back(l)] = setAskFor[Back(l)] \ {m}]
      /\ \/ handling' = handling
         \/ handling' = [handling EXCEPT ![l[2]] = [spork |-> m, intact |-> TRUE]]
      /\ UNCHANGED <<managerVars, updating, stage, connected, vInventoryToSend, mapAskFor,
                     signed, now>>
  BY DEF ReceiveSpork, boundVars
<1>5. [spork |-> m, intact |-> TRUE] \in Received
  BY <1>2 DEF Received
<1> HIDE DEF m
<1>6. TypeOK'
  BY <1>3, <1>4, <1>5 DEF NetInv, TypeOK, managerVars
<1>7. HeldOK'
  BY <1>4 DEF NetInv, HeldOK, InForce, managerVars
<1>8. AnnouncedIsServed'
  BY <1>3, <1>4, BackLink, ServedStep DEF NetInv, AnnouncedIsServed, managerVars
<1> QED
  BY <1>6, <1>7, <1>8 DEF Kept

\* getsporks and getdata are answered from finite maps.
LEMMA AnswerKept ==
  ASSUME NetInv, NEW l \in Links, ReceiveGetSporks(l) \/ ReceiveGetData(l)
  PROVE  Kept
<1>1. /\ chan[l] # <<>>
      /\ UNCHANGED <<managerVars, handling, updating, stage, connected, queueVars, signed, now>>
  BY DEF ReceiveGetSporks, ReceiveGetData, boundVars
<1>2. PICK S \in SUBSET mapSporks[l[2]] : Answer(l, S)
  <2>0. l[2] \in Nodes
    BY BackLink
  <2>1. CASE ReceiveGetSporks(l)
    <3>1. InForce(l[2]) \subseteq mapSporks[l[2]]
      BY <2>0 DEF NetInv, HeldOK
    <3> QED
      BY <2>1, <3>1 DEF ReceiveGetSporks
  <2>2. CASE ReceiveGetData(l)
    <3>1. {m \in Head(chan[l]).sporks : AlreadyHave(l[2], m)} \subseteq mapSporks[l[2]]
      BY DEF AlreadyHave
    <3> QED
      BY <2>2, <3>1 DEF ReceiveGetData
  <2> QED
    BY <2>1, <2>2
<1>3. S \in SUBSET Sporks /\ IsFiniteSet(S)
  BY <1>2, BackLink, FS_Subset DEF NetInv, TypeOK, HeldOK
<1>4. /\ chan' \in [Links -> Seq(Message)]
      /\ \A k \in Links : \A x \in Elements(chan'[k]) :
            x \in Elements(chan[k]) \/ x.type = "spork"
  BY <1>1, <1>2, <1>3, AnswerStep DEF NetInv
<1>5. TypeOK'
  BY <1>1, <1>4 DEF NetInv, TypeOK, managerVars, queueVars
<1>6. HeldOK'
  BY <1>1 DEF NetInv, HeldOK, InForce, managerVars
<1>7. AnnouncedIsServed'
  <2>1. \A k \in Links : k[1] \notin Signers => mapAskFor[Back(k)] \subseteq mapSporks[k[1]]
    BY DEF NetInv, AnnouncedIsServed
  <2> QED
    BY <1>1, <1>4, <2>1, BackLink, ServedStep DEF NetInv, managerVars, queueVars
<1> QED
  BY <1>5, <1>6, <1>7 DEF Kept

\* What is asked for was announced.
LEMMA ReceiveInvKept ==
  ASSUME NetInv, NEW l \in Links, ReceiveInv(l)
  PROVE  Kept
<1> DEFINE x == Head(chan[l])
           new == {m \in x.sporks : stage[l[2]] # "ibd" /\ ~AlreadyHave(l[2], m)}
<1>1. /\ chan[l] # <<>> /\ Consume(l) /\ x.type = "inv"
      /\ setAskFor' = [setAskFor EXCEPT ![Back(l)] = setAskFor[Back(l)] \cup new]
      /\ mapAskFor' = [mapAskFor EXCEPT ![Back(l)] = mapAskFor[Back(l)] \cup (new \ setAskFor[Back(l)])]
      /\ UNCHANGED <<managerVars, handling, updating, stage, connected, vInventoryToSend,
                     signed, now>>
  BY DEF ReceiveInv, AskFor, boundVars
<1>2. x \in Message /\ x \in Elements(chan[l])
  BY <1>1, TailElements DEF NetInv, TypeOK
<1>3. new \subseteq x.sporks /\ new \subseteq Sporks
  BY <1>1, <1>2 DEF Message
<1>4. l[1] \notin Signers => new \subseteq mapSporks[l[1]]
  BY <1>1, <1>2, <1>3 DEF NetInv, AnnouncedIsServed
<1>5. /\ chan' \in [Links -> Seq(Message)]
      /\ \A k \in Links : Elements(chan'[k]) \subseteq Elements(chan[k])
  BY <1>1, ConsumeStep DEF NetInv
<1> HIDE DEF x, new
<1>6. TypeOK'
  BY <1>1, <1>3, <1>5 DEF NetInv, TypeOK, managerVars
<1>7. HeldOK'
  BY <1>1 DEF NetInv, HeldOK, InForce, managerVars
<1>8. AnnouncedIsServed'
  <2>1. ASSUME NEW k \in Links, k[1] \notin Signers
        PROVE  mapAskFor'[Back(k)] \subseteq mapSporks'[k[1]]
    <3>1. mapAskFor[Back(k)] \subseteq mapSporks[k[1]]
      BY <2>1 DEF NetInv, AnnouncedIsServed
    <3>2. CASE k = l
      BY <1>1, <1>4, <2>1, <3>1, <3>2, BackLink DEF NetInv, TypeOK, managerVars
    <3>3. CASE k # l
      <4>1. Back(k) # Back(l)
        BY <3>3, BackLink
      <4> QED
        BY <1>1, <3>1, <4>1, BackLink DEF NetInv, TypeOK, managerVars
    <3> QED
      BY <3>2, <3>3
  <2> QED
    BY <1>1, <1>5, <2>1, BackLink, ServedStep DEF NetInv, managerVars
<1> QED
  BY <1>6, <1>7, <1>8 DEF Kept

\* SendMessages moves announcements and requests into the channel.
LEMMA SendMessagesKept ==
  ASSUME NetInv, NEW l \in Links, NEW due \in SUBSET mapAskFor[l], SendMessages(l, due)
  PROVE  Kept
<1> DEFINE ask == Wanted(l[1], due)
           inv == vInventoryToSend[l]
           a == Push("inv", inv)
           b == Push("getdata", ask)
<1>1. /\ chan' = [chan EXCEPT ![l] = chan[l] \o a \o b]
      /\ vInventoryToSend' = [vInventoryToSend EXCEPT ![l] = {}]
      /\ mapAskFor' = [mapAskFor EXCEPT ![l] = mapAskFor[l] \ due]
      /\ setAskFor' = [setAskFor EXCEPT ![l] = setAskFor[l] \ (due \ ask)]
      /\ UNCHANGED <<managerVars, handling, updating, stage, connected, signed, now>>
  BY DEF SendMessages, boundVars
<1>2. ask \subseteq mapAskFor[l] /\ inv \in SUBSET Sporks /\ ask \in SUBSET Sporks
  BY DEF Wanted, NetInv, TypeOK
<1>3. /\ a \in Seq(Message) /\ \A x \in Elements(a) : x.type = "inv" /\ x.sporks = inv
      /\ b \in Seq(Message) /\ \A x \in Elements(b) : x.type = "getdata" /\ x.sporks = ask
  BY <1>2, PushElements
<1>4. chan \in [Links -> Seq(Message)]
  BY DEF NetInv, TypeOK
<1>5. inv = vInventoryToSend[l]
  OBVIOUS
<1> HIDE DEF a, b, ask, inv
<1>6. /\ chan[l] \o a \o b \in Seq(Message)
      /\ Elements(chan[l] \o a \o b) \subseteq Elements(chan[l]) \cup Elements(a) \cup Elements(b)
  <2>1. chan[l] \o a \in Seq(Message) /\ Elements(chan[l] \o a) \subseteq Elements(chan[l]) \cup Elements(a)
    BY <1>3, <1>4, ConcatElements
  <2>2. /\ (chan[l] \o a) \o b \in Seq(Message)
        /\ Elements((chan[l] \o a) \o b) \subseteq Elements(chan[l] \o a) \cup Elements(b)
    BY <1>3, <2>1, ConcatElements
  <2> QED
    BY <2>1, <2>2
<1>7. /\ chan' \in [Links -> Seq(Message)]
      /\ Elements(chan'[l]) \subseteq Elements(chan[l]) \cup Elements(a) \cup Elements(b)
      /\ \A k \in Links : k # l => chan'[k] = chan[k]
  BY <1>1, <1>4, <1>6
<1>8. TypeOK'
  BY <1>1, <1>7 DEF NetInv, TypeOK, managerVars
<1>9. HeldOK'
  BY <1>1 DEF NetInv, HeldOK, InForce, managerVars
<1>10. AnnouncedIsServed'
  <2>1. UNCHANGED mapSporks
    BY <1>1 DEF managerVars
  <2> SUFFICES ASSUME NEW k \in Links, k[1] \notin Signers
               PROVE  /\ vInventoryToSend'[k] \subseteq vInventoryToSend[k]
                      /\ mapAskFor'[Back(k)] \subseteq mapSporks[k[1]]
                      /\ \A x \in Elements(chan'[k]) :
                            \/ x \in Elements(chan[k])
                            \/ x.type = "inv" => x.sporks \subseteq mapSporks[k[1]]
                      /\ \A x \in Elements(chan'[Back(k)]) :
                            \/ x \in Elements(chan[Back(k)])
                            \/ x.type = "getdata" => x.sporks \subseteq mapSporks[k[1]]
    BY <2>1, ServedStep DEF NetInv
  <2>2. Back(k) \in Links
    BY BackLink
  <2>3. mapAskFor[Back(k)] \subseteq mapSporks[k[1]] /\ vInventoryToSend[k] \subseteq mapSporks[k[1]]
    BY DEF NetInv, AnnouncedIsServed
  <2>4. vInventoryToSend'[k] \subseteq vInventoryToSend[k]
    BY <1>1 DEF NetInv, TypeOK
  <2>5. mapAskFor'[Back(k)] \subseteq mapSporks[k[1]]
    BY <1>1, <2>2, <2>3 DEF NetInv, TypeOK
  <2>6. ASSUME NEW x \in Elements(chan'[k]), x \notin Elements(chan[k]), x.type = "inv"
        PROVE  x.sporks \subseteq mapSporks[k[1]]
    <3>1. k = l
      BY <1>7, <2>6
    <3>2. x \in Elements(a)
      <4>1. x \notin Elements(b)
        BY <1>3, <2>6
      <4> QED
        BY <1>7, <2>6, <3>1, <4>1
    <3> QED
      BY <1>3, <1>5, <2>3, <3>1, <3>2
  <2>7. ASSUME NEW x \in Elements(chan'[Back(k)]), x \notin Elements(chan[Back(k)]), x.type = "getdata"
        PROVE  x.sporks \subseteq mapSporks[k[1]]
    <3>1. Back(k) = l
      BY <1>7, <2>2, <2>7
    <3>2. x \in Elements(b)
      <4>1. x \notin Elements(a)
        BY <1>3, <2>7
      <4> QED
        BY <1>7, <2>7, <3>1, <4>1
    <3> QED
      BY <1>2, <1>3, <2>3, <3>1, <3>2
  <2> QED
    BY <2>4, <2>5, <2>6, <2>7
<1> QED
  BY <1>8, <1>9, <1>10 DEF Kept

\* A new connection carries at most two getsporks.
LEMMA ConnectKept ==
  ASSUME NetInv, NEW p \in Pairs, Connect(p)
  PROVE  Kept
<1> DEFINE g == [type |-> "getsporks"]
<1>1. /\ connected' = connected \cup {p}
      /\ UNCHANGED <<managerVars, handling, updating, stage, queueVars, signed, now>>
      /\ chan' = [l \in Links |-> IF {l[1], l[2]} = p /\ stage[l[1]] # "synced"
                                  THEN <<g>> ELSE chan[l]]
  BY DEF Connect, boundVars
<1>2. g \in Message /\ g.type = "getsporks"
  BY DEF Message
<1> HIDE DEF g
<1>3. <<g>> \in Seq(Message) /\ Elements(<<g>>) = {g}
  BY <1>2 DEF Elements
<1>4. /\ chan' \in [Links -> Seq(Message)]
      /\ \A k \in Links : \A x \in Elements(chan'[k]) :
            x \in Elements(chan[k]) \/ x.type = "getsporks"
  BY <1>1, <1>2, <1>3 DEF NetInv, TypeOK
<1>5. TypeOK'
  BY <1>1, <1>4 DEF NetInv, TypeOK, managerVars, queueVars
<1>6. HeldOK'
  BY <1>1 DEF NetInv, HeldOK, InForce, managerVars
<1>7. AnnouncedIsServed'
  <2>1. \A k \in Links : k[1] \notin Signers => mapAskFor[Back(k)] \subseteq mapSporks[k[1]]
    BY DEF NetInv, AnnouncedIsServed
  <2> QED
    BY <1>1, <1>4, <2>1, BackLink, ServedStep DEF NetInv, managerVars, queueVars
<1> QED
  BY <1>5, <1>6, <1>7 DEF Kept

\* A lost connection leaves nothing to serve on it.
LEMMA DisconnectedStep ==
  ASSUME NetInv, NEW ps \in SUBSET Pairs, Disconnected(ps)
  PROVE  /\ connected' \subseteq Pairs
         /\ vInventoryToSend' \in [Links -> SUBSET Sporks]
         /\ setAskFor' \in [Links -> SUBSET Sporks]
         /\ mapAskFor' \in [Links -> SUBSET Sporks]
         /\ chan' \in [Links -> Seq(Message)]
         /\ \A l \in Links : IF {l[1], l[2]} \in ps
              THEN vInventoryToSend'[l] = {} /\ mapAskFor'[l] = {} /\ Elements(chan'[l]) = {}
              ELSE /\ vInventoryToSend'[l] = vInventoryToSend[l]
                   /\ mapAskFor'[l] = mapAskFor[l] /\ chan'[l] = chan[l]
<1>1. <<>> \in Seq(Message) /\ Elements(<<>>) = {}
  BY DEF Elements
<1> QED
  BY <1>1 DEF NetInv, TypeOK, Disconnected

\* A lost connection only shrinks queues and channels.
LEMMA DisconnectKept ==
  ASSUME NetInv, NEW p \in Pairs, Disconnect(p)
  PROVE  Kept
<1>1. /\ Disconnected({p})
      /\ UNCHANGED <<managerVars, handling, updating, stage, signed, now>>
  BY DEF Disconnect
<1>2. TypeOK'
  BY <1>1, DisconnectedStep DEF NetInv, TypeOK, managerVars
<1>3. HeldOK'
  BY <1>1 DEF NetInv, HeldOK, InForce, managerVars
<1>4. AnnouncedIsServed'
  <2>1. \A k \in Links : /\ vInventoryToSend'[k] \subseteq vInventoryToSend[k]
                         /\ mapAskFor'[k] \subseteq mapAskFor[k]
                         /\ Elements(chan'[k]) \subseteq Elements(chan[k])
    BY <1>1, DisconnectedStep
  <2>2. \A k \in Links : k[1] \notin Signers => mapAskFor'[Back(k)] \subseteq mapSporks[k[1]]
    BY <2>1, BackLink DEF NetInv, AnnouncedIsServed
  <2> QED
    BY <1>1, <2>1, <2>2, BackLink, ServedStep DEF NetInv, managerVars
<1> QED
  BY <1>2, <1>3, <1>4 DEF Kept

\* A restart empties the map and with it every queue and channel of the node.
LEMMA RestartKept ==
  ASSUME NetInv, NEW n \in Nodes, Restart(n)
  PROVE  Kept
<1> DEFINE ps == {p \in Pairs : n \in p}
<1>1. /\ mapSporksActive' = [mapSporksActive EXCEPT ![n] = [i \in SporkIDs |-> None]]
      /\ mapSporks' = [mapSporks EXCEPT ![n] = {}]
      /\ handling' = [handling EXCEPT ![n] = None]
      /\ updating' = [updating EXCEPT ![n] = None]
      /\ stage' = [stage EXCEPT ![n] = "ibd"]
      /\ Disconnected(ps)
      /\ UNCHANGED <<signed, now>>
  BY DEF Restart
<1>2. TypeOK'
  <2>1. [i \in SporkIDs |-> None] \in [SporkIDs -> Sporks \cup {None}]
    OBVIOUS
  <2> HIDE DEF ps
  <2> QED
    BY <1>1, <2>1, DisconnectedStep DEF NetInv, TypeOK, ps
<1>3. HeldOK'
  <2>1. ASSUME NEW k \in Nodes PROVE IsFiniteSet(mapSporks'[k]) /\ InForce(k)' \subseteq mapSporks'[k]
    <3>1. CASE k = n
      BY <1>1, <3>1, FS_EmptySet DEF NetInv, TypeOK, InForce
    <3>2. CASE k # n
      BY <1>1, <3>2 DEF NetInv, TypeOK, HeldOK, InForce
    <3> QED
      BY <3>1, <3>2
  <2> QED
    BY <2>1 DEF HeldOK, InForce
<1>4. AnnouncedIsServed'
  <2> SUFFICES ASSUME NEW l \in Links, l[1] \notin Signers
               PROVE  /\ vInventoryToSend'[l] \subseteq mapSporks'[l[1]]
                      /\ mapAskFor'[Back(l)] \subseteq mapSporks'[l[1]]
                      /\ \A x \in Elements(chan'[l]) :
                            x.type = "inv" => x.sporks \subseteq mapSporks'[l[1]]
                      /\ \A x \in Elements(chan'[Back(l)]) :
                            x.type = "getdata" => x.sporks \subseteq mapSporks'[l[1]]
    BY DEF AnnouncedIsServed, Elements, Back
  <2>1. Back(l) \in Links /\ {Back(l)[1], Back(l)[2]} = {l[1], l[2]} /\ {l[1], l[2]} \in Pairs
    BY BackLink DEF Links
  <2>2. CASE l[1] = n
    <3>1. {l[1], l[2]} \in ps
      BY <2>1, <2>2
    <3> HIDE DEF ps
    <3> QED
      BY <1>1, <2>1, <3>1, DisconnectedStep DEF ps
  <2>3. CASE l[1] # n
    <3>1. mapSporks'[l[1]] = mapSporks[l[1]]
      BY <1>1, <2>3, BackLink DEF NetInv, TypeOK
    <3>2. \A k \in Links : /\ vInventoryToSend'[k] \subseteq vInventoryToSend[k]
                           /\ mapAskFor'[k] \subseteq mapAskFor[k]
                           /\ Elements(chan'[k]) \subseteq Elements(chan[k])
      BY <1>1, DisconnectedStep
    <3> QED
      BY <2>1, <3>1, <3>2 DEF NetInv, AnnouncedIsServed
  <2> QED
    BY <2>2, <2>3
<1> QED
  BY <1>2, <1>3, <1>4 DEF Kept

\* Steps that touch neither the maps nor the queues nor the channels.
LEMMA QuietKept ==
  ASSUME NetInv, UNCHANGED <<managerVars, updating, connected, queueVars, chan, signed>>,
         handling' \in [Nodes -> Received \cup {None}],
         stage' \in [Nodes -> {"ibd", "chain", "synced"}],
         now' \in 1 .. MaxTime
  PROVE  Kept
<1>1. TypeOK'
  BY DEF NetInv, TypeOK, managerVars, queueVars
<1>2. HeldOK'
  BY DEF NetInv, HeldOK, InForce, managerVars
<1>3. AnnouncedIsServed'
  <2>1. \A k \in Links : k[1] \notin Signers => mapAskFor[Back(k)] \subseteq mapSporks[k[1]]
    BY DEF NetInv, AnnouncedIsServed
  <2> QED
    BY <2>1, ServedStep DEF NetInv, managerVars, queueVars
<1> QED
  BY <1>1, <1>2, <1>3 DEF Kept

\* Every step preserves the invariant.
LEMMA NetStep ==
  ASSUME NetInv, [Next]_vars
  PROVE  NetInv'
<1>0. /\ handling \in [Nodes -> Received \cup {None}]
      /\ stage \in [Nodes -> {"ibd", "chain", "synced"}]
      /\ now \in 1 .. MaxTime
  BY DEF NetInv, TypeOK
<1>1. ASSUME NEW n \in Signers, NEW i \in SporkIDs, NEW v \in Values, UpdateSpork(n, i, v)
      PROVE  Kept
  BY <1>1, UpdateSporkKept
<1>2. ASSUME NEW n \in Signers, UpdateSporkStores(n)
      PROVE  Kept
  BY <1>2, UpdateSporkStoresKept
<1>3. ASSUME NEW l \in Links, ReceiveSpork(l)
      PROVE  Kept
  BY <1>3, ReceiveSporkKept
<1>4. ASSUME NEW n \in Nodes, NEW r \in Outside, ReceiveFromOutside(n, r)
      PROVE  Kept
  <2>1. r \in Received
    BY SporkAssumption DEF Outside, Received, Sporks
  <2> QED
    BY <1>0, <1>4, <2>1, QuietKept DEF ReceiveFromOutside
<1>5. ASSUME NEW n \in Nodes, StoreSpork(n)
      PROVE  Kept
  BY <1>5, StoreSporkKept
<1>6. ASSUME NEW n \in Nodes, RejectSpork(n)
      PROVE  Kept
  BY <1>0, <1>6, QuietKept DEF RejectSpork, Handled, boundVars
<1>7. ASSUME NEW l \in Links, ReceiveGetSporks(l) \/ ReceiveGetData(l)
      PROVE  Kept
  BY <1>7, AnswerKept
<1>8. ASSUME NEW l \in Links, ReceiveInv(l)
      PROVE  Kept
  BY <1>8, ReceiveInvKept
<1>9. ASSUME NEW l \in Links, NEW due \in SUBSET mapAskFor[l], SendMessages(l, due)
      PROVE  Kept
  BY <1>9, SendMessagesKept
<1>10. ASSUME NEW p \in Pairs, Connect(p)
       PROVE  Kept
  BY <1>10, ConnectKept
<1>11. ASSUME NEW p \in Pairs, Disconnect(p)
       PROVE  Kept
  BY <1>11, DisconnectKept
<1>12. ASSUME NEW n \in Nodes, Restart(n)
       PROVE  Kept
  BY <1>12, RestartKept
<1>13. ASSUME NEW n \in Nodes, StageReached(n) \/ SyncReset(n)
       PROVE  Kept
  BY <1>0, <1>13, QuietKept DEF StageReached, SyncReset, boundVars
<1>14. ASSUME Tick
       PROVE  Kept
  BY <1>0, <1>14, SporkAssumption, QuietKept DEF Tick
<1>15. ASSUME UNCHANGED vars
       PROVE  Kept
  BY <1>0, <1>15, QuietKept DEF vars, boundVars
<1>16. Kept
  BY <1>1, <1>2, <1>3, <1>4, <1>5, <1>6, <1>7, <1>8, <1>9, <1>10, <1>11, <1>12, <1>13,
     <1>14, <1>15 DEF Next
<1> QED
  BY <1>16, RegisterStep DEF NetInv, Kept

\* The maps, queues and channels keep their types.
THEOREM SporkTypeCorrect == Spec => []TypeOK
<1>1. NetInv => TypeOK
  BY DEF NetInv
<1> QED
  BY <1>1, NetInvInit, NetStep, PTL DEF Spec

\* For any network and any delays: what ProcessSpork announces on a node without
\* the key stays in mapSporks until no announcement or request of it is queued
\* or on its way, so a getdata for it never finds nothing.
THEOREM AnnouncedServed == Spec => []AnnouncedIsServed
<1>1. NetInv => AnnouncedIsServed
  BY DEF NetInv
<1> QED
  BY <1>1, NetInvInit, NetStep, PTL DEF Spec

\* For any network, clocks, bounds and outside messages: mapSporksActive holds
\* only messages whose text the spork key signed, and ProcessSpork on a node
\* without the key replaces a spork only by one with a later time, although it
\* holds no lock between its check and its store.
THEOREM RegisterImplemented == Spec => NewestVerifiedWins
<1>1. Init => Register!Init
  BY DEF Init, Register!Init
<1>2. NetInv /\ [Next]_vars => [Register!Next]_(Register!rvars)
  BY RegisterStep DEF NetInv
<1> QED
  BY <1>1, <1>2, NetInvInit, NetStep, PTL DEF Spec, NewestVerifiedWins
=============================================================================
