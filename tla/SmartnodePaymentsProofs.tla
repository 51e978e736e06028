---------------------- MODULE SmartnodePaymentsProofs ----------------------
(***************************************************************************)
(* Proofs about SmartnodePayments.                                         *)
(***************************************************************************)
EXTENDS SmartnodePayments, FiniteSetTheorems, TLAPS

-----------------------------------------------------------------------------
(* What the operators return *)

\* The heights of the votes are natural numbers, and votes of this node differ from those of peers.
LEMMA VotesType ==
  /\ \A v \in Votes : v.height \in Nat /\ v.height \in Heights /\ v.smartnode \in Smartnodes
  /\ \A v \in Votes : v.payees \subseteq Payees
  /\ \A v \in PeerVotes : v.smartnode # Self
  /\ PeerVotes \subseteq Votes
  BY PaymentsAssumption DEF Votes, VotesOf

\* At least nMinBlocksToStore blocks are kept, whatever the list.
LEMMA StorageLimit ==
  /\ GetStorageLimit \in Nat
  /\ GetStorageLimit >= MinBlocksToStore
<1>1. IsFiniteSet(Known)
  BY PaymentsAssumption, FS_Subset DEF Known
<1>2. Cardinality(Known) \in Nat
  BY <1>1, FS_CardinalityType
<1>3. (Cardinality(Known) * 5) \div 4 \in Nat
  BY <1>2
<1> QED
  BY <1>3, PaymentsAssumption DEF GetStorageLimit

\* A vote that is old is older than nMinBlocksToStore.
LEMMA OldVotesOld ==
  ASSUME NEW h \in Nat, NEW v \in OldVotes(h)
  PROVE  v \in Votes /\ h > v.height + MinBlocksToStore
  BY StorageLimit, VotesType, PaymentsAssumption DEF OldVotes, IsOld

\* Payees that have enough signatures, or are among the best, can be counted.
LEMMA PayeesFinite ==
  ASSUME NEW S \in SUBSET Payees
  PROVE  IsFiniteSet(S) /\ Cardinality(S) \in Nat
  BY PaymentsAssumption, FS_Subset, FS_CardinalityType

-----------------------------------------------------------------------------
(* Types *)

\* The height this node is about to vote for can be voted for.
VoterOK ==
  /\ voter.pc = "vote" => NextVoteHeight \in Heights
  /\ voter.pc = "insert" => voter.vote.smartnode = Self

TypeInv == TypeOK /\ VoterOK

LEMMA TypeInit == Init => TypeInv
<1> SUFFICES ASSUME Init
             PROVE  TypeInv
  OBVIOUS
<1>1. crashed \in BOOLEAN
  BY DEF Init
<1>2. nCachedBlockHeight \in 0 .. MaxHeight /\ top \in 0 .. MaxHeight /\ events \in 0 .. MaxEvents
  BY PaymentsAssumption DEF Init
<1>3. voter.pc = "idle"
  BY DEF Init, Idle
<1>4. /\ NoVotes \in [Votes -> {"none", "unverified", "verified"}]
      /\ NoBlocks \in [Votes -> Nat]
  BY DEF NoVotes, NoBlocks
<1> QED
  BY <1>1, <1>2, <1>3, <1>4 DEF Init, TypeInv, TypeOK, VoterOK

\* A vote of the message handler is inserted, or one of this node.
LEMMA InsertType ==
  ASSUME TypeOK, NEW v \in Votes, Insert(v)
  PROVE  /\ mapSmartnodePaymentVotes' \in [Votes -> {"none", "unverified", "verified"}]
         /\ mapSmartnodeBlocks' \in [Votes -> Nat]
  BY DEF Insert, TypeOK

LEMMA RemoveType ==
  ASSUME TypeOK, NEW old, Remove(old)
  PROVE  /\ mapSmartnodePaymentVotes' \in [Votes -> {"none", "unverified", "verified"}]
         /\ mapSmartnodeBlocks' \in [Votes -> Nat]
  BY DEF Remove, TypeOK

LEMMA NewTipType ==
  ASSUME TypeInv, NEW h \in 0 .. MaxHeight, NewTip(h)
  PROVE  /\ nCachedBlockHeight' \in 0 .. MaxHeight /\ top' \in 0 .. MaxHeight
         /\ voter' \in {Idle, [pc |-> "vote", vote |-> NoVote]}
         /\ VoterOK'
<1>1. nCachedBlockHeight' \in 0 .. MaxHeight /\ top' \in 0 .. MaxHeight
  BY DEF NewTip, TypeInv, TypeOK
<1>2. voter' = Idle \/ voter' = [pc |-> "vote", vote |-> NoVote]
  BY DEF NewTip, Idle
<1>3. voter'.pc = "vote" => h + FutureVotes + PayoutInterval \in Heights
  BY DEF NewTip, Idle
<1> QED
  BY <1>1, <1>2, <1>3 DEF NewTip, VoterOK, NextVoteHeight, Idle

\* The vote that ProcessBlock makes is one of this node's votes.
LEMMA OwnVoteType ==
  ASSUME TypeInv, voter.pc = "vote", Self \in Smartnodes, NEW S \in Winners(NextVoteHeight)
  PROVE  [smartnode |-> Self, height |-> NextVoteHeight, payees |-> S] \in Votes
<1>1. NextVoteHeight \in Heights
  BY DEF TypeInv, VoterOK
<1>2. S \subseteq Payees /\ Cardinality(S) = PayoutsPerBlock
  BY PaymentsAssumption DEF Winners, Enabled
<1> QED
  BY <1>1, <1>2 DEF Votes, VotesOf

LEMMA TypeStep ==
  ASSUME TypeInv, [Next]_vars
  PROVE  TypeInv'
<1> USE DEF TypeInv
<1>1. ASSUME NEW v \in Votes, ReceiveVote(v)
      PROVE  TypeInv'
  BY <1>1 DEF ReceiveVote, TypeOK, VoterOK, NextVoteHeight, nodeVars, bounds, Idle
<1>2. CASE CheckVote
  <2>1. handler.vote \in Votes /\ handler.vote.height \in Heights \cup {NoHeight}
    BY <1>2, VotesType DEF CheckVote, TypeOK, Idle
  <2>2. handler' = Idle \/ handler' = [handler EXCEPT !.pc = "insert"]
    BY <1>2 DEF CheckVote
  <2>3. handler' \in {Idle} \cup [pc : {"check", "insert"}, vote : Votes]
    BY <2>1, <2>2, <1>2 DEF TypeOK, CheckVote, Idle
  <2>4. mapSmartnodesLastVote' \in [Smartnodes -> Heights \cup {NoHeight}]
    BY <2>1, <1>2 DEF TypeOK, CheckVote
  <2> QED
    BY <2>3, <2>4, <1>2 DEF CheckVote, TypeOK, VoterOK, NextVoteHeight, tables, bounds
<1>3. CASE InsertVote
  <2>1. handler.vote \in Votes
    BY <1>3 DEF InsertVote, TypeOK, Idle
  <2> QED
    BY <2>1, <1>3, InsertType DEF InsertVote, TypeOK, VoterOK, NextVoteHeight, nodeVars, bounds
<1>4. CASE UpdatedBlockTip
  <2>1. PICK h \in 0 .. MaxHeight : NewTip(h)
    BY <1>4, PaymentsAssumption DEF UpdatedBlockTip, TypeOK, Shorter
  <2>2. events' \in 0 .. MaxEvents
    BY <1>4, PaymentsAssumption DEF UpdatedBlockTip, TypeOK, Event
  <2> QED
    BY <2>1, <2>2, <1>4, NewTipType DEF UpdatedBlockTip, TypeOK, tables
<1>5. CASE ProcessBlock
  <2>1. CASE voter' = Idle
    BY <2>1, <1>5 DEF ProcessBlock, TypeOK, VoterOK, NextVoteHeight, tables, nodeVars, bounds, Idle
  <2>2. CASE voter' # Idle
    <3>1. PICK S \in Winners(NextVoteHeight) :
             /\ Self \in Smartnodes /\ voter.pc = "vote"
             /\ voter' = [pc |-> "insert", vote |->
                   [smartnode |-> Self, height |-> NextVoteHeight, payees |-> S]]
      BY <2>2, <1>5 DEF ProcessBlock
    <3>2. voter'.vote \in Votes /\ voter'.vote.smartnode = Self
      BY <3>1, OwnVoteType
    <3> QED
      BY <3>1, <3>2, <1>5 DEF ProcessBlock, TypeOK, VoterOK, NextVoteHeight, tables, nodeVars, bounds
  <2> QED
    BY <2>1, <2>2
<1>6. CASE InsertOwnVote
  <2>1. voter.vote \in Votes
    BY <1>6 DEF InsertOwnVote, TypeOK, Idle
  <2> QED
    BY <2>1, <1>6, InsertType DEF InsertOwnVote, TypeOK, VoterOK, NextVoteHeight, nodeVars, bounds, Idle
<1>7. CASE CheckAndRemove
  <2>1. PICK old : Remove(old)
    BY <1>7 DEF CheckAndRemove
  <2>2. CASE UNCHANGED <<nCachedBlockHeight, top, voter>>
    BY <2>1, <2>2, <1>7, RemoveType DEF CheckAndRemove, TypeOK, VoterOK, NextVoteHeight, bounds
  <2>3. CASE nCachedBlockHeight < MaxHeight /\ NewTip(nCachedBlockHeight + 1)
    <3>1. nCachedBlockHeight + 1 \in 0 .. MaxHeight
      BY <2>3, PaymentsAssumption DEF TypeOK
    <3> QED
      BY <2>1, <2>3, <3>1, <1>7, RemoveType, NewTipType DEF CheckAndRemove, TypeOK, bounds
  <2> QED
    BY <2>2, <2>3, <1>7 DEF CheckAndRemove
<1>8. CASE ListChange \/ SyncProceeds \/ SyncReset
  <2>1. events' \in 0 .. MaxEvents
    BY <1>8, PaymentsAssumption DEF ListChange, SyncProceeds, SyncReset, Event, bounds, TypeOK
  <2>2. list' \in [Smartnodes -> {"unknown", "known", "enabled"}]
    BY <1>8 DEF ListChange, SyncProceeds, SyncReset, TypeOK
  <2>3. stage' \in {"off", "started", "list", "synced"}
    BY <1>8 DEF ListChange, SyncProceeds, SyncReset, TypeOK
  <2> QED
    BY <2>1, <2>2, <2>3, <1>8
       DEF ListChange, SyncProceeds, SyncReset, TypeOK, VoterOK, NextVoteHeight, tables, threads, bounds
<1>9. CASE Restart \/ Crash
  <2>0. crashed' \in BOOLEAN
    BY <1>9, Zenon DEF Restart, Crash, TypeOK
  <2>1. events' \in 0 .. MaxEvents
    BY <1>9, PaymentsAssumption DEF Restart, Crash, Event, TypeOK
  <2>2. nCachedBlockHeight' \in 0 .. MaxHeight /\ top' \in 0 .. MaxHeight
    BY <1>9, PaymentsAssumption DEF Restart, Crash, Shorter, TypeOK
  <2>3. /\ mapSmartnodePaymentVotes' \in [Votes -> {"none", "unverified", "verified"}]
        /\ mapSmartnodeBlocks' \in [Votes -> Nat]
        /\ disk' \in [votes : [Votes -> {"none", "unverified", "verified"}],
                      blocks : [Votes -> Nat]]
    BY <1>9 DEF Restart, Crash, TypeOK, tables
  <2> QED
    BY <2>0, <2>1, <2>2, <2>3, <1>9 DEF Restart, Crash, Started, TypeOK, VoterOK, NextVoteHeight, Idle
<1>10. CASE UNCHANGED vars
  BY <1>10 DEF vars, TypeOK, VoterOK, NextVoteHeight, tables, nodeVars, threads, bounds
<1> QED
  BY <1>1, <1>2, <1>3, <1>4, <1>5, <1>6, <1>7, <1>8, <1>9, <1>10 DEF Next

\* Every table, thread and file keeps its type, for all smartnodes, votes and bounds.
THEOREM PaymentsTypeCorrect == Spec => []TypeOK
<1>1. TypeInv => TypeOK
  BY DEF TypeInv
<1> QED
  BY <1>1, TypeInit, TypeStep, PTL DEF Spec

-----------------------------------------------------------------------------
(* The tables and the threads *)

(***************************************************************************)
(* What the two tables, in memory or in the file, have to do with each     *)
(* other.  A vote counts only if it is stored.  One that is stored and     *)
(* does not count lost its block to the cleanup, so it is old.             *)
(***************************************************************************)
Agree(votes, blocks) ==
  \A v \in Votes :
    /\ blocks[v] > 0 => votes[v] = "verified"
    /\ votes[v] = "verified" /\ blocks[v] = 0 => top > v.height + MinBlocksToStore

\* The tip is never far behind the highest one.
TipOK == nCachedBlockHeight <= top /\ top <= nCachedBlockHeight + MaxReorg

\* Peers send their own votes, and those of this node that they were sent.
HandlerOK == handler.pc # "idle" => handler.vote \in PeerVotes \cup relayed

(***************************************************************************)
(* As long as nothing was lost in a crash: peers have only votes of this   *)
(* node that are stored or old, and no thread is about to insert a vote    *)
(* that counts already or that another thread may insert.                  *)
(***************************************************************************)
RelayedStored ==
  \A v \in relayed : HasVerifiedPaymentVote(v) \/ top > v.height + MinBlocksToStore

VoterAlone ==
  voter.pc = "insert" => voter.vote \notin relayed /\ mapSmartnodeBlocks[voter.vote] = 0

HandlerAlone == handler.pc = "insert" => mapSmartnodeBlocks[handler.vote] = 0

AtMostOnce == \A v \in Votes : mapSmartnodeBlocks[v] <= 1

NothingLost == RelayedStored /\ VoterAlone /\ HandlerAlone /\ AtMostOnce

PaymentsInv ==
  /\ TypeInv
  /\ Agree(mapSmartnodePaymentVotes, mapSmartnodeBlocks)
  /\ Agree(disk.votes, disk.blocks)
  /\ TipOK
  /\ HandlerOK
  /\ ~crashed => NothingLost

LEMMA PaymentsInit == Init => PaymentsInv
<1> SUFFICES ASSUME Init
             PROVE  PaymentsInv
  OBVIOUS
<1>1. TypeInv
  BY TypeInit
<1>2. /\ Agree(mapSmartnodePaymentVotes, mapSmartnodeBlocks)
      /\ Agree(disk.votes, disk.blocks)
  BY DEF Init, Agree, NoVotes, NoBlocks
<1>3. TipOK
  BY PaymentsAssumption, ReorgAssumption DEF Init, TipOK
<1>4. HandlerOK /\ NothingLost
  BY DEF Init, HandlerOK, NothingLost, RelayedStored, VoterAlone, HandlerAlone, AtMostOnce,
         NoBlocks, Idle
<1> QED
  BY <1>1, <1>2, <1>3, <1>4 DEF PaymentsInv

\* The highest tip only rises, so old votes stay old.
LEMMA TopRises ==
  ASSUME TypeInv, [Next]_vars
  PROVE  top \in Nat /\ top' \in Nat /\ top <= top'
<1>1. top \in Nat /\ top' \in Nat
  BY TypeStep, PaymentsAssumption DEF TypeInv, TypeOK
<1>2. ASSUME NEW h, NewTip(h)
      PROVE  (top' = h /\ h > top) \/ top' = top
  BY <1>2 DEF NewTip
<1>3. ASSUME NEW v \in Votes, ReceiveVote(v)
      PROVE  top' = top
  BY <1>3 DEF ReceiveVote, nodeVars
<1>4. CASE CheckVote \/ InsertVote \/ ProcessBlock \/ InsertOwnVote \/ ListChange
             \/ SyncProceeds \/ SyncReset \/ Restart \/ Crash
  BY <1>1, <1>4 DEF CheckVote, InsertVote, ProcessBlock, InsertOwnVote, ListChange, SyncProceeds,
     SyncReset, Restart, Crash, nodeVars
<1>5. CASE UpdatedBlockTip
  BY <1>1, <1>2, <1>5 DEF UpdatedBlockTip
<1>6. CASE CheckAndRemove
  BY <1>1, <1>2, <1>6 DEF CheckAndRemove
<1>7. CASE UNCHANGED vars
  BY <1>1, <1>7 DEF vars, nodeVars
<1> QED
  BY <1>1, <1>3, <1>4, <1>5, <1>6, <1>7 DEF Next

\* The tip stays close to the highest one.
LEMMA NewTipOK ==
  ASSUME TypeInv, TipOK, NEW h \in Nat, NewTip(h), h = nCachedBlockHeight + 1 \/ h \in Shorter
  PROVE  TipOK'
<1>1. top \in Nat /\ nCachedBlockHeight \in Nat
  BY PaymentsAssumption DEF TypeInv, TypeOK
<1> QED
  BY <1>1, ReorgAssumption DEF TipOK, NewTip, Shorter

LEMMA TipStep ==
  ASSUME TypeInv, TipOK, [Next]_vars
  PROVE  TipOK'
<1>0. top \in Nat /\ nCachedBlockHeight \in Nat
  BY PaymentsAssumption DEF TypeInv, TypeOK
<1>1. ASSUME NEW v \in Votes, ReceiveVote(v)
      PROVE  TipOK'
  BY <1>1 DEF ReceiveVote, nodeVars, TipOK
<1>2. CASE CheckVote \/ InsertVote \/ ProcessBlock \/ InsertOwnVote \/ ListChange
             \/ SyncProceeds \/ SyncReset \/ Restart \/ UNCHANGED vars
  BY <1>2 DEF CheckVote, InsertVote, ProcessBlock, InsertOwnVote, ListChange, SyncProceeds,
     SyncReset, Restart, nodeVars, vars, TipOK
<1>3. CASE UpdatedBlockTip
  <2>1. PICK h \in Nat : NewTip(h) /\ (h = nCachedBlockHeight + 1 \/ h \in Shorter)
    BY <1>0, <1>3 DEF UpdatedBlockTip, Shorter
  <2> QED
    BY <2>1, NewTipOK
<1>4. CASE CheckAndRemove
  <2>1. CASE UNCHANGED <<nCachedBlockHeight, top, voter>>
    BY <2>1 DEF TipOK
  <2>2. CASE NewTip(nCachedBlockHeight + 1)
    BY <1>0, <2>2, NewTipOK
  <2> QED
    BY <1>4, <2>1, <2>2 DEF CheckAndRemove
<1>5. CASE Crash
  <2>1. PICK h \in Shorter : nCachedBlockHeight' = h
    BY <1>5 DEF Crash
  <2>2. h \in Nat /\ h <= nCachedBlockHeight /\ h >= top - MaxReorg
    BY <1>0 DEF Shorter
  <2>3. top' = top
    BY <1>5 DEF Crash
  <2> QED
    BY <1>0, <2>1, <2>2, <2>3, ReorgAssumption DEF TipOK
<1> QED
  BY <1>1, <1>2, <1>3, <1>4, <1>5 DEF Next

\* Whatever a cleanup erases is old, measured by the tip it leaves.
LEMMA RemovedOld ==
  ASSUME TypeInv, TipOK, CheckAndRemove
  PROVE  \E old : /\ Remove(old)
                  /\ \A w \in old : /\ w \in Votes
                                    /\ nCachedBlockHeight' > w.height + MinBlocksToStore
                                    /\ top' > w.height + MinBlocksToStore
<1>0. nCachedBlockHeight \in Nat /\ top \in Nat
  BY PaymentsAssumption DEF TypeInv, TypeOK
<1>1. CASE Remove(OldVotes(nCachedBlockHeight)) /\ UNCHANGED <<nCachedBlockHeight, top, voter>>
  <2>1. ASSUME NEW w \in OldVotes(nCachedBlockHeight)
        PROVE  /\ w \in Votes
               /\ nCachedBlockHeight' > w.height + MinBlocksToStore
               /\ top' > w.height + MinBlocksToStore
    <3>1. w \in Votes /\ nCachedBlockHeight > w.height + MinBlocksToStore
      BY <1>0, OldVotesOld
    <3> QED
      BY <1>0, <1>1, <3>1, VotesType, PaymentsAssumption DEF TipOK
  <2> QED
    BY <1>1, <2>1
<1>2. CASE /\ NewTip(nCachedBlockHeight + 1)
           /\ \E late \in SUBSET OldVotes(nCachedBlockHeight + 1) :
                 Remove(OldVotes(nCachedBlockHeight) \cup late)
  <2>1. PICK late \in SUBSET OldVotes(nCachedBlockHeight + 1) :
                 Remove(OldVotes(nCachedBlockHeight) \cup late)
    BY <1>2
  <2>2. nCachedBlockHeight' = nCachedBlockHeight + 1 /\ top' >= nCachedBlockHeight + 1 /\ top' \in Nat
    BY <1>0, <1>2 DEF NewTip
  <2>3. ASSUME NEW w \in OldVotes(nCachedBlockHeight) \cup late
        PROVE  /\ w \in Votes
               /\ nCachedBlockHeight' > w.height + MinBlocksToStore
               /\ top' > w.height + MinBlocksToStore
    <3>1. w \in Votes /\ nCachedBlockHeight + 1 > w.height + MinBlocksToStore
      <4>1. CASE w \in OldVotes(nCachedBlockHeight)
        BY <1>0, <4>1, OldVotesOld, VotesType, PaymentsAssumption
      <4>2. CASE w \in late
        BY <1>0, <4>2, OldVotesOld
      <4> QED
        BY <4>1, <4>2
    <3> QED
      BY <1>0, <2>2, <3>1, VotesType, PaymentsAssumption
  <2> QED
    BY <2>1, <2>3
<1> QED
  BY <1>1, <1>2 DEF CheckAndRemove

\* The tables agree after a vote was inserted.
LEMMA InsertAgrees ==
  ASSUME TypeInv, Agree(mapSmartnodePaymentVotes, mapSmartnodeBlocks),
         NEW v \in Votes, Insert(v), top' = top
  PROVE  Agree(mapSmartnodePaymentVotes, mapSmartnodeBlocks)'
<1> SUFFICES ASSUME NEW w \in Votes
             PROVE  /\ mapSmartnodeBlocks'[w] > 0 => mapSmartnodePaymentVotes'[w] = "verified"
                    /\ mapSmartnodePaymentVotes'[w] = "verified" /\ mapSmartnodeBlocks'[w] = 0
                          => top' > w.height + MinBlocksToStore
  BY DEF Agree
<1>1. CASE w = v
  BY <1>1 DEF Insert, TypeInv, TypeOK
<1>2. CASE w # v
  BY <1>2 DEF Insert, TypeInv, TypeOK, Agree
<1> QED
  BY <1>1, <1>2

\* The tables agree after the cleanup, which takes whole blocks with an old vote.
LEMMA RemoveAgrees ==
  ASSUME TypeInv, Agree(mapSmartnodePaymentVotes, mapSmartnodeBlocks),
         NEW old, Remove(old), \A w \in old : w \in Votes /\ top' > w.height + MinBlocksToStore,
         top \in Nat, top' \in Nat, top <= top'
  PROVE  Agree(mapSmartnodePaymentVotes, mapSmartnodeBlocks)'
<1> SUFFICES ASSUME NEW v \in Votes
             PROVE  /\ mapSmartnodeBlocks'[v] > 0 => mapSmartnodePaymentVotes'[v] = "verified"
                    /\ mapSmartnodePaymentVotes'[v] = "verified" /\ mapSmartnodeBlocks'[v] = 0
                          => top' > v.height + MinBlocksToStore
  BY DEF Agree
<1>1. CASE \E w \in old : w.height = v.height
  BY <1>1 DEF Remove
<1>2. CASE ~\E w \in old : w.height = v.height
  <2>1. mapSmartnodeBlocks'[v] = mapSmartnodeBlocks[v]
    BY <1>2 DEF Remove
  <2>2. v \notin old /\ mapSmartnodePaymentVotes'[v] = mapSmartnodePaymentVotes[v]
    BY <1>2 DEF Remove
  <2>3. v.height \in Nat
    BY VotesType
  <2> QED
    BY <2>1, <2>2, <2>3, PaymentsAssumption DEF Agree
<1> QED
  BY <1>1, <1>2

\* Old votes stay old, so what is not touched keeps agreeing.
LEMMA AgreeStays ==
  ASSUME NEW votes, NEW blocks, Agree(votes, blocks),
         top \in Nat, top' \in Nat, top <= top'
  PROVE  \A v \in Votes :
           /\ blocks[v] > 0 => votes[v] = "verified"
           /\ votes[v] = "verified" /\ blocks[v] = 0 => top' > v.height + MinBlocksToStore
  BY VotesType, PaymentsAssumption DEF Agree

LEMMA AgreeStep ==
  ASSUME PaymentsInv, [Next]_vars
  PROVE  /\ Agree(mapSmartnodePaymentVotes, mapSmartnodeBlocks)'
         /\ Agree(disk.votes, disk.blocks)'
<1> USE DEF PaymentsInv
<1>0. top \in Nat /\ top' \in Nat /\ top <= top'
  BY TopRises
<1>a. UNCHANGED disk => Agree(disk.votes, disk.blocks)'
  BY <1>0, AgreeStays DEF Agree
<1>b. UNCHANGED tables => Agree(mapSmartnodePaymentVotes, mapSmartnodeBlocks)'
  BY <1>0, AgreeStays DEF Agree, tables
<1>1. ASSUME NEW v \in Votes, ReceiveVote(v)
      PROVE  /\ Agree(mapSmartnodePaymentVotes, mapSmartnodeBlocks)'
             /\ Agree(disk.votes, disk.blocks)'
  <2>1. /\ UNCHANGED mapSmartnodeBlocks /\ UNCHANGED disk /\ top' = top
        /\ mapSmartnodePaymentVotes' = [mapSmartnodePaymentVotes EXCEPT ![v] = "unverified"]
        /\ mapSmartnodePaymentVotes[v] # "verified"
    BY <1>1 DEF ReceiveVote, HasVerifiedPaymentVote, nodeVars
  <2> QED
    BY <1>a, <2>1 DEF Agree, TypeInv, TypeOK
<1>2. CASE CheckVote \/ UpdatedBlockTip \/ ProcessBlock \/ ListChange \/ SyncProceeds
             \/ SyncReset \/ UNCHANGED vars
  <2>1. UNCHANGED disk /\ UNCHANGED tables
    BY <1>2 DEF CheckVote, UpdatedBlockTip, ProcessBlock, ListChange, SyncProceeds, SyncReset, vars
  <2> QED
    BY <1>a, <1>b, <2>1
<1>3. CASE InsertVote
  <2>1. handler.vote \in Votes /\ Insert(handler.vote) /\ top' = top /\ UNCHANGED disk
    BY <1>3 DEF InsertVote, TypeInv, TypeOK, Idle, nodeVars
  <2> QED
    BY <1>a, <2>1, InsertAgrees
<1>4. CASE InsertOwnVote
  <2>1. voter.vote \in Votes /\ Insert(voter.vote) /\ top' = top /\ UNCHANGED disk
    BY <1>4 DEF InsertOwnVote, TypeInv, TypeOK, Idle, nodeVars
  <2> QED
    BY <1>a, <2>1, InsertAgrees
<1>5. CASE CheckAndRemove
  <2>1. PICK old : /\ Remove(old)
                   /\ \A w \in old : w \in Votes /\ top' > w.height + MinBlocksToStore
    BY <1>5, RemovedOld
  <2>2. UNCHANGED disk
    BY <1>5 DEF CheckAndRemove
  <2> QED
    BY <1>0, <1>a, <2>1, <2>2, RemoveAgrees
<1>6. CASE Restart
  BY <1>6 DEF Restart, Agree, tables
<1>7. CASE Crash
  BY <1>7 DEF Crash, Agree
<1> QED
  BY <1>1, <1>2, <1>3, <1>4, <1>5, <1>6, <1>7 DEF Next

LEMMA HandlerStep ==
  ASSUME TypeInv, HandlerOK, [Next]_vars
  PROVE  HandlerOK'
<1>1. ASSUME NEW v \in Votes, ReceiveVote(v)
      PROVE  HandlerOK'
  BY <1>1 DEF ReceiveVote, HandlerOK
<1>2. CASE CheckVote
  <2>1. handler' = Idle \/ handler' = [handler EXCEPT !.pc = "insert"]
    BY <1>2 DEF CheckVote
  <2>2. handler.pc # "idle" /\ relayed' = relayed
    BY <1>2 DEF CheckVote
  <2>3. handler'.pc # "idle" => handler'.vote = handler.vote
    BY <2>1, <2>2 DEF TypeInv, TypeOK, Idle
  <2> QED
    BY <2>2, <2>3 DEF HandlerOK
<1>3. CASE InsertVote \/ Restart \/ Crash
  BY <1>3 DEF InsertVote, Restart, Crash, Started, HandlerOK, Idle
<1>4. CASE InsertOwnVote
  BY <1>4 DEF InsertOwnVote, HandlerOK
<1>5. CASE UpdatedBlockTip \/ ProcessBlock \/ CheckAndRemove \/ ListChange \/ SyncProceeds
             \/ SyncReset \/ UNCHANGED vars
  BY <1>5 DEF UpdatedBlockTip, ProcessBlock, CheckAndRemove, ListChange, SyncProceeds, SyncReset,
     vars, threads, HandlerOK
<1> QED
  BY <1>1, <1>2, <1>3, <1>4, <1>5 DEF Next

\* A vote that this node makes now is for a block that is not old by any measure.
LEMMA OwnVoteNew ==
  ASSUME TypeInv, TipOK
  PROVE  /\ NextVoteHeight \in Nat
         /\ ~(top > NextVoteHeight + MinBlocksToStore)
<1>1. nCachedBlockHeight \in Nat /\ top \in Nat
  BY PaymentsAssumption DEF TypeInv, TypeOK
<1> QED
  BY <1>1, PaymentsAssumption, ReorgAssumption DEF TipOK, NextVoteHeight

\* The threads never have the same vote in hand.
LEMMA Apart ==
  ASSUME TypeInv, HandlerOK, VoterAlone, handler.pc # "idle", voter.pc = "insert"
  PROVE  handler.vote # voter.vote
  BY VotesType DEF TypeInv, VoterOK, HandlerOK, VoterAlone

LEMMA LostStep ==
  ASSUME PaymentsInv, [Next]_vars, ~crashed'
  PROVE  NothingLost'
<1> USE DEF PaymentsInv
<1>0. top \in Nat /\ top' \in Nat /\ top <= top'
  BY TopRises
<1>a. ~crashed
  <2>1. ASSUME NEW v \in Votes, ReceiveVote(v)
        PROVE  crashed' = crashed
    BY <2>1 DEF ReceiveVote, bounds
  <2>2. CASE Crash
    BY <2>2 DEF Crash
  <2>3. CASE CheckVote \/ InsertVote \/ UpdatedBlockTip \/ ProcessBlock \/ InsertOwnVote
               \/ CheckAndRemove \/ ListChange \/ SyncProceeds \/ SyncReset \/ Restart
               \/ UNCHANGED vars
    BY <2>3 DEF CheckVote, InsertVote, UpdatedBlockTip, ProcessBlock, InsertOwnVote,
       CheckAndRemove, ListChange, SyncProceeds, SyncReset, Restart, vars, bounds
  <2> QED
    BY <2>1, <2>2, <2>3 DEF Next
<1>b. RelayedStored /\ VoterAlone /\ HandlerAlone /\ AtMostOnce
  BY <1>a DEF NothingLost
<1>c. relayed \subseteq Votes /\ \A v \in Votes : v.height \in Nat
  BY VotesType DEF TypeInv, TypeOK
<1>d. MinBlocksToStore \in Nat
  BY PaymentsAssumption
<1>1. ASSUME NEW v \in Votes, ReceiveVote(v)
      PROVE  NothingLost'
  <2>1. /\ UNCHANGED <<mapSmartnodeBlocks, relayed, voter>> /\ top' = top
        /\ mapSmartnodePaymentVotes' = [mapSmartnodePaymentVotes EXCEPT ![v] = "unverified"]
        /\ ~HasVerifiedPaymentVote(v)
        /\ handler' = [pc |-> "check", vote |-> v]
    BY <1>1 DEF ReceiveVote, nodeVars
  <2>2. RelayedStored'
    BY <1>b, <1>c, <2>1 DEF RelayedStored, HasVerifiedPaymentVote, TypeInv, TypeOK
  <2>3. VoterAlone' /\ HandlerAlone' /\ AtMostOnce'
    BY <1>b, <2>1 DEF VoterAlone, HandlerAlone, AtMostOnce
  <2> QED
    BY <2>2, <2>3 DEF NothingLost
<1>2. CASE CheckVote
  <2>1. UNCHANGED <<tables, top, voter, relayed>>
    BY <1>2 DEF CheckVote
  <2>2. RelayedStored' /\ VoterAlone' /\ AtMostOnce'
    BY <1>b, <2>1 DEF RelayedStored, HasVerifiedPaymentVote, VoterAlone, AtMostOnce, tables
  <2>3. ASSUME handler'.pc = "insert"
        PROVE  mapSmartnodeBlocks'[handler'.vote] = 0
    <3>1. /\ handler.vote \in Votes /\ handler.pc = "check"
          /\ handler' = [handler EXCEPT !.pc = "insert"]
          /\ ~HasVerifiedPaymentVote(handler.vote)
      BY <1>2, <2>3 DEF CheckVote, Idle, TypeInv, TypeOK
    <3>2. handler'.vote = handler.vote
      BY <3>1 DEF TypeInv, TypeOK
    <3>3. mapSmartnodeBlocks[handler.vote] \in Nat
      BY <3>1 DEF TypeInv, TypeOK
    <3> QED
      BY <3>1, <3>2, <3>3, <2>1 DEF Agree, HasVerifiedPaymentVote, tables
  <2> QED
    BY <2>2, <2>3 DEF NothingLost, HandlerAlone
<1>3. CASE InsertVote
  <2>1. /\ handler.vote \in Votes /\ Insert(handler.vote) /\ top' = top
        /\ mapSmartnodeBlocks[handler.vote] = 0
        /\ UNCHANGED <<voter, relayed>> /\ handler' = Idle
    BY <1>3, <1>b DEF InsertVote, TypeInv, TypeOK, Idle, nodeVars, HandlerAlone
  <2>2. RelayedStored'
    BY <1>b, <1>c, <2>1 DEF RelayedStored, HasVerifiedPaymentVote, Insert, TypeInv, TypeOK
  <2>3. AtMostOnce'
    BY <1>b, <2>1 DEF AtMostOnce, Insert, TypeInv, TypeOK
  <2>4. VoterAlone'
    <3> SUFFICES ASSUME voter.pc = "insert"
                 PROVE  voter.vote \notin relayed /\ mapSmartnodeBlocks'[voter.vote] = 0
      BY <2>1 DEF VoterAlone
    <3>1. handler.vote # voter.vote
      BY <1>3, <1>b, Apart DEF InsertVote
    <3>2. voter.vote \in Votes
      BY DEF TypeInv, TypeOK, Idle
    <3> QED
      BY <1>b, <2>1, <3>1, <3>2 DEF VoterAlone, Insert, TypeInv, TypeOK
  <2>5. HandlerAlone'
    BY <2>1 DEF HandlerAlone, Idle
  <2> QED
    BY <2>2, <2>3, <2>4, <2>5 DEF NothingLost
<1>4. CASE UpdatedBlockTip
  <2>1. /\ UNCHANGED <<tables, handler, relayed>>
        /\ \E h : NewTip(h)
    BY <1>4 DEF UpdatedBlockTip
  <2>2. voter'.pc # "insert"
    BY <2>1 DEF NewTip, Idle
  <2>3. RelayedStored'
    BY <1>0, <1>b, <1>c, <1>d, <2>1 DEF RelayedStored, HasVerifiedPaymentVote, tables
  <2> QED
    BY <1>b, <2>1, <2>2, <2>3 DEF NothingLost, VoterAlone, HandlerAlone, AtMostOnce, tables
<1>5. CASE ProcessBlock
  <2>1. UNCHANGED <<tables, handler, relayed>> /\ top' = top
    BY <1>5 DEF ProcessBlock, nodeVars
  <2>2. RelayedStored' /\ HandlerAlone' /\ AtMostOnce'
    BY <1>b, <2>1 DEF RelayedStored, HasVerifiedPaymentVote, HandlerAlone, AtMostOnce, tables
  <2>3. ASSUME voter'.pc = "insert"
        PROVE  voter'.vote \notin relayed /\ mapSmartnodeBlocks[voter'.vote] = 0
    <3> DEFINE own(S) == [smartnode |-> Self, height |-> NextVoteHeight, payees |-> S]
    <3>a. voter' # Idle
      BY <2>3 DEF Idle
    <3>b. PICK S \in Winners(NextVoteHeight) :
             /\ Self \in Smartnodes /\ voter.pc = "vote"
             /\ voter' = IF HasVerifiedPaymentVote(own(S)) THEN Idle
                         ELSE [pc |-> "insert", vote |-> own(S)]
      BY <3>a, <1>5, Zenon DEF ProcessBlock
    <3> DEFINE v == own(S)
    <3>1. /\ Self \in Smartnodes /\ voter.pc = "vote"
          /\ ~HasVerifiedPaymentVote(v)
          /\ voter' = [pc |-> "insert", vote |-> v]
      BY <3>a, <3>b
    <3>2. v \in Votes
      BY <3>1, OwnVoteType
    <3>3. ~(top > v.height + MinBlocksToStore)
      BY OwnVoteNew
    <3>4. v \notin relayed
      BY <1>b, <3>1, <3>3 DEF RelayedStored
    <3>5. mapSmartnodeBlocks[v] = 0
      BY <3>1, <3>2 DEF Agree, HasVerifiedPaymentVote, TypeInv, TypeOK
    <3> QED
      BY <3>1, <3>4, <3>5
  <2> QED
    BY <2>1, <2>2, <2>3 DEF NothingLost, VoterAlone, tables
<1>6. CASE InsertOwnVote
  <2>1. /\ voter.vote \in Votes /\ Insert(voter.vote) /\ top' = top
        /\ mapSmartnodeBlocks[voter.vote] = 0
        /\ relayed' \subseteq relayed \cup {voter.vote} /\ UNCHANGED handler
        /\ voter.pc = "insert" /\ voter' = Idle
    BY <1>6, <1>b DEF InsertOwnVote, TypeInv, TypeOK, Idle, nodeVars, VoterAlone
  <2>2. RelayedStored'
    BY <1>b, <1>c, <2>1 DEF RelayedStored, HasVerifiedPaymentVote, Insert, TypeInv, TypeOK
  <2>3. AtMostOnce'
    BY <1>b, <2>1 DEF AtMostOnce, Insert, TypeInv, TypeOK
  <2>4. HandlerAlone'
    <3> SUFFICES ASSUME handler.pc = "insert"
                 PROVE  mapSmartnodeBlocks'[handler.vote] = 0
      BY <2>1 DEF HandlerAlone
    <3>1. handler.vote # voter.vote
      BY <2>1, <1>b, Apart
    <3>2. handler.vote \in Votes
      BY DEF TypeInv, TypeOK, Idle
    <3> QED
      BY <1>b, <2>1, <3>1, <3>2 DEF HandlerAlone, Insert, TypeInv, TypeOK
  <2>5. VoterAlone'
    BY <2>1 DEF VoterAlone, Idle
  <2> QED
    BY <2>2, <2>3, <2>4, <2>5 DEF NothingLost
<1>7. CASE CheckAndRemove
  <2>1. PICK old : /\ Remove(old)
                   /\ \A w \in old : w \in Votes /\ top' > w.height + MinBlocksToStore
    BY <1>7, RemovedOld
  <2>2. UNCHANGED <<handler, relayed>>
    BY <1>7 DEF CheckAndRemove
  <2>3. voter' = voter \/ voter'.pc # "insert"
    BY <1>7 DEF CheckAndRemove, NewTip, Idle
  <2>4. RelayedStored'
    BY <1>0, <1>b, <1>c, <1>d, <2>1, <2>2 DEF RelayedStored, HasVerifiedPaymentVote, Remove
  <2>5. ASSUME NEW v \in Votes
        PROVE  mapSmartnodeBlocks'[v] = mapSmartnodeBlocks[v] \/ mapSmartnodeBlocks'[v] = 0
    BY <2>1 DEF Remove
  <2>6. AtMostOnce'
    BY <1>b, <2>5 DEF AtMostOnce
  <2>7. VoterAlone'
    <3>1. voter.pc = "insert" => voter.vote \in Votes
      BY DEF TypeInv, TypeOK, Idle
    <3> QED
      BY <1>b, <2>2, <2>3, <2>5, <3>1 DEF VoterAlone
  <2>8. HandlerAlone'
    <3>1. handler.pc = "insert" => handler.vote \in Votes
      BY DEF TypeInv, TypeOK, Idle
    <3> QED
      BY <1>b, <2>2, <2>5, <3>1 DEF HandlerAlone
  <2> QED
    BY <2>4, <2>6, <2>7, <2>8 DEF NothingLost
<1>8. CASE ListChange \/ SyncProceeds \/ SyncReset \/ UNCHANGED vars
  <2>1. UNCHANGED <<tables, top, handler, voter, relayed>>
    BY <1>8 DEF ListChange, SyncProceeds, SyncReset, vars, nodeVars, threads
  <2> QED
    BY <1>b, <2>1 DEF NothingLost, RelayedStored, HasVerifiedPaymentVote, VoterAlone, HandlerAlone,
       AtMostOnce, tables
<1>9. CASE Restart
  <2>1. UNCHANGED <<tables, top, relayed>> /\ handler' = Idle /\ voter' = Idle
    BY <1>9 DEF Restart, Started
  <2> QED
    BY <1>b, <2>1 DEF NothingLost, RelayedStored, HasVerifiedPaymentVote, VoterAlone, HandlerAlone,
       AtMostOnce, tables, Idle
<1>10. CASE Crash
  BY <1>10 DEF Crash
<1> QED
  BY <1>1, <1>2, <1>3, <1>4, <1>5, <1>6, <1>7, <1>8, <1>9, <1>10 DEF Next

LEMMA PaymentsStep ==
  ASSUME PaymentsInv, [Next]_vars
  PROVE  PaymentsInv'
<1>1. TypeInv'
  BY TypeStep DEF PaymentsInv
<1>2. TipOK' /\ HandlerOK'
  BY TipStep, HandlerStep DEF PaymentsInv
<1>3. ~crashed' => NothingLost'
  BY LostStep
<1> QED
  BY <1>1, <1>2, <1>3, AgreeStep DEF PaymentsInv

LEMMA PaymentsInvariant == Spec => []PaymentsInv
  BY PaymentsInit, PaymentsStep, PTL DEF Spec

(***************************************************************************)
(* Although AddOrUpdatePaymentVote looks for a vote before it takes the    *)
(* locks under which it adds it, no vote is counted twice, unless the node *)
(* has crashed.                                                            *)
(***************************************************************************)
THEOREM VotesCountedOnce == Spec => []CountedOnce
<1>1. PaymentsInv => CountedOnce
  BY DEF PaymentsInv, NothingLost, AtMostOnce, CountedOnce
<1> QED
  BY <1>1, PaymentsInvariant, PTL

\* mapSmartnodeBlocks and mapSmartnodePaymentVotes agree on the blocks to come.
THEOREM TablesAgree == Spec => []CountedIffStored
<1>1. PaymentsInv => CountedIffStored
  <2> SUFFICES ASSUME PaymentsInv, NEW v \in Votes
               PROVE  /\ mapSmartnodeBlocks[v] > 0 => HasVerifiedPaymentVote(v)
                      /\ HasVerifiedPaymentVote(v) /\ v.height >= nCachedBlockHeight
                            => mapSmartnodeBlocks[v] > 0
    BY DEF CountedIffStored
  <2>1. /\ nCachedBlockHeight \in Nat /\ top \in Nat /\ mapSmartnodeBlocks[v] \in Nat
        /\ v.height \in Nat /\ MinBlocksToStore \in Nat
    BY VotesType, PaymentsAssumption DEF PaymentsInv, TypeInv, TypeOK
  <2>2. top <= nCachedBlockHeight + MinBlocksToStore
    BY <2>1, ReorgAssumption DEF PaymentsInv, TipOK
  <2> QED
    BY <2>1, <2>2 DEF PaymentsInv, Agree, HasVerifiedPaymentVote
<1> QED
  BY <1>1, PaymentsInvariant, PTL

\* Only a crash, or a tip that has passed the block, makes a vote that counts disappear.
THEOREM VotesStay == Spec => VotesKept
<1> DEFINE Kept == \A v \in Votes :
                     mapSmartnodeBlocks[v] > 0 /\ mapSmartnodeBlocks'[v] = 0 =>
                       crashed' # crashed \/ nCachedBlockHeight' > v.height
<1>1. ASSUME PaymentsInv, [Next]_vars
      PROVE  Kept
  <2> USE DEF PaymentsInv
  <2> SUFFICES ASSUME NEW v \in Votes, mapSmartnodeBlocks[v] > 0, mapSmartnodeBlocks'[v] = 0
               PROVE  crashed' # crashed \/ nCachedBlockHeight' > v.height
    OBVIOUS
  <2>0. mapSmartnodeBlocks \in [Votes -> Nat]
    BY <1>1 DEF TypeInv, TypeOK
  <2>1. ASSUME NEW w, Insert(w)
        PROVE  FALSE
    BY <2>0, <2>1 DEF Insert
  <2>2. ~UNCHANGED mapSmartnodeBlocks
    BY <2>0
  <2>3. CASE CheckAndRemove
    <3>1. PICK old : /\ Remove(old)
                     /\ \A w \in old : /\ w \in Votes
                                       /\ nCachedBlockHeight' > w.height + MinBlocksToStore
      BY <1>1, <2>3, RemovedOld
    <3>2. PICK w \in old : w.height = v.height
      BY <2>2, <3>1 DEF Remove
    <3>3. nCachedBlockHeight' \in Nat
      BY <1>1, TypeStep, PaymentsAssumption DEF TypeInv, TypeOK
    <3> QED
      BY <3>1, <3>2, <3>3, VotesType, PaymentsAssumption
  <2>4. CASE Crash
    BY <2>4 DEF Crash
  <2>5. ASSUME NEW w \in Votes, ReceiveVote(w)
        PROVE  FALSE
    BY <2>2, <2>5 DEF ReceiveVote
  <2>6. CASE InsertVote \/ InsertOwnVote
    BY <2>1, <2>6 DEF InsertVote, InsertOwnVote
  <2>7. CASE CheckVote \/ UpdatedBlockTip \/ ProcessBlock \/ ListChange \/ SyncProceeds
               \/ SyncReset \/ Restart \/ UNCHANGED vars
    BY <2>2, <2>7 DEF CheckVote, UpdatedBlockTip, ProcessBlock, ListChange, SyncProceeds, SyncReset,
       Restart, vars, tables
  <2> QED
    BY <1>1, <2>3, <2>4, <2>5, <2>6, <2>7 DEF Next
<1>2. ASSUME PaymentsInv, [Next]_vars
      PROVE  [Kept]_vars
  BY <1>1, <1>2
<1> QED
  BY <1>2, PaymentsInvariant, PTL DEF VotesKept, Spec

-----------------------------------------------------------------------------
(* Miners and validators *)

\* There are finitely many votes, so the votes of a payee can be counted.
LEMMA VotesFinite == IsFiniteSet(Votes)
<1> DEFINE P == {Q \in SUBSET Payees : Cardinality(Q) = PayoutsPerBlock}
           D == Smartnodes \X (Heights \X P)
           R == VotesOf(Smartnodes)
           f == [t \in D |-> [smartnode |-> t[1], height |-> t[2][1], payees |-> t[2][2]]]
<1>1. IsFiniteSet(P)
  <2>1. IsFiniteSet(SUBSET Payees) /\ P \in SUBSET (SUBSET Payees)
    BY FS_SUBSET, PaymentsAssumption
  <2> HIDE DEF P
  <2> QED
    BY <2>1, FS_Subset
<1>2. IsFiniteSet(D)
  <2> HIDE DEF P
  <2>1. IsFiniteSet(Heights \X P)
    BY <1>1, FS_Product, PaymentsAssumption
  <2> QED
    BY <2>1, FS_Product, PaymentsAssumption
<1>3. f \in Surjection(D, R)
  <2>0. R = [smartnode : Smartnodes, height : Heights, payees : P]
    BY DEF VotesOf
  <2> HIDE DEF P, R
  <2>1. f \in [D -> R]
    BY <2>0
  <2>2. ASSUME NEW r \in R
        PROVE  \E t \in D : f[t] = r
    <3>1. <<r.smartnode, <<r.height, r.payees>>>> \in D
      BY <2>0
    <3>2. f[<<r.smartnode, <<r.height, r.payees>>>>] = r
      BY <2>0, <3>1
    <3> QED
      BY <3>1, <3>2
  <2> QED
    BY <2>1, <2>2 DEF Surjection
<1>4. IsFiniteSet(R)
  <2> HIDE DEF D, R, f
  <2> QED
    BY <1>2, <1>3, FS_Surjection
<1>5. Votes \in SUBSET R
  BY PaymentsAssumption DEF Votes, VotesOf
<1> HIDE DEF R
<1> QED
  BY <1>4, <1>5, FS_Subset

LEMMA VoteCountType ==
  ASSUME TypeOK, NEW h, NEW p
  PROVE  GetVoteCount(h, p) \in Nat
<1> DEFINE V == VotesFor(h, p)
           f == [v \in V |-> {v} \X (1 .. mapSmartnodeBlocks[v])]
           T == {{v} \X (1 .. mapSmartnodeBlocks[v]) : v \in V}
<1>1. IsFiniteSet(V) /\ V \subseteq Votes
  <2>1. V \in SUBSET Votes
    BY DEF VotesFor
  <2> HIDE DEF V
  <2> QED
    BY <2>1, VotesFinite, FS_Subset
<1>2. f \in Surjection(V, T)
  <2> HIDE DEF V
  <2> QED
    BY DEF Surjection
<1>3. IsFiniteSet(T)
  <2> HIDE DEF V, f, T
  <2> QED
    BY <1>1, <1>2, FS_Surjection
<1>4. ASSUME NEW t \in T
      PROVE  IsFiniteSet(t)
  <2>1. PICK v \in V : t = {v} \X (1 .. mapSmartnodeBlocks[v])
    OBVIOUS
  <2>2. mapSmartnodeBlocks[v] \in Int
    BY <1>1 DEF TypeOK
  <2>3. \A n \in Int : IsFiniteSet(1 .. n)
    BY FS_Interval
  <2>4. IsFiniteSet({v})
    BY FS_Singleton
  <2> QED
    BY <2>1, <2>2, <2>3, <2>4, FS_Product
<1>5. IsFiniteSet(UNION T)
  <2> HIDE DEF T
  <2> QED
    BY <1>3, <1>4, FS_UNION
<1> QED
  BY <1>5, FS_CardinalityType DEF GetVoteCount, VoteHashes

(***************************************************************************)
(* Best payees either all have enough signatures, or are all that have,    *)
(* and in both cases as many of them are paid as IsTransactionValid asks   *)
(* for.                                                                    *)
(***************************************************************************)
LEMMA BestPayeesValid ==
  ASSUME TypeOK, NEW h \in Heights, NEW S \in GetBestPayees(h)
  PROVE  IsTransactionValid(h, S)
<1>1. /\ S \subseteq VotedFor(h) /\ Cardinality(S) = PayoutsPerBlock
      /\ \A p \in S, q \in VotedFor(h) \ S : GetVoteCount(h, p) >= GetVoteCount(h, q)
  BY DEF GetBestPayees
<1>2. Required(h) \subseteq VotedFor(h) /\ VotedFor(h) \subseteq Payees
  BY DEF Required, VotedFor
<1>3. /\ IsFiniteSet(S) /\ IsFiniteSet(Required(h)) /\ Cardinality(Required(h)) \in Nat
  BY <1>1, <1>2, PayeesFinite
<1>4. PayoutsPerBlock \in Nat
  BY PaymentsAssumption
<1>5. CASE Required(h) \subseteq S
  <2>1. Required(h) \cap S = Required(h)
    BY <1>5
  <2>2. Cardinality(Required(h)) <= PayoutsPerBlock
    BY <1>1, <1>3, <1>5, FS_Subset
  <2>3. Cardinality(Required(h) \cap S) = Cardinality(Required(h))
    BY <2>1
  <2> QED
    BY <1>3, <1>4, <2>2, <2>3 DEF IsTransactionValid
<1>6. CASE ~(Required(h) \subseteq S)
  <2>1. PICK q \in Required(h) : q \in VotedFor(h) \ S
    BY <1>2, <1>6
  <2>2. GetVoteCount(h, q) >= SignaturesRequired /\ GetVoteCount(h, q) \in Nat
    BY <2>1, VoteCountType DEF Required
  <2>3. ASSUME NEW p \in S
        PROVE  p \in Required(h)
    <3>1. GetVoteCount(h, p) >= GetVoteCount(h, q) /\ GetVoteCount(h, p) \in Nat
      BY <1>1, <2>1, VoteCountType
    <3>2. GetVoteCount(h, p) >= SignaturesRequired
      BY <2>2, <3>1, PaymentsAssumption
    <3> QED
      BY <1>1, <3>2 DEF Required
  <2>4. Required(h) \cap S = S
    BY <2>3
  <2>5. PayoutsPerBlock <= Cardinality(Required(h))
    BY <1>1, <1>3, <2>3, FS_Subset
  <2> QED
    BY <1>1, <1>3, <1>4, <2>4, <2>5 DEF IsTransactionValid
<1> QED
  BY <1>5, <1>6

\* Every block filled from the votes is valid for every node that has the same votes.
THEOREM FilledBlocksValid == Spec => []MinersAgree
<1>1. TypeOK => MinersAgree
  BY BestPayeesValid DEF MinersAgree
<1> QED
  BY <1>1, PaymentsTypeCorrect, PTL
=============================================================================
