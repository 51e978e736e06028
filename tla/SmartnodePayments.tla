------------------------- MODULE SmartnodePayments -------------------------
(***************************************************************************)
(* CSmartnodePayments (smartnode/smartnodepayments.cpp) on one node: the   *)
(* votes of the smartnodes for the payees of coming blocks, this node's    *)
(* own votes, and what the votes say about a block's payees.               *)
(*                                                                         *)
(* Three threads change the tables.  The message handler takes a vote in   *)
(* three critical sections (ReceiveVote, CheckVote, InsertVote).  The      *)
(* thread that connected a block, an RPC thread for example, makes this    *)
(* node's vote (UpdatedBlockTip, ProcessBlock, InsertOwnVote).             *)
(* ThreadSmartnode removes old votes.                                      *)
(*                                                                         *)
(* Abstractions.  AddPayees adds a vote to all its payees at once and      *)
(* CheckAndRemove erases the votes of a height at once, so                 *)
(* mapSmartnodeBlocks is how often each vote is in it, without the order.  *)
(* The order, and hashes, only break ties between payees with equal votes, *)
(* and a tie may go either way.  Protocol versions are current, the block  *)
(* 101 below a vote's height is in the chain (the range of heights that is *)
(* accepted sees to that), and peers send votes that ProcessBlock of some  *)
(* smartnode has signed.  A smartnode's queue position (last payment, age, *)
(* confirmations) is arbitrary.  The answers to requests for votes, and    *)
(* RequestLowDataPaymentBlocks, read the tables only.                      *)
(*                                                                         *)
(* A vote lists PayoutsPerBlock different payees.  ProcessBlock makes such *)
(* votes when no two smartnodes share a collateral address, but nothing    *)
(* checks it in a vote that is received: AddPayees takes the vector as it  *)
(* is and counts the vote twice for a script that is in it twice.          *)
(*                                                                         *)
(* nCachedBlockHeight follows the tip.  In the code it is zero from the    *)
(* start of the node to the end of the initial block download.  The sync   *)
(* does not start in that time, so no vote is taken, made or removed, and  *)
(* the time is left out; with it goes the case that a long sleep or snsync *)
(* next starts the sync too early, until the next block resets it.         *)
(***************************************************************************)
EXTENDS Integers, FiniteSets

CONSTANTS
    Smartnodes,
    Self,               \* the smartnode of this node; not in Smartnodes: no smartnode
    Payees,             \* scripts of collateral addresses
    PayeeOf,            \* the one of each smartnode
    Heights,            \* the heights that are voted for (bounded)
    Rank,               \* by height: order of the smartnodes by score, 1 is first
    PeerVotes,          \* what other smartnodes have signed
    PayoutInterval, PayoutsPerBlock,
    FutureVotes,        \* MNPAYMENTS_FUTURE_VOTES
    SignaturesRequired, SignaturesTotal,
    MinBlocksToStore,   \* nMinBlocksToStore
    NoVote, NoHeight,
    StartHeight,        \* height of the tip at the start
    MaxHeight,          \* bound on it
    MaxReorg,           \* how far the tip may fall behind the highest one
    MaxEvents           \* bound on reorganisations, restarts, crashes, changes of the
                        \* smartnode list and resets of the synchronisation, together

\* Votes of the smartnodes S; the payees of each are distinct (see above).
VotesOf(S) == [smartnode : S, height : Heights,
               payees : {P \in SUBSET Payees : Cardinality(P) = PayoutsPerBlock}]

\* All votes there can be.
Votes == PeerVotes \cup VotesOf({Self} \cap Smartnodes)

ASSUME PaymentsAssumption ==
    /\ IsFiniteSet(Smartnodes) /\ IsFiniteSet(Payees) /\ IsFiniteSet(Heights)
    /\ Heights \subseteq Nat \ {0}
    /\ PayeeOf \in [Smartnodes -> Payees]
    /\ \A s, t \in Smartnodes : PayeeOf[s] = PayeeOf[t] => s = t
    /\ Rank \in [Heights -> [Smartnodes -> Nat \ {0}]]
    /\ PeerVotes \subseteq VotesOf(Smartnodes)
    /\ \A v \in PeerVotes : v.smartnode # Self
    /\ PayoutInterval \in Nat \ {0} /\ PayoutsPerBlock \in Nat \ {0}
    /\ FutureVotes \in Nat /\ PayoutInterval <= FutureVotes
    /\ SignaturesRequired \in Nat \ {0} /\ SignaturesTotal \in Nat \ {0}
    /\ MinBlocksToStore \in Nat \ {0} /\ StartHeight \in Nat
    /\ MaxHeight \in Nat /\ StartHeight <= MaxHeight /\ MaxEvents \in Nat
    /\ NoVote \notin Votes /\ NoHeight \notin Heights

\* No reorganisation, and no loss of blocks in a crash, goes back further than the
\* votes that are kept, 5000 blocks at least.
ASSUME ReorgAssumption == MaxReorg \in Nat /\ MaxReorg <= MinBlocksToStore

VARIABLES
    mapSmartnodePaymentVotes, \* per vote "none", "unverified" or "verified"
    mapSmartnodeBlocks,       \* how often each vote is among the payees' votes
    mapSmartnodesLastVote,    \* height of the last vote of each smartnode
    nCachedBlockHeight,
    top,        \* the highest tip so far
    list,       \* CSmartnodeMan: "unknown", "known" or "enabled"
    stage,      \* CSmartnodeSync: "off", "started", "list" (is synced), "synced"
    handler,    \* the message handler between two critical sections
    voter,      \* the thread in UpdatedBlockTip
    relayed,    \* votes of this node that peers have
    disk,       \* snpayments.dat
    events,     \* how many of the bounded events there were
    crashed     \* one of them was a crash

tables == <<mapSmartnodePaymentVotes, mapSmartnodeBlocks>>
nodeVars == <<mapSmartnodesLastVote, nCachedBlockHeight, top, list, stage>>
threads == <<handler, voter>>
bounds == <<events, crashed>>
vars == <<tables, nodeVars, threads, relayed, disk, bounds>>

Idle == [pc |-> "idle", vote |-> NoVote]

\* The type invariant.
TypeOK ==
    /\ mapSmartnodePaymentVotes \in [Votes -> {"none", "unverified", "verified"}]
    /\ mapSmartnodeBlocks \in [Votes -> Nat]
    /\ mapSmartnodesLastVote \in [Smartnodes -> Heights \cup {NoHeight}]
    /\ nCachedBlockHeight \in 0 .. MaxHeight /\ top \in 0 .. MaxHeight
    /\ list \in [Smartnodes -> {"unknown", "known", "enabled"}]
    /\ stage \in {"off", "started", "list", "synced"}
    /\ handler \in {Idle} \cup [pc : {"check", "insert"}, vote : Votes]
    /\ voter \in {Idle, [pc |-> "vote", vote |-> NoVote]} \cup [pc : {"insert"}, vote : Votes]
    /\ relayed \subseteq Votes
    /\ disk \in [votes : [Votes -> {"none", "unverified", "verified"}],
                 blocks : [Votes -> Nat]]
    /\ events \in 0 .. MaxEvents /\ crashed \in BOOLEAN

-----------------------------------------------------------------------------
(* The smartnode list and the synchronisation *)

Event == events < MaxEvents /\ events' = events + 1

IsSmartnodeListSynced == stage \in {"list", "synced"}

Known == {s \in Smartnodes : list[s] # "unknown"}
Enabled == {s \in Smartnodes : list[s] = "enabled"}

\* GetSmartnodeRank is at most MNPAYMENTS_SIGNATURES_TOTAL.
InTop(s, h) ==
    /\ s \in Enabled
    /\ Cardinality({t \in Enabled : Rank[h][t] <= Rank[h][s]}) <= SignaturesTotal

GetStorageLimit ==
    LET n == (Cardinality(Known) * 5) \div 4
    IN  IF n > MinBlocksToStore THEN n ELSE MinBlocksToStore

-----------------------------------------------------------------------------
(* Payees of a block *)

HasVerifiedPaymentVote(v) == mapSmartnodePaymentVotes[v] = "verified"

\* The votes of the block at height h for the payee p.
VotesFor(h, p) == {v \in Votes : mapSmartnodeBlocks[v] > 0 /\ v.height = h /\ p \in v.payees}

\* vecVoteHashes of that payee: a vote is there as often as it was added.
VoteHashes(h, p) == UNION {{v} \X (1 .. mapSmartnodeBlocks[v]) : v \in VotesFor(h, p)}

GetVoteCount(h, p) == Cardinality(VoteHashes(h, p))

\* vecPayees of the block.
VotedFor(h) == {p \in Payees : VotesFor(h, p) # {}}

(***************************************************************************)
(* The lists GetBestPayees may return: the payees with most votes, ties    *)
(* broken by the order of hashes and arrival.  None if there are too few.  *)
(***************************************************************************)
GetBestPayees(h) ==
    {S \in SUBSET VotedFor(h) :
        /\ Cardinality(S) = PayoutsPerBlock
        /\ \A p \in S, q \in VotedFor(h) \ S : GetVoteCount(h, p) >= GetVoteCount(h, q)}

\* Payees with enough signatures.
Required(h) == {p \in VotedFor(h) : GetVoteCount(h, p) >= SignaturesRequired}

\* Mutant: all payees with enough signatures have to be paid.
IsTransactionValidAll(h, paid) == Required(h) \subseteq paid

(***************************************************************************)
(* IsTransactionValid for a coinbase that pays the set of payees.  The     *)
(* first loop stops counting at PayoutsPerBlock, the second one does not.  *)
(***************************************************************************)
IsTransactionValid(h, paid) ==
    LET n == Cardinality(Required(h))
        foundMinVotes == IF n < PayoutsPerBlock THEN n ELSE PayoutsPerBlock
    IN  foundMinVotes > 0 => Cardinality(Required(h) \cap paid) = foundMinVotes

\* IsScheduled, whatever the ties.
IsScheduled(p, nNotBlockHeight) ==
    \E h \in Heights \ {nNotBlockHeight} :
        /\ h >= nCachedBlockHeight
        /\ h <= nCachedBlockHeight + FutureVotes + PayoutInterval - 1
        /\ GetBestPayees(h) # {}
        /\ \A S \in GetBestPayees(h) : p \in S

\* What GetNextSmartnodesInQueueForPayment may return, as payees.
Winners(h) ==
    {S \in SUBSET {PayeeOf[s] : s \in Enabled} :
        /\ Cardinality(S) = PayoutsPerBlock
        /\ \A p \in S : ~IsScheduled(p, h)}

-----------------------------------------------------------------------------
(* Votes of others *)

(***************************************************************************)
(* SMARTNODEPAYMENTVOTE, first critical section: the vote is in the table  *)
(* from now on, without its signature.  One that is verified is dropped.   *)
(***************************************************************************)
ReceiveVote(v) ==
    /\ handler = Idle
    /\ IsSmartnodeListSynced
    /\ v \in PeerVotes \cup relayed
    /\ ~HasVerifiedPaymentVote(v)
    /\ mapSmartnodePaymentVotes' = [mapSmartnodePaymentVotes EXCEPT ![v] = "unverified"]
    /\ handler' = [pc |-> "check", vote |-> v]
    /\ UNCHANGED <<mapSmartnodeBlocks, nodeVars, voter, relayed, disk, bounds>>

InRange(h) ==
    /\ h >= nCachedBlockHeight - GetStorageLimit
    /\ h <= nCachedBlockHeight + FutureVotes * 2

\* CSmartnodePaymentVote::IsValid: only smartnodes check the ranks of old votes.
IsValid(v) ==
    /\ v.smartnode \in Known
    /\ \/ Self \notin Smartnodes /\ v.height < nCachedBlockHeight
       \/ IsSmartnodeListSynced /\ InTop(v.smartnode, v.height)

\* The checks of the vote, and UpdateLastVote, which remembers one height.
CheckVote ==
    /\ handler.pc = "check"
    /\ LET v == handler.vote
           last == mapSmartnodesLastVote[v.smartnode]
       IN  \/ /\ ~(InRange(v.height) /\ IsValid(v)) \/ last = v.height
              /\ handler' = Idle
              /\ UNCHANGED mapSmartnodesLastVote
           \/ /\ InRange(v.height) /\ IsValid(v) /\ last # v.height
              /\ mapSmartnodesLastVote' =
                     [mapSmartnodesLastVote EXCEPT ![v.smartnode] = v.height]
              /\ handler' = IF HasVerifiedPaymentVote(v) THEN Idle
                            ELSE [handler EXCEPT !.pc = "insert"]
    /\ UNCHANGED <<tables, nCachedBlockHeight, top, list, stage, voter, relayed, disk, bounds>>

\* AddOrUpdatePaymentVote once it has seen that the vote is not verified.
Insert(v) ==
    /\ mapSmartnodePaymentVotes' = [mapSmartnodePaymentVotes EXCEPT ![v] = "verified"]
    /\ mapSmartnodeBlocks' = [mapSmartnodeBlocks EXCEPT ![v] = @ + 1]

InsertVote ==
    /\ handler.pc = "insert"
    /\ Insert(handler.vote)
    /\ handler' = Idle
    /\ UNCHANGED <<nodeVars, voter, relayed, disk, bounds>>

-----------------------------------------------------------------------------
(* This node's votes *)

\* Heights of a tip on another branch, or after a crash.
Shorter == {h \in {nCachedBlockHeight - 1, nCachedBlockHeight} \cap Nat :
                h >= top - MaxReorg}

\* The new tip, and whether a vote is due.
NewTip(h) ==
    LET nFutureBlock == h + FutureVotes + PayoutInterval
    IN  /\ voter = Idle
        /\ nCachedBlockHeight' = h
        /\ top' = IF h > top THEN h ELSE top
        /\ voter' = IF nFutureBlock % PayoutInterval = 0 /\ nFutureBlock \in Heights
                    THEN [voter EXCEPT !.pc = "vote"] ELSE Idle

\* UpdatedBlockTip: one block more, or another branch.
UpdatedBlockTip ==
    /\ \/ /\ nCachedBlockHeight < MaxHeight
          /\ NewTip(nCachedBlockHeight + 1)
          /\ UNCHANGED events
       \/ /\ Event
          /\ \E h \in Shorter : NewTip(h)
    /\ UNCHANGED <<tables, mapSmartnodesLastVote, list, stage, handler, relayed, disk,
                   crashed>>

NextVoteHeight == nCachedBlockHeight + FutureVotes + PayoutInterval

\* Mutant: the vote is relayed before it is stored.
ProcessBlockRelaysFirst ==
    /\ voter.pc = "vote" /\ stage = "synced"
    /\ Self \in Smartnodes /\ InTop(Self, NextVoteHeight)
    /\ \E S \in Winners(NextVoteHeight) :
          LET v == [smartnode |-> Self, height |-> NextVoteHeight, payees |-> S]
          IN  /\ ~HasVerifiedPaymentVote(v)
              /\ voter' = [pc |-> "insert", vote |-> v]
              /\ relayed' = relayed \cup {v}
    /\ UNCHANGED <<tables, nodeVars, handler, disk, bounds>>

\* ProcessBlock up to the check in AddOrUpdatePaymentVote.
ProcessBlock ==
    /\ voter.pc = "vote"
    /\ \/ /\ \/ stage # "synced" \/ Self \notin Smartnodes
             \/ ~InTop(Self, NextVoteHeight) \/ Winners(NextVoteHeight) = {}
          /\ voter' = Idle
       \/ /\ stage = "synced" /\ Self \in Smartnodes /\ InTop(Self, NextVoteHeight)
          /\ \E S \in Winners(NextVoteHeight) :
                LET v == [smartnode |-> Self, height |-> NextVoteHeight, payees |-> S]
                IN  voter' = IF HasVerifiedPaymentVote(v) THEN Idle
                             ELSE [pc |-> "insert", vote |-> v]
    /\ UNCHANGED <<tables, nodeVars, handler, relayed, disk, bounds>>

\* The vote is relayed after it was stored.
InsertOwnVote ==
    /\ voter.pc = "insert"
    /\ Insert(voter.vote)
    /\ relayed' = IF stage = "synced" THEN relayed \cup {voter.vote} ELSE relayed
    /\ voter' = Idle
    /\ UNCHANGED <<nodeVars, handler, disk, bounds>>

-----------------------------------------------------------------------------
(* Cleanup, the node around it, and restarts *)

\* Mutant: the difference is taken the wrong way round.
IsOldReversed(v, h) == v.height - h > GetStorageLimit

IsOld(v, h) == h - v.height > GetStorageLimit

\* Votes of the table that are old when the tip is at height h.
OldVotes(h) == {v \in Votes : mapSmartnodePaymentVotes[v] # "none" /\ IsOld(v, h)}

\* Mutant: the votes of a payee go one by one.
RemoveOneByOne(old) ==
    /\ mapSmartnodePaymentVotes' =
           [v \in Votes |-> IF v \in old THEN "none" ELSE mapSmartnodePaymentVotes[v]]
    /\ mapSmartnodeBlocks' = [v \in Votes |-> IF \E w \in old : w.height = v.height
                                              THEN mapSmartnodeBlocks[v] - 1
                                              ELSE mapSmartnodeBlocks[v]]

\* Mutant: the blocks are kept.
RemoveVotesOnly(old) ==
    /\ mapSmartnodePaymentVotes' =
           [v \in Votes |-> IF v \in old THEN "none" ELSE mapSmartnodePaymentVotes[v]]
    /\ UNCHANGED mapSmartnodeBlocks

\* The loop of CheckAndRemove: each old vote takes its whole block with it.
Remove(old) ==
    /\ mapSmartnodePaymentVotes' =
           [v \in Votes |-> IF v \in old THEN "none" ELSE mapSmartnodePaymentVotes[v]]
    /\ mapSmartnodeBlocks' = [v \in Votes |-> IF \E w \in old : w.height = v.height
                                              THEN 0 ELSE mapSmartnodeBlocks[v]]

(***************************************************************************)
(* CheckAndRemove of ThreadSmartnode.  It reads nCachedBlockHeight again   *)
(* for every vote, and UpdatedBlockTip stores it without a lock: in the    *)
(* second case that happens during the loop, which then sees the new       *)
(* height for some of the votes only.                                      *)
(***************************************************************************)
CheckAndRemove ==
    /\ stage # "off"   \* IsSmartNodeSyncStarted
    /\ \/ Remove(OldVotes(nCachedBlockHeight)) /\ UNCHANGED <<nCachedBlockHeight, top, voter>>
       \/ /\ nCachedBlockHeight < MaxHeight
          /\ NewTip(nCachedBlockHeight + 1)
          /\ \E late \in SUBSET OldVotes(nCachedBlockHeight + 1) :
                Remove(OldVotes(nCachedBlockHeight) \cup late)
    /\ UNCHANGED <<mapSmartnodesLastVote, list, stage, handler, relayed, disk, bounds>>

\* A broadcast, a ping or a check changes the state of a smartnode.
ListChange ==
    /\ Event
    /\ \E s \in Smartnodes, state \in {"unknown", "known", "enabled"} :
           /\ list[s] # state
           /\ list' = [list EXCEPT ![s] = state]
    /\ UNCHANGED <<tables, mapSmartnodesLastVote, nCachedBlockHeight, top, stage, threads,
                   relayed, disk, crashed>>

SyncProceeds ==
    /\ stage # "synced"
    /\ stage' = CASE stage = "off" -> "started"
                  [] stage = "started" -> "list"
                  [] stage = "list" -> "synced"
    /\ UNCHANGED <<tables, mapSmartnodesLastVote, nCachedBlockHeight, top, list, threads,
                   relayed, disk, bounds>>

SyncReset ==
    /\ Event
    /\ stage # "off" /\ stage' = "off"
    /\ UNCHANGED <<tables, mapSmartnodesLastVote, nCachedBlockHeight, top, list, threads,
                   relayed, disk, crashed>>

\* What a start leaves: mapSmartnodesLastVote is not in the file.
Started ==
    /\ mapSmartnodesLastVote' = [s \in Smartnodes |-> NoHeight]
    /\ stage' = "off"
    /\ handler' = Idle /\ voter' = Idle
    /\ UNCHANGED <<list, relayed>>

\* PrepareShutdown saves the tables once the threads are stopped.  The next action
\* finds the initial block download over and nCachedBlockHeight at the tip again.
Restart ==
    /\ Event
    /\ handler = Idle /\ voter = Idle
    /\ disk' = [votes |-> mapSmartnodePaymentVotes, blocks |-> mapSmartnodeBlocks]
    /\ Started
    /\ UNCHANGED <<tables, nCachedBlockHeight, top, crashed>>

\* After a crash the file is that of the last shutdown, the chain a little shorter.
Crash ==
    /\ Event
    /\ ~crashed /\ crashed' = TRUE
    /\ mapSmartnodePaymentVotes' = disk.votes
    /\ mapSmartnodeBlocks' = disk.blocks
    /\ nCachedBlockHeight' \in Shorter
    /\ Started
    /\ UNCHANGED <<top, disk>>

-----------------------------------------------------------------------------
NoVotes == [v \in Votes |-> "none"]
NoBlocks == [v \in Votes |-> 0]

Init ==
    /\ mapSmartnodePaymentVotes = NoVotes
    /\ mapSmartnodeBlocks = NoBlocks
    /\ mapSmartnodesLastVote = [s \in Smartnodes |-> NoHeight]
    /\ nCachedBlockHeight = StartHeight /\ top = StartHeight
    /\ list = [s \in Smartnodes |-> "enabled"]
    /\ stage = "off"
    /\ handler = Idle /\ voter = Idle
    /\ relayed = {}
    /\ disk = [votes |-> NoVotes, blocks |-> NoBlocks]
    /\ events = 0 /\ crashed = FALSE

Next ==
    \/ \E v \in Votes : ReceiveVote(v)
    \/ CheckVote \/ InsertVote
    \/ UpdatedBlockTip \/ ProcessBlock \/ InsertOwnVote
    \/ CheckAndRemove
    \/ ListChange \/ SyncProceeds \/ SyncReset
    \/ Restart \/ Crash

Spec == Init /\ [][Next]_vars

-----------------------------------------------------------------------------
(* Properties *)

(***************************************************************************)
(* "Avoid processing same vote multiple times": each vote counts once for  *)
(* each of its payees, although AddOrUpdatePaymentVote looks for the vote  *)
(* before it takes the locks under which it adds it, and two threads add   *)
(* votes.  It rests on the order of storing and relaying: nobody can send  *)
(* this node a vote of its own before that vote is stored.  A crash breaks *)
(* it, since the peers then know votes that the node has lost.             *)
(***************************************************************************)
CountedOnce == ~crashed => \A v \in Votes : mapSmartnodeBlocks[v] <= 1

(***************************************************************************)
(* The two tables agree: every vote that counts is stored with its         *)
(* signature, so that this node can send peers what its decision rests on, *)
(* and a stored vote for a block to come counts, although verification,    *)
(* removal and this node's own vote interleave.                            *)
(***************************************************************************)
CountedIffStored ==
    \A v \in Votes :
        /\ mapSmartnodeBlocks[v] > 0 => HasVerifiedPaymentVote(v)
        /\ HasVerifiedPaymentVote(v) /\ v.height >= nCachedBlockHeight
               => mapSmartnodeBlocks[v] > 0

(***************************************************************************)
(* A block that FillBlockPayee fills from the votes passes                 *)
(* IsTransactionValid on every node with the same votes, in whatever order *)
(* they came there, also when more payees than a block pays have enough    *)
(* signatures or too few have.                                             *)
(***************************************************************************)
MinersAgree == \A h \in Heights : \A S \in GetBestPayees(h) : IsTransactionValid(h, S)

(***************************************************************************)
(* A vote that counts for a block that is not yet there is never dropped,  *)
(* whatever the cleanup, reorganisations, the list and restarts do, unless *)
(* the node crashes.                                                       *)
(***************************************************************************)
VotesKept ==
    [][\A v \in Votes :
         mapSmartnodeBlocks[v] > 0 /\ mapSmartnodeBlocks'[v] = 0 =>
             crashed' # crashed \/ nCachedBlockHeight' > v.height]_vars
=============================================================================
