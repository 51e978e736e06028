-------------------------- MODULE SmartRewardsPair --------------------------
(***************************************************************************)
(* Two nodes with the same chain.  They connect the same blocks and differ *)
(* in when FlushStateToDisk writes the rewards: the hourly write follows   *)
(* each node's own clock, cache sizes follow its settings.  The variables  *)
(* of SmartRewards are those of the first node; the second one is the      *)
(* instance Peer.                                                          *)
(***************************************************************************)
EXTENDS SmartRewards

VARIABLES
    cache2, height2, round2, rounds2, result2, undoResult2, db2, chain2, coins2,
    onDisk2, job2, flushing2, due2, happened2, faults2, writes2

peerVars == <<cache2, height2, round2, rounds2, result2, undoResult2, db2, chain2,
              coins2, onDisk2, job2, flushing2, due2, happened2, faults2, writes2>>

Peer == INSTANCE SmartRewards WITH
    cache <- cache2, height <- height2, round <- round2, rounds <- rounds2,
    result <- result2, undoResult <- undoResult2, db <- db2, chain <- chain2,
    coins <- coins2, onDisk <- onDisk2, job <- job2, flushing <- flushing2,
    due <- due2, happened <- happened2, faults <- faults2, writes <- writes2

PairInit == Init /\ Peer!Init /\ db2 = db

\* Both take the same step of the same block.
BlockStep ==
    \/ \E b \in Blocks : ConnectTip(b) /\ Peer!ConnectTip(b)
    \/ ProcessInput /\ Peer!ProcessInput
    \/ ProcessOutput /\ Peer!ProcessOutput
    \/ CommitBlock /\ Peer!CommitBlock

\* Each writes when it does.
Write ==
    \/ (\E full \in BOOLEAN : SyncCached(full)) /\ UNCHANGED peerVars
    \/ FlushCoins /\ UNCHANGED peerVars
    \/ (\E full \in BOOLEAN : Peer!SyncCached(full)) /\ UNCHANGED vars
    \/ Peer!FlushCoins /\ UNCHANGED vars

PairNext == BlockStep \/ Write

PairSpec == PairInit /\ [][PairNext]_<<vars, peerVars>>

(***************************************************************************)
(* Nodes with the same chain have the same payouts for a round, so the     *)
(* coinbases they fill have the same payees: EvaluateRound sorts them "to  *)
(* make sure the slices are the same network wide".                        *)
(***************************************************************************)
SamePayouts ==
    result # NoResult /\ result2 # NoResult /\ result.round.number = result2.round.number =>
        result.payouts = result2.payouts
=============================================================================
