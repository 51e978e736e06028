# A verification project for SmartCash Core

SmartCash Core is a full node for the SmartCash chain: a Bitcoin Core derivative
to which the repository adds *smartnodes* (nodes with a collateral that provide
services), *InstantSend* (transaction locks voted on by smartnodes), *sporks*
(switches signed by the project), *SmartRewards* (payouts to idle balances) and
the hive and mining payments.  This directory holds TLA+ models of that added
logic, TLC runs over small instances of them, and TLAPS proofs.

Check a run with `tlc -config MCVotes.cfg MCInstantSend` and the proofs of a module
with `tlapm InstantSendProofs.tla`; the modules with proofs are `InstantSendProofs`,
`InstantSendLocksProofs`, `InstantSendRivalsProofs`, `SmartnodeSyncProofs`,
`SporkProofs`, `SmartRewardsProofs`, `SmartRewardsPaymentsProofs` and
`SmartnodePaymentsProofs`.  `PROJECT.json` lists the runs, maps every definition to the
lines it models and lists hazards, findings and theorems.

## 1. Inventory

Paths are relative to `src/src/`.

| Component | State | Operations | Interacts with | What is hard |
|---|---|---|---|---|
| InstantSend (`smartnode/instantx.*`) | candidates, voted and locked outpoints, accepted and rejected requests, votes, orphan votes, cached height; guarded by `cs_instantsend` | `ProcessTxLockRequest`, `Vote`, `ProcessTxLockVote`, `ResolveConflicts`, `CheckAndRemove`, `SyncTransaction` | message handler, wallet and RPC threads, memory pool, block connection, smartnode ranks, sporks | a copy used after an unlock, conflicting votes and locks, orphan votes, expiry against reorganisations |
| Smartnode sync (`smartnode/smartnodesync.*`) | stage, attempt counter, three times; no lock | `ProcessTick`, `UpdatedBlockTip`, `ProcessMessage`, `Reset`, `Fail`, `SwitchToNextAsset` | smartnode thread, block tips, `snsync`, peers, fulfilled requests | races on the stage, retries blocked by remembered requests, liveness |
| Fulfilled requests (`smartnode/netfulfilledman.*`) | address and request to expiry time, saved in `netfulfilled.dat` | add, query, remove, clean up | sync, payments, voting | outlives a restart |
| Sporks (`smartnode/spork.*`) | active spork per id, known sporks by hash | `ProcessSpork`, `UpdateSpork`, `IsSporkActive` | inventory messages, InstantSend, payments | convergence of all nodes, restarts, equal times |
| Smartnode list (`smartnode/smartnodeman.*`, `smartnode.*`) | smartnodes and their states, seen broadcasts and pings, verification requests | broadcasts, pings, `Check`, verification, ranks | sync, payments, InstantSend | recovery of a state, messages out of order |
| Smartnode payments (`smartnode/smartnodepayments.*`) | payment votes, payees per height, last vote of each smartnode; two locks, the height without one; saved in `snpayments.dat` | `ProcessMessage`, `AddOrUpdatePaymentVote`, `ProcessBlock`, `CheckAndRemove`, `FillBlockPayee`, `IsTransactionValid` | message handler, thread that connects blocks, smartnode thread, list, sync, validation | a check before the lock it belongs to, a height that moves during a loop, two tables that must agree |
| Active smartnode (`smartnode/activesmartnode.*`) | state of this node's smartnode, last ping | `ManageState`, pings | list, sync | restarts, expiry races |
| SmartRewards (`smartrewards/*`) | entries per address, counters of the round, finished rounds and their lists, in a cache and a database | `ProcessInput`, `ProcessOutput`, `CommitBlock`, `EvaluateRound`, `GetPayments`, their undo, `SyncCached` | block connection and disconnection, `FlushStateToDisk`, mining and validation of coinbases | counters kept apart from what they count, undo, half-processed blocks, a crash between the two databases, entries erased by a write |
| Hive and mining payments (`smarthive/*`, `smartmining/*`) | none | reward split by height | validation | boundaries between reward phases, rounding |
| SmartVoting (`smartvoting/*`) | proposals and votes | | | disabled: every call is commented out as `WIP-VOTING` |
| Validation and memory pool (`validation.cpp`, `txmempool.*`) | chain, coins, pool; `cs_main` | `AcceptToMemoryPool`, `CheckBlock`, `ConnectTip`, `DisconnectTip` | all of the above | flags cached across the release of `cs_main` |

Not modelled, now or later: scripts, cryptography and Zerocoin, the databases, the
peer-to-peer transport, the GUI, SAPI's HTTP layer, ZeroMQ and vendored code.
They are inherited, pure I/O, or out of a model checker's reach.

What makes each component correct:

- InstantSend: locks are backed by enough votes, belong to a live candidate, agree
  with the memory pool, cover a transaction's inputs together, survive until the
  coin is spent deep enough; the node never votes for two rivals; blocks that
  conflict with a lock are refused.
- Sync: no stage is skipped and the sync always completes.
- Sporks: nodes that can talk end up with the same newest value, and none goes
  back to an older one.
- List: a smartnode's state recovers.
- Payments: every vote counts once and for as long as it is needed, what counts can
  be shown to others, and nodes with the same votes accept each other's blocks.
- SmartRewards: the rewards follow the chain, no address is credited with coins it
  does not have, each round has each eligible address due once, and nodes with the
  same chain have the same addresses due.

## 2. Plan

In the order in which the parts matter to the money the system moves:

1. `InstantSend`, `MCInstantSend`, `InstantSendProofs`, `InstantSendLocksProofs`,
   `InstantSendRivalsProofs`: done, see below.
2. `SmartnodeSync`, `MCSmartnodeSync`, `SmartnodeSyncProofs`: done, see below.
3. `SporkRegister`, `Spork`, `MCSpork`, `SporkProofs`: done, see below.
4. `SmartRewards`, `SmartRewardsPair`, their MC modules, `SmartRewardsProofs`,
   `SmartRewardsPaymentsProofs`: done, see below.
5. `SmartnodePayments`, `MCSmartnodePayments`, `SmartnodePaymentsProofs`: done, see
   below.
6. `InstantSendNet`: several nodes with the lock table of `InstantSend` reduced to
   what voting needs; no two nodes lock an outpoint for different transactions
   while fewer than `2 * SIGNATURES_REQUIRED - SIGNATURES_TOTAL` voters are
   faulty (6 of 10, so fewer than 2).  Theorem by quorum intersection.
7. `SmartnodeList` and the active smartnode: states, pings and verification.
8. Reward splits of hive and mining payments as functions, over the boundaries of
   the phases.
9. More proofs: every invariant and every action property that a passing run checks, except
   `SignedIfAsLong`, has its theorem, and two theorems say how far two of the violated properties hold.  What
   is left is the theorem of step 6 and the properties of steps 7 and 8.

## 3. InstantSend

`InstantSend.tla` models one node.  The variables named `map...` are the members of
`CInstantSend`; `pc`, `msgTx`, `msgVotes`, `msgTime`, `copy` are the message handler
thread between two critical sections; `rpcTx` is an RPC thread inside
`sendrawtransaction`; `mempool`, `minedAt`, `txIndex`, `checkedBlock` and `height` are
the node around it.

How actions correspond to code:

- `ReceiveTxLockRequest` is the `txlreq` handler up to the end of
  `ProcessTxLockRequest`, with the orphan votes and `TryToFinalizeLockCandidate`.
  `LockRequestAccepted` and `LockRequestRefused` are the memory pool's answer under
  `cs_main`; `Vote` and `FinalizeCopy` are the two critical sections of
  `CInstantSend::Vote(txHash)`.
- `RelayWalletTransaction`, and `SendRawTransaction` followed by
  `RawTransactionAccepted` or `RawTransactionRefused`, are the local entry points.
- `ReceiveTxLockVote` records a vote as seen, `ProcessTxLockVote` counts it, keeps it
  as an orphan or drops it.
- `CheckAndRemove` is the cleanup of `ThreadSmartnode`.  It needs only
  `cs_instantsend` and so runs between any two steps.
- `AcceptBlock`, `ConnectTip`, `DisconnectTip` and `UpdatedBlockTip` are the chain.
  `UpdatedBlockTip` happens after `cs_main` was released.  The model also lets it
  follow a pure disconnection, which `dsnotificationinterface.cpp` filters out; this
  only adds behaviours.
- `Restart` loses every table and the memory pool, `SporkOrSyncChange` flips
  sporks 2 and 3 and the list sync, `RanksChange` replaces the entitled voters.

Abstractions.  Amounts, fees, scripts and signatures are gone; a transaction is a
model value with a set of inputs.  Votes are those `CInstantSend::Vote` can
produce: for an input of the transaction they name.  Inputs have no order, so
`ResolveConflicts` may meet any conflict first.  The loop of
`ProcessOrphanTxLockVotes` is given in closed form (`Adopted`, `Taken`, `AddVotes`).
The memory pool may refuse a transaction for policy reasons at any time.  Left
out: `mapLockIndex`, notifications, `mapSmartnodeOrphanVotes` (it only decides a
return value nobody uses), `recentRejects`, `mapRejectedBlocks`.  Ranks come from
`Quorums`, a constant set of possible assignments.  The node runs with
`-enableinstantsend`, its default, and without a warning of a large fork, which would make
`IsLockedInstantSendTransaction` answer no as a spork 3 that is off does.  The transaction
index that `FoundInBlock` reads cannot be turned off: the option is disabled
(`init.cpp:472`, `validation.cpp:4528`).

Properties, and why they could fail:

- `VotedOutpointsHaveCandidates`: `Vote` dereferences an iterator without a check, and
  the removal of a candidate must take its entry in `mapVotedOutpoints` with it.
- `LocksHaveCandidates`: a lock without a candidate would freeze a coin.
- `LocksBackedByVotes`: a lock needs `SIGNATURES_REQUIRED` voters.
- `CopyIsCurrent`: the copy finalized after an unlock is not stale.
- `NoRivalReadyLocks`: a double voter is noticed in every order of events.
- `MempoolRespectsLocks`: pool and lock table, checked by different code, agree.
- `InputsLockedTogether`: `map::insert` never leaves a partial lock, unless a
  conflicting candidate was removed meanwhile.  A removed candidate frees its outpoints
  whoever holds them, so a lock can lose some of its inputs to a transaction that
  expired in a block, or to one that `ResolveConflicts` cancelled because of a third.
- `AcceptedHaveCandidates`: no request is hidden by `AlreadyHave` without a
  candidate, while the sporks stay as they are (turning spork 2 off inside the handler
  lets in a request whose candidate the cleanup has just dropped).
- `ConfirmedHeightTracksChain`, `LocksReleasedOnlyWhenBuried` (an action property):
  expiry is right although heights are cached and rewritten.
- `LocksReleasedForCause` (an action property): when ranks change and two rivals
  complete, a lock may also go because `ResolveConflicts` cancels both, and then both
  are on record as rejected.

### Runs

| Run | Instance | Result |
|---|---|---|
| `votes` (`MCVotes.cfg`) | two rivals on one outpoint, 3 voters (one is this node), 2 of 3 | `TypeOK`, `LocksBackedByVotes`, `CopyIsCurrent`, `NoRivalReadyLocks` hold |
| `chain` (`MCChain.cfg`) | blocks and a reorganisation around a lock; candidates are confirmed, expire and are removed | `VotedOutpointsHaveCandidates`, `LocksHaveCandidates`, `ConfirmedHeightTracksChain`, `LocksReleasedOnlyWhenBuried` hold |
| `sporks` (`MCSporks.cfg`) | sporks, sync and restarts, no blocks | `MempoolRespectsLocks` holds |
| `overlap` (`MCOverlap.cfg`) | rivals that share one of two outpoints; the entitled voter changes from m1 to m2, so both can complete and `ResolveConflicts` drops both | `InputsLockedTogether`, `LocksHaveCandidates`, `AcceptedHaveCandidates`, `LocksReleasedForCause` hold |
| `own_votes` (`MCOwnVotes.cfg`) | this node votes alone | `OwnVotesNeverConflict` violated |
| `block_race` (`MCBlockRace.cfg`) | a block accepted before and connected after a lock | `ChainRespectsLocks` violated |

Bounds.  Two transactions are enough for a conflict, and every rule of the code
compares at most two; two outpoints are enough for a partial overlap.  Voters and
thresholds are scaled so that a minority, a majority and a double voter exist.
In the run `votes` both timeouts are 0 and the clock moves once (`MaxTime` 1), so that
candidates and orphan votes time out and the cleanup drops the votes of transactions that are
not locked; `LOCK_TIMEOUT` is at most `FAILED_TIMEOUT`, as 15 and 60 seconds are.  The clock
stands still in the other runs.  In `votes` the rivals, and the voters that are not this node,
are interchangeable, which `SYMMETRY` uses (all its properties are invariants).
`KeepLock` is 0 or 1, and `MaxHeight` reaches beyond it; `MaxReorg`
of one block is enough to rewrite a confirmed height, since each disconnected block
is handled alone.  The initial chain is higher than `KeepLock` (`StartHeight` 2), as
the main chain is when InstantSend is enabled.

The two violations are findings about the code:

- *A node votes for two rivals.* `Vote` records this node's vote in a copy that is
  dropped, and looks for earlier votes in the stored candidates.  Until a peer
  echoes the vote, the check "refuse to vote twice or to include the same outpoint in
  another tx" misses it; when the first transaction leaves the memory pool, the node
  votes for its rival.
- *A block that conflicts with a lock is connected.* `CheckBlock` remembers its
  success in `fChecked`, across the release of `cs_main` between `AcceptBlock` and
  `ActivateBestChain`.  A lock completed in between is not looked at again.

### Proofs

`InstantSendProofs.tla` proves, for every set of transactions, outpoints, voters and
every threshold, timeout and bound that satisfies `InstantSendAssumption`:
`TypeCorrect`, `VotedDereferenceSafe`, `NoOrphanedLock`, `LocksBacked`,
`MempoolAgreesWithLocks` and `CopyStaysCurrent`.

They rest on one inductive invariant `IInv` (`Inductive` shows `Spec => []IInv`).  It
adds to the properties what they need to be inductive: a candidate has outpoints
only with its request and lists all inputs unless the request came too late
(`CandidatesOK`); the candidate the handler works on between acceptance and
`FinalizeCopy` is unconfirmed, so that neither the cleanup nor a block can touch it
(`HandlerOK`); and the pairs in the copy that the stored candidate lacks are votes
this node has relayed.  There is one lemma per group of operators (`RemoveExpired`,
`TryToFinalizeLockCandidate`, `AddVotes`, `SyncTransaction`), one per action, and
`NextOK` puts them together.

The assumption asks for little: non-empty input sets, finitely many smartnodes,
at least one required signature.  That `2 * SIGNATURES_REQUIRED > SIGNATURES_TOTAL`
is not needed for these theorems, only for the last two below.

`InstantSendLocksProofs.tla` adds `HeightsTrackChain`, `LockedTogether`,
`ReleasedForCause`, `AcceptedNotLost` and, see the end of this section,
`OnlyTheRaceBreaksTheChain`.  The first four have the premise `Steady`: the sporks
and the list sync stay as they are, and the chain is longer than `KeepLock`
(`nInstantSendKeepLock`, 24 blocks on the main chain).  Both are
needed.  `ResolveConflicts` cancels a candidate by setting its confirmed height to 0 and
calling `CheckAndRemove`, which does nothing while the list is not synced and finds
nothing expired on a shorter chain; then a height that is no block's stays in the table.
`AcceptedNotLost` also has the premise `Shallow`: no reorganisation is deeper than
`KeepLock`, else a candidate expires while the handler waits for `cs_main`, and the
memory pool, in which the transaction is possible again, accepts the request.

The invariant `SInv` says that confirmed heights are those of the blocks, that the
cached height is never above the highest tip, that every mined transaction is in the
index and that `InputsLockedTogether` holds.  The argument is about removal: `Outcome`
collects what any operation that may call `CheckAndRemove` does to the maps (a candidate
with a request goes only if it is buried or becomes rejected, a lock only for one of the
causes), and is shown once for the cleanup, once for `ResolveConflicts` and once for
`LockTransactionInputs`, for any number of conflicting requests.  `AcceptedNotLost` adds
where a request is while the handler has let go of `cs_instantsend`.

`InstantSendRivalsProofs.tla` proves `NeverTwoReady` (`NoRivalReadyLocks`) and
`ReleasedOnlyWhenBuried` (`LocksReleasedOnlyWhenBuried`).  The argument is the intersection
of quorums.  Two majorities share a voter (`CommonVoter`); that every voter who appears in
two candidates was noticed in both is the invariant `RInv`:

- `WholeOK`: a candidate has all inputs or none, and votes of the quorum only.
- `RecordedOK`: every counted vote is on record in `mapVotedOutpoints`, unless the outpoint
  is spent for good.  The removal of one candidate erases the record of an outpoint for all
  others, and then no vote for it is valid any more.
- `DoubleOK`: who voted for two transactions is marked, in both candidates.
- `OrphansOK`: orphan votes were valid and are counted if the request is there, so
  `ProcessOrphanTxLockVotes`, which checks nothing and goes through all orphans, adds only
  votes for the request that it is called with.
- `OwnOK`: no stored candidate has a vote of this node.  The votes are in the copy only;
  their entries in `mapTxLockVotes` hide the echoes of peers until the cleanup drops them,
  and by then the candidate has timed out.
- `HeldOK`: while the handler votes, nobody else can lock an input of its transaction.

The last two are about the lock that rests on a vote only the copy had: `OneMajority` does
not apply to it, but the rival that is ready has no vote of this node, so the common voter
is someone else (`NoLockConflict`), and `ResolveConflicts` has nothing to cancel.

`Premises` collects what this needs; the instances of the runs `votes` and `chain` satisfy
it.  Besides `Steady` and `Shallow`: the ranks stand still (`FixedRanks`; the run `overlap`
shows both rivals complete when they do not), the threshold is a `Majority` of the
quorum, nobody else signs with this node's key (`OwnKey`), the entry of a vote outlives its
candidate's timeout (`TimeoutsOrdered`), and the node is not a voter or does not
restart (`Continuous`).  None is there for convenience.  TLC violates `NoRivalReadyLocks`
with two transactions when a reorganisation deeper than `KeepLock` brings back a removed
candidate.  It violates `LocksReleasedOnlyWhenBuried` when a voting node restarts, or when
`FAILED_TIMEOUT` is below `LOCK_TIMEOUT`: an echo of a forgotten own vote then counts for
one transaction and the copy's vote for its rival, and nothing marks the double vote.
`LocksReleasedForCause` is what holds in general.

`OnlyTheRaceBreaksTheChain`, in `InstantSendLocksProofs.tla`, is about the finding of the
run `block_race`: is the gap between `CheckBlock` and `ConnectTip` the only way in which a
mined transaction comes to spend what another one has locked?  With spork 3 on, it is one
of two.  If nothing is locked while a checked block waits (`NoLockMeanwhile`), then
every such lock belongs to a transaction of the transaction index (`ChainAgrees`).  That exception
is real, and TLC reaches it in eight steps with two transactions: t spends o1 and o2, has its
vote on o1 and is mined; its block is disconnected and a block with s, which spends o1,
connected; then the vote on o2 arrives.  It is valid, since o2 is unspent, and
`ResolveConflicts` takes t for mined, since the index still has it, and locks o1 too.  The
proof needs what a lock can be taken for (`LocksMoved`: a transaction with unspent inputs,
or one that the index knows), and that a checked block agrees with the locks until it is
connected (`CheckedAgrees`).

## 4. Smartnode sync

`SmartnodeSync.tla` models `CSmartnodeSync` with the memory of
`CNetFulfilledRequestManager` and `DsegUpdate`, and a peer's side of it (`askedUs`).
Times are ages and remaining times that saturate, so the clock needs no bound.

`Clock` is the one-second sleep of `ThreadSmartnode`; the `Tick...` actions are the
paths through `ProcessTick`.  A path that ends in `SwitchToNextAsset` or `Fail` first
decides (`tickPc`) and then acts (`TickSwitch`, `TickFail`), because the class has no
lock and other threads can come between; the same holds for `UpdatedBlockTip` and
`TipSwitch`.  Such a gap is shorter than a second, so the clock waits for it.
`ProcessMessage` and `ListArrives` are the two parts of a peer's answer.  Disturbances
(`StaleTip`, `IbdTip`, `BumpAssetLastTime`, `ListShrinks`, `ConnectionLost`, `LongSleep`,
`Restart`, late answers, and, when `Operator` is set, `RpcNext` and `RpcReset`) share
the bound `MaxNoise`.  The commands of the operator are atomic here.

The list's length is abstracted to `haveList`: at least 0.9 times the mean of the
counts.  That `mapSmartnodeListCounts` is never cleared, so that old counts keep entering
the mean, is therefore not visible.  The number of connection slots is not modelled.

Fairness: the clock and the smartnode thread run (`Clock`, `Tick`), the thread that
updates the tip finishes (`TipSwitch`), blocks that extend the best chain keep coming
(`BestTip`), peers can be connected to (`Connect`) and answer (`Deliver`).  The code
relies on each of these: without blocks it never leaves the first stage, without
peers it waits.  Disturbances have no fairness.

| Run | Instance | Result |
|---|---|---|
| `sync` (`MCSync.cfg`) | a current and an old peer, two disturbances, `snsync` | `TypeOK`, `ListedBeforeWinners`, `SyncCompletes` hold |

The times keep the order of the real ones (15 s, 120 s, 60 s, 30 min, 3 h): one
cycle of failure and retry is shorter than `EXPIRE`, and `EXPIRE` is shorter than
`DSEG_UPDATE`, which is what makes remembered requests block several retries.

`SyncCompletes` is the interesting one: after a failure no peer may be asked again
for half an hour, a peer that is asked may have been told not to be asked for three
hours, and the two stages that need an attempt each run on timers of their own;
still the sync gets through.  `ListedBeforeWinners` claims nothing once the operator has
used `snsync` (the history variable `listed` is set then): `snsync next` is there to skip
the list.

A weakness without a run of its own: `ProcessTick` decides to fail, two tips arrive,
the second of which decides to switch from the first stage, `Fail` stores the failure
and `SwitchToNextAsset` throws in the thread that connected the block.  The state of
the sync does not change then, which is all the model says.

`SmartnodeSyncProofs.tla` proves `SyncTypeCorrect` and `ListComesFirst` for all peers and
time limits.  `TypeOK` says of the attempts what the code relies on: in the list stage
there are at most three.  For `ListComesFirst` the invariant `ListedInv` counts the calls
of `SwitchToNextAsset` that are decided and not yet made: none in the list stage without a
list, and at most one in the stage before it, because a tip that is about to switch has
just set `nTimeLastBumped`, and the clock stands still while a call is pending, so the
timeout of `WAITING` cannot pass at the same moment.
`SyncCompletes` is liveness and stays with TLC.

## 5. Sporks

`Spork.tla` models several nodes.  `mapSporks` and `mapSporksActive` are the two maps
of `spork.cpp`; `vInventoryToSend`, `setAskFor` and `mapAskFor` are those of `CNode`,
per direction of a connection; `chan` is the connection's byte stream, in order.

`ProcessSpork` is `ReceiveSpork` or `ReceiveFromOutside` (the comparison of times) and
then `StoreSpork` or `RejectSpork`; `UpdateSpork` announces and `UpdateSporkStores`
stores: neither holds a lock in between, and the RPC thread and the message handler
thread of a node interleave.  While a message is between the two halves the handler
of that node does nothing else (`Idle`), since it is one thread.  `ReceiveInv`,
`ReceiveGetData`, `ReceiveGetSporks`, `AskFor`, `SendMessages` and `Connect` are the code
in `net_processing.cpp` and `net.cpp` that carries sporks; announcements are ignored
during the initial block download, and only a node that is not synced sends
`getsporks` to a new peer.  `stage` stands for `IsInitialBlockDownload` and
`smartnodeSync.IsSynced`.

`Sign` and `CheckSignature` are about a text, the decimal digits of id, value and time in one
row without separators (`Text`).  One signature therefore holds for every message with the
same digits, and `ProcessSpork` takes any signing time, also one far in the future.
Outside peers send any message within the bounds, with a good signature if the text was
signed and with a broken one otherwise: replayed, invented, or a signed text read as other
numbers (the cryptography is external).  Values are not negative.  The clocks of signers differ by `Offset`.  Left out: the retry times of
`AskFor` (a queued request may go out at any time) and its limits on the number of
requests, `NOTFOUND` (ignored by the receiver), a second `UpdateSpork` at the same time
on the same node, and torn reads of the two maps, which the code does not lock.
`MaxUpdates` bounds the updates, `MaxNoise` the restarts, lost connections, outside
messages and new syncs together.  Deadlock is not checked: a network in which every
message has arrived rests.

`SporkRegister.tla` says what the manager promises: a register per node and id that
holds only messages whose text was signed and, on nodes without the key, only moves to
later ones or is forgotten at a restart.  `NewestVerifiedWins` says that `Spork` implements
it with `mapSporksActive` as the register.

It does not say that a message in force was signed as it is, which does not hold: with the
text `1111` signed for id 1, value 11 and time 1, a node also takes value 1 with time 11,
and then ignores everything before that time.  `SignedIfAsLong` says how far it holds: a message in force
was signed itself if its id and its time have as many digits as those of all signed
messages.  The ids of the code all have five digits and the times of this century ten, so
what is missing in `ProcessSpork` is a look at the length of the time, or a separator in the
text.

| Run | Instance | Result |
|---|---|---|
| `spork_net` (`MCSporkNet.cfg`) | a signer and a node, two updates, values 1 and 11, signing times 1 and 2, from outside 1 and 11, one disturbance | `TypeOK`, `SignedIfAsLong`, `NewestVerifiedWins` hold |
| `spork_apart` (`MCSporkApart.cfg`) | two nodes, a spork of a signer they reach only through outside peers, two disturbances | `AnnouncedIsServed`, `SporksReachPeers` hold |

One id is enough because ids never meet in the code; two updates are enough for an
order, a tie and an overtaking; two nodes and a spork from outside are the shortest
line in which a node without the key relays.  Values and times of one and two digits are
enough for two messages with one text.  Several signers and clocks that differ
are left to the proof of `NewestVerifiedWins`, which is for any `Signers` and `Offset`.

Fairness: the message handler thread serves every connection in turn and finishes
what it handles (`ThreadMessageHandler` loops over all nodes), the retry time of every
request comes, and an RPC that has begun ends.  Nothing makes nodes connect, update
or restart.  `SporksReachPeers` therefore starts from an announcement, or from a
`getsporks` on its way, and ends with the spork's arrival or the end of the
connection.  It claims nothing for the announcements of a signer, because of the
first of two more weaknesses that the model shows and no run states:

- *An announcement without the message.* `UpdateSpork` relays the hash before it stores
  the message.  A `getdata` handled in between is answered with `NOTFOUND`; the peer
  keeps the hash in `setAskFor` and never asks this node again.  `ProcessSpork` has the
  right order, and `AnnouncedIsServed` shows that it is enough.
- *Two values for good.* `ProcessSpork` ignores a message signed in the same second as
  the active one, `UpdateSpork` overwrites it.

`SporkProofs.tla` proves `RegisterImplemented`, `SporkTypeCorrect` and
`AnnouncedServed` for all networks, clocks and bounds.  The refinement needs
`RegisterInv`: what is being updated was signed, and a message that a node
without the key is handling is newer than its active one, because between the two
halves of `ProcessSpork` only `UpdateSpork` could change it.  The other two need
`NetInv`, which adds that every node keeps finitely many messages, those in force among
them (`HeldOK`), so that answers are finite sequences.  The lemmas on `Elements`
reduce channels to the sets of messages they hold.  None of them needs to know what `Text`
computes; `SignedIfAsLong`, which rests on the arithmetic of its digits, is
model-checked only.

## 6. SmartRewards

`SmartRewards.tla` models `CSmartRewards` with its cache and database on one node,
under the rules of round 62 and later, as `ConnectTip`, `DisconnectTip` and
`FlushStateToDisk` drive it.  `cache`, `height`, `round`, `rounds`, `result` and
`undoResult` are the members of `CSmartRewardsCache`, `db` is the rewards database,
`chain` and `coins` are what validation knows, `onDisk` is what the coin database has,
with the payments of the blocks it has.

Everything happens under `cs_main`.  A block is nevertheless a sequence of steps
(`ConnectTip`, `ProcessInput`, `ProcessOutput`, `CommitBlock`, and for the undo
`DisconnectTip`, `UndoOutput`, `UndoInput`, `CommitUndoBlock`), because it may be
rejected between two of them (`RejectBlock`) and what was done by then stays done.
`CommitBlock` adds the counters of the block to the round and, at the end of the
round, evaluates it: the eligible entries become the list of payouts, and the entries
of the next round are chosen.  `GetPayments` cuts the list into slices by height,
`FillPayments` puts the slice of a height into a coinbase that this node makes, and `due`
records, for the blocks of the chain, whom it puts there.  What a connected block really
pays is another matter: `SmartRewardPayments::Validate` asks for the same slice and rejects
the block if there is none to be had (`DatabaseError`), but its search for the payees in
the coinbase is commented out (`rewardspayments.cpp:206-226`) and it allows a fixed amount.  A
block of another miner may pay anyone, and no property here says otherwise.
`SyncCached` is the write of the rewards, forced by a pending result or by the hourly
flush, `FlushCoins` the write of the coins that follows or does not; `Restart` loads
what is on disk, after `CleanShutdown` or after a crash at any point.
`CommitBlockRefused` and `CommitUndoBlockRefused` are the paths for rewards that are
ahead of the chain after a crash.

A block template that a miner has checked with `TestBlockValidity` leaves no marks and is not a
`RejectBlock`: the call passes `fIsVerifyDB` besides `fJustCheck` (`validation.cpp:4097`),
and `ConnectBlock` then sets `fProcessRewards` to false (`validation.cpp:2398`).

Abstractions are listed at the head of the module: transactions move amounts between
a few addresses, one step per address; the amounts of rewards are left out, and so
are term rewards, hive addresses, spork 15 and the rules of earlier rounds.

- `PaymentsAvailable`: the list of a round has everyone its counters promise.  The
  counters live in the round and in the block under way, the marks in the entries,
  and every path that ends an eligibility has to do both.
- `BalanceCovered`: no entry exceeds the coins of its address, although balances are
  adjusted by difference and cut at zero.
- `RoundInStep`: cache and chain have the same height and the round contains the next
  block.
- `NobodyDueTwice`: no address is due at two heights of the chain for one round.  It holds
  with all faults, except a crash after the end of a round was
  undone: the rewards database may then have the list of the new branch, whose round
  ended again, while the coin database still has the blocks of the old one, and slices
  of both lists are due on one chain.  It takes more faults than the run allows.
- `EveryPayeeDue`: when the last reward block of a round is there, everyone on the list was
  due.  It holds without faults.
- `SamePayouts` (`SmartRewardsPair`): two nodes with the same chain have the same list.

| Run | Instance | Result |
|---|---|---|
| `rewards` (`MCRewards.cfg`) | three addresses, two payees to a block, an outgoing payment, an activation and coinbase payments, four blocks over two round borders, two faults, one hourly write | all of the above but the last hold |
| `rewards_pair` (`MCRewardsPair.cfg`) | two nodes, a payment out, one back and an activation in one round | `SamePayouts` violated |

Three addresses with `BlockPayees` 2 are the fewest for which the list has two slices of
which the last is shorter; with two of them active at the start the list is one full
slice.  One fault that is undone and
another, or a fault and its repetition, need `MaxFaults` 2.  The first round ends with
the first block so that its payouts, the next round and its end fit into four.

What happens to the properties under faults is part of the result.  `happened` records
the kinds of faults a behaviour had, and each property says which it stands:
reorganisations inside a round leave balances and heights right but not the counters
(undoing an activation does not take it off them); rejected blocks and crashes leave
marks and balances of blocks that are not in the chain.  These are hazards in
`PROJECT.json`, at their lines.

The finding: `SyncCached` erases the entry of an address without coins, marks
included, and when it runs depends on the node's own clock.  An address that spends
everything, gets it back and is activated again within a round is disqualified on a
node that has not written in between, and eligible on one that has.  The nodes then
have different lists, and the coinbases they fill pay different addresses.  Neither rejects
the other's block, because the payees are not compared.

`SmartRewardsProofs.tla` proves `RewardsTypeCorrect`, `RewardsInStep` and, see below,
`BalancesCovered` for all addresses, transactions, round lengths and bounds.  Type correctness needs that
`rounds`, the lists of the database and the current round have consecutive numbers,
on disk as in the cache and through an undone round, so that no operation reads a
round that does not exist.  `RewardsInStep` needs in addition where the cache stands
while a block is under way, and that the database a node starts from is in step with
the coin database unless it crashed.

`SmartRewardsPaymentsProofs.tla` proves the properties of the payouts.

- *Slices.*  For a round and a list, the slices of different heights are disjoint
  (`SlicesDisjoint`), lie after the end of the round (`SliceAfterEnd`), end within what the
  counters promise (`SliceBounds`) and, if the list is as long as the counters say, cover
  it (`SlicesExhaustive`).  This is arithmetic about `GetPaymentsForBlock`, for every
  number of payees, slice length and interval, from `DivMod`.
- `DueAtMostOnce` (`NobodyDueTwice`) has two arguments, one for each fault that may be
  missing.  While no end of a round is undone, everything due on the chain and on disk comes
  from the list the database has for its round, and lists are only added
  (`DueFromDatabase`).  While nothing is lost in a crash, what is due for a round is above
  its end, so it is undone with it, and what remains comes from one list
  (`DueAfterEnd`).  Both rest on `RecordsOK`: the cache differs from the database by
  the round that waits to be written, and rounds follow each other without gaps.
- `CountersMatchLists` (`PaymentsAvailable`): without faults, the counters of the round and
  of the block under way together are the number of eligible entries.  It needs that an
  entry that takes part and has lost its activation has a mark, that an eligible entry
  has coins whenever `SyncCached` may run (an activation spends everything and gives it
  back in the next step, `Paired` and `Refills`), and that results and stored lists are
  as long as their rounds say.
- `EveryoneOnListDue` (`EveryPayeeDue`): every slice up to the tip is recorded as due, and
  the result in the cache is dropped or replaced only after its last slice
  (`Delivered`).  Premise: `PayoutsFit`, the payouts of a round end before the next round
  does, even if every address is paid.  With the parameters of the main chain (rounds of
  11000 blocks, a delay of 200, 500 payees every 5 blocks) it holds for up to 1 080 500
  payees; `chainparams.cpp` names 20 000 as the most there have been.

- `OnlyErasedEntriesSplitPayouts` is about the finding of the run `rewards_pair`: two nodes
  that connect the same blocks have the same payouts (`SamePayouts`), whenever each writes,
  if no write erases an entry (`NothingErased`).  So the erasure of entries without coins is the
  only way in which the time of a write reaches the payouts.  `PairInv` says that the
  nodes agree on everything but on where an entry is, in the cache or in the database,
  and on whether a result is stored, and that results are stored whenever a block is
  under way, which is when `CommitBlock` asks.

`BalancesCovered` (`BalanceCovered`), in `SmartRewardsProofs.tla`, needs more than
the present balances: what `UndoOutput` takes off an entry and cuts at zero must not exceed
what the coins lose, so the coins must be enough at every step of a block, backwards too.
This is a fact about the blocks of the chain, and instead of an induction over them the
invariant `Backed` keeps its witness: there are coins for every height, and for every step
of every block between two of them, that follow from each other and are never negative
(`Carries`, `Replay`).  `CommitBlock` extends the witness by the steps of its block, which
`HaveInputs` made payable (`Payable`), `CommitUndoBlock` drops the last of it; a block under
way is split into what is done and what is to do (`Connecting`, `Disconnecting`).  The premise
that only reorganisations inside a round happened is needed: a rejected block leaves its
outputs in the entries, and an undone end of a round replaces them by a snapshot.
`InputsAssumption` states what the head of the module says of transactions, that
their inputs from one address are one step; two steps would each be compared with all the
coins of the address.

## 7. Smartnode payments

`SmartnodePayments.tla` models `CSmartnodePayments` on one node.  The three `map...`
variables and `nCachedBlockHeight` are its members.  `list` stands for `CSmartnodeMan`
(unknown, known, enabled), `stage` for `CSmartnodeSync`, `disk` for `snpayments.dat`.

`top` is the highest tip so far; the tip falls behind it by at most `MaxReorg`, which
`ReorgAssumption` bounds by the number of blocks whose votes are kept (5000 in the code).

Three threads work on the tables.  `handler` is the message handler between its
critical sections: `ReceiveVote` puts a vote into the table without its signature,
`CheckVote` is everything up to the question in `AddOrUpdatePaymentVote` whether the
vote is there, `InsertVote` what follows under the locks.  `voter` is the thread that
connected a block, for example one that serves `submitblock`: `UpdatedBlockTip`,
`ProcessBlock` up to the same question, `InsertOwnVote`, which relays last.
`CheckAndRemove` is the smartnode thread; its second case is a tip that arrives during
the loop, which reads the height without a lock.  `Restart` saves the tables, `Crash`
does not; neither keeps `mapSmartnodesLastVote`.

Abstractions.  A block's payees are how often each vote was added, since votes are
added to all their payees at once and blocks removed whole, and `vecVoteHashes` of a payee
is the votes for it that often (`VoteHashes`); ties between payees may go
either way.  Smartnodes have different collateral addresses and a vote lists different
payees, as the votes that `ProcessBlock` makes then do; the code does not check this in a
vote it receives, and `AddPayees` counts a vote twice for a script that is in it twice, so
`CountedOnce` and `MinersAgree` are about votes without such a script.
`nCachedBlockHeight` follows the tip: that it is zero after a start until the initial block
download is over, while the sync does not run and no vote is taken, made or removed, is left
out.  The order of the payment
queue is arbitrary.  One thread at a time announces a tip.  Peers send votes of
smartnodes, in any order and as often as they like, and this node's votes once it has
relayed them.

- `CountedOnce`: the question comes before the lock, and two threads ask it.  What
  saves it is that this node's vote is stored before anyone else can have it; the
  mutant that relays first breaks it.  After a crash it does not hold.
- `CountedIffStored`: what counts is stored with its signature, what is stored for a
  block to come counts.
- `MinersAgree`: whichever way ties go, a block filled from the votes passes the check
  against the same votes, whose two loops count differently.
- `VotesKept`: no vote for a block to come is dropped, by a cleanup that races with the
  tip, a shrinking list or a restart.

| Run | Instance | Result |
|---|---|---|
| `payments` (`MCPayments.cfg`) | this smartnode and another one, three payees of which two are paid, two heights, two events | `TypeOK`, `CountedOnce`, `CountedIffStored`, `MinersAgree`, `VotesKept` hold |

`MinersAgree` needs three payees with enough signatures where two are paid, which the
other smartnode's two votes for one height and this node's vote give; votes for two
heights are what makes the smartnode's second vote possible.  The chain is long enough
for the first height to become old.  Both smartnodes rank high enough whenever they
are enabled, so the limit on ranks is met only by smartnodes that are not.
`MaxEvents` bounds reorganisations, restarts, crashes, changes of the list and new
syncs together.  Deadlock is not checked: the chain ends at `MaxHeight`.

Two weaknesses lie outside the model: two smartnodes with one collateral address that
win the same block count twice for it (`AddPayees`), and
`RequestLowDataPaymentBlocks` asks for unknown blocks at the heights that have no
payees, `nHeight % nInterval`, and not for the others.

`SmartnodePaymentsProofs.tla` proves all five properties for any smartnodes, votes,
heights and limits: `PaymentsTypeCorrect`, `VotesCountedOnce`, `TablesAgree`, `VotesStay`
and `FilledBlocksValid`.  The invariant `PaymentsInv` says that a vote which is stored and
does not count is older than the blocks that are kept, in memory and in the file (a
cleanup that a tip overtakes leaves such votes behind, and no reorganisation makes them
current again, by `ReorgAssumption`); and, until a crash, that peers have only votes of
this node that it has stored, that no thread is about to insert a vote that counts, and
that no two threads are about to insert the same one.  `FilledBlocksValid` needs no
reachable state, only finite sets: a block is filled with a set of best payees, and either
all payees with enough signatures are among them or they fill the block.

## 8. Limits

Liveness, in the sync and the sporks, is out of the prover's reach and stays with TLC
(`SyncCompletes`, `SporksReachPeers`).  `SignedIfAsLong` is arithmetic over decimal digits and
is checked, not proved.  So do the counterexamples to `OwnVotesNeverConflict`,
`ChainRespectsLocks` and `SamePayouts`, of which the proofs show only how the last two are
bounded.

Not modelled: the smartnode list and its verification, the active smartnode and the
reward splits (planned, see 2); SmartVoting, whose calls are commented out; and what
section 1 names as inherited code or pure I/O.  The translations of the GUI
(`qt/locale/*.ts`) hold texts and no logic.
