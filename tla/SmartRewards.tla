---------------------------- MODULE SmartRewards ----------------------------
(***************************************************************************)
(* CSmartRewards (smartrewards/rewards.cpp, rewardsdb.cpp and              *)
(* rewardspayments.cpp) on one node, driven by ConnectTip, DisconnectTip   *)
(* and FlushStateToDisk of validation.cpp, under the rules of round 62 and *)
(* later (Is_1_3, nRewardsFirst_2_0_Round).                                *)
(*                                                                         *)
(* An address has a reward entry, in the cache or else in the database.    *)
(* Connecting a block changes entries one input and one output at a time   *)
(* and counts, in a result of its own, the entries it disqualifies; the    *)
(* commit adds that result to the round.  At the end of a round the        *)
(* eligible entries become the payouts of the round, and the entries of    *)
(* the next round are chosen.                                              *)
(*                                                                         *)
(* cs_main is held throughout, so nothing interleaves with a block; it is  *)
(* processed in steps because it may be rejected between any two of them.  *)
(*                                                                         *)
(* Abstractions.  An address owns an amount of coins and spends any of it. *)
(* All the inputs of a transaction from one address are one step, which    *)
(* has the same effect; so are its outputs to one address.  A block has a  *)
(* coinbase with at most one output to a modelled address and at most one  *)
(* other transaction.  Hash and flag of a transaction that marks an entry  *)
(* are one field.  balanceEligible is whether it is positive: bonuses and  *)
(* percentages scale it.  Every eligible entry has a reward of at least    *)
(* one satoshi.  SmartHive addresses, which are never eligible, term       *)
(* rewards, which have entries of their own, and spork 15, which switches  *)
(* the rewards off, are left out.  So are finished rounds and snapshots    *)
(* that an undone round leaves behind in the database: they are written    *)
(* again before anything reads them.  So are the past heights for which    *)
(* SmartRewardPayments::Validate returns a constant.  The keys of the      *)
(* database have the order of Compare, so a list that is read back is      *)
(* sorted alike.                                                           *)
(*                                                                         *)
(* Who is due at a height is what GetPaymentsForBlock returns for it: what *)
(* FillPayments puts into a coinbase made on this node.  Validate asks for *)
(* the same list and fails only without one; its search for the payees in  *)
(* the coinbase is commented out, so a connected block need not pay them.  *)
(***************************************************************************)
EXTENDS Integers, Sequences, FiniteSets

CONSTANTS
    Addr,           \* addresses, as numbers in the order of Compare
    Txs,            \* transactions other than coinbases
    Activations,    \* those for which IsActivationTx holds
    Steps,          \* per transaction, its inputs and then its outputs
    Blocks,         \* the blocks miners make: a payee of the coinbase and a transaction
    Owned,          \* what each address owns at the start
    Active,         \* the sets of addresses that may be activated at the start
    MinBalance,     \* SMART_REWARDS_MIN_BALANCE_1_3
    BlocksPerRound, \* nRewardsBlocksPerRound_1_3
    FirstEnd,       \* end of the round the first modelled block is in
    StartDelay,     \* nRewardsPayoutStartDelay
    BlockPayees,    \* nRewardsPayouts_1_3_BlockPayees
    BlockInterval,  \* nRewardsPayouts_1_3_BlockStretch / 20
    CoinbaseValue,  \* what a coinbase pays to its payee
    NodeInterval,   \* SmartNodePayments::PayoutInterval
    NoTx, NoAddr, NoEntry, NoResult,
    Earlier,        \* an activation before the modelled part of the chain
    MaxHeight,      \* bound on the length of the chain
    Faults,         \* what may go wrong: a subset of FaultKinds
    MaxFaults,      \* bound on how often
    MaxWrites       \* bound on writes that no pending result forces

(***************************************************************************)
(* "reorg": a block inside a round is disconnected.  "crossing": the first *)
(* or the last block of a round is.  "reject": a block fails ConnectBlock. *)
(* "crash": the node stops without a shutdown.                             *)
(***************************************************************************)
FaultKinds == {"reorg", "crossing", "reject", "crash"}

\* A coinbase is told apart by its height and its payee.
Coinbases == [height : Nat, payee : Addr]
TxIds == Txs \cup Coinbases \cup {Earlier}

Block == [payee : Addr \cup {NoAddr}, tx : Txs \cup {NoTx}]

Step == [type : {"in", "out"}, tx : TxIds, addr : Addr, value : Nat \ {0},
         locked : BOOLEAN]

ASSUME RewardsAssumption ==
    /\ Addr \subseteq Nat /\ IsFiniteSet(Addr)
    /\ Activations \subseteq Txs
    /\ Steps \in [Txs -> Seq(Step)]
    /\ \A t \in Txs : \A i \in DOMAIN Steps[t] : Steps[t][i].tx = t
    /\ Txs \cap Coinbases = {} /\ NoTx \notin TxIds
    /\ Owned \in [Addr -> Nat] /\ Active \subseteq SUBSET Addr
    /\ MinBalance \in Nat \ {0} /\ BlocksPerRound \in Nat \ {0}
    /\ FirstEnd \in Nat \ {0}
    /\ StartDelay \in Nat \ {0} /\ BlockPayees \in Nat \ {0}
    /\ BlockInterval \in Nat \ {0} /\ NodeInterval \in Nat \ {0}
    /\ CoinbaseValue \in Nat \ {0}
    /\ Blocks \subseteq Block
    /\ Faults \subseteq FaultKinds
    /\ MaxHeight \in Nat /\ MaxFaults \in Nat /\ MaxWrites \in Nat

\* IsActivationTx: one input, and one output back to the same address.
ASSUME ActivationAssumption ==
    \A t \in Activations :
        /\ Len(Steps[t]) = 2
        /\ Steps[t][1].type = "in" /\ Steps[t][2].type = "out"
        /\ Steps[t][1].addr = Steps[t][2].addr
        /\ ~Steps[t][2].locked

\* The inputs of a transaction from one address are one step: a second spend
\* from an entry would change its balance and nothing else.
ASSUME InputsAssumption ==
    \A t \in Txs : \A i, j \in DOMAIN Steps[t] :
        /\ Steps[t][i].type = "in" /\ Steps[t][j].type = "in"
        /\ Steps[t][i].addr = Steps[t][j].addr
        => i = j

VARIABLES
    cache,      \* entries of the cache, NoEntry where there is none
    height,     \* height of the last block of the cache
    round,      \* the current round
    rounds,     \* the finished rounds, by number
    result,     \* the last round's result, or NoResult
    undoResult, \* the result CommitUndoBlock read back, or NoResult
    db,         \* the rewards database
    chain,      \* chainActive, from the first modelled block on
    coins,      \* pcoinsTip
    onDisk,     \* the chain and the coins of the coin database, with who was due in it
    job,        \* the block that is being connected or disconnected
    flushing,   \* FlushStateToDisk has written the rewards and not the coins
    due,        \* history: who was due for which round at which height of the chain
    happened,   \* history: the faults there were
    faults, writes

cacheVars == <<cache, height, round, rounds, result, undoResult>>
diskVars == <<db, onDisk>>
chainVars == <<chain, coins>>
boundVars == <<happened, faults, writes>>
vars == <<cacheVars, diskVars, chainVars, job, flushing, due, boundVars>>

Entry == [balance : Nat, enrolled : BOOLEAN, activationTx : TxIds \cup {NoTx},
          disqualifyingTx : TxIds \cup {NoTx}, smartnodePaymentTx : TxIds \cup {NoTx}]
Entries == [Addr -> Entry \cup {NoEntry}]
Round == [number : Nat, start : Nat, end : Nat, eligible : Int, disqualified : Int]
Result == [round : Round, results : Entries, payouts : SUBSET Addr, synced : BOOLEAN]
Database == [entries : Entries, height : Nat, round : Round, rounds : Seq(Round),
             results : Seq(Entries)]

ASSUME SentinelAssumption ==
    NoEntry \notin Entry /\ NoResult \notin Result /\ NoAddr \notin Addr

Idle == [kind |-> "idle"]
Aborted == [kind |-> "aborted"]
Job == {Idle, Aborted} \cup
    [kind : {"connect", "disconnect"}, block : Block, todo : Seq(Step),
     disqualified : Nat, qualified : Nat, coins : [Addr -> Int]]

TypeOK ==
    /\ cache \in Entries
    /\ height \in Nat
    /\ round \in Round
    /\ rounds \in Seq(Round)
    /\ result \in Result \cup {NoResult}
    /\ undoResult \in Result \cup {NoResult}
    /\ db \in Database
    /\ chain \in Seq(Block)
    /\ coins \in [Addr -> Int]
    /\ onDisk \in [chain : Seq(Block), coins : [Addr -> Int],
                   due : SUBSET [round : Nat, addr : Addr, height : Nat]]
    /\ job \in Job
    /\ flushing \in BOOLEAN
    /\ due \subseteq [round : Nat, addr : Addr, height : Nat]
    /\ happened \subseteq FaultKinds
    /\ faults \in 0 .. MaxFaults
    /\ writes \in 0 .. MaxWrites

-----------------------------------------------------------------------------
(* Entries *)

NewEntry == [balance |-> 0, enrolled |-> FALSE, activationTx |-> NoTx,
             disqualifyingTx |-> NoTx, smartnodePaymentTx |-> NoTx]

\* GetRewardEntry without fCreate: the cache hides the database.
Found(a) == IF cache[a] # NoEntry THEN cache[a] ELSE db.entries[a]

\* GetRewardEntry with fCreate.
GetRewardEntry(a) == IF Found(a) # NoEntry THEN Found(a) ELSE NewEntry

IsEligible(e) ==
    /\ e.activationTx # NoTx
    /\ e.smartnodePaymentTx = NoTx
    /\ e.enrolled
    /\ e.disqualifyingTx = NoTx

\* Mutant: a negative amount is kept.
LessUnbounded(n, k) == n - k

\* Amounts that are set to zero when they would be negative.
Less(n, k) == IF n > k THEN n - k ELSE 0

\* Mutant: an activation does not spend.
SpentUnlessActivation(e, s) ==
    [e EXCEPT
        !.balance = IF s.tx \in Activations THEN @ ELSE Less(@, s.value),
        !.activationTx = IF s.tx \notin Activations THEN NoTx
                         ELSE IF @ = NoTx THEN s.tx ELSE @,
        !.disqualifyingTx = IF s.tx \notin Activations /\ @ = NoTx THEN s.tx ELSE @]

\* ProcessInput on the entry e.
Spent(e, s) ==
    [e EXCEPT
        !.balance = Less(@, s.value),
        !.activationTx = IF s.tx \notin Activations THEN NoTx
                         ELSE IF @ = NoTx THEN s.tx ELSE @,
        !.disqualifyingTx = IF s.tx \notin Activations /\ @ = NoTx THEN s.tx ELSE @]

SpendDisqualifies(e, s) == s.tx \notin Activations /\ IsEligible(e)

\* A coinbase output at a payout height of the smartnodes: the amount matches.
PaysNode(e, s) ==
    /\ s.tx \in Coinbases
    /\ s.tx.height % NodeInterval = 0
    /\ e.smartnodePaymentTx = NoTx

Activates(e, s) == s.tx \in Activations /\ e.activationTx = NoTx

\* ProcessOutput on the entry e: coinbase and locked outputs are not added.
Received(e, s) ==
    [e EXCEPT
        !.balance = IF s.tx \in Coinbases \/ s.locked THEN @ ELSE @ + s.value,
        !.activationTx = IF Activates(e, s) THEN s.tx
                         ELSE IF PaysNode(e, s) /\ IsEligible(e) THEN NoTx ELSE @,
        !.smartnodePaymentTx = IF PaysNode(e, s) THEN s.tx ELSE @]

OutputQualifies(e, s) == Activates(e, s) /\ IsEligible([e EXCEPT !.activationTx = s.tx])

\* Mutant: eligibility is tested after the entry was marked.
OutputDisqualifiesLate(e, s) == PaysNode(e, s) /\ IsEligible(Received(e, s))

OutputDisqualifies(e, s) == PaysNode(e, s) /\ IsEligible(e)

\* UndoInput on the entry e: the activation is not restored.
Unspent(e, s) ==
    [e EXCEPT
        !.balance = @ + s.value,
        !.disqualifyingTx = IF @ = s.tx THEN NoTx ELSE @]

\* UndoOutput on the entry e: what was never added is subtracted too.
Unreceived(e, s) ==
    [e EXCEPT
        !.balance = Less(@, s.value),
        !.activationTx = IF s.tx \in Activations /\ @ = s.tx THEN NoTx ELSE @,
        !.disqualifyingTx = IF /\ s.tx \notin Activations
                               /\ e.activationTx = NoTx /\ @ = s.tx THEN NoTx ELSE @,
        !.smartnodePaymentTx = IF s.tx \in Coinbases /\ @ = s.tx THEN NoTx ELSE @]

-----------------------------------------------------------------------------
(* Payments *)

PayeeCount(r) == r.eligible - r.disqualified

\* UpdatePayoutParameter: payees divided by payees per block, rounded up.
RewardBlocks(r) == (PayeeCount(r) + BlockPayees - 1) \div BlockPayees

LastRoundBlock(r) ==
    IF PayeeCount(r) > 0
    THEN r.end + StartDelay + (RewardBlocks(r) - 1) * BlockInterval
    ELSE 0

\* Mutant: the last reward block is left out.
IsRewardBlockShort(r, h) ==
    /\ PayeeCount(r) > 0
    /\ h \in r.end + StartDelay .. LastRoundBlock(r) - 1
    /\ (LastRoundBlock(r) - h) % BlockInterval = 0

\* GetPaymentsForBlock: h is a reward block of the round r.
IsRewardBlock(r, h) ==
    /\ PayeeCount(r) > 0
    /\ h \in r.end + StartDelay .. LastRoundBlock(r)
    /\ (LastRoundBlock(r) - h) % BlockInterval = 0

RewardBlock(r, h) == RewardBlocks(r) - (LastRoundBlock(r) - h) \div BlockInterval

StartIndex(r, h) == (RewardBlock(r, h) - 1) * BlockPayees

EndIndex(r, h) ==
    StartIndex(r, h) +
        IF RewardBlock(r, h) = RewardBlocks(r) /\ PayeeCount(r) % BlockPayees # 0
        THEN PayeeCount(r) % BlockPayees
        ELSE BlockPayees

\* Place of a in the sorted list S.
Place(S, a) == Cardinality({b \in S : b <= a})

\* The result GetPayments returns an error for: the slice ends after the list.
DatabaseError(res, h) ==
    /\ res # NoResult
    /\ IsRewardBlock(res.round, h)
    /\ EndIndex(res.round, h) > Cardinality(res.payouts)

\* Mutant: a slice begins with the last payee of the one before.
GetPaymentsOverlapping(res, h) ==
    IF res = NoResult \/ ~IsRewardBlock(res.round, h) THEN {}
    ELSE {a \in res.payouts : Place(res.payouts, a) \in
                StartIndex(res.round, h) .. EndIndex(res.round, h)}

GetPayments(res, h) ==
    IF res = NoResult \/ ~IsRewardBlock(res.round, h) THEN {}
    ELSE {a \in res.payouts : Place(res.payouts, a) \in
                StartIndex(res.round, h) + 1 .. EndIndex(res.round, h)}

\* FillPayments at the height h: the outputs for rewards of a coinbase made here.
\* Amounts are left out, so nobody's reward is too small to be an output.
FillPayments(h) ==
    {[round |-> result.round.number, addr |-> a, height |-> h] : a \in GetPayments(result, h)}

-----------------------------------------------------------------------------
(* Blocks *)

Count(kind) ==
    /\ faults < MaxFaults
    /\ faults' = faults + 1
    /\ happened' = happened \cup {kind}

Fault(kind) == kind \in Faults /\ Count(kind)

NoEntries == [a \in Addr |-> NoEntry]

\* The entries the cache holds once the database was read into it.
AllEntries == [a \in Addr |-> Found(a)]

\* The result of the last or of the undone round is not yet in the database.
Pending(res) == res # NoResult /\ ~res.synced

NeedsSync == Pending(result) \/ Pending(undoResult)

\* cs_main is free, and the flush after the last block is done.
Ready == job = Idle /\ ~flushing /\ ~NeedsSync

CoinbaseSteps(h, a) ==
    IF a = NoAddr THEN <<>>
    ELSE <<[type |-> "out", tx |-> [height |-> h, payee |-> a], addr |-> a,
            value |-> CoinbaseValue, locked |-> FALSE]>>

BlockSteps(h, b) ==
    CoinbaseSteps(h, b.payee) \o IF b.tx = NoTx THEN <<>> ELSE Steps[b.tx]

Backwards(s) == [i \in 1 .. Len(s) |-> s[Len(s) + 1 - i]]

Work(kind, b, todo) ==
    [kind |-> kind, block |-> b, todo |-> todo, disqualified |-> 0,
     qualified |-> 0, coins |-> coins]

\* The inputs of b are unspent.
HaveInputs(b) ==
    b.tx # NoTx =>
        /\ \A i \in DOMAIN chain : chain[i].tx # b.tx
        /\ \A i \in DOMAIN Steps[b.tx] :
               Steps[b.tx][i].type = "in" => coins[Steps[b.tx][i].addr] >= Steps[b.tx][i].value

\* ConnectTip takes the next block.  One that has to fail counts as a fault.
ConnectTip(b) ==
    /\ Ready
    /\ Len(chain) < MaxHeight
    /\ DatabaseError(result, Len(chain) + 1) => faults < MaxFaults
    /\ HaveInputs(b)
    /\ job' = Work("connect", b, BlockSteps(Len(chain) + 1, b))
    /\ UNCHANGED <<cacheVars, diskVars, chainVars, flushing, due, boundVars>>

\* The head of the block under way.
At(kind, type) ==
    /\ job.kind = kind
    /\ job.todo # <<>>
    /\ Head(job.todo).type = type

\* Finish the head: disq and qual entries were counted, amount moved.
StepDone(disq, qual, amount) ==
    job' = [job EXCEPT !.todo = Tail(@),
                       !.disqualified = @ + disq,
                       !.qualified = @ + qual,
                       !.coins[Head(job.todo).addr] = @ + amount]

One(b) == IF b THEN 1 ELSE 0

\* An address without an entry is not looked at.
ProcessInput ==
    /\ At("connect", "in")
    /\ LET s == Head(job.todo)
           e == Found(s.addr)
       IN  \/ /\ e = NoEntry
              /\ StepDone(0, 0, -s.value)
              /\ UNCHANGED cache
           \/ /\ e # NoEntry
              /\ StepDone(One(SpendDisqualifies(e, s)), 0, -s.value)
              /\ cache' = [cache EXCEPT ![s.addr] = Spent(e, s)]
    /\ UNCHANGED <<height, round, rounds, result, undoResult, diskVars, chainVars,
                   flushing, due, boundVars>>

ProcessOutput ==
    /\ At("connect", "out")
    /\ LET s == Head(job.todo)
           e == GetRewardEntry(s.addr)
       IN  /\ StepDone(One(OutputDisqualifies(e, s)), One(OutputQualifies(e, s)), s.value)
           /\ cache' = [cache EXCEPT ![s.addr] = Received(e, s)]
    /\ UNCHANGED <<height, round, rounds, result, undoResult, diskVars, chainVars,
                   flushing, due, boundVars>>

\* Height of the block that is being connected.
NextHeight == Len(chain) + 1

(***************************************************************************)
(* ConnectBlock returns false: a script or a payment is wrong, or          *)
(* SmartRewardPayments::Validate has no list for a reward block.  The      *)
(* coins of the block are dropped, the entries keep what it did to them.   *)
(* A template that TestBlockValidity tries leaves no marks: it passes      *)
(* fIsVerifyDB, so ConnectBlock does not touch the rewards.                *)
(***************************************************************************)
RejectBlock ==
    /\ job.kind = "connect"
    /\ \/ Fault("reject")
       \/ job.todo = <<>> /\ DatabaseError(result, NextHeight) /\ Count("reject")
    /\ job' = Idle
    /\ UNCHANGED <<cacheVars, diskVars, chainVars, flushing, due, writes>>

\* The payouts are over and stored.
Outdated(res) == res # NoResult /\ res.synced /\ NextHeight > LastRoundBlock(res.round)

\* ApplyRoundUpdateResult.
UpdatedRound ==
    [round EXCEPT !.disqualified = @ + job.disqualified, !.eligible = @ + job.qualified]

\* The entry takes part in the next round.
Chosen(e) ==
    /\ e # NoEntry
    /\ e.balance >= MinBalance
    /\ e.activationTx # NoTx
    /\ e.disqualifyingTx = NoTx
    /\ e.smartnodePaymentTx = NoTx

NextRoundEntry(e) ==
    IF e = NoEntry THEN NoEntry
    ELSE IF Chosen(e) THEN [e EXCEPT !.enrolled = TRUE]
    ELSE [e EXCEPT !.enrolled = FALSE, !.disqualifyingTx = NoTx, !.smartnodePaymentTx = NoTx]

\* The entries of a snapshot that have a reward.
Payouts(es) == {a \in Addr : es[a] # NoEntry /\ IsEligible(es[a])}

NextRound(r) ==
    [number |-> r.number + 1, start |-> r.end + 1, end |-> r.end + BlocksPerRound,
     eligible |-> Cardinality({a \in Addr : Chosen(Found(a))}), disqualified |-> 0]

\* The round r ends with the block under way.
EvaluateRound(r) ==
    /\ cache' = [a \in Addr |-> NextRoundEntry(Found(a))]
    /\ result' = [round |-> r, results |-> AllEntries, payouts |-> Payouts(AllEntries),
                  synced |-> FALSE]
    /\ rounds' = Append(SubSeq(rounds, 1, r.number - 1), r)
    /\ round' = NextRound(r)

\* The block is valid and becomes the tip, whether or not its coinbase pays those
\* whom FillPayments takes from the same list.
BlockConnected ==
    /\ job.kind = "connect" /\ job.todo = <<>>
    /\ ~DatabaseError(result, NextHeight)
    /\ chain' = Append(chain, job.block)
    /\ coins' = job.coins
    /\ due' = due \cup FillPayments(NextHeight)
    /\ job' = Idle
    /\ UNCHANGED <<diskVars, flushing, boundVars>>

\* CommitBlock returns false, and ConnectBlock goes on.
CommitBlockRefused ==
    /\ BlockConnected
    /\ NextHeight # height + 1
    /\ UNCHANGED cacheVars

\* Mutant: a round ends one block late.
CommitBlockLate ==
    /\ BlockConnected
    /\ NextHeight = height + 1
    /\ height' = NextHeight
    /\ undoResult' = IF Outdated(result) THEN NoResult ELSE undoResult
    /\ \/ /\ NextHeight # round.end + 1
          /\ result' = IF Outdated(result) THEN NoResult ELSE result
          /\ round' = UpdatedRound
          /\ UNCHANGED <<cache, rounds>>
       \/ /\ NextHeight = round.end + 1
          /\ EvaluateRound(UpdatedRound)

CommitBlock ==
    /\ BlockConnected
    /\ NextHeight = height + 1
    /\ height' = NextHeight
    /\ undoResult' = IF Outdated(result) THEN NoResult ELSE undoResult
    /\ \/ /\ NextHeight # round.end
          /\ result' = IF Outdated(result) THEN NoResult ELSE result
          /\ round' = UpdatedRound
          /\ UNCHANGED <<cache, rounds>>
       \/ /\ NextHeight = round.end
          /\ EvaluateRound(UpdatedRound)

-----------------------------------------------------------------------------
(* Reorganisations *)

(***************************************************************************)
(* DisconnectTip takes the tip.  The counters of the undo result start at  *)
(* zero and are set back to zero whenever they become negative, so it      *)
(* stays zero.                                                             *)
(***************************************************************************)
DisconnectTip ==
    /\ Ready
    /\ chain # <<>>
    /\ Fault(IF Len(chain) > round.start THEN "reorg" ELSE "crossing")
    /\ job' = Work("disconnect", chain[Len(chain)],
                   Backwards(BlockSteps(Len(chain), chain[Len(chain)])))
    /\ UNCHANGED <<cacheVars, diskVars, chainVars, flushing, due, writes>>

UndoOutput ==
    /\ At("disconnect", "out")
    /\ LET s == Head(job.todo)
       IN  /\ StepDone(0, 0, -s.value)
           /\ cache' = [cache EXCEPT ![s.addr] = Unreceived(GetRewardEntry(s.addr), s)]
    /\ UNCHANGED <<height, round, rounds, result, undoResult, diskVars, chainVars,
                   flushing, due, boundVars>>

UndoInput ==
    /\ At("disconnect", "in")
    /\ LET s == Head(job.todo)
       IN  /\ StepDone(0, 0, s.value)
           /\ cache' = [cache EXCEPT ![s.addr] = Unspent(GetRewardEntry(s.addr), s)]
    /\ UNCHANGED <<height, round, rounds, result, undoResult, diskVars, chainVars,
                   flushing, due, boundVars>>

\* The first block of the round goes: the round before becomes the current one.
RecoverRound ==
    LET prev == rounds[round.number - 1]
    IN  /\ round' = prev
        /\ rounds' = SubSeq(rounds, 1, prev.number - 1)
        /\ undoResult' = [round |-> prev, results |-> db.results[prev.number],
                          payouts |-> {}, synced |-> FALSE]
        /\ cache' = AllEntries

CommitUndoBlock ==
    /\ job.kind = "disconnect" /\ job.todo = <<>>
    /\ Len(chain) = height
    /\ height' = height - 1
    /\ chain' = SubSeq(chain, 1, Len(chain) - 1)
    /\ coins' = job.coins
    /\ due' = {p \in due : p.height # Len(chain)}
    /\ job' = Idle
    /\ \/ round.number > 1 /\ Len(chain) = round.start /\ RecoverRound
       \/ /\ round.number = 1 \/ Len(chain) # round.start
          /\ UNCHANGED <<cache, round, rounds, undoResult>>
    /\ UNCHANGED <<result, diskVars, flushing, boundVars>>

\* CommitUndoBlock returns false: AbortNode.
CommitUndoBlockRefused ==
    /\ job.kind = "disconnect" /\ job.todo = <<>>
    /\ Len(chain) # height
    /\ job' = Aborted
    /\ UNCHANGED <<cacheVars, diskVars, chainVars, flushing, due, boundVars>>

-----------------------------------------------------------------------------
(* The disk *)

\* CSmartRewardsDB::SyncCached: what an entry of the cache leaves in the database.
SyncedEntry(a) ==
    IF Pending(undoResult) /\ (cache[a] # NoEntry \/ undoResult.results[a] # NoEntry)
    THEN undoResult.results[a]
    ELSE IF cache[a] = NoEntry THEN db.entries[a]
    ELSE IF cache[a].balance = 0 THEN NoEntry
    ELSE cache[a]

\* The snapshots after the undone one was erased and the new one was written.
SyncedResults ==
    LET kept == [n \in DOMAIN db.results |->
                    IF Pending(undoResult) /\ n = undoResult.round.number
                    THEN NoEntries ELSE db.results[n]]
    IN  IF Pending(result)
        THEN Append(SubSeq(kept, 1, result.round.number - 1), result.results)
        ELSE kept

\* CSmartRewardsCache::Clear on a result.
Stored(res) == IF res = NoResult THEN NoResult ELSE [res EXCEPT !.synced = TRUE]

(***************************************************************************)
(* FlushStateToDisk up to the rewards: hourly, at a shutdown, when a cache *)
(* is full or a result is pending.  An hourly write is all; the others     *)
(* flush the coins next.                                                   *)
(***************************************************************************)
SyncCached(full) ==
    /\ job \in {Idle, Aborted} /\ ~flushing
    /\ \/ NeedsSync /\ full /\ UNCHANGED writes
       \/ ~NeedsSync /\ writes < MaxWrites /\ writes' = writes + 1
    /\ db' = [entries |-> [a \in Addr |-> SyncedEntry(a)], height |-> height,
              round |-> round, rounds |-> rounds, results |-> SyncedResults]
    /\ cache' = NoEntries
    /\ result' = Stored(result)
    /\ undoResult' = Stored(undoResult)
    /\ flushing' = full
    /\ UNCHANGED <<height, round, rounds, onDisk, chainVars, job, due, happened,
                   faults>>

FlushCoins ==
    /\ flushing
    /\ onDisk' = [chain |-> chain, coins |-> coins, due |-> due]
    /\ flushing' = FALSE
    /\ UNCHANGED <<cacheVars, db, chainVars, job, due, boundVars>>

\* The result the constructor of CSmartRewards reads back.
LoadedResult ==
    LET n == db.round.number - 1
    IN  IF n = 0 THEN NoResult
        ELSE [round |-> db.rounds[n], results |-> db.results[n],
              payouts |-> Payouts(db.results[n]), synced |-> TRUE]

\* A shutdown has just flushed everything.
CleanShutdown ==
    /\ job \in {Idle, Aborted} /\ ~flushing
    /\ onDisk.chain = chain /\ onDisk.coins = coins /\ onDisk.due = due
    /\ db.height = height /\ db.round = round
    /\ cache = NoEntries /\ ~NeedsSync

\* The node stops and starts; nothing compares the two databases.
Restart ==
    /\ \/ CleanShutdown /\ UNCHANGED <<happened, faults>>
       \/ ~CleanShutdown /\ Fault("crash")
    /\ cache' = NoEntries
    /\ height' = db.height
    /\ round' = db.round
    /\ rounds' = db.rounds
    /\ result' = LoadedResult
    /\ undoResult' = NoResult
    /\ chain' = onDisk.chain
    /\ coins' = onDisk.coins
    /\ job' = Idle
    /\ flushing' = FALSE
    /\ due' = onDisk.due
    /\ UNCHANGED <<diskVars, writes>>

-----------------------------------------------------------------------------
(***************************************************************************)
(* A round begins with the first modelled block; the addresses of some set *)
(* were activated before, and those of them with enough coins take part.   *)
(***************************************************************************)
FirstEntry(a, active) ==
    IF Owned[a] = 0 THEN NoEntry
    ELSE [NewEntry EXCEPT !.balance = Owned[a],
                          !.activationTx = IF a \in active THEN Earlier ELSE NoTx,
                          !.enrolled = a \in active /\ Owned[a] >= MinBalance]

Init ==
    /\ \E active \in Active :
           /\ round = [number |-> 1, start |-> 1, end |-> FirstEnd,
                       eligible |-> Cardinality({a \in active : Owned[a] >= MinBalance}),
                       disqualified |-> 0]
           /\ db = [entries |-> [a \in Addr |-> FirstEntry(a, active)], height |-> 0,
                    round |-> round, rounds |-> <<>>, results |-> <<>>]
    /\ cache = NoEntries
    /\ height = 0
    /\ rounds = <<>>
    /\ result = NoResult
    /\ undoResult = NoResult
    /\ chain = <<>>
    /\ coins = Owned
    /\ onDisk = [chain |-> <<>>, coins |-> Owned, due |-> {}]
    /\ job = Idle
    /\ flushing = FALSE
    /\ due = {}
    /\ happened = {}
    /\ faults = 0 /\ writes = 0

Next ==
    \/ \E b \in Blocks : ConnectTip(b)
    \/ ProcessInput
    \/ ProcessOutput
    \/ RejectBlock
    \/ CommitBlock
    \/ CommitBlockRefused
    \/ DisconnectTip
    \/ UndoOutput
    \/ UndoInput
    \/ CommitUndoBlock
    \/ CommitUndoBlockRefused
    \/ \E full \in BOOLEAN : SyncCached(full)
    \/ FlushCoins
    \/ Restart

Spec == Init /\ [][Next]_vars

-----------------------------------------------------------------------------
(* Properties *)

\* GetPayments never runs past the list of payouts.
ListCoversSlices ==
    result # NoResult =>
        \A h \in result.round.end + StartDelay .. LastRoundBlock(result.round) :
            ~DatabaseError(result, h)

(***************************************************************************)
(* GetPayments never runs past the list of payouts, as the comment "Should *)
(* not happen!" in rewardspayments.cpp says, while no block is undone or   *)
(* rejected and no state lost.  A node for which it happens rejects every  *)
(* block of that height, whoever it pays.  The counters of the round and   *)
(* the flags of the entries are kept apart, so every path that ends an     *)
(* eligibility has to count it, and no flush may erase an eligible entry.  *)
(***************************************************************************)
PaymentsAvailable == happened = {} => ListCoversSlices

\* The coins the entries are about: the block under way included.
CoinsNow == IF job.kind \in {"connect", "disconnect"} THEN job.coins ELSE coins

(***************************************************************************)
(* No address is credited with coins it does not own, although entries are *)
(* updated by ProcessOutput and UndoInput and not read from the coins, and *)
(* although UndoOutput subtracts what was never added.                     *)
(***************************************************************************)
BalanceCovered ==
    happened \subseteq {"reorg"} =>
        \A a \in Addr : Found(a) # NoEntry => Found(a).balance <= CoinsNow[a]

(***************************************************************************)
(* The rewards follow the chain through blocks, reorganisations inside a   *)
(* round, flushes and restarts: CommitBlock never meets "Invalid next      *)
(* block!", and the current round contains the next block, so it ends.     *)
(***************************************************************************)
RoundInStep ==
    happened \subseteq {"reorg"} =>
        /\ height = Len(chain)
        /\ round.start <= height + 1 /\ height + 1 <= round.end

\* What the node knows of the list of the finished round n.
ListOf(n) ==
    IF Pending(result) /\ result.round.number = n THEN result.payouts
    ELSE Payouts(db.results[n])

(***************************************************************************)
(* FillPayments has nobody due at two heights of a chain for one round,    *)
(* whatever is disconnected and connected again, rejected or lost in a     *)
(* crash: the slices are cut by height, and the list they are cut from     *)
(* does not change under them.  A crash after the end of a round was       *)
(* undone is left out: the database may then hold another list than the    *)
(* one the blocks on disk were made from.                                  *)
(***************************************************************************)
NobodyDueTwice ==
    ~({"crossing", "crash"} \subseteq happened) =>
        \A p, q \in due : p.round = q.round /\ p.addr = q.addr => p.height = q.height

(***************************************************************************)
(* Once the last reward block of a round is connected, everyone on the     *)
(* list of that round was due at a height of the chain, so miners that use *)
(* FillPayments have paid them all: no flush or restart in between loses   *)
(* the list, and the slices, the last and shorter one too, make it up.     *)
(***************************************************************************)
EveryPayeeDue ==
    happened = {} =>
        \A n \in DOMAIN rounds :
            height > rounds[n].end /\ height >= LastRoundBlock(rounds[n]) =>
                ListOf(n) = {p.addr : p \in {q \in due : q.round = n}}
=============================================================================
