------------------------- MODULE SmartRewardsProofs -------------------------
(***************************************************************************)
(* Proofs about SmartRewards.                                              *)
(***************************************************************************)
EXTENDS SmartRewards, FiniteSetTheorems, TLAPS

-----------------------------------------------------------------------------
(* What the operations on entries return *)

\* Entries stay entries when an input or an output is processed or undone.
LEMMA EntryOperations ==
  ASSUME NEW e \in Entry, NEW s \in Step
  PROVE  /\ Spent(e, s) \in Entry
         /\ Received(e, s) \in Entry
         /\ Unspent(e, s) \in Entry
         /\ Unreceived(e, s) \in Entry
<1>1. s.value \in Nat /\ s.tx \in TxIds
  BY DEF Step
<1>2. Less(e.balance, s.value) \in Nat /\ e.balance + s.value \in Nat
  BY <1>1 DEF Entry, Less
<1>3. Spent(e, s) \in Entry
  BY <1>1, <1>2 DEF Spent, Entry
<1>4. Received(e, s) \in Entry
  BY <1>1, <1>2 DEF Received, Entry
<1>5. Unspent(e, s) \in Entry
  BY <1>1, <1>2 DEF Unspent, Entry
<1>6. Unreceived(e, s) \in Entry
  BY <1>1, <1>2 DEF Unreceived, Entry
<1> QED
  BY <1>3, <1>4, <1>5, <1>6

LEMMA NewEntryType == NewEntry \in Entry
  BY DEF NewEntry, Entry

LEMMA FoundType ==
  ASSUME TypeOK, NEW a \in Addr
  PROVE  /\ Found(a) \in Entry \cup {NoEntry}
         /\ GetRewardEntry(a) \in Entry
  BY NewEntryType DEF TypeOK, Entries, Database, Found, GetRewardEntry

\* The work of a block is a sequence of steps.
LEMMA BlockStepsType ==
  ASSUME NEW h \in Nat, NEW b \in Block
  PROVE  /\ BlockSteps(h, b) \in Seq(Step)
         /\ Backwards(BlockSteps(h, b)) \in Seq(Step)
<1>1. CoinbaseSteps(h, b.payee) \in Seq(Step)
  <2>1. CASE b.payee = NoAddr
    BY <2>1 DEF CoinbaseSteps
  <2>2. CASE b.payee # NoAddr
    <3> DEFINE c == [type |-> "out", tx |-> [height |-> h, payee |-> b.payee],
                     addr |-> b.payee, value |-> CoinbaseValue, locked |-> FALSE]
    <3>1. b.payee \in Addr
      BY <2>2 DEF Block
    <3>2. c \in Step
      BY <3>1, RewardsAssumption DEF Step, TxIds, Coinbases
    <3> QED
      BY <2>2, <3>2 DEF CoinbaseSteps
  <2> QED
    BY <2>1, <2>2
<1>2. (IF b.tx = NoTx THEN <<>> ELSE Steps[b.tx]) \in Seq(Step)
  BY RewardsAssumption DEF Block
<1>3. BlockSteps(h, b) \in Seq(Step)
  BY <1>1, <1>2 DEF BlockSteps
<1>4. ASSUME NEW q \in Seq(Step)
      PROVE  Backwards(q) \in Seq(Step)
  <2>1. Len(q) \in Nat /\ \A i \in 1 .. Len(q) : q[Len(q) + 1 - i] \in Step
    OBVIOUS
  <2> QED
    BY <2>1 DEF Backwards
<1> QED
  BY <1>3, <1>4

-----------------------------------------------------------------------------
(* Types *)

\* The finished rounds are those before the current one.
RoundsOK ==
    /\ round.number >= 1
    /\ Len(rounds) = round.number - 1
    /\ \A n \in DOMAIN rounds : rounds[n].number = n

DatabaseOK ==
    /\ db.round.number >= 1
    /\ Len(db.rounds) = db.round.number - 1
    /\ \A n \in DOMAIN db.rounds : db.rounds[n].number = n
    /\ Len(db.results) >= Len(db.rounds)

\* Only the last round may lack its snapshot.
SnapshotsOK ==
    /\ Pending(result) => /\ result.round.number = Len(rounds)
                          /\ Len(rounds) >= 1
                          /\ Len(db.results) + 1 >= Len(rounds)
    /\ ~Pending(result) => Len(db.results) >= Len(rounds)

\* A block is begun only when no result is pending.
JobOK ==
    /\ job.kind \in {"connect", "disconnect"} => ~NeedsSync
    /\ job.kind = "disconnect" => chain # <<>>

Shape == TypeOK /\ RoundsOK /\ DatabaseOK /\ SnapshotsOK /\ JobOK

LEMMA JobType ==
  ASSUME TypeOK, job.kind \in {"connect", "disconnect"}
  PROVE  /\ job \in [kind : {"connect", "disconnect"}, block : Block, todo : Seq(Step),
                     disqualified : Nat, qualified : Nat, coins : [Addr -> Int]]
         /\ job.block \in Block /\ job.todo \in Seq(Step)
         /\ job.disqualified \in Nat /\ job.qualified \in Nat
         /\ job.coins \in [Addr -> Int]
  BY DEF TypeOK, Job, Idle, Aborted

LEMMA HeadType ==
  ASSUME TypeOK, job.kind \in {"connect", "disconnect"}, job.todo # <<>>
  PROVE  /\ Head(job.todo) \in Step
         /\ Tail(job.todo) \in Seq(Step)
         /\ Head(job.todo).addr \in Addr
         /\ Head(job.todo).value \in Int
         /\ -Head(job.todo).value \in Int
<1>1. Head(job.todo) \in Step /\ Tail(job.todo) \in Seq(Step)
  BY JobType
<1>2. ASSUME NEW s \in Step PROVE s.addr \in Addr /\ s.value \in Int /\ -s.value \in Int
  BY DEF Step
<1> QED
  BY <1>1, <1>2

\* The head of the work is a step, and finishing it leaves the rest.
LEMMA StepDoneType ==
  ASSUME TypeOK, job.kind \in {"connect", "disconnect"}, job.todo # <<>>,
         NEW d \in Nat, NEW q \in Nat, NEW v \in Int, StepDone(d, q, v)
  PROVE  /\ Head(job.todo) \in Step
         /\ job' \in Job
         /\ job'.kind = job.kind
         /\ job'.todo = Tail(job.todo)
         /\ job'.disqualified = job.disqualified + d
         /\ job'.qualified = job.qualified + q
<1>1. Head(job.todo) \in Step /\ Tail(job.todo) \in Seq(Step)
  BY JobType
<1>2. Head(job.todo).addr \in Addr
  BY <1>1 DEF Step
<1> DEFINE c == [job.coins EXCEPT ![Head(job.todo).addr] = @ + v]
<1>3. c \in [Addr -> Int]
  BY <1>2, JobType
<1>4. job' = [job EXCEPT !.todo = Tail(job.todo), !.disqualified = job.disqualified + d,
                         !.qualified = job.qualified + q, !.coins = c]
  BY JobType DEF StepDone
<1>5. /\ job'.kind = job.kind /\ job'.block = job.block /\ job'.todo = Tail(job.todo)
      /\ job'.disqualified = job.disqualified + d /\ job'.qualified = job.qualified + q
      /\ job'.coins = c
  BY <1>4, JobType
<1>6. job' = [kind |-> job'.kind, block |-> job'.block, todo |-> job'.todo,
              disqualified |-> job'.disqualified, qualified |-> job'.qualified,
              coins |-> job'.coins]
  BY <1>4, JobType
<1>7. /\ job'.kind \in {"connect", "disconnect"} /\ job'.block \in Block
      /\ job'.todo \in Seq(Step) /\ job'.disqualified \in Nat /\ job'.qualified \in Nat
      /\ job'.coins \in [Addr -> Int]
  BY <1>1, <1>3, <1>5, JobType
<1>8. job' \in Job
  BY <1>6, <1>7 DEF Job
<1> QED
  BY <1>1, <1>5, <1>8

LEMMA ShapeInit == Init => Shape
<1> SUFFICES ASSUME Init PROVE Shape
  OBVIOUS
<1> USE RewardsAssumption
<1>1. PICK active \in Active :
          /\ round = [number |-> 1, start |-> 1, end |-> FirstEnd,
                      eligible |-> Cardinality({a \in active : Owned[a] >= MinBalance}),
                      disqualified |-> 0]
          /\ db = [entries |-> [a \in Addr |-> FirstEntry(a, active)], height |-> 0,
                   round |-> round, rounds |-> <<>>, results |-> <<>>]
  BY DEF Init
<1>2. Cardinality({a \in active : Owned[a] >= MinBalance}) \in Nat
  BY FS_Subset, FS_CardinalityType
<1>3. round \in Round
  BY <1>1, <1>2 DEF Round
<1>4. [a \in Addr |-> FirstEntry(a, active)] \in Entries
  <2>1. Earlier \in TxIds /\ NewEntry \in Entry
    BY NewEntryType DEF TxIds
  <2>2. ASSUME NEW a \in Addr PROVE FirstEntry(a, active) \in Entry \cup {NoEntry}
    <3>1. CASE Owned[a] = 0
      BY <3>1 DEF FirstEntry
    <3>2. CASE Owned[a] # 0
      <4>1. Owned[a] \in Nat /\ (IF a \in active THEN Earlier ELSE NoTx) \in TxIds \cup {NoTx}
        BY <2>1
      <4>2. (a \in active /\ Owned[a] >= MinBalance) \in BOOLEAN
        OBVIOUS
      <4> QED
        BY <2>1, <3>2, <4>1, <4>2 DEF FirstEntry, Entry, NewEntry
    <3> QED
      BY <3>1, <3>2
  <2> QED
    BY <2>2 DEF Entries
<1>5. db \in Database
  BY <1>1, <1>3, <1>4 DEF Database
<1>6. TypeOK
  <2>1. cache \in Entries
    BY DEF Init, NoEntries, Entries
  <2>2. /\ coins \in [Addr -> Int]
        /\ onDisk \in [chain : Seq(Block), coins : [Addr -> Int],
                       due : SUBSET [round : Nat, addr : Addr, height : Nat]]
    BY DEF Init
  <2>3. job \in Job
    BY DEF Init, Job
  <2>4. /\ height \in Nat /\ rounds \in Seq(Round) /\ chain \in Seq(Block)
        /\ faults \in 0 .. MaxFaults /\ writes \in 0 .. MaxWrites
    BY DEF Init
  <2>5. /\ result \in Result \cup {NoResult} /\ undoResult \in Result \cup {NoResult}
        /\ due \subseteq [round : Nat, addr : Addr, height : Nat]
        /\ happened \subseteq FaultKinds
    BY DEF Init
  <2>6. flushing \in BOOLEAN
    BY DEF Init
  <2> QED
    BY <1>3, <1>5, <2>1, <2>2, <2>3, <2>4, <2>5, <2>6 DEF TypeOK
<1>7. RoundsOK /\ DatabaseOK
  BY <1>1 DEF Init, RoundsOK, DatabaseOK
<1>8. SnapshotsOK /\ JobOK
  BY <1>1 DEF Init, SnapshotsOK, JobOK, Pending, Idle
<1> QED
  BY <1>6, <1>7, <1>8 DEF Shape

\* The work of a block that is begun.
LEMMA WorkType ==
  ASSUME TypeOK, NEW kind \in {"connect", "disconnect"}, NEW b \in Block,
         NEW todo \in Seq(Step)
  PROVE  Work(kind, b, todo) \in Job
  BY DEF TypeOK, Work, Job

LEMMA ShapeConnectTip ==
  ASSUME Shape, NEW b \in Blocks, ConnectTip(b)
  PROVE  Shape'
<1>1. b \in Block /\ Len(chain) + 1 \in Nat
  BY RewardsAssumption DEF Shape, TypeOK
<1>2. job' \in Job /\ job'.kind = "connect"
  BY <1>1, BlockStepsType, WorkType DEF ConnectTip, Shape, Work
<1>3. TypeOK'
  BY <1>2 DEF Shape, TypeOK, ConnectTip, cacheVars, diskVars, chainVars, boundVars
<1>4. JobOK'
  BY <1>2 DEF Shape, JobOK, ConnectTip, Ready, NeedsSync, Pending, cacheVars
<1> QED
  BY <1>3, <1>4 DEF Shape, RoundsOK, DatabaseOK, SnapshotsOK, Pending, ConnectTip,
     cacheVars, diskVars

\* The steps of a block change the cache and the work only.
LEMMA ShapeStep ==
  ASSUME Shape, job.kind \in {"connect", "disconnect"}, cache' \in Entries,
         job' \in Job, job'.kind = job.kind,
         UNCHANGED <<height, round, rounds, result, undoResult, diskVars, chainVars,
                     flushing, due, boundVars>>
  PROVE  Shape'
<1>1. TypeOK'
  BY DEF Shape, TypeOK, diskVars, chainVars, boundVars
<1>2. JobOK'
  BY DEF Shape, JobOK, NeedsSync, Pending, chainVars
<1> QED
  BY <1>1, <1>2 DEF Shape, RoundsOK, DatabaseOK, SnapshotsOK, Pending, diskVars

\* The cache after one of its entries was replaced.
LEMMA CacheUpdate ==
  ASSUME TypeOK, NEW a \in Addr, NEW e \in Entry
  PROVE  [cache EXCEPT ![a] = e] \in Entries
  BY DEF TypeOK, Entries

LEMMA ShapeProcessInput ==
  ASSUME Shape, ProcessInput
  PROVE  Shape'
<1> DEFINE s == Head(job.todo)
           e == Found(s.addr)
<1>1. TypeOK /\ job.kind = "connect" /\ job.todo # <<>>
  BY DEF Shape, ProcessInput, At
<1>2. s \in Step /\ s.addr \in Addr /\ -s.value \in Int
  BY <1>1, HeadType
<1>3. One(SpendDisqualifies(e, s)) \in Nat
  BY DEF One
<1>4. CASE e = NoEntry
  <2>1. StepDone(0, 0, -s.value) /\ UNCHANGED cache
    BY <1>4 DEF ProcessInput
  <2>2. job' \in Job /\ job'.kind = job.kind
    BY <1>1, <1>2, <2>1, StepDoneType
  <2> QED
    BY <1>1, <2>1, <2>2, ShapeStep DEF ProcessInput, TypeOK
<1>5. CASE e # NoEntry
  <2>1. StepDone(One(SpendDisqualifies(e, s)), 0, -s.value)
        /\ cache' = [cache EXCEPT ![s.addr] = Spent(e, s)]
    BY <1>5 DEF ProcessInput
  <2>2. job' \in Job /\ job'.kind = job.kind
    BY <1>1, <1>2, <1>3, <2>1, StepDoneType
  <2>3. Spent(e, s) \in Entry
    BY <1>1, <1>2, <1>5, FoundType, EntryOperations
  <2>4. cache' \in Entries
    BY <1>1, <1>2, <2>1, <2>3, CacheUpdate
  <2> QED
    BY <1>1, <2>2, <2>4, ShapeStep DEF ProcessInput
<1> QED
  BY <1>4, <1>5

LEMMA ShapeProcessOutput ==
  ASSUME Shape, ProcessOutput
  PROVE  Shape'
<1> DEFINE s == Head(job.todo)
           e == GetRewardEntry(s.addr)
<1>1. TypeOK /\ job.kind = "connect" /\ job.todo # <<>>
  BY DEF Shape, ProcessOutput, At
<1>2. s \in Step /\ s.addr \in Addr /\ s.value \in Int
  BY <1>1, HeadType
<1>3. One(OutputDisqualifies(e, s)) \in Nat /\ One(OutputQualifies(e, s)) \in Nat
  BY DEF One
<1>4. StepDone(One(OutputDisqualifies(e, s)), One(OutputQualifies(e, s)), s.value)
      /\ cache' = [cache EXCEPT ![s.addr] = Received(e, s)]
  BY DEF ProcessOutput
<1>5. job' \in Job /\ job'.kind = job.kind
  BY <1>1, <1>2, <1>3, <1>4, StepDoneType
<1>6. Received(e, s) \in Entry
  BY <1>1, <1>2, FoundType, EntryOperations
<1>7. cache' \in Entries
  BY <1>1, <1>2, <1>4, <1>6, CacheUpdate
<1> QED
  BY <1>1, <1>5, <1>7, ShapeStep DEF ProcessOutput

LEMMA ShapeUndoOutput ==
  ASSUME Shape, UndoOutput
  PROVE  Shape'
<1> DEFINE s == Head(job.todo)
           e == GetRewardEntry(s.addr)
<1>1. TypeOK /\ job.kind = "disconnect" /\ job.todo # <<>>
  BY DEF Shape, UndoOutput, At
<1>2. s \in Step /\ s.addr \in Addr /\ -s.value \in Int
  BY <1>1, HeadType
<1>3. StepDone(0, 0, -s.value) /\ cache' = [cache EXCEPT ![s.addr] = Unreceived(e, s)]
  BY DEF UndoOutput
<1>4. job' \in Job /\ job'.kind = job.kind
  BY <1>1, <1>2, <1>3, StepDoneType
<1>5. cache' \in Entries
  BY <1>1, <1>2, <1>3, FoundType, EntryOperations, CacheUpdate
<1> QED
  BY <1>1, <1>4, <1>5, ShapeStep DEF UndoOutput

LEMMA ShapeUndoInput ==
  ASSUME Shape, UndoInput
  PROVE  Shape'
<1> DEFINE s == Head(job.todo)
           e == GetRewardEntry(s.addr)
<1>1. TypeOK /\ job.kind = "disconnect" /\ job.todo # <<>>
  BY DEF Shape, UndoInput, At
<1>2. s \in Step /\ s.addr \in Addr /\ s.value \in Int
  BY <1>1, HeadType
<1>3. StepDone(0, 0, s.value) /\ cache' = [cache EXCEPT ![s.addr] = Unspent(e, s)]
  BY DEF UndoInput
<1>4. job' \in Job /\ job'.kind = job.kind
  BY <1>1, <1>2, <1>3, StepDoneType
<1>5. cache' \in Entries
  BY <1>1, <1>2, <1>3, FoundType, EntryOperations, CacheUpdate
<1> QED
  BY <1>1, <1>4, <1>5, ShapeStep DEF UndoInput


\* A fault is counted.
LEMMA CountType ==
  ASSUME TypeOK, NEW kind \in FaultKinds, Count(kind)
  PROVE  /\ faults' \in 0 .. MaxFaults
         /\ happened' \subseteq FaultKinds
         /\ kind \in happened'
         /\ happened \subseteq happened'
<1>1. faults' \in 0 .. MaxFaults
  BY RewardsAssumption DEF TypeOK, Count
<1> QED
  BY <1>1 DEF TypeOK, Count

LEMMA ShapeRejectBlock ==
  ASSUME Shape, RejectBlock
  PROVE  Shape'
<1>1. Count("reject")
  BY DEF RejectBlock, Fault
<1>2. faults' \in 0 .. MaxFaults /\ happened' \subseteq FaultKinds
  BY <1>1, CountType DEF Shape, FaultKinds
<1>3. job' \in Job /\ job'.kind = "idle"
  BY DEF RejectBlock, Idle, Job
<1>4. TypeOK'
  BY <1>2, <1>3 DEF Shape, TypeOK, RejectBlock, cacheVars, diskVars, chainVars
<1>5. JobOK'
  BY <1>3 DEF JobOK
<1> QED
  BY <1>4, <1>5 DEF Shape, RoundsOK, DatabaseOK, SnapshotsOK, Pending, RejectBlock,
     cacheVars, diskVars

\* A sequence that is as long as the part asked for.
LEMMA SubSeqAll ==
  ASSUME NEW S, NEW q \in Seq(S)
  PROVE  SubSeq(q, 1, Len(q)) = q
  OBVIOUS

\* What is added to the chain and to the history of who is due.
LEMMA BlockConnectedType ==
  ASSUME TypeOK, BlockConnected
  PROVE  /\ chain' \in Seq(Block)
         /\ Len(chain') = NextHeight
         /\ coins' \in [Addr -> Int]
         /\ due' \subseteq [round : Nat, addr : Addr, height : Nat]
         /\ job' = Idle
         /\ UNCHANGED <<db, onDisk, flushing, happened, faults, writes>>
<1>1. job.block \in Block /\ job.coins \in [Addr -> Int] /\ NextHeight \in Nat
  BY JobType DEF BlockConnected, TypeOK, NextHeight
<1>2. chain' \in Seq(Block) /\ Len(chain') = NextHeight
  BY <1>1 DEF BlockConnected, TypeOK, NextHeight
<1>3. ASSUME NEW a \in GetPayments(result, NextHeight)
      PROVE  result.round.number \in Nat /\ a \in Addr
  BY <1>3 DEF GetPayments, TypeOK, Result, Round
<1>4. due' \subseteq [round : Nat, addr : Addr, height : Nat]
  BY <1>1, <1>3 DEF BlockConnected, FillPayments, TypeOK
<1> QED
  BY <1>1, <1>2, <1>4 DEF BlockConnected, diskVars, boundVars

LEMMA ShapeCommitBlockRefused ==
  ASSUME Shape, CommitBlockRefused
  PROVE  Shape'
<1>1. TypeOK /\ BlockConnected /\ UNCHANGED cacheVars
  BY DEF Shape, CommitBlockRefused
<1>2. job' \in Job /\ job'.kind = "idle"
  BY <1>1 DEF BlockConnected, Idle, Job
<1>3. TypeOK'
  BY <1>1, <1>2, BlockConnectedType DEF TypeOK, cacheVars
<1>4. JobOK'
  BY <1>2 DEF JobOK
<1> QED
  BY <1>1, <1>3, <1>4, BlockConnectedType DEF Shape, RoundsOK, DatabaseOK, SnapshotsOK,
     Pending, cacheVars

LEMMA UpdatedRoundType ==
  ASSUME TypeOK, job.kind = "connect"
  PROVE  /\ UpdatedRound \in Round
         /\ UpdatedRound.number = round.number
         /\ UpdatedRound.start = round.start
         /\ UpdatedRound.end = round.end
         /\ PayeeCount(UpdatedRound) =
                PayeeCount(round) + job.qualified - job.disqualified
<1>1. job.qualified \in Nat /\ job.disqualified \in Nat /\ round \in Round
  BY JobType DEF TypeOK
<1>2. round.disqualified + job.disqualified \in Int /\ round.eligible + job.qualified \in Int
  BY <1>1 DEF Round
<1>3. UpdatedRound \in Round
  BY <1>1, <1>2 DEF UpdatedRound, Round
<1> QED
  BY <1>1, <1>3 DEF UpdatedRound, Round, PayeeCount

\* The entries after the end of a round.
LEMMA NextEntries ==
  ASSUME TypeOK
  PROVE  /\ AllEntries \in Entries
         /\ [a \in Addr |-> NextRoundEntry(Found(a))] \in Entries
<1>1. ASSUME NEW a \in Addr
      PROVE  NextRoundEntry(Found(a)) \in Entry \cup {NoEntry}
  <2>1. Found(a) \in Entry \cup {NoEntry}
    BY FoundType
  <2> QED
    BY <2>1 DEF NextRoundEntry, Entry
<1> QED
  BY <1>1, FoundType DEF AllEntries, Entries

LEMMA NextRoundType ==
  ASSUME NEW r \in Round
  PROVE  /\ NextRound(r) \in Round
         /\ NextRound(r).number = r.number + 1
         /\ NextRound(r).start = r.end + 1
         /\ NextRound(r).end = r.end + BlocksPerRound
         /\ PayeeCount(NextRound(r)) = Cardinality({a \in Addr : Chosen(Found(a))})
<1>1. Cardinality({a \in Addr : Chosen(Found(a))}) \in Nat
  BY RewardsAssumption, FS_Subset, FS_CardinalityType
<1> QED
  BY <1>1, RewardsAssumption DEF NextRound, Round, PayeeCount


\* The result and the finished rounds after the end of a round.
LEMMA EvaluateRoundType ==
  ASSUME Shape, job.kind = "connect", EvaluateRound(UpdatedRound)
  PROVE  /\ cache' \in Entries
         /\ result' \in Result
         /\ ~result'.synced
         /\ result'.round = UpdatedRound
         /\ result'.payouts = Payouts(AllEntries)
         /\ result'.results = AllEntries
         /\ rounds' = Append(rounds, UpdatedRound)
         /\ rounds' \in Seq(Round)
         /\ round' = NextRound(UpdatedRound)
         /\ round' \in Round
<1> DEFINE r == UpdatedRound
<1>1. r \in Round /\ r.number = round.number
  BY UpdatedRoundType DEF Shape
<1>2. Payouts(AllEntries) \subseteq Addr /\ AllEntries \in Entries
  BY NextEntries DEF Shape, Payouts
<1>3. cache' \in Entries
  BY NextEntries DEF Shape, EvaluateRound
<1>4. result' = [round |-> r, results |-> AllEntries, payouts |-> Payouts(AllEntries),
                 synced |-> FALSE]
  BY DEF EvaluateRound
<1>5. result' \in Result
  BY <1>1, <1>2, <1>4 DEF Result
<1>6. rounds \in Seq(Round) /\ Len(rounds) = r.number - 1
  BY <1>1 DEF Shape, TypeOK, RoundsOK
<1>7. rounds' = Append(rounds, r)
  BY <1>6, SubSeqAll DEF EvaluateRound
<1>8. rounds' \in Seq(Round)
  BY <1>1, <1>6, <1>7
<1>9. round' = NextRound(r) /\ round' \in Round
  BY <1>1, NextRoundType DEF EvaluateRound
<1> QED
  BY <1>3, <1>4, <1>5, <1>7, <1>8, <1>9

LEMMA ShapeCommitBlock ==
  ASSUME Shape, CommitBlock
  PROVE  Shape'
<1>1. TypeOK /\ BlockConnected /\ job.kind = "connect" /\ ~NeedsSync
  BY DEF Shape, CommitBlock, BlockConnected, JobOK
<1>2. job' \in Job /\ job'.kind = "idle"
  BY <1>1 DEF BlockConnected, Idle, Job
<1>3. height' \in Nat
  BY <1>1 DEF CommitBlock, NextHeight, TypeOK
<1>4. undoResult' \in Result \cup {NoResult}
  BY <1>1 DEF CommitBlock, TypeOK
<1>5. JobOK'
  BY <1>2 DEF JobOK
<1>6. CASE NextHeight # round.end
  <2>1. /\ result' = IF Outdated(result) THEN NoResult ELSE result
        /\ round' = UpdatedRound
        /\ UNCHANGED <<cache, rounds>>
    BY <1>6 DEF CommitBlock
  <2>2. result' \in Result \cup {NoResult} /\ ~Pending(result')
    BY <1>1, <2>1 DEF TypeOK, NeedsSync, Pending
  <2>3. round' \in Round /\ round'.number = round.number
    BY <1>1, <2>1, UpdatedRoundType
  <2>4. TypeOK'
    BY <1>1, <1>2, <1>3, <1>4, <2>1, <2>2, <2>3, BlockConnectedType DEF TypeOK
  <2>5. RoundsOK' /\ DatabaseOK'
    BY <1>1, <2>1, <2>3, BlockConnectedType DEF Shape, RoundsOK, DatabaseOK
  <2>6. SnapshotsOK'
    BY <1>1, <2>1, <2>2, BlockConnectedType DEF Shape, SnapshotsOK, NeedsSync, Pending
  <2> QED
    BY <1>5, <2>4, <2>5, <2>6 DEF Shape
<1>7. CASE NextHeight = round.end
  <2>1. EvaluateRound(UpdatedRound)
    BY <1>7 DEF CommitBlock
  <2>2. TypeOK'
    BY <1>1, <1>2, <1>3, <1>4, <2>1, EvaluateRoundType, BlockConnectedType DEF TypeOK
  <2>3. /\ UpdatedRound \in Round /\ UpdatedRound.number = round.number
        /\ rounds \in Seq(Round) /\ Len(rounds) = round.number - 1
        /\ round.number \in Nat /\ round.number >= 1
    BY <1>1, UpdatedRoundType DEF Shape, TypeOK, RoundsOK, Round
  <2>4. round'.number = round.number + 1
    BY <2>1, <2>3, EvaluateRoundType, NextRoundType, <1>1
  <2>5. /\ rounds' = Append(rounds, UpdatedRound)
        /\ Len(rounds') = round.number
    BY <1>1, <2>1, <2>3, EvaluateRoundType
  <2>6. ASSUME NEW n \in DOMAIN rounds' PROVE rounds'[n].number = n
    BY <2>3, <2>5 DEF Shape, RoundsOK
  <2>7. RoundsOK'
    BY <2>3, <2>4, <2>5, <2>6 DEF Shape, RoundsOK
  <2>8. DatabaseOK'
    BY <1>1, BlockConnectedType DEF Shape, DatabaseOK
  <2>9. Len(db.results) >= Len(rounds) /\ Len(db.results) \in Nat
    BY <1>1 DEF Shape, SnapshotsOK, NeedsSync, TypeOK, Database
  <2>10. result'.round.number = round.number
    BY <1>1, <2>1, <2>3, EvaluateRoundType
  <2>11. Pending(result')
    BY <1>1, <2>1, EvaluateRoundType, SentinelAssumption DEF Pending
  <2>12. SnapshotsOK'
    BY <1>1, <2>3, <2>5, <2>9, <2>10, <2>11, BlockConnectedType DEF SnapshotsOK
  <2> QED
    BY <1>5, <2>2, <2>7, <2>8, <2>12 DEF Shape
<1> QED
  BY <1>6, <1>7


LEMMA ShapeDisconnectTip ==
  ASSUME Shape, DisconnectTip
  PROVE  Shape'
<1> DEFINE b == chain[Len(chain)]
           kind == IF Len(chain) > round.start THEN "reorg" ELSE "crossing"
<1>1. chain \in Seq(Block) /\ chain # <<>> /\ ~NeedsSync
  BY DEF Shape, TypeOK, DisconnectTip, Ready
<1>2. b \in Block /\ Len(chain) \in Nat
  BY <1>1
<1>3. job' = Work("disconnect", b, Backwards(BlockSteps(Len(chain), b)))
  BY DEF DisconnectTip
<1>4. job' \in Job /\ job'.kind = "disconnect"
  BY <1>2, <1>3, BlockStepsType, WorkType DEF Shape, Work
<1>5. Count(kind) /\ kind \in FaultKinds
  BY DEF DisconnectTip, Fault, FaultKinds
<1>6. faults' \in 0 .. MaxFaults /\ happened' \subseteq FaultKinds
  BY <1>5, CountType DEF Shape
<1>7. TypeOK'
  BY <1>4, <1>6 DEF Shape, TypeOK, DisconnectTip, cacheVars, diskVars, chainVars
<1>8. JobOK'
  BY <1>1, <1>4 DEF JobOK, DisconnectTip, NeedsSync, Pending, cacheVars, chainVars
<1> QED
  BY <1>7, <1>8 DEF Shape, RoundsOK, DatabaseOK, SnapshotsOK, Pending, DisconnectTip,
     cacheVars, diskVars

LEMMA ShapeCommitUndoBlockRefused ==
  ASSUME Shape, CommitUndoBlockRefused
  PROVE  Shape'
<1>1. job' \in Job /\ job'.kind = "aborted"
  BY DEF CommitUndoBlockRefused, Aborted, Job
<1>2. TypeOK'
  BY <1>1 DEF Shape, TypeOK, CommitUndoBlockRefused, cacheVars, diskVars, chainVars, boundVars
<1>3. JobOK'
  BY <1>1 DEF JobOK
<1> QED
  BY <1>2, <1>3 DEF Shape, RoundsOK, DatabaseOK, SnapshotsOK, Pending,
     CommitUndoBlockRefused, cacheVars, diskVars

LEMMA ShapeCommitUndoBlock ==
  ASSUME Shape, CommitUndoBlock
  PROVE  Shape'
<1>1. /\ TypeOK /\ job.kind = "disconnect" /\ ~NeedsSync
      /\ chain \in Seq(Block) /\ chain # <<>> /\ Len(chain) = height
  BY DEF Shape, CommitUndoBlock, JobOK, TypeOK
<1>2. height' \in Nat
  BY <1>1 DEF CommitUndoBlock
<1>3. chain' \in Seq(Block)
  BY <1>1 DEF CommitUndoBlock
<1>4. coins' \in [Addr -> Int] /\ job' \in Job /\ job'.kind = "idle"
  BY <1>1, JobType DEF CommitUndoBlock, Job, Idle
<1>5. due' \subseteq [round : Nat, addr : Addr, height : Nat]
  BY <1>1 DEF CommitUndoBlock, TypeOK
<1>6. JobOK'
  BY <1>4 DEF JobOK
<1>7. UNCHANGED <<result, db, onDisk, flushing, happened, faults, writes>>
  BY DEF CommitUndoBlock, diskVars, boundVars
<1>8. CASE UNCHANGED <<cache, round, rounds, undoResult>>
  <2>1. TypeOK'
    BY <1>1, <1>2, <1>3, <1>4, <1>5, <1>7, <1>8 DEF TypeOK
  <2> QED
    BY <1>6, <1>7, <1>8, <2>1 DEF Shape, RoundsOK, DatabaseOK, SnapshotsOK, Pending
<1>9. CASE round.number > 1 /\ RecoverRound
  <2> DEFINE prev == rounds[round.number - 1]
  <2>1. /\ rounds \in Seq(Round) /\ round.number \in Nat /\ Len(rounds) = round.number - 1
    BY <1>1 DEF Shape, TypeOK, RoundsOK, Round
  <2>2. prev \in Round /\ prev.number = round.number - 1
    BY <1>9, <2>1 DEF Shape, RoundsOK
  <2>3. db.results \in Seq(Entries) /\ prev.number \in 1 .. Len(db.results)
    BY <1>1, <1>9, <2>1, <2>2 DEF Shape, SnapshotsOK, NeedsSync, TypeOK, Database
  <2>4. db.results[prev.number] \in Entries
    BY <2>3
  <2>5. /\ round' = prev
        /\ rounds' = SubSeq(rounds, 1, prev.number - 1)
        /\ undoResult' = [round |-> prev, results |-> db.results[prev.number],
                          payouts |-> {}, synced |-> FALSE]
        /\ cache' = AllEntries
    BY <1>9 DEF RecoverRound
  <2>6. undoResult' \in Result
    BY <2>2, <2>4, <2>5 DEF Result
  <2>7. rounds' \in Seq(Round) /\ Len(rounds') = prev.number - 1
        /\ \A n \in DOMAIN rounds' : rounds'[n] = rounds[n] /\ n \in DOMAIN rounds
    BY <1>9, <2>1, <2>2, <2>5
  <2>8. cache' \in Entries
    BY <1>1, <2>5, NextEntries
  <2>9. TypeOK'
    BY <1>1, <1>2, <1>3, <1>4, <1>5, <1>7, <2>2, <2>5, <2>6, <2>7, <2>8 DEF TypeOK
  <2>10. RoundsOK'
    BY <1>9, <2>1, <2>2, <2>5, <2>7 DEF Shape, RoundsOK
  <2>11. SnapshotsOK'
    BY <1>1, <1>7, <2>1, <2>2, <2>3, <2>7 DEF SnapshotsOK, NeedsSync, Pending
  <2> QED
    BY <1>6, <1>7, <2>9, <2>10, <2>11 DEF Shape, DatabaseOK
<1> QED
  BY <1>8, <1>9 DEF CommitUndoBlock

\* The database after a write.
LEMMA SyncedType ==
  ASSUME Shape
  PROVE  /\ [a \in Addr |-> SyncedEntry(a)] \in Entries
         /\ SyncedResults \in Seq(Entries)
         /\ Len(SyncedResults) >= Len(rounds)
<1>1. ASSUME NEW a \in Addr PROVE SyncedEntry(a) \in Entry \cup {NoEntry}
  BY DEF SyncedEntry, Shape, TypeOK, Entries, Database, Result, Pending
<1> DEFINE kept == [n \in DOMAIN db.results |->
                      IF Pending(undoResult) /\ n = undoResult.round.number
                      THEN NoEntries ELSE db.results[n]]
<1>2. db.results \in Seq(Entries) /\ NoEntries \in Entries
  BY DEF Shape, TypeOK, Database, NoEntries, Entries
<1>3. kept \in Seq(Entries) /\ Len(kept) = Len(db.results)
  BY <1>2
<1>4. rounds \in Seq(Round)
  BY DEF Shape, TypeOK
<1>5. CASE ~Pending(result)
  BY <1>1, <1>3, <1>5 DEF SyncedResults, Shape, SnapshotsOK, Entries
<1>6. CASE Pending(result)
  <2> DEFINE n == result.round.number
  <2>1. result.results \in Entries /\ n \in Nat
    BY <1>6 DEF Shape, TypeOK, Result, Round, Pending
  <2>2. n = Len(rounds) /\ Len(kept) + 1 >= n
    BY <1>3, <1>6 DEF Shape, SnapshotsOK
  <2>3. n >= 1
    BY <1>6, <2>2 DEF Shape, SnapshotsOK
  <2> HIDE DEF kept, n
  <2>4. SubSeq(kept, 1, n - 1) \in Seq(Entries) /\ Len(SubSeq(kept, 1, n - 1)) = n - 1
    BY <1>3, <2>1, <2>2, <2>3
  <2>5. SyncedResults = Append(SubSeq(kept, 1, n - 1), result.results)
    BY <1>6 DEF SyncedResults, kept, n
  <2> QED
    BY <1>1, <2>1, <2>2, <2>4, <2>5 DEF Entries
<1> QED
  BY <1>5, <1>6


LEMMA ShapeSyncCached ==
  ASSUME Shape, NEW full \in BOOLEAN, SyncCached(full)
  PROVE  Shape'
<1>1. TypeOK /\ job \in {Idle, Aborted}
  BY DEF Shape, SyncCached
<1>2. db' = [entries |-> [a \in Addr |-> SyncedEntry(a)], height |-> height,
             round |-> round, rounds |-> rounds, results |-> SyncedResults]
  BY DEF SyncCached
<1>3. db' \in Database
  BY <1>1, <1>2, SyncedType DEF TypeOK, Database
<1>4. /\ result' \in Result \cup {NoResult} /\ undoResult' \in Result \cup {NoResult}
      /\ ~Pending(result')
  <2>1. ASSUME NEW res \in Result \cup {NoResult}
        PROVE  Stored(res) \in Result \cup {NoResult} /\ ~Pending(Stored(res))
    BY SentinelAssumption DEF Stored, Result, Pending
  <2> QED
    BY <1>1, <2>1 DEF SyncCached, TypeOK
<1>5. cache' \in Entries
  BY DEF SyncCached, NoEntries, Entries
<1>6. writes' \in 0 .. MaxWrites
  BY <1>1, RewardsAssumption DEF SyncCached, TypeOK
<1>7. TypeOK'
  BY <1>1, <1>3, <1>4, <1>5, <1>6 DEF TypeOK, SyncCached, chainVars
<1>8. RoundsOK' /\ DatabaseOK'
  BY <1>2, SyncedType DEF Shape, RoundsOK, DatabaseOK, SyncCached
<1>9. SnapshotsOK'
  BY <1>2, <1>4, SyncedType DEF SnapshotsOK, SyncCached
<1>10. JobOK'
  BY <1>1 DEF JobOK, SyncCached, Idle, Aborted
<1> QED
  BY <1>7, <1>8, <1>9, <1>10 DEF Shape

LEMMA ShapeFlushCoins ==
  ASSUME Shape, FlushCoins
  PROVE  Shape'
<1>1. TypeOK'
  BY DEF Shape, TypeOK, FlushCoins, cacheVars, chainVars, boundVars
<1> QED
  BY <1>1 DEF Shape, RoundsOK, DatabaseOK, SnapshotsOK, JobOK, NeedsSync, Pending,
     FlushCoins, cacheVars, chainVars

\* The result a node starts with.
LEMMA LoadedResultType ==
  ASSUME Shape
  PROVE  LoadedResult \in Result \cup {NoResult} /\ ~Pending(LoadedResult)
<1> DEFINE n == db.round.number - 1
<1>1. CASE n = 0
  BY <1>1 DEF LoadedResult, Pending
<1>2. CASE n # 0
  <2>1. /\ db.rounds \in Seq(Round) /\ db.results \in Seq(Entries)
        /\ n \in 1 .. Len(db.rounds) /\ n \in 1 .. Len(db.results)
    <3>1. db.rounds \in Seq(Round) /\ db.results \in Seq(Entries) /\ db.round \in Round
      BY DEF Shape, TypeOK, Database
    <3>2. /\ db.round.number \in Nat /\ n = Len(db.rounds)
          /\ Len(db.results) >= Len(db.rounds)
      BY <3>1 DEF Shape, DatabaseOK, Round
    <3> QED
      BY <1>2, <3>1, <3>2
  <2>2. db.rounds[n] \in Round /\ db.results[n] \in Entries
    BY <2>1
  <2>3. Payouts(db.results[n]) \subseteq Addr
    BY DEF Payouts
  <2>4. LoadedResult = [round |-> db.rounds[n], results |-> db.results[n],
                        payouts |-> Payouts(db.results[n]), synced |-> TRUE]
    BY <1>2 DEF LoadedResult
  <2>5. ASSUME NEW r \in Round, NEW es \in Entries, NEW ps \in SUBSET Addr
        PROVE  [round |-> r, results |-> es, payouts |-> ps, synced |-> TRUE] \in Result
    BY DEF Result
  <2> HIDE DEF n
  <2>6. LoadedResult \in Result
    BY <2>2, <2>3, <2>4, <2>5
  <2>7. LoadedResult.synced
    BY <2>4
  <2> QED
    BY <2>6, <2>7 DEF Pending
<1> QED
  BY <1>1, <1>2

LEMMA ShapeRestart ==
  ASSUME Shape, Restart
  PROVE  Shape'
<1>1. TypeOK
  BY DEF Shape
<1>2. faults' \in 0 .. MaxFaults /\ happened' \subseteq FaultKinds
  BY <1>1, CountType DEF Restart, Fault, FaultKinds, TypeOK
<1>3. /\ cache' = NoEntries /\ height' = db.height /\ round' = db.round
      /\ rounds' = db.rounds /\ result' = LoadedResult /\ undoResult' = NoResult
      /\ chain' = onDisk.chain /\ coins' = onDisk.coins /\ job' = Idle
      /\ flushing' = FALSE /\ UNCHANGED <<db, onDisk, writes>>
  BY DEF Restart, diskVars
<1>4. job' \in Job /\ job'.kind = "idle"
  BY <1>3 DEF Idle, Job
<1>5. due' \subseteq [round : Nat, addr : Addr, height : Nat]
  BY <1>1 DEF Restart, TypeOK
<1>6. cache' \in Entries
  BY <1>3 DEF NoEntries, Entries
<1>7. TypeOK'
  BY <1>1, <1>2, <1>3, <1>4, <1>5, <1>6, LoadedResultType DEF TypeOK, Database
<1>8. RoundsOK' /\ DatabaseOK' /\ SnapshotsOK'
  BY <1>3, LoadedResultType DEF Shape, RoundsOK, DatabaseOK, SnapshotsOK
<1>9. JobOK'
  BY <1>4 DEF JobOK
<1> QED
  BY <1>7, <1>8, <1>9 DEF Shape

LEMMA ShapeNext == Shape /\ [Next]_vars => Shape'
<1> SUFFICES ASSUME Shape, [Next]_vars PROVE Shape'
  OBVIOUS
<1>1. ASSUME NEW b \in Blocks, ConnectTip(b) PROVE Shape'
  BY <1>1, ShapeConnectTip
<1>2. CASE ProcessInput
  BY <1>2, ShapeProcessInput
<1>3. CASE ProcessOutput
  BY <1>3, ShapeProcessOutput
<1>4. CASE RejectBlock
  BY <1>4, ShapeRejectBlock
<1>5. CASE CommitBlock
  BY <1>5, ShapeCommitBlock
<1>6. CASE CommitBlockRefused
  BY <1>6, ShapeCommitBlockRefused
<1>7. CASE DisconnectTip
  BY <1>7, ShapeDisconnectTip
<1>8. CASE UndoOutput
  BY <1>8, ShapeUndoOutput
<1>9. CASE UndoInput
  BY <1>9, ShapeUndoInput
<1>10. CASE CommitUndoBlock
  BY <1>10, ShapeCommitUndoBlock
<1>11. CASE CommitUndoBlockRefused
  BY <1>11, ShapeCommitUndoBlockRefused
<1>12. ASSUME NEW full \in BOOLEAN, SyncCached(full) PROVE Shape'
  BY <1>12, ShapeSyncCached
<1>13. CASE FlushCoins
  BY <1>13, ShapeFlushCoins
<1>14. CASE Restart
  BY <1>14, ShapeRestart
<1>15. CASE UNCHANGED vars
  BY <1>15 DEF vars, cacheVars, diskVars, chainVars, boundVars, Shape, TypeOK, RoundsOK,
     DatabaseOK, SnapshotsOK, JobOK, NeedsSync, Pending
<1> QED
  BY <1>1, <1>2, <1>3, <1>4, <1>5, <1>6, <1>7, <1>8, <1>9, <1>10, <1>11, <1>12, <1>13,
     <1>14, <1>15 DEF Next

(***************************************************************************)
(* Every variable of SmartRewards keeps its type, whatever is undone,      *)
(* rejected or lost: balances stay natural numbers, and the rounds and     *)
(* snapshots that CommitUndoBlock and the constructor of CSmartRewards     *)
(* read exist.                                                             *)
(***************************************************************************)
THEOREM RewardsTypeCorrect == Spec => []TypeOK
<1>1. Spec => []Shape
  BY ShapeInit, ShapeNext, PTL DEF Spec
<1>2. Shape => TypeOK
  BY DEF Shape
<1> QED
  BY <1>1, <1>2, PTL


-----------------------------------------------------------------------------
(* The rewards follow the chain *)

\* RoundInStep, and that a block is undone only inside its round.
InStep ==
    happened \subseteq {"reorg"} =>
        /\ height = Len(chain)
        /\ round.start <= height + 1 /\ height + 1 <= round.end
        /\ job.kind = "disconnect" => Len(chain) > round.start

LEMMA InStepInit == Init => InStep
<1> SUFFICES ASSUME Init PROVE InStep
  OBVIOUS
<1>1. round.start = 1 /\ round.end = FirstEnd /\ job.kind = "idle"
  BY DEF Init, Idle
<1> QED
  BY <1>1, RewardsAssumption DEF Init, InStep

LEMMA InStepCommitBlock ==
  ASSUME Shape, InStep, CommitBlock
  PROVE  InStep'
<1>1. TypeOK /\ BlockConnected /\ job.kind = "connect" /\ UNCHANGED happened
  BY DEF Shape, CommitBlock, BlockConnected, boundVars
<1>2. Len(chain') = NextHeight /\ job'.kind = "idle"
  BY <1>1, BlockConnectedType DEF Idle
<1>3. /\ height' = height + 1 /\ height \in Nat /\ NextHeight = height + 1
      /\ round.start \in Nat /\ round.end \in Nat
  BY DEF Shape, TypeOK, Round, CommitBlock
<1>4. CASE NextHeight # round.end
  <2>1. round'.start = round.start /\ round'.end = round.end
    BY <1>1, <1>4, UpdatedRoundType DEF CommitBlock
  <2> QED
    BY <1>1, <1>2, <1>3, <1>4, <2>1 DEF InStep
<1>5. CASE NextHeight = round.end
  <2>1. round' = NextRound(UpdatedRound) /\ UpdatedRound \in Round
        /\ UpdatedRound.end = round.end
    BY <1>1, <1>5, UpdatedRoundType DEF CommitBlock, EvaluateRound
  <2>2. round'.start = round.end + 1 /\ round'.end = round.end + BlocksPerRound
    BY <2>1, NextRoundType
  <2> QED
    BY <1>1, <1>2, <1>3, <1>5, <2>2, RewardsAssumption DEF InStep
<1> QED
  BY <1>4, <1>5

LEMMA InStepCommitUndoBlock ==
  ASSUME Shape, InStep, CommitUndoBlock
  PROVE  InStep'
<1> SUFFICES ASSUME happened' \subseteq {"reorg"} PROVE InStep'
  BY DEF InStep
<1>1. /\ UNCHANGED happened /\ job.kind = "disconnect" /\ job'.kind = "idle"
      /\ height' = height - 1 /\ chain' = SubSeq(chain, 1, Len(chain) - 1)
  BY DEF CommitUndoBlock, boundVars, Idle
<1>2. /\ height = Len(chain) /\ round.start <= height + 1 /\ height + 1 <= round.end
      /\ Len(chain) > round.start
  BY <1>1 DEF InStep
<1>3. chain \in Seq(Block) /\ round.start \in Nat /\ round.end \in Nat
  BY DEF Shape, TypeOK, Round
<1>4. Len(chain') = Len(chain) - 1
  BY <1>1, <1>2, <1>3
<1>5. UNCHANGED round
  BY <1>2, <1>3 DEF CommitUndoBlock
<1> QED
  BY <1>1, <1>2, <1>3, <1>4, <1>5 DEF InStep

LEMMA InStepNext ==
  ASSUME Shape, InStep, [Next]_vars
  PROVE  InStep'
<1> SUFFICES ASSUME happened' \subseteq {"reorg"} PROVE InStep'
  BY DEF InStep
<1>0. TypeOK
  BY DEF Shape
<1>1. ASSUME NEW b \in Blocks, ConnectTip(b) PROVE InStep'
  BY <1>1 DEF InStep, ConnectTip, Work, cacheVars, chainVars, boundVars
<1>2. ASSUME job'.kind = job.kind, UNCHANGED <<height, round, chain, happened>> PROVE InStep'
  BY <1>2 DEF InStep
<1>3. CASE ProcessInput
  <2>1. job'.kind = job.kind
    BY <1>0, <1>3, JobType DEF ProcessInput, At, StepDone
  <2> QED
    BY <1>2, <1>3, <2>1 DEF ProcessInput, chainVars, boundVars
<1>4. CASE ProcessOutput
  <2>1. job'.kind = job.kind
    BY <1>0, <1>4, JobType DEF ProcessOutput, At, StepDone
  <2> QED
    BY <1>2, <1>4, <2>1 DEF ProcessOutput, chainVars, boundVars
<1>5. CASE UndoOutput
  <2>1. job'.kind = job.kind
    BY <1>0, <1>5, JobType DEF UndoOutput, At, StepDone
  <2> QED
    BY <1>2, <1>5, <2>1 DEF UndoOutput, chainVars, boundVars
<1>6. CASE UndoInput
  <2>1. job'.kind = job.kind
    BY <1>0, <1>6, JobType DEF UndoInput, At, StepDone
  <2> QED
    BY <1>2, <1>6, <2>1 DEF UndoInput, chainVars, boundVars
<1>7. CASE RejectBlock
  BY <1>0, <1>7, CountType DEF RejectBlock, Fault, FaultKinds
<1>8. CASE CommitBlock
  BY <1>8, InStepCommitBlock
<1>9. CASE CommitBlockRefused
  BY <1>9 DEF CommitBlockRefused, BlockConnected, NextHeight, InStep, boundVars
<1>10. CASE DisconnectTip
  <2> DEFINE kind == IF Len(chain) > round.start THEN "reorg" ELSE "crossing"
  <2>1. kind \in happened' /\ happened \subseteq happened'
    BY <1>0, <1>10, CountType DEF DisconnectTip, Fault, FaultKinds
  <2>2. Len(chain) > round.start
    BY <2>1
  <2> QED
    BY <1>10, <2>1, <2>2 DEF DisconnectTip, InStep, cacheVars, chainVars
<1>11. CASE CommitUndoBlock
  BY <1>11, InStepCommitUndoBlock
<1>12. CASE CommitUndoBlockRefused
  BY <1>12 DEF CommitUndoBlockRefused, Aborted, InStep, cacheVars, chainVars, boundVars
<1>13. ASSUME NEW full \in BOOLEAN, SyncCached(full) PROVE InStep'
  BY <1>13 DEF SyncCached, InStep, chainVars
<1>14. CASE FlushCoins
  BY <1>14 DEF FlushCoins, InStep, cacheVars, chainVars, boundVars
<1>15. CASE Restart
  <2>1. CleanShutdown /\ UNCHANGED happened
    BY <1>0, <1>15, CountType DEF Restart, Fault, FaultKinds
  <2> QED
    BY <1>15, <2>1 DEF Restart, CleanShutdown, InStep, Idle
<1>16. CASE UNCHANGED vars
  BY <1>2, <1>16 DEF vars, cacheVars, chainVars, boundVars
<1> QED
  BY <1>1, <1>3, <1>4, <1>5, <1>6, <1>7, <1>8, <1>9, <1>10, <1>11, <1>12, <1>13, <1>14,
     <1>15, <1>16 DEF Next

(***************************************************************************)
(* CommitBlock never meets "Invalid next block!" and the current round     *)
(* contains the next block, through blocks, reorganisations inside a       *)
(* round, writes and clean restarts.                                       *)
(***************************************************************************)
THEOREM RewardsInStep == Spec => []RoundInStep
<1>1. Spec => [](Shape /\ InStep)
  BY ShapeInit, ShapeNext, InStepInit, InStepNext, PTL DEF Spec
<1>2. InStep => RoundInStep
  BY DEF InStep, RoundInStep
<1> QED
  BY <1>1, <1>2, PTL

-----------------------------------------------------------------------------
(* The balances are covered *)

Purse == [Addr -> Nat]

\* The coins after a step of a block, and before it.
Moved(c, s) == [c EXCEPT ![s.addr] = IF s.type = "in" THEN @ - s.value ELSE @ + s.value]
Returned(c, s) == [c EXCEPT ![s.addr] = IF s.type = "in" THEN @ + s.value ELSE @ - s.value]

(***************************************************************************)
(* The steps of s lead from the coins c to the coins d, and no address     *)
(* ever owes anything on the way.                                          *)
(***************************************************************************)
Carries(s, c, d) ==
    \E P \in [0 .. Len(s) -> Purse] :
        /\ P[0] = c /\ P[Len(s)] = d
        /\ \A k \in 1 .. Len(s) : P[k] = Moved(P[k - 1], s[k])

\* The blocks of ch lead to the coins c, from whatever there was before.
Replay(ch, c) ==
    \E B \in [0 .. Len(ch) -> Purse] :
        /\ B[Len(ch)] = c
        /\ \A i \in 1 .. Len(ch) : Carries(BlockSteps(i, ch[i]), B[i - 1], B[i])

\* The coins pay for every input of s, each from an address of its own.
Payable(s, c) ==
    \A i \in DOMAIN s :
        s[i].type = "in" =>
            /\ c[s[i].addr] >= s[i].value
            /\ \A j \in DOMAIN s : s[j].type = "in" /\ s[j].addr = s[i].addr => i = j

\* The part of the block under way that is done leads from the tip to its coins.
Connecting ==
    /\ Payable(job.todo, job.coins)
    /\ \E done \in Seq(Step) :
           /\ done \o job.todo = BlockSteps(NextHeight, job.block)
           /\ Carries(done, coins, job.coins)

\* What is left to undo leads from the block before the tip to the coins.
Disconnecting ==
    \E done \in Seq(Step), c \in Purse :
        /\ job.todo = Backwards(done)
        /\ Carries(done, c, job.coins)
        /\ Replay(SubSeq(chain, 1, Len(chain) - 1), c)

CoveredBy(c) == \A a \in Addr : Found(a) # NoEntry => Found(a).balance <= c[a]

Backed ==
    /\ undoResult = NoResult
    /\ CoveredBy(CoinsNow)
    /\ Replay(chain, coins)
    /\ job.kind = "connect" => Connecting
    /\ job.kind = "disconnect" => Disconnecting

BackedOK == happened \subseteq {"reorg"} => Backed

LEMMA StepFields ==
  ASSUME NEW s \in Step
  PROVE  /\ s.type \in {"in", "out"} /\ s.addr \in Addr /\ s.value \in Nat
  BY DEF Step

LEMMA MovedBack ==
  ASSUME NEW c \in Purse, NEW s \in Step
  PROVE  Returned(Moved(c, s), s) = c
<1>1. s.type \in {"in", "out"} /\ s.addr \in Addr /\ s.value \in Nat
  BY StepFields
<1> DEFINE d == Moved(c, s)
           e == Returned(d, s)
<1>2. c \in [Addr -> Nat]
  BY DEF Purse
<1>3. d \in [Addr -> Int] /\ \A a \in Addr : a # s.addr => d[a] = c[a]
  BY <1>1, <1>2 DEF Moved
<1>4. d[s.addr] = IF s.type = "in" THEN c[s.addr] - s.value ELSE c[s.addr] + s.value
  BY <1>1, <1>2 DEF Moved
<1> HIDE DEF d
<1>5. e = [a \in Addr |-> e[a]] /\ \A a \in Addr : a # s.addr => e[a] = d[a]
  BY <1>1, <1>3 DEF Returned
<1>6. e[s.addr] = IF s.type = "in" THEN d[s.addr] + s.value ELSE d[s.addr] - s.value
  BY <1>1, <1>3 DEF Returned
<1> HIDE DEF e
<1>7. e[s.addr] = c[s.addr]
  BY <1>1, <1>2, <1>4, <1>6
<1>8. \A a \in Addr : e[a] = c[a]
  BY <1>3, <1>5, <1>7
<1>9. e = c
  BY <1>2, <1>5, <1>8
<1> QED
  BY <1>9 DEF d, e

LEMMA CarriesType ==
  ASSUME NEW s \in Seq(Step), NEW c, NEW d, Carries(s, c, d)
  PROVE  c \in Purse /\ d \in Purse
<1>1. PICK P \in [0 .. Len(s) -> Purse] : P[0] = c /\ P[Len(s)] = d
  BY DEF Carries
<1>2. Len(s) \in Nat
  OBVIOUS
<1>3. 0 \in 0 .. Len(s) /\ Len(s) \in 0 .. Len(s)
  BY <1>2
<1> QED
  BY <1>1, <1>3

LEMMA CarriesNothing ==
  ASSUME NEW c, NEW d
  PROVE  /\ c \in Purse => Carries(<<>>, c, c)
         /\ Carries(<<>>, c, d) => c = d
<1>1. ASSUME c \in Purse PROVE Carries(<<>>, c, c)
  <2> DEFINE P == [k \in 0 .. Len(<<>>) |-> c]
  <2>1. Len(<<>>) = 0
    OBVIOUS
  <2>2. P \in [0 .. Len(<<>>) -> Purse] /\ P[0] = c /\ P[Len(<<>>)] = c
    BY <1>1, <2>1
  <2>3. \A k \in 1 .. Len(<<>>) : P[k] = Moved(P[k - 1], <<>>[k])
    BY <2>1
  <2> HIDE DEF P
  <2> QED
    BY <2>2, <2>3 DEF Carries
<1>2. ASSUME Carries(<<>>, c, d) PROVE c = d
  BY <1>2 DEF Carries
<1> QED
  BY <1>1, <1>2

\* One step more.
LEMMA CarriesMore ==
  ASSUME NEW s \in Seq(Step), NEW x \in Step, NEW c, NEW d, Carries(s, c, d),
         Moved(d, x) \in Purse
  PROVE  Carries(Append(s, x), c, Moved(d, x))
<1>1. PICK P \in [0 .. Len(s) -> Purse] :
          /\ P[0] = c /\ P[Len(s)] = d
          /\ \A k \in 1 .. Len(s) : P[k] = Moved(P[k - 1], s[k])
  BY DEF Carries
<1> DEFINE t == Append(s, x)
           n == Len(s)
<1>2. /\ n \in Nat /\ Len(t) = n + 1 /\ t[n + 1] = x
      /\ \A k \in 1 .. n : t[k] = s[k]
  OBVIOUS
<1> HIDE DEF t, n
<1> DEFINE Q == [k \in 0 .. n + 1 |-> IF k = n + 1 THEN Moved(d, x) ELSE P[k]]
<1>3. /\ Q \in [0 .. n + 1 -> Purse]
      /\ Q[n + 1] = Moved(d, x)
      /\ \A k \in 0 .. n : Q[k] = P[k]
  BY <1>1, <1>2 DEF n
<1> HIDE DEF Q
<1>4. Q[0] = c
  BY <1>1, <1>2, <1>3
<1>5. ASSUME NEW k \in 1 .. n + 1 PROVE Q[k] = Moved(Q[k - 1], t[k])
  <2>1. CASE k = n + 1
    <3>1. k - 1 = n /\ n \in 0 .. n
      BY <1>2, <2>1
    <3>2. Q[k - 1] = d
      BY <1>1, <1>3, <3>1 DEF n
    <3> QED
      BY <1>2, <1>3, <2>1, <3>2
  <2>2. CASE k # n + 1
    <3>1. k \in 1 .. n /\ k \in 0 .. n /\ k - 1 \in 0 .. n
      BY <1>2, <2>2
    <3>2. P[k] = Moved(P[k - 1], s[k])
      BY <1>1, <3>1 DEF n
    <3> QED
      BY <1>2, <1>3, <3>1, <3>2
  <2> QED
    BY <2>1, <2>2
<1> QED
  BY <1>2, <1>3, <1>4, <1>5 DEF Carries, t

\* One step less.
LEMMA CarriesLess ==
  ASSUME NEW s \in Seq(Step), NEW x \in Step, NEW c, NEW d, Carries(Append(s, x), c, d)
  PROVE  \E m \in Purse : Carries(s, c, m) /\ d = Moved(m, x)
<1> DEFINE t == Append(s, x)
           n == Len(s)
<1>1. /\ n \in Nat /\ Len(t) = n + 1 /\ t[n + 1] = x
      /\ \A k \in 1 .. n : t[k] = s[k]
  OBVIOUS
<1>2. PICK P \in [0 .. n + 1 -> Purse] :
          /\ P[0] = c /\ P[n + 1] = d
          /\ \A k \in 1 .. n + 1 : P[k] = Moved(P[k - 1], t[k])
  BY <1>1 DEF Carries
<1> HIDE DEF t, n
<1> DEFINE Q == [k \in 0 .. n |-> P[k]]
<1>3. /\ Q \in [0 .. n -> Purse] /\ Q[0] = c /\ Q[n] = P[n] /\ P[n] \in Purse
      /\ \A k \in 0 .. n : Q[k] = P[k]
  BY <1>1, <1>2
<1> HIDE DEF Q
<1>4. ASSUME NEW k \in 1 .. n PROVE Q[k] = Moved(Q[k - 1], s[k])
  <2>1. k \in 1 .. n + 1 /\ k \in 0 .. n /\ k - 1 \in 0 .. n
    BY <1>1
  <2> QED
    BY <1>1, <1>2, <1>3, <2>1
<1>5. Carries(s, c, P[n])
  BY <1>3, <1>4 DEF Carries, n
<1>6. d = Moved(P[n], x)
  <2>1. n + 1 \in 1 .. n + 1 /\ (n + 1) - 1 = n
    BY <1>1
  <2> QED
    BY <1>1, <1>2, <2>1
<1> QED
  BY <1>3, <1>5, <1>6

LEMMA ReplayType ==
  ASSUME NEW ch \in Seq(Block), NEW c, Replay(ch, c)
  PROVE  c \in Purse
<1>1. PICK B \in [0 .. Len(ch) -> Purse] : B[Len(ch)] = c
  BY DEF Replay
<1>2. Len(ch) \in Nat
  OBVIOUS
<1>3. Len(ch) \in 0 .. Len(ch)
  BY <1>2
<1> QED
  BY <1>1, <1>3

\* One block more.
LEMMA ReplayMore ==
  ASSUME NEW ch \in Seq(Block), NEW b \in Block, NEW c, NEW d, Replay(ch, c),
         Carries(BlockSteps(Len(ch) + 1, b), c, d), d \in Purse
  PROVE  Replay(Append(ch, b), d)
<1>1. PICK B \in [0 .. Len(ch) -> Purse] :
          /\ B[Len(ch)] = c
          /\ \A i \in 1 .. Len(ch) : Carries(BlockSteps(i, ch[i]), B[i - 1], B[i])
  BY DEF Replay
<1> DEFINE t == Append(ch, b)
           n == Len(ch)
<1>2. /\ n \in Nat /\ Len(t) = n + 1 /\ t[n + 1] = b
      /\ \A k \in 1 .. n : t[k] = ch[k]
  OBVIOUS
<1> HIDE DEF t, n
<1> DEFINE Q == [k \in 0 .. n + 1 |-> IF k = n + 1 THEN d ELSE B[k]]
<1>3. /\ Q \in [0 .. n + 1 -> Purse] /\ Q[n + 1] = d
      /\ \A k \in 0 .. n : Q[k] = B[k]
  BY <1>1, <1>2 DEF n
<1> HIDE DEF Q
<1>4. ASSUME NEW k \in 1 .. n + 1 PROVE Carries(BlockSteps(k, t[k]), Q[k - 1], Q[k])
  <2>1. CASE k = n + 1
    <3>1. k - 1 = n /\ n \in 0 .. n
      BY <1>2, <2>1
    <3>2. Q[k - 1] = c
      BY <1>1, <1>3, <3>1 DEF n
    <3> QED
      BY <1>2, <1>3, <2>1, <3>2 DEF n
  <2>2. CASE k # n + 1
    <3>1. k \in 1 .. n /\ k \in 0 .. n /\ k - 1 \in 0 .. n
      BY <1>2, <2>2
    <3> QED
      BY <1>1, <1>2, <1>3, <3>1 DEF n
  <2> QED
    BY <2>1, <2>2
<1> QED
  BY <1>2, <1>3, <1>4 DEF Replay, t

\* One block less.
LEMMA ReplayLess ==
  ASSUME NEW ch \in Seq(Block), ch # <<>>, NEW d, Replay(ch, d)
  PROVE  \E c \in Purse : /\ Replay(SubSeq(ch, 1, Len(ch) - 1), c)
                          /\ Carries(BlockSteps(Len(ch), ch[Len(ch)]), c, d)
<1> DEFINE n == Len(ch)
           t == SubSeq(ch, 1, n - 1)
<1>1. /\ n \in Nat \ {0} /\ Len(t) = n - 1
      /\ \A k \in 1 .. n - 1 : t[k] = ch[k]
  <2>1. n \in Nat \ {0} /\ n = Len(ch)
    OBVIOUS
  <2> HIDE DEF n
  <2>2. Len(t) = n - 1
    BY <2>1
  <2>3. ASSUME NEW k \in 1 .. n - 1 PROVE t[k] = ch[k]
    BY <2>1
  <2> QED
    BY <2>1, <2>2, <2>3
<1>2. PICK B \in [0 .. n -> Purse] :
          /\ B[n] = d
          /\ \A i \in 1 .. n : Carries(BlockSteps(i, ch[i]), B[i - 1], B[i])
  BY DEF Replay
<1> HIDE DEF t, n
<1> DEFINE Q == [k \in 0 .. n - 1 |-> B[k]]
<1>3. /\ Q \in [0 .. n - 1 -> Purse] /\ Q[n - 1] = B[n - 1] /\ B[n - 1] \in Purse
      /\ \A k \in 0 .. n - 1 : Q[k] = B[k]
  BY <1>1, <1>2
<1> HIDE DEF Q
<1>4. ASSUME NEW k \in 1 .. n - 1 PROVE Carries(BlockSteps(k, t[k]), Q[k - 1], Q[k])
  <2>1. k \in 1 .. n /\ k \in 0 .. n - 1 /\ k - 1 \in 0 .. n - 1
    BY <1>1
  <2> QED
    BY <1>1, <1>2, <1>3, <2>1
<1>5. Replay(t, B[n - 1])
  BY <1>1, <1>3, <1>4 DEF Replay
<1>6. Carries(BlockSteps(n, ch[n]), B[n - 1], d)
  <2>1. n \in 1 .. n
    BY <1>1
  <2> QED
    BY <1>2, <2>1
<1> QED
  BY <1>3, <1>5, <1>6 DEF t, n

\* Sequences of steps.
LEMMA StepsJoined ==
  ASSUME NEW p \in Seq(Step), NEW q \in Seq(Step)
  PROVE  /\ p \o q \in Seq(Step) /\ Len(p \o q) = Len(p) + Len(q)
         /\ Len(p) \in Nat /\ Len(q) \in Nat
         /\ \A i \in 1 .. Len(p) : (p \o q)[i] = p[i]
         /\ \A i \in 1 .. Len(q) : (p \o q)[Len(p) + i] = q[i]
  OBVIOUS

LEMMA StepsEqual ==
  ASSUME NEW p \in Seq(Step), NEW q \in Seq(Step), Len(p) = Len(q),
         \A i \in 1 .. Len(p) : p[i] = q[i]
  PROVE  p = q
  OBVIOUS

\* The next step goes over to what is done.
LEMMA DoneMore ==
  ASSUME NEW done \in Seq(Step), NEW todo \in Seq(Step), todo # <<>>
  PROVE  Append(done, Head(todo)) \o Tail(todo) = done \o todo
<1> DEFINE u == Append(done, Head(todo))
           n == Len(done)
           m == Len(todo)
<1>1. /\ m \in Nat \ {0} /\ n \in Nat /\ Head(todo) = todo[1] /\ Head(todo) \in Step
      /\ Tail(todo) \in Seq(Step) /\ Len(Tail(todo)) = m - 1
      /\ \A i \in 1 .. m - 1 : Tail(todo)[i] = todo[i + 1]
  OBVIOUS
<1>2. /\ u \in Seq(Step) /\ Len(u) = n + 1 /\ u[n + 1] = todo[1]
      /\ \A i \in 1 .. n : u[i] = done[i]
  BY <1>1
<1> HIDE DEF u
<1>3. /\ u \o Tail(todo) \in Seq(Step) /\ Len(u \o Tail(todo)) = n + m
      /\ \A i \in 1 .. n + 1 : (u \o Tail(todo))[i] = u[i]
      /\ \A i \in 1 .. m - 1 : (u \o Tail(todo))[n + 1 + i] = Tail(todo)[i]
  <2>1. Tail(todo) \in Seq(Step) /\ Len(Tail(todo)) = m - 1 /\ m \in Nat /\ n \in Nat
    BY <1>1
  <2> HIDE DEF n, m
  <2>2. n + 1 + (m - 1) = n + m
    BY <2>1
  <2>3. /\ u \o Tail(todo) \in Seq(Step) /\ Len(u \o Tail(todo)) = Len(u) + Len(Tail(todo))
        /\ \A i \in 1 .. Len(u) : (u \o Tail(todo))[i] = u[i]
        /\ \A i \in 1 .. Len(Tail(todo)) : (u \o Tail(todo))[Len(u) + i] = Tail(todo)[i]
    BY <1>2, <2>1, StepsJoined
  <2>4. Len(u) = n + 1
    BY <1>2
  <2> QED
    BY <2>1, <2>2, <2>3, <2>4
<1>4. /\ done \o todo \in Seq(Step) /\ Len(done \o todo) = n + m
      /\ \A i \in 1 .. n : (done \o todo)[i] = done[i]
      /\ \A i \in 1 .. m : (done \o todo)[n + i] = todo[i]
  BY StepsJoined
<1> HIDE DEF n, m
<1>5. ASSUME NEW i \in 1 .. n + m PROVE (u \o Tail(todo))[i] = (done \o todo)[i]
  <2>1. CASE i \in 1 .. n
    BY <1>1, <1>2, <1>3, <1>4, <2>1
  <2>2. CASE i = n + 1
    BY <1>1, <1>2, <1>3, <1>4, <2>2
  <2>3. CASE i > n + 1
    <3> DEFINE k == i - (n + 1)
    <3>1. k \in 1 .. m - 1 /\ k + 1 \in 1 .. m /\ n + 1 + k = i /\ n + (k + 1) = i
      BY <1>1, <2>3
    <3> HIDE DEF k
    <3> QED
      BY <1>1, <1>3, <1>4, <3>1
  <2>4. n \in Nat /\ m \in Nat
    BY <1>1
  <2>5. i \in 1 .. n \/ i = n + 1 \/ i > n + 1
    BY <2>4
  <2> QED
    BY <2>1, <2>2, <2>3, <2>5
<1> QED
  BY <1>3, <1>4, <1>5, StepsEqual DEF u

\* The next step to undo is the last one of what is left.
LEMMA DoneLess ==
  ASSUME NEW done \in Seq(Step), NEW todo, todo = Backwards(done), todo # <<>>
  PROVE  \E front \in Seq(Step) : /\ done = Append(front, Head(todo))
                                  /\ Tail(todo) = Backwards(front)
<1> DEFINE n == Len(done)
           front == SubSeq(done, 1, n - 1)
<1>1. n \in Nat /\ todo \in Seq(Step) /\ Len(todo) = n
      /\ \A i \in 1 .. n : todo[i] = done[n + 1 - i]
  <2>1. n \in Nat /\ \A i \in 1 .. n : done[n + 1 - i] \in Step
    OBVIOUS
  <2> QED
    BY <2>1 DEF Backwards
<1>2. n \in Nat \ {0} /\ Head(todo) = todo[1] /\ Tail(todo) \in Seq(Step)
      /\ Len(Tail(todo)) = n - 1
      /\ \A i \in 1 .. n - 1 : Tail(todo)[i] = todo[i + 1]
  BY <1>1
<1>3. front \in Seq(Step) /\ Len(front) = n - 1
      /\ \A i \in 1 .. n - 1 : front[i] = done[i]
  BY <1>2
<1> HIDE DEF front
<1>4. Head(todo) = done[n] /\ done[n] \in Step
  BY <1>1, <1>2
<1>5. done = Append(front, Head(todo))
  <2>1. Append(front, Head(todo)) \in Seq(Step) /\ Len(Append(front, Head(todo))) = n
    BY <1>2, <1>3, <1>4
  <2>2. ASSUME NEW i \in 1 .. n PROVE Append(front, Head(todo))[i] = done[i]
    BY <1>2, <1>3, <1>4
  <2> QED
    BY <2>1, <2>2
<1>6. Tail(todo) = Backwards(front)
  <2>1. /\ Backwards(front) \in Seq(Step) /\ Len(Backwards(front)) = n - 1
        /\ \A i \in 1 .. n - 1 : Backwards(front)[i] = front[n - 1 + 1 - i]
    <3>1. \A i \in 1 .. n - 1 : n - 1 + 1 - i \in 1 .. n - 1
      BY <1>2
    <3>2. \A i \in 1 .. n - 1 : front[n - 1 + 1 - i] \in Step
      BY <1>3, <3>1
    <3> QED
      BY <1>2, <1>3, <3>2 DEF Backwards
  <2>2. ASSUME NEW i \in 1 .. n - 1 PROVE Tail(todo)[i] = front[n - 1 + 1 - i]
    <3>1. i + 1 \in 1 .. n /\ n - 1 + 1 - i \in 1 .. n - 1 /\ n + 1 - (i + 1) = n - 1 + 1 - i
      BY <1>2
    <3> QED
      BY <1>1, <1>2, <1>3, <3>1
  <2> QED
    BY <1>2, <2>1, <2>2, StepsEqual
<1> QED
  BY <1>3, <1>5, <1>6

\* What is left of a block can still be paid for.
LEMMA PayableTail ==
  ASSUME NEW todo \in Seq(Step), todo # <<>>, NEW c \in Purse, Payable(todo, c)
  PROVE  /\ Moved(c, Head(todo)) \in Purse
         /\ Payable(Tail(todo), Moved(c, Head(todo)))
<1> DEFINE s == Head(todo)
           d == Moved(c, s)
           m == Len(todo)
<1>1. /\ m \in Nat \ {0} /\ s = todo[1] /\ s \in Step
      /\ DOMAIN todo = 1 .. m /\ DOMAIN Tail(todo) = 1 .. m - 1
      /\ \A i \in 1 .. m - 1 : Tail(todo)[i] = todo[i + 1] /\ todo[i + 1] \in Step
  OBVIOUS
<1>2. s.type \in {"in", "out"} /\ s.addr \in Addr /\ s.value \in Nat
  BY <1>1, StepFields
<1>3. c \in [Addr -> Nat]
  BY DEF Purse
<1>4. s.type = "in" => c[s.addr] >= s.value
  BY <1>1 DEF Payable
<1>5. /\ d \in [Addr -> Int] /\ \A a \in Addr : a # s.addr => d[a] = c[a]
      /\ d[s.addr] = IF s.type = "in" THEN c[s.addr] - s.value ELSE c[s.addr] + s.value
  BY <1>2, <1>3 DEF Moved
<1> HIDE DEF d, s
<1>6. d \in Purse
  <2>1. ASSUME NEW a \in Addr PROVE d[a] \in Nat
    BY <1>2, <1>3, <1>4, <1>5
  <2> QED
    BY <1>5, <2>1 DEF Purse
<1>7. ASSUME NEW i \in 1 .. m - 1, Tail(todo)[i].type = "in"
      PROVE  /\ d[Tail(todo)[i].addr] >= Tail(todo)[i].value
             /\ \A j \in 1 .. m - 1 :
                    Tail(todo)[j].type = "in" /\ Tail(todo)[j].addr = Tail(todo)[i].addr => i = j
  <2> DEFINE x == todo[i + 1]
  <2>1. x = Tail(todo)[i] /\ x \in Step /\ i + 1 \in DOMAIN todo /\ i + 1 # 1 /\ 1 \in DOMAIN todo
    BY <1>1
  <2>2. /\ c[x.addr] >= x.value
        /\ \A j \in DOMAIN todo : todo[j].type = "in" /\ todo[j].addr = x.addr => i + 1 = j
    BY <1>7, <2>1 DEF Payable
  <2>3. x.addr \in Addr /\ x.value \in Nat
    BY <2>1, StepFields
  <2>4. ~(s.type = "in" /\ s.addr = x.addr)
    BY <1>1, <2>1, <2>2
  <2> HIDE DEF x
  <2>5. d[x.addr] >= c[x.addr] /\ d[x.addr] \in Int /\ c[x.addr] \in Int
    BY <1>2, <1>3, <1>5, <2>3, <2>4
  <2>6. d[x.addr] >= x.value
    BY <2>2, <2>3, <2>5
  <2>7. ASSUME NEW j \in 1 .. m - 1, Tail(todo)[j].type = "in", Tail(todo)[j].addr = x.addr
        PROVE  i = j
    <3>1. Tail(todo)[j] = todo[j + 1] /\ j + 1 \in DOMAIN todo
      BY <1>1
    <3>2. i + 1 = j + 1
      BY <2>2, <2>7, <3>1
    <3> QED
      BY <3>2
  <2> QED
    BY <2>1, <2>6, <2>7
<1>8. Payable(Tail(todo), d)
  BY <1>1, <1>7 DEF Payable
<1> QED
  BY <1>6, <1>8 DEF d, s

\* Finishing a step moves its amount.
LEMMA StepDoneCoins ==
  ASSUME TypeOK, job.kind \in {"connect", "disconnect"}, job.todo # <<>>,
         NEW d \in Nat, NEW q \in Nat, NEW v \in Int, StepDone(d, q, v)
  PROVE  /\ job'.kind = job.kind /\ job'.block = job.block
         /\ job'.todo = Tail(job.todo)
         /\ job'.coins = [job.coins EXCEPT ![Head(job.todo).addr] = @ + v]
<1>1. Head(job.todo).addr \in Addr /\ Tail(job.todo) \in Seq(Step)
  BY HeadType
<1> DEFINE c == [job.coins EXCEPT ![Head(job.todo).addr] = @ + v]
<1>2. job' = [job EXCEPT !.todo = Tail(job.todo), !.disqualified = job.disqualified + d,
                         !.qualified = job.qualified + q, !.coins = c]
  BY JobType DEF StepDone
<1> QED
  BY <1>2, JobType

LEMMA MovedForms ==
  ASSUME NEW c \in [Addr -> Int], NEW s \in Step
  PROVE  /\ s.type = "in" => /\ [c EXCEPT ![s.addr] = @ + (-s.value)] = Moved(c, s)
                             /\ [c EXCEPT ![s.addr] = @ + s.value] = Returned(c, s)
         /\ s.type = "out" => /\ [c EXCEPT ![s.addr] = @ + s.value] = Moved(c, s)
                              /\ [c EXCEPT ![s.addr] = @ + (-s.value)] = Returned(c, s)
         /\ s.type = "in" => Moved(c, s)[s.addr] = c[s.addr] - s.value
                             /\ Returned(c, s)[s.addr] = c[s.addr] + s.value
         /\ s.type = "out" => Moved(c, s)[s.addr] = c[s.addr] + s.value
                              /\ Returned(c, s)[s.addr] = c[s.addr] - s.value
         /\ \A a \in Addr : a # s.addr => Moved(c, s)[a] = c[a] /\ Returned(c, s)[a] = c[a]
<1>1. s.addr \in Addr /\ s.value \in Nat
  BY StepFields
<1>2. c[s.addr] + (-s.value) = c[s.addr] - s.value
  BY <1>1
<1> QED
  BY <1>1, <1>2 DEF Moved, Returned

\* A step of a block that is being connected keeps what is done and what is left.
LEMMA ConnectingStep ==
  ASSUME Shape, Backed, job.kind = "connect", job.todo # <<>>, job'.kind = "connect",
         job'.todo = Tail(job.todo), job'.block = job.block,
         job'.coins = Moved(job.coins, Head(job.todo)),
         UNCHANGED <<chain, coins, undoResult>>
  PROVE  /\ CoinsNow = job.coins /\ job.coins \in Purse
         /\ CoinsNow' = job'.coins /\ job'.coins \in Purse
         /\ undoResult' = NoResult /\ Replay(chain, coins)' /\ Connecting'
<1>1. job.todo \in Seq(Step) /\ Head(job.todo) \in Step
  BY HeadType DEF Shape
<1>2. PICK done \in Seq(Step) : /\ done \o job.todo = BlockSteps(NextHeight, job.block)
                                /\ Carries(done, coins, job.coins)
  BY DEF Backed, Connecting
<1>3. job.coins \in Purse /\ Payable(job.todo, job.coins)
  BY <1>2, CarriesType DEF Backed, Connecting
<1>4. job'.coins \in Purse /\ Payable(job'.todo, job'.coins)
  BY <1>1, <1>3, PayableTail
<1> DEFINE more == Append(done, Head(job.todo))
<1>5. more \in Seq(Step) /\ Carries(more, coins, job'.coins)
  BY <1>1, <1>2, <1>4, CarriesMore
<1>6. more \o job'.todo = BlockSteps(NextHeight, job.block)
  BY <1>1, <1>2, DoneMore
<1> HIDE DEF more
<1>7. NextHeight' = NextHeight
  BY DEF NextHeight
<1>8. Carries(more, coins', job'.coins) /\ more \o job'.todo = BlockSteps(NextHeight', job'.block)
  BY <1>5, <1>6, <1>7
<1>9. Connecting'
  BY <1>4, <1>5, <1>8 DEF Connecting
<1>10. Replay(chain', coins')
  BY DEF Backed
<1> QED
  BY <1>3, <1>4, <1>9, <1>10 DEF CoinsNow, Backed

\* A step that is undone leaves what led to it.
LEMMA DisconnectingStep ==
  ASSUME Shape, Backed, job.kind = "disconnect", job.todo # <<>>, job'.kind = "disconnect",
         job'.todo = Tail(job.todo), job'.coins = Returned(job.coins, Head(job.todo)),
         UNCHANGED <<chain, coins, undoResult>>
  PROVE  /\ CoinsNow = job.coins /\ job.coins \in Purse
         /\ CoinsNow' = job'.coins /\ job'.coins \in Purse
         /\ undoResult' = NoResult /\ Replay(chain, coins)' /\ Disconnecting'
<1>1. job.todo \in Seq(Step) /\ Head(job.todo) \in Step
  BY HeadType DEF Shape
<1>2. PICK done \in Seq(Step), c \in Purse :
          /\ job.todo = Backwards(done)
          /\ Carries(done, c, job.coins)
          /\ Replay(SubSeq(chain, 1, Len(chain) - 1), c)
  BY DEF Backed, Disconnecting
<1>3. PICK front \in Seq(Step) : /\ done = Append(front, Head(job.todo))
                                 /\ Tail(job.todo) = Backwards(front)
  BY <1>2, DoneLess
<1>4. PICK m \in Purse : Carries(front, c, m) /\ job.coins = Moved(m, Head(job.todo))
  BY <1>1, <1>2, <1>3, CarriesLess
<1>5. job'.coins = m
  BY <1>1, <1>4, MovedBack
<1>6. Replay(SubSeq(chain', 1, Len(chain') - 1), c)
  BY <1>2
<1>7. Disconnecting'
  BY <1>2, <1>3, <1>4, <1>5, <1>6 DEF Disconnecting
<1>8. job.coins \in Purse
  BY <1>2, CarriesType
<1>9. Replay(chain', coins')
  BY DEF Backed
<1> QED
  BY <1>4, <1>5, <1>7, <1>8, <1>9 DEF CoinsNow, Backed

\* An entry that is replaced, and the others.
LEMMA CoveredStep ==
  ASSUME TypeOK, NEW a \in Addr, NEW e \in Entry, NEW c, NEW d, CoveredBy(c),
         cache' = [cache EXCEPT ![a] = e], db' = db, e.balance <= d[a],
         \A b \in Addr : b # a => d[b] = c[b]
  PROVE  \A b \in Addr : Found(b)' # NoEntry => Found(b)'.balance <= d[b]
<1>1. e # NoEntry /\ cache \in [Addr -> Entry \cup {NoEntry}]
  BY SentinelAssumption DEF TypeOK, Entries
<1>2. cache'[a] = e /\ \A b \in Addr : b # a => cache'[b] = cache[b]
  BY <1>1
<1>3. Found(a)' = e
  BY <1>1, <1>2 DEF Found
<1>4. ASSUME NEW b \in Addr, b # a PROVE Found(b)' = Found(b)
  BY <1>2, <1>4 DEF Found
<1> QED
  BY <1>3, <1>4 DEF CoveredBy

LEMMA LessBound ==
  ASSUME NEW n \in Nat, NEW k \in Nat, NEW m \in Int, n <= m, m - k >= 0
  PROVE  Less(n, k) <= m - k
  BY DEF Less

LEMMA BackedProcessInput ==
  ASSUME Shape, Backed, ProcessInput
  PROVE  Backed'
<1> DEFINE s == Head(job.todo)
           e == Found(s.addr)
<1>1. /\ TypeOK /\ job.kind = "connect" /\ job.todo # <<>> /\ s.type = "in"
      /\ UNCHANGED <<chain, coins, undoResult, db>>
  BY DEF Shape, ProcessInput, At, chainVars, diskVars
<1>2. s \in Step /\ s.addr \in Addr /\ s.value \in Nat /\ -s.value \in Int
  BY <1>1, HeadType, StepFields
<1>3. One(SpendDisqualifies(e, s)) \in Nat
  BY DEF One
<1>4. PICK n \in Nat : StepDone(n, 0, -s.value)
  BY <1>3 DEF ProcessInput
<1>5. job.coins \in [Addr -> Int]
  BY <1>1, JobType
<1>6. /\ job'.kind = "connect" /\ job'.block = job.block /\ job'.todo = Tail(job.todo)
      /\ job'.coins = Moved(job.coins, s)
  <2>1. /\ job'.kind = job.kind /\ job'.block = job.block /\ job'.todo = Tail(job.todo)
        /\ job'.coins = [job.coins EXCEPT ![s.addr] = @ + (-s.value)]
    BY <1>1, <1>2, <1>4, StepDoneCoins
  <2>2. [job.coins EXCEPT ![s.addr] = @ + (-s.value)] = Moved(job.coins, s)
    BY <1>1, <1>2, <1>5, MovedForms
  <2> QED
    BY <1>1, <2>1, <2>2
<1>7. /\ CoinsNow = job.coins /\ job.coins \in Purse
      /\ CoinsNow' = job'.coins /\ job'.coins \in Purse
      /\ undoResult' = NoResult /\ Replay(chain, coins)' /\ Connecting'
  BY <1>1, <1>6, ConnectingStep
<1>8. /\ job'.coins[s.addr] = job.coins[s.addr] - s.value
      /\ \A b \in Addr : b # s.addr => job'.coins[b] = job.coins[b]
  BY <1>1, <1>2, <1>5, <1>6, MovedForms
<1>9. job'.coins[s.addr] >= 0 /\ CoveredBy(job.coins)
  BY <1>2, <1>7 DEF Purse, Backed
<1>10. \A b \in Addr : Found(b)' # NoEntry => Found(b)'.balance <= job'.coins[b]
  <2>1. CASE e = NoEntry
    <3>1. UNCHANGED <<cache, db>>
      BY <1>1, <2>1 DEF ProcessInput
    <3>2. \A b \in Addr : Found(b)' = Found(b)
      BY <3>1 DEF Found
    <3> QED
      BY <1>8, <1>9, <2>1, <3>2 DEF CoveredBy
  <2>2. CASE e # NoEntry
    <3>1. cache' = [cache EXCEPT ![s.addr] = Spent(e, s)]
      BY <2>2 DEF ProcessInput
    <3>2. e \in Entry /\ Spent(e, s) \in Entry
      BY <1>1, <1>2, <2>2, FoundType, EntryOperations
    <3>3. e.balance \in Nat /\ Spent(e, s).balance = Less(e.balance, s.value)
      BY <3>2 DEF Spent, Entry
    <3>4. e.balance <= job.coins[s.addr]
      BY <1>2, <1>9, <2>2 DEF CoveredBy
    <3>5. Spent(e, s).balance <= job'.coins[s.addr]
      BY <1>2, <1>5, <1>8, <1>9, <3>3, <3>4, LessBound
    <3> HIDE DEF e, s
    <3> QED
      BY <1>1, <1>2, <1>8, <1>9, <3>1, <3>2, <3>5, CoveredStep
  <2> QED
    BY <2>1, <2>2
<1> QED
  BY <1>6, <1>7, <1>10 DEF Backed, CoveredBy

LEMMA BackedProcessOutput ==
  ASSUME Shape, Backed, ProcessOutput
  PROVE  Backed'
<1> DEFINE s == Head(job.todo)
           e == GetRewardEntry(s.addr)
<1>1. /\ TypeOK /\ job.kind = "connect" /\ job.todo # <<>> /\ s.type = "out"
      /\ UNCHANGED <<chain, coins, undoResult, db>>
  BY DEF Shape, ProcessOutput, At, chainVars, diskVars
<1>2. s \in Step /\ s.addr \in Addr /\ s.value \in Nat /\ s.value \in Int
  BY <1>1, HeadType, StepFields
<1>3. One(OutputDisqualifies(e, s)) \in Nat /\ One(OutputQualifies(e, s)) \in Nat
  BY DEF One
<1>4. /\ StepDone(One(OutputDisqualifies(e, s)), One(OutputQualifies(e, s)), s.value)
      /\ cache' = [cache EXCEPT ![s.addr] = Received(e, s)]
  BY DEF ProcessOutput
<1>5. job.coins \in [Addr -> Int]
  BY <1>1, JobType
<1>6. /\ job'.kind = "connect" /\ job'.block = job.block /\ job'.todo = Tail(job.todo)
      /\ job'.coins = Moved(job.coins, s)
  <2>1. /\ job'.kind = job.kind /\ job'.block = job.block /\ job'.todo = Tail(job.todo)
        /\ job'.coins = [job.coins EXCEPT ![s.addr] = @ + s.value]
    BY <1>1, <1>2, <1>3, <1>4, StepDoneCoins
  <2>2. [job.coins EXCEPT ![s.addr] = @ + s.value] = Moved(job.coins, s)
    BY <1>1, <1>2, <1>5, MovedForms
  <2> QED
    BY <1>1, <2>1, <2>2
<1>7. /\ CoinsNow = job.coins /\ job.coins \in Purse
      /\ CoinsNow' = job'.coins /\ job'.coins \in Purse
      /\ undoResult' = NoResult /\ Replay(chain, coins)' /\ Connecting'
  BY <1>1, <1>6, ConnectingStep
<1>8. /\ job'.coins[s.addr] = job.coins[s.addr] + s.value
      /\ \A b \in Addr : b # s.addr => job'.coins[b] = job.coins[b]
  BY <1>1, <1>2, <1>5, <1>6, MovedForms
<1>9. job.coins[s.addr] \in Nat /\ CoveredBy(job.coins)
  BY <1>2, <1>7 DEF Purse, Backed
<1>10. e \in Entry /\ Received(e, s) \in Entry
  BY <1>1, <1>2, FoundType, EntryOperations
<1>11. e.balance \in Nat /\ e.balance <= job.coins[s.addr]
  BY <1>2, <1>9, <1>10 DEF CoveredBy, GetRewardEntry, NewEntry, Entry
<1>12. Received(e, s).balance \in {e.balance, e.balance + s.value}
  BY <1>10 DEF Received, Entry
<1>13. Received(e, s).balance <= job'.coins[s.addr]
  BY <1>2, <1>8, <1>9, <1>11, <1>12
<1> HIDE DEF e, s
<1>14. \A b \in Addr : Found(b)' # NoEntry => Found(b)'.balance <= job'.coins[b]
  BY <1>1, <1>2, <1>4, <1>8, <1>9, <1>10, <1>13, CoveredStep
<1> QED
  BY <1>6, <1>7, <1>14 DEF Backed, CoveredBy

LEMMA BackedUndoOutput ==
  ASSUME Shape, Backed, UndoOutput
  PROVE  Backed'
<1> DEFINE s == Head(job.todo)
           e == GetRewardEntry(s.addr)
<1>1. /\ TypeOK /\ job.kind = "disconnect" /\ job.todo # <<>> /\ s.type = "out"
      /\ UNCHANGED <<chain, coins, undoResult, db>>
  BY DEF Shape, UndoOutput, At, chainVars, diskVars
<1>2. s \in Step /\ s.addr \in Addr /\ s.value \in Nat /\ -s.value \in Int
  BY <1>1, HeadType, StepFields
<1>3. StepDone(0, 0, -s.value) /\ cache' = [cache EXCEPT ![s.addr] = Unreceived(e, s)]
  BY DEF UndoOutput
<1>4. job.coins \in [Addr -> Int]
  BY <1>1, JobType
<1>5. /\ job'.kind = "disconnect" /\ job'.todo = Tail(job.todo)
      /\ job'.coins = Returned(job.coins, s)
  <2>1. /\ job'.kind = job.kind /\ job'.todo = Tail(job.todo)
        /\ job'.coins = [job.coins EXCEPT ![s.addr] = @ + (-s.value)]
    BY <1>1, <1>2, <1>3, StepDoneCoins
  <2>2. [job.coins EXCEPT ![s.addr] = @ + (-s.value)] = Returned(job.coins, s)
    BY <1>1, <1>2, <1>4, MovedForms
  <2> QED
    BY <1>1, <2>1, <2>2
<1>6. /\ CoinsNow = job.coins /\ job.coins \in Purse
      /\ CoinsNow' = job'.coins /\ job'.coins \in Purse
      /\ undoResult' = NoResult /\ Replay(chain, coins)' /\ Disconnecting'
  BY <1>1, <1>5, DisconnectingStep
<1>7. /\ job'.coins[s.addr] = job.coins[s.addr] - s.value
      /\ \A b \in Addr : b # s.addr => job'.coins[b] = job.coins[b]
  BY <1>1, <1>2, <1>4, <1>5, MovedForms
<1>8. job.coins[s.addr] \in Nat /\ job'.coins[s.addr] >= 0 /\ CoveredBy(job.coins)
  BY <1>2, <1>6 DEF Purse, Backed
<1>9. e \in Entry /\ Unreceived(e, s) \in Entry
  BY <1>1, <1>2, FoundType, EntryOperations
<1>10. e.balance \in Nat /\ e.balance <= job.coins[s.addr]
  BY <1>2, <1>8, <1>9 DEF CoveredBy, GetRewardEntry, NewEntry, Entry
<1>11. Unreceived(e, s).balance = Less(e.balance, s.value)
  BY <1>9 DEF Unreceived, Entry
<1>12. Unreceived(e, s).balance <= job'.coins[s.addr]
  BY <1>2, <1>7, <1>8, <1>10, <1>11, LessBound
<1> HIDE DEF e, s
<1>13. \A b \in Addr : Found(b)' # NoEntry => Found(b)'.balance <= job'.coins[b]
  BY <1>1, <1>2, <1>3, <1>7, <1>8, <1>9, <1>12, CoveredStep
<1> QED
  BY <1>5, <1>6, <1>13 DEF Backed, CoveredBy

LEMMA BackedUndoInput ==
  ASSUME Shape, Backed, UndoInput
  PROVE  Backed'
<1> DEFINE s == Head(job.todo)
           e == GetRewardEntry(s.addr)
<1>1. /\ TypeOK /\ job.kind = "disconnect" /\ job.todo # <<>> /\ s.type = "in"
      /\ UNCHANGED <<chain, coins, undoResult, db>>
  BY DEF Shape, UndoInput, At, chainVars, diskVars
<1>2. s \in Step /\ s.addr \in Addr /\ s.value \in Nat /\ s.value \in Int
  BY <1>1, HeadType, StepFields
<1>3. StepDone(0, 0, s.value) /\ cache' = [cache EXCEPT ![s.addr] = Unspent(e, s)]
  BY DEF UndoInput
<1>4. job.coins \in [Addr -> Int]
  BY <1>1, JobType
<1>5. /\ job'.kind = "disconnect" /\ job'.todo = Tail(job.todo)
      /\ job'.coins = Returned(job.coins, s)
  <2>1. /\ job'.kind = job.kind /\ job'.todo = Tail(job.todo)
        /\ job'.coins = [job.coins EXCEPT ![s.addr] = @ + s.value]
    BY <1>1, <1>2, <1>3, StepDoneCoins
  <2>2. [job.coins EXCEPT ![s.addr] = @ + s.value] = Returned(job.coins, s)
    BY <1>1, <1>2, <1>4, MovedForms
  <2> QED
    BY <1>1, <2>1, <2>2
<1>6. /\ CoinsNow = job.coins /\ job.coins \in Purse
      /\ CoinsNow' = job'.coins /\ job'.coins \in Purse
      /\ undoResult' = NoResult /\ Replay(chain, coins)' /\ Disconnecting'
  BY <1>1, <1>5, DisconnectingStep
<1>7. /\ job'.coins[s.addr] = job.coins[s.addr] + s.value
      /\ \A b \in Addr : b # s.addr => job'.coins[b] = job.coins[b]
  BY <1>1, <1>2, <1>4, <1>5, MovedForms
<1>8. job.coins[s.addr] \in Nat /\ CoveredBy(job.coins)
  BY <1>2, <1>6 DEF Purse, Backed
<1>9. e \in Entry /\ Unspent(e, s) \in Entry
  BY <1>1, <1>2, FoundType, EntryOperations
<1>10. e.balance \in Nat /\ e.balance <= job.coins[s.addr]
  BY <1>2, <1>8, <1>9 DEF CoveredBy, GetRewardEntry, NewEntry, Entry
<1>11. Unspent(e, s).balance = e.balance + s.value
  BY <1>9 DEF Unspent, Entry
<1>12. Unspent(e, s).balance <= job'.coins[s.addr]
  BY <1>2, <1>7, <1>8, <1>10, <1>11
<1> HIDE DEF e, s
<1>13. \A b \in Addr : Found(b)' # NoEntry => Found(b)'.balance <= job'.coins[b]
  BY <1>1, <1>2, <1>3, <1>7, <1>8, <1>9, <1>12, CoveredStep
<1> QED
  BY <1>5, <1>6, <1>13 DEF Backed, CoveredBy

LEMMA BackedInit == Init => BackedOK
<1> SUFFICES ASSUME Init PROVE Backed
  BY DEF BackedOK
<1>1. PICK active \in Active : db.entries = [a \in Addr |-> FirstEntry(a, active)]
  BY DEF Init
<1>2. /\ cache = NoEntries /\ chain = <<>> /\ coins = Owned /\ job.kind = "idle"
      /\ undoResult = NoResult /\ Owned \in Purse
  BY RewardsAssumption DEF Init, Idle, Purse
<1>3. ASSUME NEW a \in Addr, Found(a) # NoEntry PROVE Found(a).balance <= Owned[a]
  <2>1. Found(a) = FirstEntry(a, active)
    BY <1>1, <1>2 DEF Found, NoEntries
  <2>2. Owned[a] \in Nat
    BY <1>2 DEF Purse
  <2> QED
    BY <1>3, <2>1, <2>2 DEF FirstEntry, NewEntry
<1>4. Replay(<<>>, Owned)
  <2> DEFINE B == [k \in 0 .. Len(<<>>) |-> Owned]
  <2>1. Len(<<>>) = 0
    OBVIOUS
  <2>2. B \in [0 .. Len(<<>>) -> Purse] /\ B[Len(<<>>)] = Owned
    BY <1>2, <2>1
  <2>3. \A i \in 1 .. Len(<<>>) : Carries(BlockSteps(i, <<>>[i]), B[i - 1], B[i])
    BY <2>1
  <2> HIDE DEF B
  <2> QED
    BY <2>2, <2>3 DEF Replay
<1> QED
  BY <1>2, <1>3, <1>4 DEF Backed, CoveredBy, CoinsNow

\* The coins that HaveInputs has seen pay for the whole block.
LEMMA BlockPayable ==
  ASSUME NEW h \in Nat, NEW b \in Block, NEW c,
         b.tx # NoTx => \A i \in DOMAIN Steps[b.tx] :
             Steps[b.tx][i].type = "in" => c[Steps[b.tx][i].addr] >= Steps[b.tx][i].value
  PROVE  Payable(BlockSteps(h, b), c)
<1> DEFINE p == CoinbaseSteps(h, b.payee)
           q == IF b.tx = NoTx THEN <<>> ELSE Steps[b.tx]
           n == Len(p)
           m == Len(q)
<1>1. p \in Seq(Step) /\ \A i \in 1 .. n : p[i].type = "out"
  <2>1. CASE b.payee = NoAddr
    BY <2>1 DEF CoinbaseSteps
  <2>2. CASE b.payee # NoAddr
    <3> DEFINE x == [type |-> "out", tx |-> [height |-> h, payee |-> b.payee],
                     addr |-> b.payee, value |-> CoinbaseValue, locked |-> FALSE]
    <3>1. b.payee \in Addr
      BY <2>2 DEF Block
    <3>2. x \in Step /\ x.type = "out"
      BY <3>1, RewardsAssumption DEF Step, TxIds, Coinbases
    <3> HIDE DEF x
    <3>3. p = <<x>>
      BY <2>2 DEF CoinbaseSteps, x
    <3> QED
      BY <3>2, <3>3
  <2> QED
    BY <2>1, <2>2
<1>2. q \in Seq(Step)
  BY RewardsAssumption DEF Block
<1>3. ASSUME NEW i \in 1 .. m, q[i].type = "in"
      PROVE  /\ c[q[i].addr] >= q[i].value
             /\ \A j \in 1 .. m : q[j].type = "in" /\ q[j].addr = q[i].addr => i = j
  <2>1. b.tx # NoTx /\ q = Steps[b.tx] /\ b.tx \in Txs
    <3>1. CASE b.tx = NoTx
      BY <1>3, <3>1
    <3>2. CASE b.tx # NoTx
      BY <3>2 DEF Block
    <3> QED
      BY <3>1, <3>2
  <2>2. DOMAIN q = 1 .. m
    BY <1>2
  <2> HIDE DEF q, m
  <2> QED
    BY <1>3, <2>1, <2>2, InputsAssumption
<1>4. BlockSteps(h, b) = p \o q
  BY DEF BlockSteps
<1> HIDE DEF p, q
<1> DEFINE s == p \o q
<1>5. /\ s \in Seq(Step) /\ Len(s) = n + m /\ n \in Nat /\ m \in Nat
      /\ \A i \in 1 .. n : s[i] = p[i]
      /\ \A i \in 1 .. m : s[n + i] = q[i]
  BY <1>1, <1>2, StepsJoined
<1>6. DOMAIN s = 1 .. n + m
  BY <1>5
<1> HIDE DEF s, n, m
<1>7. ASSUME NEW i \in 1 .. n + m, s[i].type = "in"
      PROVE  \E k \in 1 .. m : i = n + k /\ s[i] = q[k]
  <2>1. i \notin 1 .. n
    BY <1>1, <1>5, <1>7 DEF n
  <2>2. i - n \in 1 .. m /\ i = n + (i - n)
    BY <1>5, <2>1
  <2> QED
    BY <1>5, <2>2
<1>8. ASSUME NEW i \in 1 .. n + m, s[i].type = "in"
      PROVE  /\ c[s[i].addr] >= s[i].value
             /\ \A j \in 1 .. n + m : s[j].type = "in" /\ s[j].addr = s[i].addr => i = j
  <2>1. PICK k \in 1 .. m : i = n + k /\ s[i] = q[k]
    BY <1>7, <1>8
  <2>2. c[s[i].addr] >= s[i].value
    BY <1>3, <1>8, <2>1 DEF m
  <2>3. ASSUME NEW j \in 1 .. n + m, s[j].type = "in", s[j].addr = s[i].addr PROVE i = j
    <3>1. PICK l \in 1 .. m : j = n + l /\ s[j] = q[l]
      BY <1>7, <2>3
    <3>2. k = l
      BY <1>3, <1>8, <2>1, <2>3, <3>1 DEF m
    <3> QED
      BY <2>1, <3>1, <3>2
  <2> QED
    BY <2>2, <2>3
<1>9. Payable(s, c)
  BY <1>6, <1>8 DEF Payable
<1> QED
  BY <1>4, <1>9 DEF s

LEMMA BackedConnectTip ==
  ASSUME Shape, Backed, NEW b \in Blocks, ConnectTip(b)
  PROVE  Backed'
<1> DEFINE bs == BlockSteps(Len(chain) + 1, b)
<1>1. b \in Block /\ Len(chain) + 1 \in Nat /\ job.kind = "idle"
  BY RewardsAssumption DEF Shape, TypeOK, ConnectTip, Ready, Idle
<1>2. /\ job'.kind = "connect" /\ job'.block = b /\ job'.todo = bs /\ job'.coins = coins
      /\ UNCHANGED <<cache, db, chain, coins, undoResult>>
  BY DEF ConnectTip, Work, cacheVars, diskVars, chainVars
<1>3. coins \in Purse
  BY ReplayType DEF Backed, Shape, TypeOK
<1>4. bs \in Seq(Step)
  BY <1>1, BlockStepsType
<1>5. Payable(bs, coins)
  BY <1>1, BlockPayable DEF ConnectTip, HaveInputs
<1>6. <<>> \o bs = bs /\ <<>> \in Seq(Step) /\ Carries(<<>>, coins, coins)
  BY <1>3, <1>4, CarriesNothing
<1> HIDE DEF bs
<1>7. NextHeight' = Len(chain) + 1
  BY <1>2 DEF NextHeight
<1>8. Connecting'
  <2>1. <<>> \o job'.todo = BlockSteps(NextHeight', job'.block)
    BY <1>2, <1>6, <1>7 DEF bs
  <2>2. Carries(<<>>, coins', job'.coins) /\ Payable(job'.todo, job'.coins)
    BY <1>2, <1>5, <1>6
  <2> QED
    BY <1>6, <2>1, <2>2 DEF Connecting
<1>9. CoinsNow = coins /\ CoinsNow' = coins
  BY <1>1, <1>2 DEF CoinsNow
<1>10. \A a \in Addr : Found(a)' = Found(a)
  BY <1>2 DEF Found
<1>11. CoveredBy(CoinsNow)'
  BY <1>9, <1>10 DEF Backed, CoveredBy
<1>12. Replay(chain', coins')
  BY <1>2 DEF Backed
<1> QED
  BY <1>2, <1>8, <1>11, <1>12 DEF Backed

LEMMA NextRoundBalance ==
  ASSUME NEW e \in Entry
  PROVE  NextRoundEntry(e) # NoEntry => NextRoundEntry(e).balance = e.balance
  BY DEF NextRoundEntry, Entry

LEMMA BackedCommitBlock ==
  ASSUME Shape, Backed, CommitBlock
  PROVE  Backed'
<1>1. /\ TypeOK /\ BlockConnected /\ job.kind = "connect" /\ job.todo = <<>>
      /\ chain' = Append(chain, job.block) /\ coins' = job.coins /\ job' = Idle
      /\ UNCHANGED db
  BY DEF Shape, CommitBlock, BlockConnected, diskVars
<1>2. chain \in Seq(Block) /\ job.block \in Block
  BY <1>1, JobType DEF TypeOK
<1>3. PICK done \in Seq(Step) : /\ done \o job.todo = BlockSteps(NextHeight, job.block)
                                /\ Carries(done, coins, job.coins)
  BY <1>1 DEF Backed, Connecting
<1>4. done = BlockSteps(Len(chain) + 1, job.block)
  <2>1. done \o <<>> = done
    OBVIOUS
  <2> QED
    BY <1>1, <1>3, <2>1 DEF NextHeight
<1>5. job.coins \in Purse
  BY <1>3, CarriesType
<1>6. Replay(Append(chain, job.block), job.coins)
  BY <1>2, <1>3, <1>4, <1>5, ReplayMore DEF Backed
<1>7. undoResult' = NoResult
  BY DEF CommitBlock, Backed
<1>8. CoinsNow = job.coins /\ CoinsNow' = job.coins /\ job'.kind = "idle"
  BY <1>1 DEF CoinsNow, Idle
<1>9. ASSUME NEW a \in Addr, Found(a)' # NoEntry
      PROVE  Found(a) # NoEntry /\ Found(a)'.balance = Found(a).balance
  <2>1. CASE UNCHANGED cache
    BY <1>1, <1>9, <2>1 DEF Found
  <2>2. CASE cache' = [x \in Addr |-> NextRoundEntry(Found(x))]
    <3>1. cache'[a] = NextRoundEntry(Found(a))
      BY <2>2
    <3>2. Found(a) \in Entry \cup {NoEntry}
      BY <1>1, FoundType
    <3>3. CASE Found(a) = NoEntry
      <4>1. cache'[a] = NoEntry /\ db.entries[a] = NoEntry
        BY <3>1, <3>3 DEF NextRoundEntry, Found
      <4> QED
        BY <1>1, <1>9, <4>1 DEF Found
    <3>4. CASE Found(a) # NoEntry
      <4>1. Found(a) \in Entry
        BY <3>2, <3>4
      <4>2. NextRoundEntry(Found(a)) \in Entry
        BY <4>1, <3>4 DEF NextRoundEntry, Entry
      <4>3. Found(a)' = NextRoundEntry(Found(a))
        BY <3>1, <4>2, SentinelAssumption DEF Found
      <4> QED
        BY <1>9, <3>4, <4>1, <4>3, NextRoundBalance
    <3> QED
      BY <3>3, <3>4
  <2> QED
    BY <2>1, <2>2 DEF CommitBlock, EvaluateRound
<1>10. CoveredBy(CoinsNow)'
  BY <1>8, <1>9 DEF Backed, CoveredBy
<1> QED
  BY <1>1, <1>6, <1>7, <1>8, <1>10 DEF Backed

LEMMA BackedDisconnectTip ==
  ASSUME Shape, Backed, DisconnectTip
  PROVE  Backed'
<1> DEFINE bs == BlockSteps(Len(chain), chain[Len(chain)])
<1>1. chain \in Seq(Block) /\ chain # <<>> /\ job.kind = "idle"
  BY DEF Shape, TypeOK, DisconnectTip, Ready, Idle
<1>2. chain[Len(chain)] \in Block /\ Len(chain) \in Nat
  BY <1>1
<1>3. /\ job'.kind = "disconnect" /\ job'.todo = Backwards(bs) /\ job'.coins = coins
      /\ UNCHANGED <<cache, db, chain, coins, undoResult>>
  BY DEF DisconnectTip, Work, cacheVars, diskVars, chainVars
<1>4. bs \in Seq(Step)
  BY <1>2, BlockStepsType
<1>5. PICK c \in Purse : /\ Replay(SubSeq(chain, 1, Len(chain) - 1), c)
                         /\ Carries(bs, c, coins)
  BY <1>1, ReplayLess DEF Backed
<1> HIDE DEF bs
<1>6. Disconnecting'
  BY <1>3, <1>4, <1>5 DEF Disconnecting
<1>7. CoinsNow = coins /\ CoinsNow' = coins
  BY <1>1, <1>3 DEF CoinsNow
<1>8. \A a \in Addr : Found(a)' = Found(a)
  BY <1>3 DEF Found
<1>9. CoveredBy(CoinsNow)'
  BY <1>7, <1>8 DEF Backed, CoveredBy
<1>10. Replay(chain', coins')
  BY <1>3 DEF Backed
<1> QED
  BY <1>3, <1>6, <1>9, <1>10 DEF Backed

\* Inside a round, undoing the tip leaves the entries alone.
LEMMA BackedCommitUndoBlock ==
  ASSUME Shape, Backed, CommitUndoBlock, Len(chain) # round.start
  PROVE  Backed'
<1>1. /\ job.kind = "disconnect" /\ job.todo = <<>>
      /\ chain' = SubSeq(chain, 1, Len(chain) - 1) /\ coins' = job.coins /\ job' = Idle
      /\ UNCHANGED <<cache, undoResult, db>>
  BY DEF CommitUndoBlock, diskVars
<1>2. PICK done \in Seq(Step), c \in Purse :
          /\ job.todo = Backwards(done)
          /\ Carries(done, c, job.coins)
          /\ Replay(SubSeq(chain, 1, Len(chain) - 1), c)
  BY <1>1 DEF Backed, Disconnecting
<1>3. done = <<>>
  <2>1. Len(done) \in Nat /\ Len(Backwards(done)) = Len(done)
    BY DEF Backwards
  <2> QED
    BY <1>1, <1>2, <2>1
<1>4. c = job.coins
  BY <1>2, <1>3, CarriesNothing
<1>5. CoinsNow = job.coins /\ CoinsNow' = job.coins /\ job'.kind = "idle"
  BY <1>1 DEF CoinsNow, Idle
<1>6. \A a \in Addr : Found(a)' = Found(a)
  BY <1>1 DEF Found
<1>7. CoveredBy(CoinsNow)'
  BY <1>5, <1>6 DEF Backed, CoveredBy
<1> QED
  BY <1>1, <1>2, <1>4, <1>5, <1>7 DEF Backed

LEMMA BackedSyncCached ==
  ASSUME Shape, Backed, NEW full \in BOOLEAN, SyncCached(full)
  PROVE  Backed'
<1>1. /\ job.kind \notin {"connect", "disconnect"}
      /\ db'.entries = [a \in Addr |-> SyncedEntry(a)] /\ cache' = NoEntries
      /\ undoResult' = Stored(undoResult) /\ UNCHANGED <<chain, coins, job>>
  BY DEF SyncCached, Idle, Aborted, chainVars
<1>2. undoResult = NoResult /\ undoResult' = NoResult /\ ~Pending(undoResult)
  BY <1>1 DEF Backed, Stored, Pending
<1>3. ASSUME NEW a \in Addr, Found(a)' # NoEntry PROVE Found(a)' = Found(a)
  <2>1. Found(a)' = SyncedEntry(a)
    BY <1>1 DEF Found, NoEntries
  <2> QED
    BY <1>2, <1>3, <2>1 DEF SyncedEntry, Found
<1>4. CoinsNow' = CoinsNow
  BY <1>1 DEF CoinsNow
<1>5. CoveredBy(CoinsNow)'
  BY <1>3, <1>4 DEF Backed, CoveredBy
<1>6. Replay(chain', coins')
  BY <1>1 DEF Backed
<1> QED
  BY <1>1, <1>2, <1>5, <1>6 DEF Backed

LEMMA BackedRestart ==
  ASSUME Shape, Backed, Restart, CleanShutdown
  PROVE  Backed'
<1>1. /\ job.kind \notin {"connect", "disconnect"} /\ job'.kind = "idle"
      /\ undoResult' = NoResult /\ UNCHANGED <<cache, db, chain, coins>>
  BY DEF Restart, CleanShutdown, Idle, Aborted, diskVars
<1>2. CoinsNow' = CoinsNow
  BY <1>1 DEF CoinsNow
<1>3. \A a \in Addr : Found(a)' = Found(a)
  BY <1>1 DEF Found
<1>4. CoveredBy(CoinsNow)'
  BY <1>2, <1>3 DEF Backed, CoveredBy
<1>5. Replay(chain', coins')
  BY <1>1 DEF Backed
<1> QED
  BY <1>1, <1>4, <1>5 DEF Backed

LEMMA BackedNext ==
  ASSUME Shape, InStep, BackedOK, [Next]_vars
  PROVE  BackedOK'
<1> SUFFICES ASSUME happened' \subseteq {"reorg"} PROVE Backed'
  BY DEF BackedOK
<1>0. TypeOK
  BY DEF Shape
<1>1. happened \subseteq {"reorg"} => Backed /\ height = Len(chain)
                                      /\ (job.kind = "disconnect" => Len(chain) > round.start)
  BY DEF BackedOK, InStep
<1>2. ASSUME NEW b \in Blocks, ConnectTip(b) PROVE Backed'
  BY <1>1, <1>2, BackedConnectTip DEF ConnectTip, boundVars
<1>3. CASE ProcessInput
  BY <1>1, <1>3, BackedProcessInput DEF ProcessInput, boundVars
<1>4. CASE ProcessOutput
  BY <1>1, <1>4, BackedProcessOutput DEF ProcessOutput, boundVars
<1>5. CASE RejectBlock
  BY <1>0, <1>5, CountType DEF RejectBlock, Fault, FaultKinds
<1>6. CASE CommitBlock
  BY <1>1, <1>6, BackedCommitBlock DEF CommitBlock, BlockConnected, boundVars
<1>7. CASE CommitBlockRefused
  BY <1>1, <1>7 DEF CommitBlockRefused, BlockConnected, NextHeight, boundVars
<1>8. CASE DisconnectTip
  <2>1. happened \subseteq happened'
    BY <1>0, <1>8, CountType DEF DisconnectTip, Fault, FaultKinds
  <2> QED
    BY <1>1, <1>8, <2>1, BackedDisconnectTip
<1>9. CASE UndoOutput
  BY <1>1, <1>9, BackedUndoOutput DEF UndoOutput, boundVars
<1>10. CASE UndoInput
  BY <1>1, <1>10, BackedUndoInput DEF UndoInput, boundVars
<1>11. CASE CommitUndoBlock
  <2>1. happened \subseteq {"reorg"} /\ job.kind = "disconnect"
    BY <1>11 DEF CommitUndoBlock, boundVars
  <2>2. Len(chain) > round.start /\ Len(chain) \in Int /\ round.start \in Int
    BY <1>0, <1>1, <2>1 DEF TypeOK, Round
  <2> QED
    BY <1>1, <1>11, <2>1, <2>2, BackedCommitUndoBlock
<1>12. CASE CommitUndoBlockRefused
  BY <1>1, <1>12 DEF CommitUndoBlockRefused, boundVars
<1>13. ASSUME NEW full \in BOOLEAN, SyncCached(full) PROVE Backed'
  BY <1>1, <1>13, BackedSyncCached DEF SyncCached
<1>14. ASSUME UNCHANGED <<cache, db, undoResult, chain, coins, job, happened>> PROVE Backed'
  <2>1. Backed
    BY <1>1, <1>14
  <2>2. (\A a \in Addr : Found(a)' = Found(a)) /\ CoinsNow' = CoinsNow /\ NextHeight' = NextHeight
    BY <1>14 DEF Found, CoinsNow, NextHeight
  <2>3. CoveredBy(CoinsNow)'
    BY <2>1, <2>2 DEF Backed, CoveredBy
  <2>4. Replay(chain, coins)' /\ (Connecting <=> Connecting') /\ (Disconnecting <=> Disconnecting')
    BY <1>14, <2>1, <2>2 DEF Backed, Connecting, Disconnecting
  <2> QED
    BY <1>14, <2>1, <2>3, <2>4 DEF Backed
<1>15. CASE FlushCoins
  BY <1>14, <1>15 DEF FlushCoins, cacheVars, chainVars, boundVars
<1>16. CASE Restart
  <2>1. CleanShutdown /\ UNCHANGED happened
    BY <1>0, <1>16, CountType DEF Restart, Fault, FaultKinds
  <2> QED
    BY <1>1, <1>16, <2>1, BackedRestart
<1>17. CASE UNCHANGED vars
  BY <1>14, <1>17 DEF vars, cacheVars, diskVars, chainVars, boundVars
<1> QED
  BY <1>2, <1>3, <1>4, <1>5, <1>6, <1>7, <1>8, <1>9, <1>10, <1>11, <1>12, <1>13, <1>15,
     <1>16, <1>17 DEF Next

(***************************************************************************)
(* No address is credited with coins it does not own, through blocks,      *)
(* reorganisations inside a round, writes and clean restarts.  What        *)
(* ProcessInput and UndoOutput leave of an entry, cut at zero as it is,    *)
(* the coins still cover, because they are enough for the step at that     *)
(* point of the block, forwards and backwards.                             *)
(***************************************************************************)
THEOREM BalancesCovered == Spec => []BalanceCovered
<1>1. Spec => [](Shape /\ InStep /\ BackedOK)
  BY ShapeInit, ShapeNext, InStepInit, InStepNext, BackedInit, BackedNext, PTL DEF Spec
<1>2. BackedOK => BalanceCovered
  BY DEF BackedOK, Backed, CoveredBy, BalanceCovered
<1> QED
  BY <1>1, <1>2, PTL

=============================================================================
