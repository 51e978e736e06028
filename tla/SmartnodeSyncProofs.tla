------------------------ MODULE SmartnodeSyncProofs ------------------------
(***************************************************************************)
(* Proofs about SmartnodeSync.                                             *)
(***************************************************************************)
EXTENDS SmartnodeSync, TLAPS

-----------------------------------------------------------------------------
(* What the operators return *)

\* An age stops one above its limit.
LEMMA OlderType ==
  ASSUME NEW limit \in Nat, NEW age \in 0 .. limit + 1
  PROVE  Older(age, limit) \in 0 .. limit + 1
  BY DEF Older

\* A remaining time never grows and stops at zero.
LEMMA LessByType ==
  ASSUME NEW limit \in Nat, NEW left \in 0 .. limit, NEW d \in Nat
  PROVE  LessBy(left, d) \in 0 .. limit
  BY DEF LessBy

LEMMA LessType ==
  ASSUME NEW limit \in Nat, NEW left \in 0 .. limit
  PROVE  Less(left) \in 0 .. limit
  BY LessByType DEF Less

Stages == {FAILED, INITIAL, WAITING, LIST, MNW, FINISHED}

\* The stage after SwitchToNextAsset, and the clock and the counter it leaves.
LEMMA SwitchResult ==
  ASSUME asset \in Stages, SwitchToNextAsset
  PROVE  /\ \/ asset = FAILED /\ asset' = FAILED
            \/ asset = INITIAL /\ asset' = WAITING
            \/ asset = WAITING /\ asset' = LIST
            \/ asset = LIST /\ asset' = MNW
            \/ asset \in {MNW, FINISHED} /\ asset' = FINISHED
         /\ attempt' = attempt \/ attempt' = 0
         /\ asset' = LIST => attempt' = 0
         /\ bumped' = bumped \/ bumped' = 0
         /\ failure' = failure
<1> USE DEF FAILED, INITIAL, WAITING, LIST, MNW, FINISHED, Stages
<1>1. CASE asset = FAILED
  BY <1>1 DEF SwitchToNextAsset
<1>2. CASE asset = INITIAL
  BY <1>2 DEF SwitchToNextAsset
<1>3. CASE asset = WAITING
  BY <1>3 DEF SwitchToNextAsset
<1>4. CASE asset = LIST
  BY <1>4 DEF SwitchToNextAsset
<1>5. CASE asset \in {MNW, FINISHED}
  BY <1>5 DEF SwitchToNextAsset
<1> QED
  BY <1>1, <1>2, <1>3, <1>4, <1>5

-----------------------------------------------------------------------------
(* Types, one group of variables at a time *)

StageOK ==
  /\ asset \in Stages
  /\ attempt \in Nat /\ (asset = LIST => attempt <= 3)
  /\ bumped \in 0 .. LIST_TIMEOUT + 1 /\ failure \in 0 .. COOLDOWN + 1

RequestsOK ==
  /\ fulfilled \in [Peers -> [Requests -> 0 .. EXPIRE]]
  /\ weAsked \in [Peers -> 0 .. DSEG_UPDATE] /\ askedUs \in [Peers -> 0 .. DSEG_UPDATE]

PeersOK ==
  /\ counts \subseteq Peers /\ connected \subseteq Peers
  /\ inFlight \subseteq From(connected)

ThreadsOK ==
  /\ tickPc \in {"sleep", "tick", "switch", "waitswitch", "fail"}
  /\ tipPc \in {"idle", "switch"}

FlagsOK ==
  /\ haveList \in BOOLEAN /\ reached \in BOOLEAN
  /\ slept \in BOOLEAN /\ listed \in BOOLEAN

LEMMA StageStep ==
  ASSUME StageOK, [Next]_vars
  PROVE  StageOK'
<1> USE DEF StageOK
<1>0. LIST_TIMEOUT \in Nat /\ COOLDOWN \in Nat
  BY SmartnodeSyncAssumption
<1>a. ASSUME UNCHANGED <<asset, attempt, bumped, failure>>
      PROVE  StageOK'
  BY <1>a
<1>b. ASSUME UNCHANGED <<asset, attempt, failure>>, bumped' \in {0, bumped}
      PROVE  StageOK'
  BY <1>0, <1>b
<1>c. ASSUME Reset
      PROVE  StageOK'
  BY <1>0, <1>c DEF Reset, Stages, INITIAL, LIST
<1>d. ASSUME SwitchToNextAsset
      PROVE  StageOK'
  <2>1. attempt' \in Nat /\ bumped' \in 0 .. LIST_TIMEOUT + 1 /\ failure' \in 0 .. COOLDOWN + 1
    BY <1>0, <1>d, SwitchResult
  <2>2. asset' \in Stages
    BY <1>d, SwitchResult DEF Stages
  <2>3. asset' = LIST => attempt' <= 3
    BY <1>d, SwitchResult
  <2> QED
    BY <2>1, <2>2, <2>3
<1>1. CASE Clock
  BY <1>0, <1>1, OlderType DEF Clock
<1>2. CASE TickRestart
  BY <1>c, <1>2 DEF TickRestart
<1>3. CASE TickIdle \/ TickWaiting \/ TickListTimeout \/ TickWinnersDone \/ TickNothing
  BY <1>a, <1>3 DEF TickIdle, TickWaiting, TickListTimeout, TickWinnersDone, TickNothing, stageVars
<1>4. CASE TickSwitch \/ TipSwitch \/ RpcNext
  BY <1>d, <1>4 DEF TickSwitch, TipSwitch, RpcNext
<1>5. CASE TickFail
  BY <1>0, <1>5 DEF TickFail, Stages, FAILED, LIST
<1>6. ASSUME NEW p \in Peers, TickListAsk(p)
      PROVE  StageOK'
  BY <1>0, <1>6 DEF TickListAsk
<1>7. ASSUME NEW p \in Peers, TickWinnersAsk(p)
      PROVE  StageOK'
  <2>1. asset = MNW /\ UNCHANGED <<asset, bumped, failure>> /\ attempt' = attempt + 1
    BY <1>7 DEF TickWinnersAsk
  <2> QED
    BY <2>1 DEF MNW, LIST
<1>8. ASSUME NEW ibd \in BOOLEAN, NEW best \in BOOLEAN, UpdatedBlockTip(ibd, best)
      PROVE  StageOK'
  <2>1. CASE Reset
    BY <1>c, <2>1
  <2>2. CASE UNCHANGED <<asset, attempt, failure>> /\ bumped' \in {0, bumped}
    BY <1>b, <2>2
  <2> QED
    BY <1>8, <2>1, <2>2 DEF UpdatedBlockTip
<1>9. ASSUME NEW p \in Peers, Connect(p) \/ ConnectionLost(p) \/ ProcessMessage(p)
      PROVE  StageOK'
  BY <1>a, <1>9 DEF Connect, ConnectionLost, ProcessMessage, stageVars
<1>10. ASSUME NEW p \in Peers, ListArrives(p)
       PROVE  StageOK'
  BY <1>b, <1>10 DEF ListArrives
<1>11. CASE BumpAssetLastTime
  BY <1>b, <1>11 DEF BumpAssetLastTime
<1>12. CASE ListShrinks
  BY <1>a, <1>12 DEF ListShrinks, stageVars
<1>13. CASE RpcReset
  BY <1>0, <1>13 DEF RpcReset, Stages, WAITING, LIST
<1>14. CASE LongSleep
  BY <1>0, <1>14 DEF LongSleep
<1>15. CASE Restart
  BY <1>0, <1>15 DEF Restart, Stages, INITIAL, LIST
<1>16. CASE UNCHANGED vars
  BY <1>a, <1>16 DEF vars, stageVars
<1> QED
  BY <1>1, <1>2, <1>3, <1>4, <1>5, <1>6, <1>7, <1>8, <1>9, <1>10, <1>11, <1>12, <1>13, <1>14, <1>15,
     <1>16 DEF Next, Tick, BestTip, StaleTip, IbdTip, Deliver

\* Marking peers as asked, or as done, keeps the times in their range.
LEMMA AddFulfilledType ==
  ASSUME RequestsOK, NEW ps, NEW r \in Requests, AddFulfilledRequest(ps, r)
  PROVE  fulfilled' \in [Peers -> [Requests -> 0 .. EXPIRE]]
<1>1. EXPIRE \in 0 .. EXPIRE
  BY SmartnodeSyncAssumption
<1> QED
  BY <1>1 DEF RequestsOK, AddFulfilledRequest

LEMMA RequestsStep ==
  ASSUME RequestsOK, [Next]_vars
  PROVE  RequestsOK'
<1>0. EXPIRE \in Nat /\ DSEG_UPDATE \in Nat
  BY SmartnodeSyncAssumption
<1>a. ASSUME UNCHANGED <<fulfilled, weAsked, askedUs>>
      PROVE  RequestsOK'
  BY <1>a DEF RequestsOK
<1>b. ASSUME UNCHANGED <<weAsked, askedUs>>, NEW ps, NEW r \in Requests, AddFulfilledRequest(ps, r)
      PROVE  RequestsOK'
  BY <1>b, AddFulfilledType DEF RequestsOK
<1>c. ASSUME SwitchToNextAsset, UNCHANGED <<weAsked, askedUs>>
      PROVE  RequestsOK'
  <2>1. UNCHANGED fulfilled \/ AddFulfilledRequest(connected, "full-sync")
    BY <1>c DEF SwitchToNextAsset
  <2> QED
    BY <1>a, <1>b, <1>c, <2>1 DEF Requests
<1>1. CASE Clock
  <2>1. fulfilled' \in [Peers -> [Requests -> 0 .. EXPIRE]]
    BY <1>0, <1>1, LessType DEF Clock, RequestsOK
  <2>2. weAsked' \in [Peers -> 0 .. DSEG_UPDATE] /\ askedUs' \in [Peers -> 0 .. DSEG_UPDATE]
    BY <1>0, <1>1, LessType DEF Clock, RequestsOK
  <2> QED
    BY <2>1, <2>2 DEF RequestsOK
<1>2. CASE TickRestart \/ TickIdle \/ TickWaiting \/ TickListTimeout \/ TickWinnersDone \/ TickFail
  BY <1>a, <1>2 DEF TickRestart, TickIdle, TickWaiting, TickListTimeout, TickWinnersDone, TickFail,
     requestVars
<1>3. CASE TickNothing
  <2>1. CASE UNCHANGED fulfilled
    BY <1>a, <1>3, <2>1 DEF TickNothing
  <2>2. CASE AddFulfilledRequest(unasked("smartnode-list-sync"), "smartnode-list-sync")
    BY <1>b, <1>3, <2>2 DEF TickNothing, Requests
  <2> QED
    BY <1>3, <2>1, <2>2 DEF TickNothing
<1>4. CASE TickSwitch \/ TipSwitch \/ RpcNext
  BY <1>c, <1>4 DEF TickSwitch, TipSwitch, RpcNext
<1>5. ASSUME NEW p \in Peers, TickListAsk(p)
      PROVE  RequestsOK'
  <2>1. PICK ps : AddFulfilledRequest(ps, "smartnode-list-sync")
    BY <1>5 DEF TickListAsk
  <2>2. fulfilled' \in [Peers -> [Requests -> 0 .. EXPIRE]]
    BY <2>1, AddFulfilledType DEF Requests
  <2>3. weAsked' \in [Peers -> 0 .. DSEG_UPDATE]
    BY <1>0, <1>5 DEF TickListAsk, askAgain, RequestsOK
  <2>4. askedUs' = askedUs \/ askedUs' = [askedUs EXCEPT ![p] = DSEG_UPDATE]
    BY <1>5 DEF TickListAsk
  <2>5. askedUs' \in [Peers -> 0 .. DSEG_UPDATE]
    BY <1>0, <2>4 DEF RequestsOK
  <2> QED
    BY <2>2, <2>3, <2>5 DEF RequestsOK
<1>6. ASSUME NEW p \in Peers, TickWinnersAsk(p)
      PROVE  RequestsOK'
  BY <1>b, <1>6 DEF TickWinnersAsk, Requests
<1>7. ASSUME NEW ibd \in BOOLEAN, NEW best \in BOOLEAN, UpdatedBlockTip(ibd, best)
      PROVE  RequestsOK'
  BY <1>a, <1>7 DEF UpdatedBlockTip, requestVars
<1>8. ASSUME NEW p \in Peers, Connect(p) \/ ConnectionLost(p) \/ ProcessMessage(p) \/ ListArrives(p)
      PROVE  RequestsOK'
  BY <1>a, <1>8 DEF Connect, ConnectionLost, ProcessMessage, ListArrives, requestVars
<1>9. CASE BumpAssetLastTime \/ ListShrinks \/ RpcReset
  BY <1>a, <1>9 DEF BumpAssetLastTime, ListShrinks, RpcReset, requestVars
<1>10. CASE LongSleep
  <2>1. PICK d \in EXPIRE .. DSEG_UPDATE :
           /\ fulfilled' = [p \in Peers |-> [r \in Requests |-> LessBy(fulfilled[p][r], d)]]
           /\ weAsked' = [p \in Peers |-> LessBy(weAsked[p], d)]
           /\ askedUs' = [p \in Peers |-> LessBy(askedUs[p], d)]
    BY <1>10 DEF LongSleep
  <2>2. d \in Nat
    BY <1>0
  <2>3. fulfilled' \in [Peers -> [Requests -> 0 .. EXPIRE]]
    BY <1>0, <2>1, <2>2, LessByType DEF RequestsOK
  <2>4. weAsked' \in [Peers -> 0 .. DSEG_UPDATE] /\ askedUs' \in [Peers -> 0 .. DSEG_UPDATE]
    BY <1>0, <2>1, <2>2, LessByType DEF RequestsOK
  <2> QED
    BY <2>3, <2>4 DEF RequestsOK
<1>11. CASE Restart
  BY <1>0, <1>11 DEF Restart, RequestsOK
<1>12. CASE UNCHANGED vars
  BY <1>a, <1>12 DEF vars, requestVars
<1> QED
  BY <1>1, <1>2, <1>3, <1>4, <1>5, <1>6, <1>7, <1>8, <1>9, <1>10, <1>11, <1>12
     DEF Next, Tick, BestTip, StaleTip, IbdTip, Deliver

\* Answers that are on their way come from peers that are connected.
LEMMA PeersStep ==
  ASSUME PeersOK, [Next]_vars
  PROVE  PeersOK'
<1>a. ASSUME UNCHANGED <<counts, connected, inFlight>>
      PROVE  PeersOK'
  BY <1>a DEF PeersOK, From
<1>b. ASSUME NEW gone, connected' = connected \ gone, inFlight' = inFlight \ From(gone), UNCHANGED counts
      PROVE  PeersOK'
  BY <1>b DEF PeersOK, From
<1>1. CASE Clock \/ TickRestart \/ TickIdle \/ TickWaiting \/ TickSwitch \/ TipSwitch
             \/ BumpAssetLastTime \/ ListShrinks \/ RpcNext \/ RpcReset
  BY <1>a, <1>1 DEF Clock, TickRestart, TickIdle, TickWaiting, TickSwitch, TipSwitch,
     BumpAssetLastTime, ListShrinks, RpcNext, RpcReset, peerVars
<1>2. CASE TickListTimeout \/ TickWinnersDone \/ TickNothing
  BY <1>b, <1>2 DEF TickListTimeout, TickWinnersDone, TickNothing, DropSynced
<1>3. CASE TickFail
  BY <1>b, <1>3 DEF TickFail, Disconnect
<1>4. ASSUME NEW p \in Peers, TickListAsk(p)
      PROVE  PeersOK'
  <2>1. PICK gone \in SUBSET (connected \ syncPeers) :
          /\ connected' = connected \ gone
          /\ inFlight' \subseteq (inFlight \ From(gone)) \cup From({p})
    BY <1>4 DEF TickListAsk
  <2>2. p \in syncPeers /\ p \in connected
    BY <1>4 DEF TickListAsk, unasked, syncPeers
  <2>3. p \in connected' /\ From({p}) \subseteq From(connected')
    BY <2>1, <2>2 DEF From
  <2>4. inFlight \ From(gone) \subseteq From(connected')
    BY <2>1 DEF PeersOK, From
  <2>5. counts' = counts
    BY <1>4 DEF TickListAsk
  <2>6. From(connected)' = From(connected')
    BY DEF From
  <2> QED
    BY <2>1, <2>3, <2>4, <2>5, <2>6 DEF PeersOK
<1>5. ASSUME NEW p \in Peers, TickWinnersAsk(p)
      PROVE  PeersOK'
  BY <1>b, <1>5 DEF TickWinnersAsk, DropSynced
<1>6. ASSUME NEW ibd \in BOOLEAN, NEW best \in BOOLEAN, UpdatedBlockTip(ibd, best)
      PROVE  PeersOK'
  BY <1>a, <1>6 DEF UpdatedBlockTip, peerVars
<1>7. ASSUME NEW p \in Peers, Connect(p)
      PROVE  PeersOK'
  BY <1>7 DEF Connect, PeersOK, From
<1>8. ASSUME NEW p \in Peers, ConnectionLost(p)
      PROVE  PeersOK'
  BY <1>b, <1>8 DEF ConnectionLost
<1>9. ASSUME NEW p \in Peers, ProcessMessage(p) \/ ListArrives(p)
      PROVE  PeersOK'
  BY <1>9 DEF ProcessMessage, ListArrives, PeersOK, From
<1>10. CASE LongSleep \/ Restart
  BY <1>10 DEF LongSleep, Restart, PeersOK, From
<1>11. CASE UNCHANGED vars
  BY <1>a, <1>11 DEF vars, peerVars
<1> QED
  BY <1>1, <1>2, <1>3, <1>4, <1>5, <1>6, <1>7, <1>8, <1>9, <1>10, <1>11
     DEF Next, Tick, BestTip, StaleTip, IbdTip, Deliver

LEMMA ThreadsStep ==
  ASSUME ThreadsOK, [Next]_vars
  PROVE  ThreadsOK'
<1> USE DEF ThreadsOK
<1>1. CASE Clock \/ TickRestart \/ TickIdle \/ TickWaiting \/ TickListTimeout \/ TickWinnersDone
             \/ TickNothing \/ TickSwitch \/ TickFail \/ TipSwitch
  BY <1>1 DEF Clock, TickRestart, TickIdle, TickWaiting, TickListTimeout, TickWinnersDone,
     TickNothing, TickSwitch, TickFail, TipSwitch
<1>2. ASSUME NEW p \in Peers,
             \/ TickListAsk(p) \/ TickWinnersAsk(p) \/ Connect(p) \/ ConnectionLost(p)
             \/ ProcessMessage(p) \/ ListArrives(p)
      PROVE  ThreadsOK'
  BY <1>2 DEF TickListAsk, TickWinnersAsk, Connect, ConnectionLost, ProcessMessage, ListArrives
<1>3. ASSUME NEW ibd \in BOOLEAN, NEW best \in BOOLEAN, UpdatedBlockTip(ibd, best)
      PROVE  ThreadsOK'
  BY <1>3 DEF UpdatedBlockTip
<1>4. CASE BumpAssetLastTime \/ ListShrinks \/ RpcNext \/ RpcReset \/ LongSleep \/ Restart
             \/ UNCHANGED vars
  BY <1>4 DEF BumpAssetLastTime, ListShrinks, RpcNext, RpcReset, LongSleep, Restart, vars
<1> QED
  BY <1>1, <1>2, <1>3, <1>4 DEF Next, Tick, BestTip, StaleTip, IbdTip, Deliver

LEMMA FlagsStep ==
  ASSUME FlagsOK, [Next]_vars
  PROVE  FlagsOK'
<1> USE DEF FlagsOK
<1>1. CASE TickListTimeout
  <2>1. UNCHANGED <<haveList, reached, slept>>
    BY <1>1 DEF TickListTimeout
  <2>2. listed' = listed \/ listed' = (counts # {} /\ haveList)
    BY <1>1, Zenon DEF TickListTimeout, fEnoughNodes
  <2>3. listed' \in BOOLEAN
    BY <2>2, Zenon
  <2> QED
    BY <2>1, <2>3, Zenon
<1>2. CASE Clock \/ TickRestart \/ TickIdle \/ TickWaiting \/ TickWinnersDone
             \/ TickNothing \/ TickSwitch \/ TickFail \/ TipSwitch
  <2>1. UNCHANGED haveList /\ UNCHANGED reached
    BY <1>2 DEF Clock, TickRestart, TickIdle, TickWaiting, TickWinnersDone, TickNothing, TickSwitch,
       TickFail, TipSwitch, peerVars
  <2>2. slept' = slept \/ slept' = FALSE
    BY <1>2 DEF Clock, TickRestart, TickIdle, TickWaiting, TickWinnersDone, TickNothing, TickSwitch,
       TickFail, TipSwitch
  <2>3. listed' = listed \/ listed' = FALSE
    BY <1>2 DEF Clock, TickRestart, TickIdle, TickWaiting, TickWinnersDone, TickNothing, TickSwitch,
       TickFail, TipSwitch, Reset, stageVars
  <2> QED
    BY <2>1, <2>2, <2>3, Zenon
<1>3. ASSUME NEW p \in Peers,
             \/ TickListAsk(p) \/ TickWinnersAsk(p) \/ Connect(p) \/ ConnectionLost(p)
             \/ ProcessMessage(p) \/ ListArrives(p)
      PROVE  FlagsOK'
  <2>1. UNCHANGED reached /\ UNCHANGED slept /\ UNCHANGED listed
    BY <1>3 DEF TickListAsk, TickWinnersAsk, Connect, ConnectionLost, ProcessMessage, ListArrives,
       stageVars
  <2>2. haveList' = haveList \/ haveList' = TRUE
    BY <1>3 DEF TickListAsk, TickWinnersAsk, Connect, ConnectionLost, ProcessMessage, ListArrives
  <2> QED
    BY <2>1, <2>2, Zenon
<1>4. ASSUME NEW ibd \in BOOLEAN, NEW best \in BOOLEAN, UpdatedBlockTip(ibd, best)
      PROVE  FlagsOK'
  <2>1. UNCHANGED haveList /\ UNCHANGED slept
    BY <1>4 DEF UpdatedBlockTip, peerVars
  <2>2. reached' = reached \/ reached' = FALSE \/ reached' = best
    BY <1>4 DEF UpdatedBlockTip
  <2>3. listed' = listed \/ listed' = FALSE
    BY <1>4 DEF UpdatedBlockTip, Reset
  <2> QED
    BY <1>4, <2>1, <2>2, <2>3, Zenon
<1>5. CASE BumpAssetLastTime \/ ListShrinks \/ RpcNext \/ RpcReset \/ LongSleep \/ Restart
             \/ UNCHANGED vars
  <2>1. haveList' = haveList \/ haveList' = FALSE
    BY <1>5 DEF BumpAssetLastTime, ListShrinks, RpcNext, RpcReset, LongSleep, Restart, vars, peerVars
  <2>2. reached' = reached \/ reached' = FALSE
    BY <1>5 DEF BumpAssetLastTime, ListShrinks, RpcNext, RpcReset, LongSleep, Restart, vars
  <2>3. slept' = slept \/ slept' = FALSE \/ slept' = TRUE
    BY <1>5 DEF BumpAssetLastTime, ListShrinks, RpcNext, RpcReset, LongSleep, Restart, vars
  <2>4. listed' = listed \/ listed' = FALSE \/ listed' = TRUE
    BY <1>5 DEF BumpAssetLastTime, ListShrinks, RpcNext, RpcReset, LongSleep, Restart, vars, stageVars
  <2> QED
    BY <2>1, <2>2, <2>3, <2>4, Zenon
<1> QED
  BY <1>1, <1>2, <1>3, <1>4, <1>5 DEF Next, Tick, BestTip, StaleTip, IbdTip, Deliver

\* The bound on disturbances is kept.
LEMMA NoiseStep ==
  ASSUME noise \in 0 .. MaxNoise, [Next]_vars
  PROVE  noise' \in 0 .. MaxNoise
<1>0. MaxNoise \in Nat
  BY SmartnodeSyncAssumption
<1>1. noise' = noise \/ Disturb
  <2>1. CASE Clock \/ TickRestart \/ TickIdle \/ TickWaiting \/ TickListTimeout \/ TickWinnersDone
               \/ TickNothing \/ TickSwitch \/ TickFail \/ TipSwitch
    BY <2>1 DEF Clock, TickRestart, TickIdle, TickWaiting, TickListTimeout, TickWinnersDone,
       TickNothing, TickSwitch, TickFail, TipSwitch
  <2>2. ASSUME NEW p \in Peers,
               \/ TickListAsk(p) \/ TickWinnersAsk(p) \/ Connect(p) \/ ConnectionLost(p)
               \/ ProcessMessage(p) \/ ListArrives(p)
        PROVE  noise' = noise \/ Disturb
    BY <2>2 DEF TickListAsk, TickWinnersAsk, Connect, ConnectionLost, ProcessMessage, ListArrives
  <2>3. CASE BestTip \/ StaleTip \/ IbdTip
    BY <2>3 DEF BestTip, StaleTip, IbdTip
  <2>4. CASE BumpAssetLastTime \/ ListShrinks \/ RpcNext \/ RpcReset \/ LongSleep \/ Restart
             \/ UNCHANGED vars
    BY <2>4 DEF BumpAssetLastTime, ListShrinks, RpcNext, RpcReset, LongSleep, Restart, vars
  <2> QED
    BY <2>1, <2>2, <2>3, <2>4 DEF Next, Tick, Deliver
<1> QED
  BY <1>0, <1>1 DEF Disturb

LEMMA TypeParts ==
  TypeOK <=> /\ StageOK /\ RequestsOK /\ PeersOK /\ ThreadsOK /\ FlagsOK
             /\ noise \in 0 .. MaxNoise
  BY DEF TypeOK, StageOK, Stages, RequestsOK, PeersOK, ThreadsOK, FlagsOK

LEMMA TypeInit == Init => TypeOK
<1> SUFFICES ASSUME Init
             PROVE  TypeOK
  OBVIOUS
<1>1. StageOK /\ RequestsOK /\ PeersOK /\ ThreadsOK /\ noise \in 0 .. MaxNoise
  BY SmartnodeSyncAssumption
     DEF Init, StageOK, Stages, INITIAL, LIST, RequestsOK, PeersOK, From, ThreadsOK
<1>2. FlagsOK
  BY Zenon DEF Init, FlagsOK
<1> QED
  BY <1>1, <1>2, TypeParts

LEMMA TypeStep == TypeOK /\ [Next]_vars => TypeOK'
<1> SUFFICES ASSUME TypeOK, [Next]_vars
             PROVE  TypeOK'
  OBVIOUS
<1>1. StageOK' /\ RequestsOK' /\ PeersOK' /\ ThreadsOK' /\ FlagsOK' /\ noise' \in 0 .. MaxNoise
  BY TypeParts, StageStep, RequestsStep, PeersStep, ThreadsStep, FlagsStep, NoiseStep
<1> QED
  BY <1>1 DEF TypeOK, StageOK, Stages, RequestsOK, PeersOK, ThreadsOK, FlagsOK

\* The stages, timers and requests stay in their ranges, for all peers and time limits.
THEOREM SyncTypeCorrect == Spec => []TypeOK
  BY TypeInit, TypeStep, PTL DEF Spec

-----------------------------------------------------------------------------
(* The list is there before the payment votes are asked for *)

(***************************************************************************)
(* Without a complete list nobody is about to leave LIST.  Both threads    *)
(* may be about to call SwitchToNextAsset in INITIAL, so in WAITING it has *)
(* to be shown that one of them was late: the clock stands still while a   *)
(* call is pending, and so the timeout of WAITING cannot have passed.      *)
(***************************************************************************)
TickPending == tickPc \in {"switch", "waitswitch"}
TipPending == tipPc = "switch"

ListedInv ==
  /\ StageOK
  /\ ~listed => asset \notin {MNW, FINISHED}
  /\ ~listed /\ asset = LIST => ~TickPending /\ ~TipPending
  /\ ~listed /\ asset = WAITING => ~(TickPending /\ TipPending)
  /\ TipPending => bumped = 0

LEMMA ListedInit == Init => ListedInv
<1> SUFFICES ASSUME Init
             PROVE  ListedInv
  OBVIOUS
<1>1. StageOK
  BY TypeInit, TypeParts
<1> QED
  BY <1>1 DEF Init, ListedInv, TipPending, TickPending, INITIAL, WAITING, LIST, MNW, FINISHED

LEMMA ListedStep == ListedInv /\ [Next]_vars => ListedInv'
<1> SUFFICES ASSUME ListedInv, [Next]_vars
             PROVE  ListedInv'
  OBVIOUS
<1> USE DEF ListedInv, TickPending, TipPending, FAILED, INITIAL, WAITING, LIST, MNW, FINISHED
<1>0. StageOK'
  BY StageStep
<1>1. CASE Clock
  BY <1>0, <1>1 DEF Clock
<1>2. CASE TickRestart
  BY <1>0, <1>2 DEF TickRestart, Reset
<1>3. CASE TickIdle \/ TickWinnersDone \/ TickNothing
  <2>1. UNCHANGED <<asset, bumped, listed, tipPc>>
    BY <1>3 DEF TickIdle, TickWinnersDone, TickNothing, stageVars
  <2>2. tickPc' \in {"sleep"} \/ asset = MNW
    BY <1>3 DEF TickIdle, TickWinnersDone, TickNothing
  <2> QED
    BY <1>0, <2>1, <2>2
<1>4. CASE TickWaiting
  <2>1. bumped > SYNC_TIMEOUT /\ bumped # 0
    BY <1>4, SmartnodeSyncAssumption DEF TickWaiting
  <2> QED
    BY <1>0, <1>4, <2>1 DEF TickWaiting, stageVars
<1>5. CASE TickListTimeout
  <2>1. UNCHANGED <<asset, bumped, tipPc>> /\ asset = LIST
    BY <1>5 DEF TickListTimeout
  <2>2. (tickPc' = "fail" /\ listed' = listed) \/ listed'
    <3>1. IF attempt = 0 \/ ~fEnoughNodes
          THEN tickPc' = "fail" /\ listed' = listed
          ELSE tickPc' = "switch" /\ listed' = fEnoughNodes
      BY <1>5 DEF TickListTimeout
    <3>2. CASE attempt = 0 \/ ~fEnoughNodes
      BY <3>1, <3>2
    <3>3. CASE ~(attempt = 0 \/ ~fEnoughNodes)
      <4>1. fEnoughNodes /\ listed' = fEnoughNodes
        BY <3>1, <3>3
      <4> QED
        BY <4>1
    <3> QED
      BY <3>2, <3>3
  <2> QED
    BY <1>0, <2>1, <2>2
<1>6. CASE TickSwitch
  <2>1. SwitchToNextAsset /\ TickPending /\ tickPc' \in {"sleep", "tick"} /\ UNCHANGED <<listed, tipPc>>
    BY <1>6 DEF TickSwitch
  <2> QED
    BY <1>0, <2>1, SwitchResult DEF StageOK
<1>7. CASE TipSwitch
  <2>1. SwitchToNextAsset /\ TipPending /\ tipPc' = "idle" /\ UNCHANGED <<listed, tickPc>>
    BY <1>7 DEF TipSwitch
  <2> QED
    BY <1>0, <2>1, SwitchResult DEF StageOK
<1>8. CASE TickFail
  BY <1>0, <1>8 DEF TickFail
<1>9. ASSUME NEW p \in Peers, TickListAsk(p) \/ TickWinnersAsk(p)
      PROVE  ListedInv'
  <2>1. UNCHANGED <<asset, bumped, listed, tipPc>> /\ tickPc' = "sleep"
    BY <1>9 DEF TickListAsk, TickWinnersAsk
  <2> QED
    BY <1>0, <2>1
<1>10. ASSUME NEW ibd \in BOOLEAN, NEW best \in BOOLEAN, UpdatedBlockTip(ibd, best)
       PROVE  ListedInv'
  <2>1. UNCHANGED tickPc /\ tipPc = "idle"
    BY <1>10 DEF UpdatedBlockTip
  <2>2. \/ Reset /\ UNCHANGED tipPc
        \/ UNCHANGED <<asset, listed, tipPc>>
        \/ UNCHANGED <<asset, listed>> /\ bumped' = 0 /\ asset = INITIAL
    BY <1>10 DEF UpdatedBlockTip
  <2> QED
    BY <1>0, <2>1, <2>2 DEF Reset
<1>11. ASSUME NEW p \in Peers, Connect(p) \/ ConnectionLost(p) \/ ProcessMessage(p) \/ ListArrives(p)
       PROVE  ListedInv'
  BY <1>0, <1>11 DEF Connect, ConnectionLost, ProcessMessage, ListArrives, stageVars
<1>12. CASE BumpAssetLastTime \/ ListShrinks \/ LongSleep \/ UNCHANGED vars
  BY <1>0, <1>12 DEF BumpAssetLastTime, ListShrinks, LongSleep, vars, stageVars
<1>13. CASE RpcNext \/ RpcReset
  <2>1. listed' /\ UNCHANGED tipPc
    BY <1>13 DEF RpcNext, RpcReset
  <2>2. bumped' = bumped \/ bumped' = 0
    BY <1>13, SwitchResult DEF RpcNext, RpcReset, StageOK
  <2> QED
    BY <1>0, <2>1, <2>2
<1>14. CASE Restart
  BY <1>0, <1>14 DEF Restart
<1> HIDE DEF ListedInv, TickPending, TipPending, FAILED, INITIAL, WAITING, LIST, MNW, FINISHED
<1> QED
  BY <1>1, <1>2, <1>3, <1>4, <1>5, <1>6, <1>7, <1>8, <1>9, <1>10, <1>11, <1>12, <1>13, <1>14
     DEF Next, Tick, BestTip, StaleTip, IbdTip, Deliver

(***************************************************************************)
(* ProcessTick and UpdatedBlockTip never carry the sync past the list      *)
(* stage without a list that is as long as the peers say.                  *)
(***************************************************************************)
THEOREM ListComesFirst == Spec => []ListedBeforeWinners
<1>1. ListedInv => ListedBeforeWinners
  BY DEF ListedInv, ListedBeforeWinners
<1> QED
  BY <1>1, ListedInit, ListedStep, PTL DEF Spec
=============================================================================
