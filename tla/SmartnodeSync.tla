---------------------------- MODULE SmartnodeSync ----------------------------
(***************************************************************************)
(* The stages of CSmartnodeSync (smartnode/smartnodesync.cpp) with the     *)
(* requests that CNetFulfilledRequestManager (netfulfilledman.cpp) and     *)
(* CSmartnodeMan::DsegUpdate remember.                                     *)
(*                                                                         *)
(* The class has no lock.  ThreadSmartnode runs ProcessTick once a second, *)
(* the threads that connect blocks run UpdatedBlockTip, RPC threads run    *)
(* snsync.  A handler that decides on Fail or SwitchToNextAsset and then   *)
(* calls it can be interrupted in between, but not for a whole second: the *)
(* clock does not move while a decision is pending.                        *)
(*                                                                         *)
(* Times are ages that stop growing once every comparison with them is     *)
(* decided, and remaining times that stop at 0, so the clock needs no      *)
(* bound.  Left out: -litemode, the VOTING stage (no stage leads to it),   *)
(* and nTimeAssetSyncStarted, which is only logged.                        *)
(***************************************************************************)
EXTENDS Integers, FiniteSets

CONSTANTS
    Peers,          \* outbound full nodes, by address
    OldPeers,       \* those below GetMinSmartnodePaymentsProto
    SYNC_TIMEOUT,   \* SMARTNODE_SYNC_TIMEOUT_SECONDS
    LIST_TIMEOUT,   \* 8 * SMARTNODE_SYNC_TIMEOUT_SECONDS
    COOLDOWN,       \* the pause after a failure
    EXPIRE,         \* FulfilledRequestExpireTime
    DSEG_UPDATE,    \* DSEG_UPDATE_SECONDS
    Operator,       \* whether the operator uses snsync
    MaxNoise        \* bound on disturbances: stale tips, other messages, late
                    \* answers, sleeps, restarts, operator commands and lost
                    \* connections, taken together

FAILED == -1
INITIAL == 0
WAITING == 1
LIST == 2
MNW == 3
FINISHED == 999

Requests == {"full-sync", "smartnode-list-sync", "smartnode-payment-sync"}

ASSUME SmartnodeSyncAssumption ==
    /\ OldPeers \subseteq Peers /\ Peers # OldPeers
    /\ IsFiniteSet(Peers)
    /\ SYNC_TIMEOUT \in Nat /\ LIST_TIMEOUT \in Nat /\ SYNC_TIMEOUT <= LIST_TIMEOUT
    /\ COOLDOWN \in Nat /\ EXPIRE \in Nat /\ DSEG_UPDATE \in Nat
    /\ Operator \in BOOLEAN /\ MaxNoise \in Nat

VARIABLES
    asset,        \* nRequestedSmartnodeAssets
    attempt,      \* nRequestedSmartnodeAttempt
    bumped,       \* age of nTimeLastBumped
    failure,      \* age of nTimeLastFailure
    fulfilled,    \* mapFulfilledRequests: remaining time per peer and request
    weAsked,      \* mWeAskedForSmartnodeList: remaining time per peer
    askedUs,      \* mAskedUsForSmartnodeList at the peer: remaining time for us
    counts,       \* peers in mapSmartnodeListCounts
    haveList,     \* mnodeman.size() >= 0.9 * the mean of the counts
    connected,    \* fully connected peers
    inFlight,     \* parts of the answers to DSEG on their way
    tickPc,       \* ThreadSmartnode
    tipPc,        \* a thread inside UpdatedBlockTip
    reached,      \* fReachedBestHeader
    slept,        \* more than an hour passed since the last tick
    listed,       \* history: the list was complete when LIST was left, or the
                  \* operator has used snsync
    noise         \* disturbances so far

stageVars == <<asset, attempt, bumped, failure, listed>>
requestVars == <<fulfilled, weAsked, askedUs>>
peerVars == <<counts, haveList, connected, inFlight>>
vars == <<stageVars, requestVars, peerVars, tickPc, tipPc, reached, slept,
          noise>>

-----------------------------------------------------------------------------
(* Helpers *)

Older(age, limit) == IF age <= limit THEN age + 1 ELSE age
LessBy(left, d) == IF left > d THEN left - d ELSE 0
Less(left) == LessBy(left, 1)

Disturb == noise < MaxNoise /\ noise' = noise + 1

\* Answers from the peers ps
From(ps) == ps \X {"count", "list"}

HasFulfilledRequest(p, r) == fulfilled[p][r] > 0

AddFulfilledRequest(ps, r) ==
    fulfilled' = [p \in Peers |-> IF p \in ps THEN [fulfilled[p] EXCEPT ![r] = EXPIRE]
                                              ELSE fulfilled[p]]

\* nMeanListCount is not zero and the list is as long as the peers say.
fEnoughNodes == counts # {} /\ haveList

Reset ==
    /\ asset' = INITIAL /\ attempt' = 0
    /\ bumped' = 0 /\ failure' = COOLDOWN + 1
    /\ listed' = FALSE

\* Mutant of SwitchToNextAsset: MNW leads to the VOTING stage, whose code is there
\* but disabled.
SwitchToNextAssetVoting ==
    /\ asset' = CASE asset = FAILED -> FAILED
                  [] asset = FINISHED -> FINISHED
                  [] OTHER -> asset + 1
    /\ attempt' = 0 /\ bumped' = 0
    /\ UNCHANGED <<failure, fulfilled>>

(***************************************************************************)
(* SwitchToNextAsset from the stage read by its switch statement.  It      *)
(* throws when the stage is FAILED, and marks all connected peers as done  *)
(* when it finishes.  BumpAssetLastTime at its end does nothing then.      *)
(***************************************************************************)
SwitchToNextAsset ==
    IF asset = FAILED
    THEN UNCHANGED <<asset, attempt, bumped, failure, fulfilled>>
    ELSE /\ asset' = CASE asset = INITIAL -> WAITING
                       [] asset = WAITING -> LIST
                       [] asset = LIST -> MNW
                       [] OTHER -> FINISHED
         /\ attempt' = 0
         /\ bumped' = IF asset \in {MNW, FINISHED} THEN bumped ELSE 0
         /\ IF asset = MNW THEN AddFulfilledRequest(connected, "full-sync")
                           ELSE UNCHANGED fulfilled
         /\ UNCHANGED failure

\* Disconnect(half of the outbound peers, min protocol), called by Fail
Disconnect(gone) ==
    /\ gone \subseteq connected \cap OldPeers
    /\ LET half == Cardinality(connected) \div 2
           old == Cardinality(connected \cap OldPeers)
       IN  Cardinality(gone) = IF old < half THEN old ELSE half
    /\ connected' = connected \ gone
    /\ inFlight' = inFlight \ From(gone)

-----------------------------------------------------------------------------
(* ThreadSmartnode *)

\* A second passes and the thread wakes up.  Answers are quicker than that
\* unless the network delays them.
Clock ==
    /\ tickPc = "sleep" /\ tipPc = "idle"
    /\ tickPc' = "tick"
    /\ IF inFlight = {} THEN UNCHANGED noise ELSE Disturb
    /\ bumped' = Older(bumped, LIST_TIMEOUT)
    /\ failure' = Older(failure, COOLDOWN)
    /\ fulfilled' = [p \in Peers |-> [r \in Requests |-> Less(fulfilled[p][r])]]
    /\ weAsked' = [p \in Peers |-> Less(weAsked[p])]
    /\ askedUs' = [p \in Peers |-> Less(askedUs[p])]
    /\ UNCHANGED <<asset, attempt, listed, peerVars, tipPc, reached, slept>>

\* ProcessTick before its loop: restart the sync after a sleep or a failure.
TickRestart ==
    /\ tickPc = "tick"
    /\ slept \/ (asset = FAILED /\ failure > COOLDOWN)
    /\ Reset
    /\ slept' = FALSE
    /\ tickPc' = "switch"
    /\ UNCHANGED <<requestVars, peerVars, tipPc, reached, noise>>

\* ... or nothing to do: finished, or in the cooldown.
TickIdle ==
    /\ tickPc = "tick" /\ ~slept
    /\ asset = FINISHED \/ (asset = FAILED /\ failure <= COOLDOWN)
    /\ tickPc' = "sleep"
    /\ UNCHANGED <<stageVars, requestVars, peerVars, tipPc, reached, slept,
                   noise>>

looping == tickPc = "tick" /\ ~slept /\ asset \notin {FINISHED, FAILED}

\* The peers the loop gets to once it has passed over the fully synced ones.
syncPeers == {p \in connected : ~HasFulfilledRequest(p, "full-sync")}

\* The loop drops fully synced peers: all of them, or those before the peer
\* at which the tick ends.
DropSynced(all) ==
    \E gone \in SUBSET (connected \ syncPeers) :
        /\ all => gone = connected \ syncPeers
        /\ connected' = connected \ gone
        /\ inFlight' = inFlight \ From(gone)

\* The loop in WAITING: after the timeout, the next stage, in the same tick.
TickWaiting ==
    /\ looping /\ asset = WAITING /\ syncPeers # {}
    /\ bumped > SYNC_TIMEOUT
    /\ tickPc' = "waitswitch"
    /\ UNCHANGED <<stageVars, requestVars, peerVars, tipPc, reached, slept,
                   noise>>

listTimeout == \/ bumped > SYNC_TIMEOUT /\ fEnoughNodes
               \/ bumped > LIST_TIMEOUT

\* Mutant of TickListTimeout: the list may be incomplete.
TickListTimeoutLenient ==
    /\ looping /\ asset = LIST /\ syncPeers # {}
    /\ listTimeout
    /\ IF attempt = 0
       THEN tickPc' = "fail" /\ UNCHANGED listed
       ELSE tickPc' = "switch" /\ listed' = fEnoughNodes
    /\ DropSynced(FALSE)
    /\ UNCHANGED <<asset, attempt, bumped, failure, requestVars, counts, haveList,
                   tipPc, reached, slept, noise>>

\* The timeout of LIST.
TickListTimeout ==
    /\ looping /\ asset = LIST /\ syncPeers # {}
    /\ listTimeout
    /\ IF attempt = 0 \/ ~fEnoughNodes
       THEN tickPc' = "fail" /\ UNCHANGED listed
       ELSE tickPc' = "switch" /\ listed' = fEnoughNodes
    /\ DropSynced(FALSE)
    /\ UNCHANGED <<asset, attempt, bumped, failure, requestVars, counts, haveList,
                   tipPc, reached, slept, noise>>

\* Peers that a request r has not been sent to lately.
unasked(r) == {p \in syncPeers : ~HasFulfilledRequest(p, r)}

\* Mutant of askAgain: a skipped request counts as one.
askAgainExtended(p) == DSEG_UPDATE

\* DsegUpdate: when the next request to p makes sense
askAgain(p) == IF weAsked[p] > 0 THEN weAsked[p] ELSE DSEG_UPDATE

\* LIST: ask one peer.  Old peers on the way are marked but not asked, and
\* DsegUpdate sends nothing to a peer it asked within DSEG_UPDATE.  The peer's
\* SyncAll answers an address once within DSEG_UPDATE.
TickListAsk(p) ==
    /\ looping /\ asset = LIST /\ ~listTimeout /\ attempt <= 2
    /\ p \in unasked("smartnode-list-sync") \ OldPeers
    /\ \E skipped \in SUBSET (unasked("smartnode-list-sync") \cap OldPeers) :
          AddFulfilledRequest({p} \cup skipped, "smartnode-list-sync")
    /\ attempt' = attempt + 1
    /\ weAsked' = [weAsked EXCEPT ![p] = askAgain(p)]
    /\ \E gone \in SUBSET (connected \ syncPeers) :
         /\ connected' = connected \ gone
         /\ IF weAsked[p] > 0 \/ askedUs[p] > 0
            THEN inFlight' = inFlight \ From(gone) /\ UNCHANGED askedUs
            ELSE /\ inFlight' = (inFlight \ From(gone)) \cup From({p})
                 /\ askedUs' = [askedUs EXCEPT ![p] = DSEG_UPDATE]
    /\ tickPc' = "sleep"
    /\ UNCHANGED <<asset, bumped, failure, listed, counts, haveList, tipPc, reached,
                   slept, noise>>

\* The timeout of MNW, or enough data from two peers.
TickWinnersDone ==
    /\ looping /\ asset = MNW /\ syncPeers # {}
    /\ \/ bumped > SYNC_TIMEOUT
             /\ tickPc' = IF attempt = 0 THEN "fail" ELSE "switch"
       \/ bumped <= SYNC_TIMEOUT /\ attempt > 1 /\ tickPc' = "switch"
    /\ DropSynced(FALSE)
    /\ UNCHANGED <<stageVars, requestVars, counts, haveList, tipPc, reached,
                   slept, noise>>

TickWinnersAsk(p) ==
    /\ looping /\ asset = MNW /\ bumped <= SYNC_TIMEOUT
    /\ p \in unasked("smartnode-payment-sync")
    /\ AddFulfilledRequest({p}, "smartnode-payment-sync")
    /\ attempt' = attempt + 1
    /\ DropSynced(FALSE)
    /\ tickPc' = "sleep"
    /\ UNCHANGED <<asset, bumped, failure, listed, weAsked, askedUs, counts, haveList,
                   tipPc, reached, slept, noise>>

\* The loop ends without a request: nothing is due at any peer.
TickNothing ==
    /\ looping
    /\ \/ asset = INITIAL
       \/ syncPeers = {}
       \/ asset = WAITING /\ bumped <= SYNC_TIMEOUT
       \/ /\ asset = LIST /\ ~listTimeout
          /\ attempt > 2 \/ unasked("smartnode-list-sync") \subseteq OldPeers
       \/ asset = MNW /\ bumped <= SYNC_TIMEOUT /\ unasked("smartnode-payment-sync") = {}
    /\ IF asset = LIST /\ attempt <= 2
       THEN AddFulfilledRequest(unasked("smartnode-list-sync"), "smartnode-list-sync")
       ELSE UNCHANGED fulfilled
    /\ DropSynced(asset # LIST \/ attempt <= 2)
    /\ tickPc' = "sleep"
    /\ UNCHANGED <<stageVars, weAsked, askedUs, counts, haveList, tipPc, reached, slept,
                   noise>>

\* The calls a tick has decided on.
TickSwitch ==
    /\ tickPc \in {"switch", "waitswitch"}
    /\ SwitchToNextAsset
    /\ tickPc' = IF tickPc = "switch" THEN "sleep" ELSE "tick"
    /\ UNCHANGED <<listed, weAsked, askedUs, peerVars, tipPc, reached, slept, noise>>

TickFail ==
    /\ tickPc = "fail"
    /\ failure' = 0 /\ asset' = FAILED
    /\ \E gone \in SUBSET connected : Disconnect(gone)
    /\ tickPc' = "sleep"
    /\ UNCHANGED <<attempt, bumped, listed, requestVars, counts, haveList, tipPc,
                   reached, slept, noise>>

Tick == \/ TickRestart \/ TickIdle \/ TickWaiting \/ TickListTimeout
        \/ TickWinnersDone \/ TickNothing \/ TickSwitch \/ TickFail
        \/ \E p \in Peers : TickListAsk(p) \/ TickWinnersAsk(p)

-----------------------------------------------------------------------------
(* Block tips and headers *)

(***************************************************************************)
(* UpdatedBlockTip up to its call of SwitchToNextAsset.  ibd is            *)
(* fInitialDownload, best says whether the new tip is pindexBestHeader.    *)
(***************************************************************************)
UpdatedBlockTip(ibd, best) ==
    /\ tipPc = "idle"
    /\ asset \notin {FINISHED, FAILED}
    /\ \/ /\ ibd
          /\ IF asset > INITIAL THEN Reset
             ELSE bumped' = 0 /\ UNCHANGED <<asset, attempt, failure, listed>>
          /\ UNCHANGED <<tipPc, reached>>
       \/ /\ ~ibd /\ reached /\ ~best
          /\ Reset
          /\ reached' = FALSE
          /\ UNCHANGED tipPc
       \/ /\ ~ibd /\ (reached => best)
          /\ reached' = best
          /\ bumped' = IF asset = INITIAL THEN 0 ELSE bumped
          /\ tipPc' = IF best /\ asset = INITIAL THEN "switch" ELSE "idle"
          /\ UNCHANGED <<asset, attempt, failure, listed>>
    /\ UNCHANGED <<requestVars, peerVars, tickPc, slept>>

\* A block that extends the best chain: always another one to come.
BestTip == UpdatedBlockTip(FALSE, TRUE) /\ UNCHANGED noise

\* A tip behind the best header, or seen during the initial download.
StaleTip == UpdatedBlockTip(FALSE, FALSE) /\ Disturb
IbdTip == \E best \in BOOLEAN : UpdatedBlockTip(TRUE, best) /\ Disturb

TipSwitch ==
    /\ tipPc = "switch"
    /\ SwitchToNextAsset
    /\ tipPc' = "idle"
    /\ UNCHANGED <<listed, weAsked, askedUs, peerVars, tickPc, reached, slept, noise>>

-----------------------------------------------------------------------------
(* Peers *)

Connect(p) ==
    /\ p \notin connected
    /\ connected' = connected \cup {p}
    /\ UNCHANGED <<stageVars, requestVars, counts, haveList, inFlight, tickPc,
                   tipPc, reached, slept, noise>>

\* A lost connection takes the answers with it.
ConnectionLost(p) ==
    /\ p \in connected /\ Disturb
    /\ connected' = connected \ {p}
    /\ inFlight' = inFlight \ From({p})
    /\ UNCHANGED <<stageVars, requestVars, counts, haveList, tickPc, tipPc,
                   reached, slept>>

\* SYNCSTATUSCOUNT for the smartnode list
ProcessMessage(p) ==
    /\ <<p, "count">> \in inFlight
    /\ inFlight' = inFlight \ {<<p, "count">>}
    /\ counts' = IF asset \in {FINISHED, FAILED} \/ p \in OldPeers THEN counts
                 ELSE counts \cup {p}
    /\ UNCHANGED <<stageVars, requestVars, haveList, connected, tickPc, tipPc,
                   reached, slept, noise>>

\* The broadcasts of the list: CheckMnbAndUpdateSmartnodeList adds them and
\* postpones the timeout.
ListArrives(p) ==
    /\ <<p, "list">> \in inFlight
    /\ inFlight' = inFlight \ {<<p, "list">>}
    /\ haveList' = TRUE
    /\ bumped' = IF asset \in {FINISHED, FAILED} THEN bumped ELSE 0
    /\ UNCHANGED <<asset, attempt, failure, listed, requestVars, counts, connected,
                   tickPc, tipPc, reached, slept, noise>>

\* A broadcast, ping or payment vote that postpones the timeout
BumpAssetLastTime ==
    /\ asset \notin {FINISHED, FAILED} /\ Disturb
    /\ bumped' = 0
    /\ UNCHANGED <<asset, attempt, failure, listed, requestVars, peerVars, tickPc,
                   tipPc, reached, slept>>

\* Smartnodes expire and the list falls behind the counts.
ListShrinks ==
    /\ haveList /\ Disturb
    /\ haveList' = FALSE
    /\ UNCHANGED <<stageVars, requestVars, counts, connected, inFlight, tickPc,
                   tipPc, reached, slept>>

-----------------------------------------------------------------------------
(* Operator and machine *)

\* snsync next.  In FAILED the exception goes to the caller.
RpcNext ==
    /\ Operator /\ asset # FAILED /\ Disturb
    /\ SwitchToNextAsset
    /\ listed' = TRUE
    /\ UNCHANGED <<weAsked, askedUs, peerVars, tickPc, tipPc, reached, slept>>

\* snsync reset: Reset and the switch to WAITING
RpcReset ==
    /\ Operator /\ Disturb
    /\ asset' = WAITING /\ attempt' = 0
    /\ bumped' = 0 /\ failure' = COOLDOWN + 1
    /\ listed' = TRUE
    /\ UNCHANGED <<requestVars, peerVars, tickPc, tipPc, reached, slept>>

\* The machine sleeps for more than an hour; the tick will notice.
LongSleep ==
    /\ tickPc = "sleep" /\ tipPc = "idle" /\ Disturb
    /\ slept' = TRUE
    /\ bumped' = LIST_TIMEOUT + 1 /\ failure' = COOLDOWN + 1
    /\ \E d \in EXPIRE .. DSEG_UPDATE :
         /\ fulfilled' = [p \in Peers |-> [r \in Requests |-> LessBy(fulfilled[p][r], d)]]
         /\ weAsked' = [p \in Peers |-> LessBy(weAsked[p], d)]
         /\ askedUs' = [p \in Peers |-> LessBy(askedUs[p], d)]
    /\ connected' = {} /\ inFlight' = {}
    /\ UNCHANGED <<asset, attempt, listed, counts, haveList, tickPc, tipPc, reached>>

\* The node stops and starts again.  netfulfilled.dat is written by an orderly
\* shutdown only; the list is not kept unless -cachenodelist is set, and the
\* peers keep their side.
Restart ==
    /\ Disturb
    /\ asset' = INITIAL /\ attempt' = 0
    /\ bumped' = 0 /\ failure' = COOLDOWN + 1 /\ listed' = FALSE
    /\ fulfilled' \in {fulfilled, [p \in Peers |-> [r \in Requests |-> 0]]}
    /\ weAsked' = [p \in Peers |-> 0]
    /\ counts' = {} /\ haveList' = FALSE
    /\ connected' = {} /\ inFlight' = {}
    /\ tickPc' = "sleep" /\ tipPc' = "idle" /\ reached' = FALSE /\ slept' = FALSE
    /\ UNCHANGED askedUs

-----------------------------------------------------------------------------
Init ==
    /\ asset = INITIAL /\ attempt = 0
    /\ bumped = 0 /\ failure = COOLDOWN + 1
    /\ fulfilled = [p \in Peers |-> [r \in Requests |-> 0]]
    /\ weAsked = [p \in Peers |-> 0] /\ askedUs = [p \in Peers |-> 0]
    /\ counts = {} /\ haveList = FALSE /\ connected = {} /\ inFlight = {}
    /\ tickPc = "sleep" /\ tipPc = "idle" /\ reached = FALSE
    /\ slept = FALSE /\ listed = FALSE
    /\ noise = 0

Deliver == \E p \in Peers : ProcessMessage(p) \/ ListArrives(p)

Next ==
    \/ Clock \/ Tick \/ BestTip \/ StaleTip \/ IbdTip \/ TipSwitch
    \/ \E p \in Peers : Connect(p) \/ ConnectionLost(p)
    \/ Deliver \/ BumpAssetLastTime \/ ListShrinks
    \/ RpcNext \/ RpcReset \/ LongSleep \/ Restart

(***************************************************************************)
(* The clock runs, threads are scheduled, blocks keep coming, peers can be *)
(* connected to and answer.                                                *)
(***************************************************************************)
Fairness ==
    /\ WF_vars(Clock) /\ WF_vars(Tick)
    /\ WF_vars(BestTip) /\ WF_vars(TipSwitch)
    /\ WF_vars(Deliver)
    /\ \A p \in Peers : WF_vars(Connect(p))

Spec == Init /\ [][Next]_vars /\ Fairness

-----------------------------------------------------------------------------
(* Properties *)

(***************************************************************************)
(* The stages, timers and counters stay in their ranges.                   *)
(***************************************************************************)
TypeOK ==
    /\ asset \in {FAILED, INITIAL, WAITING, LIST, MNW, FINISHED}
    /\ attempt \in Nat /\ (asset = LIST => attempt <= 3)
    /\ bumped \in 0 .. LIST_TIMEOUT + 1 /\ failure \in 0 .. COOLDOWN + 1
    /\ fulfilled \in [Peers -> [Requests -> 0..EXPIRE]]
    /\ weAsked \in [Peers -> 0..DSEG_UPDATE] /\ askedUs \in [Peers -> 0..DSEG_UPDATE]
    /\ counts \subseteq Peers /\ connected \subseteq Peers
    /\ inFlight \subseteq From(connected)
    /\ tickPc \in {"sleep", "tick", "switch", "waitswitch", "fail"}
    /\ tipPc \in {"idle", "switch"}
    /\ haveList \in BOOLEAN /\ reached \in BOOLEAN
    /\ slept \in BOOLEAN /\ listed \in BOOLEAN
    /\ noise \in 0..MaxNoise

(***************************************************************************)
(* The payment stage and the end are reached with a smartnode list as long *)
(* as the peers say ("there is no way we can continue without smartnode    *)
(* list"), however ticks, tips, resets and sleeps interleave, as long as   *)
(* the operator has not moved the stage by hand.                           *)
(***************************************************************************)
ListedBeforeWinners == asset \in {MNW, FINISHED} => listed

(***************************************************************************)
(* After any finite number of failures, resets, sleeps and restarts the    *)
(* sync completes: remembered requests delay a retry but never prevent it. *)
(***************************************************************************)
SyncCompletes == []<>(asset = FINISHED)
=============================================================================
