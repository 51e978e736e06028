----------------------------- MODULE InstantSend -----------------------------
(***************************************************************************)
(* InstantSend transaction locking on one node (smartnode/instantx.cpp)    *)
(* together with the parts of the node it depends on: the handler of the   *)
(* txlreq and txlvote messages, the RPC and wallet entry points, the       *)
(* memory pool, the connection and disconnection of blocks, and the        *)
(* cleanup thread.                                                         *)
(*                                                                         *)
(* Atomicity follows the locks.  CheckAndRemove holds only cs_instantsend, *)
(* so it can run between any two critical sections of the message handler; *)
(* everything else also needs cs_main, which the handler keeps from the    *)
(* acceptance of a lock request until its last TryToFinalize.              *)
(*                                                                         *)
(* The node runs with -enableinstantsend, its default, and no warning of a *)
(* fork with much work is up: IsLockedInstantSendTransaction would answer  *)
(* no, as it does while spork 3 is off, which SporkOrSyncChange covers.    *)
(* The transaction index cannot be turned off (validation.cpp:78 and 4529, *)
(* init.cpp:472).                                                          *)
(***************************************************************************)
EXTENDS Integers, FiniteSets

CONSTANTS
    Txs,            \* transactions, each able to spend ...
    Outpoints,      \* ... some of these outputs of the initial chain
    Inputs,         \* Inputs[t] : the outpoints that t spends
    NoTx,           \* "no transaction" (a missing map entry)
    Smartnodes,     \* voters, by the outpoint of their collateral
    Self,           \* activeSmartnode.outpoint; outside Smartnodes if ~fSmartNode
    LockRequests,   \* transactions announced as lock requests
    PeerVotes,      \* votes that the other smartnodes send
    Quorums,        \* the possible top-SIGNATURES_TOTAL sets, per outpoint
    SIGNATURES_REQUIRED, SIGNATURES_TOTAL,
    LOCK_TIMEOUT,   \* INSTANTSEND_LOCK_TIMEOUT_SECONDS, in clock ticks
    FAILED_TIMEOUT, \* INSTANTSEND_FAILED_TIMEOUT_SECONDS, in clock ticks
    KeepLock,       \* consensus.nInstantSendKeepLock
    StartHeight,    \* height of the chain when the node starts
    MaxHeight, MaxTime, MaxReorg, MaxRestarts, \* bounds of the model
    SporksMove      \* whether sporks 2 and 3 and the sync state may change

NotInBlock == -1    \* SYNC_TRANSACTION_NOT_IN_BLOCK, the "unconfirmed" height

Votes == {v \in [tx : Txs, outpoint : Outpoints, smartnode : Smartnodes] :
            v.outpoint \in Inputs[v.tx]}

ASSUME InstantSendAssumption ==
    /\ Inputs \in [Txs -> (SUBSET Outpoints) \ {{}}]
    /\ NoTx \notin Txs
    /\ IsFiniteSet(Smartnodes)
    /\ LockRequests \subseteq Txs
    /\ PeerVotes \subseteq Votes
    /\ Quorums # {}
    /\ Quorums \subseteq [Outpoints -> SUBSET Smartnodes]
    /\ \A q \in Quorums : \A o \in Outpoints : Cardinality(q[o]) <= SIGNATURES_TOTAL
    /\ SIGNATURES_REQUIRED \in Nat \ {0}
    /\ SIGNATURES_TOTAL \in Nat
    /\ LOCK_TIMEOUT \in Nat
    /\ FAILED_TIMEOUT \in Nat
    /\ KeepLock \in Nat
    /\ StartHeight \in Nat
    /\ MaxHeight \in Nat
    /\ MaxTime \in Nat
    /\ MaxReorg \in Nat
    /\ MaxRestarts \in Nat
    /\ SporksMove \in BOOLEAN

VARIABLES
    \* members of CInstantSend
    mapTxLockCandidates,    \* tx -> candidate
    mapVotedOutpoints,      \* outpoint -> txs that got a vote for it
    mapLockedOutpoints,     \* outpoint -> tx that locked it, or NoTx
    mapLockRequestAccepted, \* requests whose tx entered the memory pool
    mapLockRequestRejected, \* requests refused by the memory pool
    mapTxLockVotes,         \* vote -> entry
    mapTxLockVotesOrphan,   \* vote -> time created, or -1
    nCachedBlockHeight,     \* height of the last tip notification
    \* the message handler thread
    pc,                     \* where it stands between two critical sections
    msgTx,                  \* the lock request being handled, or NoTx
    msgVotes, msgTime,      \* the vote being handled, as a set, and its time
    copy,                   \* Vote()'s local copy of a candidate
    ownVotes,               \* votes this node has signed and relayed
    rpcTx,                  \* the transaction of an RPC thread that holds cs_main
    \* the rest of the node
    mempool,                \* CTxMemPool: a set of transactions
    minedAt,                \* tx -> height of its block, or NotInBlock
    txIndex,                \* txs the transaction index knows in a block
    checkedBlock,           \* a block with fChecked set, not yet connected
    height, peak,           \* the tip, and the highest tip so far
    quorum,                 \* outpoint -> smartnodes of rank <= TOTAL
    spork2, spork3, listSynced,
    now, restarts

instantsendVars == <<mapTxLockCandidates, mapVotedOutpoints,
    mapLockedOutpoints, mapLockRequestAccepted, mapLockRequestRejected,
    mapTxLockVotes, mapTxLockVotesOrphan>>
handlerVars == <<pc, msgTx, msgVotes, msgTime, copy, ownVotes>>
chainVars == <<minedAt, txIndex, checkedBlock, height, peak>>
nodeVars == <<quorum, spork2, spork3, listSynced, rpcTx>>
vars == <<instantsendVars, nCachedBlockHeight, handlerVars, mempool,
          chainVars, nodeVars, now, restarts>>

Pairs == Outpoints \X Smartnodes

\* CTxLockCandidate.  state: no map entry, an entry with an empty
\* txLockRequest, or one with the request.  locks is the domain of
\* mapOutPointLocks; votes and attacked hold the contents of its COutPointLocks.
Candidate == [state : {"none", "empty", "requested"}, locks : SUBSET Outpoints,
              votes : SUBSET Pairs, attacked : SUBSET Outpoints,
              conf : Int, created : Int]

NoCandidate == [state |-> "none", locks |-> {}, votes |-> {},
                attacked |-> {}, conf |-> NotInBlock, created |-> 0]

\* Entries of mapTxLockVotes; "blank" is one that operator[] default-constructed.
VoteEntry == [state : {"none", "blank", "vote"}, conf : Int, created : Int]
NoVote == [state |-> "none", conf |-> NotInBlock, created |-> 0]

-----------------------------------------------------------------------------
(* What the code asks of its data structures *)

VotersOf(c, o) == {m \in Smartnodes : <<o, m>> \in c.votes}

\* Mutants: one vote too few, and the double-vote flag forgotten.
IsReadyOneShort(c, o) == /\ o \notin c.attacked
                         /\ Cardinality(VotersOf(c, o)) + 1 >= SIGNATURES_REQUIRED
IsReadyAttacked(c, o) == Cardinality(VotersOf(c, o)) >= SIGNATURES_REQUIRED

\* COutPointLock::IsReady
IsReady(c, o) == /\ o \notin c.attacked
                 /\ Cardinality(VotersOf(c, o)) >= SIGNATURES_REQUIRED

IsAllOutPointsReady(c) == c.locks # {} /\ \A o \in c.locks : IsReady(c, o)

\* Mutant: expiry one block early.
IsExpiredEarly(x) == x.conf # NotInBlock /\ nCachedBlockHeight - x.conf >= KeepLock

\* CTxLockCandidate::IsExpired and CTxLockVote::IsExpired
IsExpired(x) == x.conf # NotInBlock /\ nCachedBlockHeight - x.conf > KeepLock

IsTimedOut(created) == now - created > LOCK_TIMEOUT

\* -enableinstantsend and the warnings of large forks are left out (see above).
IsLockedInstantSendTransaction(t, cand, locked) ==
    /\ spork3
    /\ cand[t].state # "none"
    /\ cand[t].locks # {}
    /\ \A o \in cand[t].locks : locked[o] = t

HasTxLockRequest(t) == mapTxLockCandidates[t].state # "none"

AlreadyHave(t) == t \in mapLockRequestAccepted \cup mapLockRequestRejected

\* Outpoints that no transaction of the chain spends.
Unspent(mined) ==
    {o \in Outpoints : \A t \in Txs : o \in Inputs[t] => mined[t] = NotInBlock}

\* CTxLockRequest::IsValid; value, fee and finality never change.
IsValidRequest(t) == Inputs[t] \subseteq Unspent(minedAt)

\* CTxLockVote::IsValid
IsValidVote(v) == /\ v.outpoint \in Unspent(minedAt)
                  /\ v.smartnode \in quorum[v.outpoint]

\* Mutant: GetLockedOutPointTxHash never finds an entry.
LockConflictsNone(t) == {}

\* The inputs of t that another transaction has locked.
LockConflicts(t) == {o \in Inputs[t] : mapLockedOutpoints[o] \notin {t, NoTx}}

Spenders(o) == {s \in mempool : o \in Inputs[s]}

MempoolConflicts(t) == {s \in mempool \ {t} : Inputs[s] \cap Inputs[t] # {}}

\* Mutant: cs_main is released before TryToFinalize.
csMainFreeEarly == pc # "ballot" /\ rpcTx = NoTx

\* The handler keeps cs_main from the acceptance of a request to its end, an RPC
\* thread until the memory pool has answered.
csMainFree == pc \notin {"ballot", "finalize"} /\ rpcTx = NoTx

-----------------------------------------------------------------------------
(* Helpers that write the maps of CInstantSend *)

\* Mutant: a height is only ever raised.
SetConfirmedHeightRaise(c, n) == IF n > c.conf THEN [c EXCEPT !.conf = n] ELSE c

\* SetConfirmedHeight of CTxLockCandidate and CTxLockVote
SetConfirmedHeight(c, n) == [c EXCEPT !.conf = n]

ExpiredCandidates(cand) == {t \in Txs : cand[t].state # "none" /\ IsExpired(cand[t])}

\* Mutant: the outpoints of a removed candidate are not freed.
FreedOutpointsNone(cand) == {}

\* The outpoints freed with the expired candidates, whoever holds them.
FreedOutpoints(cand) == UNION {cand[t].locks : t \in ExpiredCandidates(cand)}

(***************************************************************************)
(* The cleanup of CInstantSend::CheckAndRemove, starting from the given    *)
(* candidates, voted outpoints and orphan votes, followed by the rejection *)
(* of the given requests (ResolveConflicts calls it in the middle of       *)
(* another operation).  Removing a candidate frees its outpoints whoever   *)
(* holds them; GetHash of an empty candidate is not its key, so the        *)
(* request maps are only cleaned for candidates that have their request.   *)
(***************************************************************************)
RemoveExpired(cand, voted, orphans, reject) ==
    LET gone   == ExpiredCandidates(cand)
        named  == {t \in gone : cand[t].state = "requested"}
        freed  == FreedOutpoints(cand)
        cand2  == [t \in Txs |-> IF t \in gone THEN NoCandidate ELSE cand[t]]
        locked == [o \in Outpoints |->
                     IF o \in freed THEN NoTx ELSE mapLockedOutpoints[o]]
        \* a "blank" entry has a null hash, which is never locked
        failed(v) == LET e == mapTxLockVotes[v] IN
            /\ now - e.created > FAILED_TIMEOUT
            /\ \/ e.state = "blank"
               \/ ~IsLockedInstantSendTransaction(v.tx, cand2, locked)
        orphanTimedOut(v) == orphans[v] # -1 /\ IsTimedOut(orphans[v])
    IN  /\ mapTxLockCandidates' = cand2
        /\ mapLockedOutpoints' = locked
        /\ mapVotedOutpoints' = [o \in Outpoints |->
              IF o \in freed THEN {} ELSE voted[o]]
        /\ mapLockRequestAccepted' = mapLockRequestAccepted \ named
        /\ mapLockRequestRejected' = (mapLockRequestRejected \ named) \cup reject
        /\ mapTxLockVotes' = [v \in Votes |->
              IF IsExpired(mapTxLockVotes[v]) \/ orphanTimedOut(v) \/ failed(v)
              THEN NoVote ELSE mapTxLockVotes[v]]
        /\ mapTxLockVotesOrphan' = [v \in Votes |->
              IF orphanTimedOut(v) THEN -1 ELSE orphans[v]]

\* GetTransaction(..., hashBlock): the memory pool hides the block, and the
\* transaction index is not unwound when a block is disconnected.
FoundInBlock(t) == t \notin mempool /\ t \in txIndex

(***************************************************************************)
(* CInstantSend::ResolveConflicts: "ok", "fail", or "drop" with the        *)
(* transaction whose completed lock conflicts.  The loop over the inputs   *)
(* stops at the first conflict; inputs are not ordered here, so any input  *)
(* with a conflict may be the first.                                       *)
(***************************************************************************)
ResolveConflicts(t) ==
    LET inPool == {o \in Inputs[t] \ LockConflicts(t) : Spenders(o) \ {t} # {}}
    IN  IF LockConflicts(t) \cup inPool # {}
        THEN {<<"drop", mapLockedOutpoints[o]>> : o \in LockConflicts(t)}
               \cup {<<"fail", NoTx>> : o \in inPool}
        ELSE IF FoundInBlock(t) \/ Inputs[t] \subseteq Unspent(minedAt)
             THEN {<<"ok", NoTx>>}
             ELSE {<<"fail", NoTx>>}

\* LockTransactionInputs: map::insert leaves an existing entry alone.
LockTransactionInputs(t, c) ==
    mapLockedOutpoints' = [o \in Outpoints |->
        IF o \in c.locks /\ mapLockedOutpoints[o] = NoTx
        THEN t ELSE mapLockedOutpoints[o]]

(***************************************************************************)
(* ResolveConflicts on a completed lock h that conflicts with t: both      *)
(* candidates expire (height 0) and are cleaned up, both requests are      *)
(* remembered as rejected.  Nothing happens if a candidate is missing.     *)
(***************************************************************************)
DropBoth(t, h, cand, voted, orphans) ==
    LET expired == [s \in Txs |->
            IF s \in {t, h} THEN SetConfirmedHeight(cand[s], 0) ELSE cand[s]]
        missing == cand[t].state = "none" \/ cand[h].state = "none"
    IN  IF ~missing /\ listSynced
        THEN RemoveExpired(expired, voted, orphans, {t, h})
        ELSE /\ mapTxLockCandidates' = IF missing THEN cand ELSE expired
             /\ mapVotedOutpoints' = voted
             /\ mapTxLockVotesOrphan' = orphans
             /\ mapLockRequestRejected' =
                    mapLockRequestRejected \cup IF missing THEN {} ELSE {t, h}
             /\ UNCHANGED <<mapLockedOutpoints, mapLockRequestAccepted,
                            mapTxLockVotes>>

(***************************************************************************)
(* CInstantSend::TryToFinalizeLockCandidate(c) for the candidate or copy c *)
(* of t, once the maps have been brought to cand, voted and orphans.       *)
(***************************************************************************)
TryToFinalizeLockCandidate(t, c, cand, voted, orphans) ==
    IF /\ spork2
       /\ IsAllOutPointsReady(c)
       /\ ~IsLockedInstantSendTransaction(t, cand, mapLockedOutpoints)
    THEN \E r \in ResolveConflicts(t) :
           IF r[1] = "drop"
           THEN DropBoth(t, r[2], cand, voted, orphans)
           ELSE /\ mapTxLockCandidates' = cand
                /\ mapVotedOutpoints' = voted
                /\ mapTxLockVotesOrphan' = orphans
                /\ IF r[1] = "ok" THEN LockTransactionInputs(t, c)
                                  ELSE UNCHANGED mapLockedOutpoints
                /\ UNCHANGED <<mapLockRequestAccepted, mapLockRequestRejected,
                               mapTxLockVotes>>
    ELSE /\ mapTxLockCandidates' = cand
         /\ mapVotedOutpoints' = voted
         /\ mapTxLockVotesOrphan' = orphans
         /\ UNCHANGED <<mapLockedOutpoints, mapLockRequestAccepted,
                        mapLockRequestRejected, mapTxLockVotes>>

(***************************************************************************)
(* UpdateVotedOutpoints and AddVote for a set vs of votes whose candidates *)
(* have their request.  When the same smartnode has voted for two requests *)
(* on one outpoint, both are marked as attacked there.                     *)
(***************************************************************************)
\* Mutant: the vote's own hash is stored in place of its transaction's.
VotingsOwnHash(vs, voted) ==
    [o \in Outpoints |-> voted[o] \cup {w \in vs : w.outpoint = o}]

\* mapVotedOutpoints after UpdateVotedOutpoints for the votes vs
Votings(vs, voted) ==
    [o \in Outpoints |-> voted[o] \cup {v.tx : v \in {w \in vs : w.outpoint = o}}]

\* The candidates after UpdateVotedOutpoints and AddVote for the votes vs
AddVotes(vs, cand, voted) ==
    LET added(t) == {<<v.outpoint, v.smartnode>> :
                       v \in {w \in vs : w.tx = t /\ w.outpoint \in cand[t].locks}}
        all(t) == cand[t].votes \cup added(t)
        clash(v, t) == /\ t # v.tx
                       /\ t \in Votings(vs, voted)[v.outpoint]
                       /\ <<v.outpoint, v.smartnode>> \in all(t)
        attacked(t) == {o \in cand[t].locks : \E v \in vs :
                          /\ v.outpoint = o
                          /\ \/ clash(v, t)
                             \/ v.tx = t /\ \E s \in Txs : clash(v, s)}
    IN  [t \in Txs |-> [cand[t] EXCEPT !.votes = all(t),
                                       !.attacked = @ \cup attacked(t)]]

(***************************************************************************)
(* SyncTransaction for every transaction in the domain of h: h[t] is the   *)
(* height of its block, or NotInBlock.  The entry of an orphan vote is     *)
(* created by operator[] if it is missing.                                 *)
(***************************************************************************)
SyncTransaction(h) ==
    /\ mapTxLockCandidates' = [t \in Txs |->
          IF t \in DOMAIN h /\ mapTxLockCandidates[t].state # "none"
          THEN SetConfirmedHeight(mapTxLockCandidates[t], h[t])
          ELSE mapTxLockCandidates[t]]
    /\ mapTxLockVotes' = [v \in Votes |->
          LET e == mapTxLockVotes[v]
              counted == /\ <<v.outpoint, v.smartnode>> \in mapTxLockCandidates[v.tx].votes
                         /\ e.state # "none"
          IN  IF v.tx \notin DOMAIN h THEN e
              ELSE IF mapTxLockVotesOrphan[v] # -1 /\ e.state = "none"
              THEN [state |-> "blank", conf |-> h[v.tx], created |-> now]
              ELSE IF mapTxLockVotesOrphan[v] # -1 \/ counted
              THEN SetConfirmedHeight(e, h[v.tx])
              ELSE e]

\* Mutant: the memory pool does not look at the locked outpoints.
CanAcceptIgnoringLocks(t, us) ==
    /\ t \notin mempool
    /\ Inputs[t] \subseteq us
    /\ \/ MempoolConflicts(t) = {}
       \/ /\ ~HasTxLockRequest(t)
          /\ \A s \in MempoolConflicts(t) : ~HasTxLockRequest(s)

\* AcceptToMemoryPool up to its conflict checks, with the unspent outputs us.
\* A lock request neither replaces nor is replaced by another transaction.
CanAccept(t, us) ==
    /\ t \notin mempool
    /\ Inputs[t] \subseteq us
    /\ LockConflicts(t) = {}
    /\ \/ MempoolConflicts(t) = {}
       \/ /\ ~HasTxLockRequest(t)
          /\ \A s \in MempoolConflicts(t) : ~HasTxLockRequest(s)

\* The rest of an accepted AcceptToMemoryPool(t).
AddToMemoryPool(t) ==
    /\ mempool' = (mempool \ MempoolConflicts(t)) \cup {t}
    /\ SyncTransaction([s \in {t} |-> NotInBlock])

-----------------------------------------------------------------------------
(* The message handler, and the RPC and wallet threads *)

\* The candidates after CreateTxLockCandidate(t): a new one with its request,
\* or an empty one filled in (its outpoints only if it has not timed out).
CreateTxLockCandidate(t) ==
    LET c == mapTxLockCandidates[t]
        new == [NoCandidate EXCEPT !.state = "requested", !.locks = Inputs[t],
                                   !.created = now]
        filled == [c EXCEPT !.state = "requested",
                            !.locks = IF IsTimedOut(c.created) THEN @ ELSE Inputs[t]]
    IN  [mapTxLockCandidates EXCEPT ![t] = CASE c.state = "none" -> new
                                             [] c.state = "empty" -> filled
                                             [] OTHER -> c]

\* CreateTxLockCandidate(t) returns true.
CandidateUsable(t) ==
    \/ mapTxLockCandidates[t].state # "empty"
    \/ ~IsTimedOut(mapTxLockCandidates[t].created)

\* The orphan votes that ProcessOrphanTxLockVotes turns into votes.
Adopted(cand) == {v \in Votes : /\ mapTxLockVotesOrphan[v] # -1
                                /\ cand[v.tx].state = "requested"
                                /\ ~IsTimedOut(cand[v.tx].created)}

\* Those of them that AddVote takes, which leave the orphan map.
Taken(cand) == {v \in Adopted(cand) :
                  /\ v.outpoint \in cand[v.tx].locks
                  /\ <<v.outpoint, v.smartnode>> \notin cand[v.tx].votes}

\* The body of CInstantSend::ProcessTxLockRequest for a valid request.
ProcessTxLockRequest(t) ==
    LET cand  == CreateTxLockCandidate(t)
        cand2 == AddVotes(Adopted(cand), cand, mapVotedOutpoints)
    IN  IF CandidateUsable(t)
        THEN TryToFinalizeLockCandidate(t, cand2[t], cand2,
                Votings(Adopted(cand), mapVotedOutpoints),
                [v \in Votes |-> IF v \in Taken(cand) THEN -1
                                 ELSE mapTxLockVotesOrphan[v]])
        ELSE /\ mapTxLockCandidates' = cand
             /\ UNCHANGED <<mapVotedOutpoints, mapLockedOutpoints,
                    mapLockRequestAccepted, mapLockRequestRejected,
                    mapTxLockVotes, mapTxLockVotesOrphan>>

\* A txlreq message: the handler goes on to the memory pool if it succeeds.
ReceiveTxLockRequest(t) ==
    /\ pc = "idle" /\ csMainFree
    /\ IsValidRequest(t)
    /\ ProcessTxLockRequest(t)
    /\ IF CandidateUsable(t) THEN pc' = "accept" /\ msgTx' = t
                             ELSE UNCHANGED <<pc, msgTx>>
    /\ UNCHANGED <<nCachedBlockHeight, msgVotes, msgTime, copy, ownVotes, mempool,
                   chainVars, nodeVars, now, restarts>>

\* RelayWalletTransaction: the wallet relays a transaction of its own that is
\* in the memory pool.  No AcceptLockRequest and no Vote follow.
RelayWalletTransaction(t) ==
    /\ csMainFree
    /\ t \in mempool
    /\ IsValidRequest(t)
    /\ ProcessTxLockRequest(t)
    /\ UNCHANGED <<nCachedBlockHeight, handlerVars, mempool, chainVars,
                   nodeVars, now, restarts>>

\* sendrawtransaction with instantsend, before the memory pool: only
\* CheckAndRemove can come between.
SendRawTransaction(t) ==
    /\ csMainFree
    /\ t \notin mempool /\ minedAt[t] = NotInBlock
    /\ IsValidRequest(t)
    /\ ProcessTxLockRequest(t)
    /\ rpcTx' = IF CandidateUsable(t) THEN t ELSE NoTx
    /\ UNCHANGED <<nCachedBlockHeight, handlerVars, mempool, chainVars, quorum,
                   spork2, spork3, listSynced, now, restarts>>

\* ... and the memory pool's answer.
RawTransactionAccepted ==
    /\ rpcTx # NoTx /\ pc \notin {"ballot", "finalize"}
    /\ CanAccept(rpcTx, Unspent(minedAt))
    /\ AddToMemoryPool(rpcTx)
    /\ rpcTx' = NoTx
    /\ UNCHANGED <<mapVotedOutpoints, mapLockedOutpoints, mapLockRequestAccepted,
                   mapLockRequestRejected, mapTxLockVotesOrphan, nCachedBlockHeight,
                   handlerVars, chainVars, quorum, spork2, spork3, listSynced, now,
                   restarts>>

RawTransactionRefused ==
    /\ rpcTx # NoTx
    /\ rpcTx' = NoTx
    /\ UNCHANGED <<instantsendVars, nCachedBlockHeight, handlerVars, mempool, chainVars,
                   quorum, spork2, spork3, listSynced, now, restarts>>

\* Mutant: the request is not looked up among those already answered.
LockRequestAcceptedAgain ==
    /\ pc = "accept" /\ csMainFree
    /\ CanAccept(msgTx, Unspent(minedAt))
    /\ AddToMemoryPool(msgTx)
    /\ mapLockRequestAccepted' = mapLockRequestAccepted \cup {msgTx}
    /\ pc' = "ballot"
    /\ UNCHANGED <<mapVotedOutpoints, mapLockedOutpoints, mapLockRequestRejected,
                   mapTxLockVotesOrphan, nCachedBlockHeight, msgTx, msgVotes, msgTime,
                   copy, ownVotes, chainVars, nodeVars, now, restarts>>

\* The memory pool takes the transaction of the request; cs_main stays locked.
LockRequestAccepted ==
    /\ pc = "accept" /\ csMainFree
    /\ ~AlreadyHave(msgTx)
    /\ CanAccept(msgTx, Unspent(minedAt))
    /\ AddToMemoryPool(msgTx)
    /\ mapLockRequestAccepted' = mapLockRequestAccepted \cup {msgTx}
    /\ pc' = "ballot"
    /\ UNCHANGED <<mapVotedOutpoints, mapLockedOutpoints, mapLockRequestRejected,
                   mapTxLockVotesOrphan, nCachedBlockHeight, msgTx, msgVotes, msgTime,
                   copy, ownVotes, chainVars, nodeVars, now, restarts>>

\* AcceptToMemoryPool(t) ends at its missing inputs: the transaction waits as
\* an orphan and its request is not rejected.  A known request with spent inputs
\* is refused as invalid before that.
fMissingInputs(t) ==
    /\ ~HasTxLockRequest(t) /\ LockConflicts(t) = {} /\ MempoolConflicts(t) = {}
    /\ minedAt[t] = NotInBlock /\ ~(Inputs[t] \subseteq Unspent(minedAt))

\* The memory pool refuses it: for a conflict, for spent inputs, or by its fee
\* and size policy.
LockRequestRefused ==
    /\ pc = "accept" /\ csMainFree
    /\ mapLockRequestRejected' = mapLockRequestRejected \cup
           IF AlreadyHave(msgTx) \/ fMissingInputs(msgTx) THEN {} ELSE {msgTx}
    /\ pc' = "idle" /\ msgTx' = NoTx
    /\ UNCHANGED <<mapTxLockCandidates, mapVotedOutpoints, mapLockedOutpoints,
                   mapLockRequestAccepted, mapTxLockVotes, mapTxLockVotesOrphan,
                   nCachedBlockHeight, msgVotes, msgTime, copy, ownVotes, mempool,
                   chainVars, nodeVars, now, restarts>>

\* An earlier vote of this node on o, as far as the stored candidates tell.
AlreadyVoted(o) ==
    \E h \in mapVotedOutpoints[o] : <<o, Self>> \in mapTxLockCandidates[h].votes

\* CInstantSend::Vote: this node votes on a copy of the candidate.
Vote ==
    LET c == mapTxLockCandidates[msgTx]
        mine == {o \in c.locks : /\ spork2
                                 /\ msgTx \in mapLockRequestAccepted
                                 /\ o \in Unspent(minedAt)
                                 /\ Self \in quorum[o]
                                 /\ ~AlreadyVoted(o)}
        new == {o \in mine : <<o, Self>> \notin c.votes}
        signed(v) == v.tx = msgTx /\ v.outpoint \in mine /\ v.smartnode = Self
    IN  /\ pc = "ballot"
        /\ IF c.state = "none"
           THEN /\ pc' = "idle" /\ msgTx' = NoTx
                /\ UNCHANGED <<copy, ownVotes, mapTxLockVotes, mapVotedOutpoints>>
           ELSE /\ pc' = "finalize" /\ UNCHANGED msgTx
                /\ copy' = [c EXCEPT !.votes = @ \cup {<<o, Self>> : o \in new}]
                /\ ownVotes' = ownVotes \cup
                      {v \in Votes : signed(v) /\ v.outpoint \in new}
                /\ mapTxLockVotes' = [v \in Votes |->
                      IF signed(v) /\ mapTxLockVotes[v].state = "none"
                      THEN [state |-> "vote", conf |-> NotInBlock, created |-> now]
                      ELSE mapTxLockVotes[v]]
                /\ mapVotedOutpoints' = [o \in Outpoints |->
                      mapVotedOutpoints[o] \cup IF o \in new THEN {msgTx} ELSE {}]
        /\ UNCHANGED <<mapTxLockCandidates, mapLockedOutpoints,
                mapLockRequestAccepted, mapLockRequestRejected,
                mapTxLockVotesOrphan, nCachedBlockHeight, msgVotes, msgTime, mempool,
                chainVars, nodeVars, now, restarts>>

\* "Let's see if our vote changed smth": cs_instantsend was released meanwhile.
FinalizeCopy ==
    /\ pc = "finalize"
    /\ TryToFinalizeLockCandidate(msgTx, copy, mapTxLockCandidates,
                                  mapVotedOutpoints, mapTxLockVotesOrphan)
    /\ pc' = "idle" /\ msgTx' = NoTx /\ copy' = NoCandidate
    /\ UNCHANGED <<nCachedBlockHeight, msgVotes, msgTime, ownVotes, mempool,
                   chainVars, nodeVars, now, restarts>>

\* A txlvote message: the vote is recorded as seen before it is validated.
\* Peers also send back the votes of this node.
ReceiveTxLockVote(v) ==
    /\ pc = "idle"
    /\ spork2 /\ listSynced
    /\ mapTxLockVotes[v].state = "none"
    /\ mapTxLockVotes' = [mapTxLockVotes EXCEPT ![v] =
           [state |-> "vote", conf |-> NotInBlock, created |-> now]]
    /\ pc' = "vote" /\ msgVotes' = {v} /\ msgTime' = now
    /\ UNCHANGED <<mapTxLockCandidates, mapVotedOutpoints, mapLockedOutpoints,
                   mapLockRequestAccepted, mapLockRequestRejected,
                   mapTxLockVotesOrphan, nCachedBlockHeight, msgTx, copy,
                   ownVotes, mempool, chainVars, nodeVars, now, restarts>>

\* ProcessTxLockVote for a valid vote on a candidate without its request.
KeepOrphan(v) ==
    LET t == v.tx
    IN  /\ mapTxLockCandidates' = [mapTxLockCandidates EXCEPT ![t] =
               IF @.state = "none"
               THEN [NoCandidate EXCEPT !.state = "empty", !.created = now]
               ELSE @]
        /\ mapTxLockVotesOrphan' = [mapTxLockVotesOrphan EXCEPT ![v] =
               IF @ = -1 THEN msgTime ELSE @]
        /\ UNCHANGED <<mapVotedOutpoints, mapLockedOutpoints,
               mapLockRequestAccepted, mapLockRequestRejected, mapTxLockVotes>>

\* ProcessTxLockVote: the vote of the last message is counted, kept as an
\* orphan, or dropped.
ProcessTxLockVote(v) ==
    LET t == v.tx
        c == mapTxLockCandidates[t]
        cand == AddVotes({v}, mapTxLockCandidates, mapVotedOutpoints)
        voted == Votings({v}, mapVotedOutpoints)
        fresh == v.outpoint \in c.locks /\ <<v.outpoint, v.smartnode>> \notin c.votes
    IN  /\ pc = "vote" /\ csMainFree /\ v \in msgVotes
        /\ CASE ~IsValidVote(v) -> UNCHANGED instantsendVars
             [] IsValidVote(v) /\ c.state # "requested" -> KeepOrphan(v)
             [] IsValidVote(v) /\ c.state = "requested" /\ IsTimedOut(c.created)
                  -> UNCHANGED instantsendVars
             [] OTHER ->
                  IF fresh
                  THEN TryToFinalizeLockCandidate(t, cand[t], cand, voted,
                                                  mapTxLockVotesOrphan)
                  ELSE /\ mapTxLockCandidates' = cand
                       /\ mapVotedOutpoints' = voted
                       /\ UNCHANGED <<mapLockedOutpoints, mapLockRequestAccepted,
                              mapLockRequestRejected, mapTxLockVotes,
                              mapTxLockVotesOrphan>>
        /\ pc' = "idle" /\ msgVotes' = {} /\ msgTime' = 0
        /\ UNCHANGED <<nCachedBlockHeight, msgTx, copy, ownVotes, mempool,
                       chainVars, nodeVars, now, restarts>>

\* The cleanup of the smartnode thread.
CheckAndRemove ==
    /\ listSynced
    /\ RemoveExpired(mapTxLockCandidates, mapVotedOutpoints,
                     mapTxLockVotesOrphan, {})
    /\ UNCHANGED <<nCachedBlockHeight, handlerVars, mempool, chainVars,
                   nodeVars, now, restarts>>

-----------------------------------------------------------------------------
(* The rest of the node *)

\* A plain tx message or a wallet transaction enters the memory pool.
ReceiveTx(t) ==
    /\ csMainFree
    /\ CanAccept(t, Unspent(minedAt))
    /\ AddToMemoryPool(t)
    /\ UNCHANGED <<mapVotedOutpoints, mapLockedOutpoints, mapLockRequestAccepted,
                   mapLockRequestRejected, mapTxLockVotesOrphan,
                   nCachedBlockHeight, handlerVars, chainVars, nodeVars, now,
                   restarts>>

\* LimitMempoolSize: expiry by age, or the pool is full.
LimitMempoolSize(t) ==
    /\ csMainFree
    /\ t \in mempool
    /\ mempool' = mempool \ {t}
    /\ UNCHANGED <<instantsendVars, nCachedBlockHeight, handlerVars, chainVars,
                   nodeVars, now, restarts>>

\* The InstantSend part of CheckBlock.
BlockRespectsLocks(b) == spork3 => \A t \in b : LockConflicts(t) = {}

\* Transactions that fit into one block: ConnectBlock finds the inputs of each
\* unspent after those before it.
Blocks == {b \in SUBSET Txs :
             \A t, s \in b : t # s => Inputs[t] \cap Inputs[s] = {}}

\* ProcessNewBlock up to the release of cs_main: CheckBlock sets fChecked.
AcceptBlock(b) ==
    /\ csMainFree
    /\ checkedBlock = {}
    /\ height < MaxHeight
    /\ BlockRespectsLocks(b)
    /\ \A t \in b : Inputs[t] \subseteq Unspent(minedAt)
    /\ checkedBlock' = {b}
    /\ UNCHANGED <<instantsendVars, nCachedBlockHeight, handlerVars, mempool,
                   minedAt, txIndex, height, peak, nodeVars, now, restarts>>

(***************************************************************************)
(* ConnectTip for the transactions b: the block of AcceptBlock, which      *)
(* CheckBlock passes at once because fChecked is set, or a block read from *)
(* disk, which it checks.  Conflicting transactions leave the memory pool; *)
(* SyncTransaction reports them, then the transactions of the block.       *)
(***************************************************************************)
ConnectTip(b) ==
    LET conflicted == UNION {MempoolConflicts(t) : t \in b}
    IN  /\ csMainFree
        /\ height < MaxHeight
        /\ b \in checkedBlock \/ (checkedBlock = {} /\ BlockRespectsLocks(b))
        /\ \A t \in b : Inputs[t] \subseteq Unspent(minedAt)
        /\ mempool' = mempool \ (b \cup conflicted)
        /\ SyncTransaction([t \in b \cup conflicted |->
               IF t \in b THEN height + 1 ELSE NotInBlock])
        /\ minedAt' = [t \in Txs |-> IF t \in b THEN height + 1 ELSE minedAt[t]]
        /\ txIndex' = txIndex \cup b
        /\ checkedBlock' = {}
        /\ height' = height + 1
        /\ peak' = IF height + 1 > peak THEN height + 1 ELSE peak
        /\ UNCHANGED <<mapVotedOutpoints, mapLockedOutpoints,
               mapLockRequestAccepted, mapLockRequestRejected,
               mapTxLockVotesOrphan, nCachedBlockHeight, handlerVars, nodeVars,
               now, restarts>>

\* DisconnectTip: transactions of the block return to the memory pool if it
\* accepts them, and SyncTransaction reports all of them as unconfirmed.
DisconnectTip ==
    LET block == {t \in Txs : minedAt[t] = height}
        mined == [t \in Txs |-> IF t \in block THEN NotInBlock ELSE minedAt[t]]
    IN  /\ csMainFree
        /\ checkedBlock = {}
        /\ height > StartHeight /\ peak - height < MaxReorg
        /\ height' = height - 1
        /\ minedAt' = mined
        /\ mempool' = mempool \cup {t \in block : CanAccept(t, Unspent(mined))}
        /\ SyncTransaction([t \in block |-> NotInBlock])
        /\ UNCHANGED <<mapVotedOutpoints, mapLockedOutpoints,
               mapLockRequestAccepted, mapLockRequestRejected,
               mapTxLockVotesOrphan, nCachedBlockHeight, handlerVars, txIndex,
               checkedBlock, peak, nodeVars, now, restarts>>

\* The tip notification of ActivateBestChain, after cs_main was released.
UpdatedBlockTip ==
    /\ nCachedBlockHeight # height
    /\ nCachedBlockHeight' = height
    /\ UNCHANGED <<instantsendVars, handlerVars, mempool, chainVars, nodeVars,
                   now, restarts>>

Tick ==
    /\ now < MaxTime
    /\ now' = now + 1
    /\ UNCHANGED <<instantsendVars, nCachedBlockHeight, handlerVars, mempool,
                   chainVars, nodeVars, restarts>>

\* The smartnode list changes, and with it the ranks.
RanksChange ==
    /\ quorum' \in Quorums \ {quorum}
    /\ UNCHANGED <<instantsendVars, nCachedBlockHeight, handlerVars, mempool,
                   chainVars, spork2, spork3, listSynced, rpcTx, now, restarts>>

\* A spork message, or the smartnode list loses or regains its sync.
SporkOrSyncChange ==
    /\ SporksMove
    /\ spork2' \in BOOLEAN /\ spork3' \in BOOLEAN /\ listSynced' \in BOOLEAN
    /\ UNCHANGED <<instantsendVars, nCachedBlockHeight, handlerVars, mempool,
                   chainVars, quorum, rpcTx, now, restarts>>

\* Neither the memory pool nor CInstantSend is saved at shutdown.
Restart ==
    /\ restarts < MaxRestarts
    /\ restarts' = restarts + 1
    /\ mapTxLockCandidates' = [t \in Txs |-> NoCandidate]
    /\ mapVotedOutpoints' = [o \in Outpoints |-> {}]
    /\ mapLockedOutpoints' = [o \in Outpoints |-> NoTx]
    /\ mapLockRequestAccepted' = {} /\ mapLockRequestRejected' = {}
    /\ mapTxLockVotes' = [v \in Votes |-> NoVote]
    /\ mapTxLockVotesOrphan' = [v \in Votes |-> -1]
    /\ nCachedBlockHeight' = height
    /\ pc' = "idle" /\ msgTx' = NoTx /\ msgVotes' = {} /\ msgTime' = 0
    /\ copy' = NoCandidate /\ rpcTx' = NoTx
    /\ mempool' = {} /\ checkedBlock' = {}
    /\ UNCHANGED <<ownVotes, minedAt, txIndex, height, peak, quorum, spork2, spork3,
                   listSynced, now>>

Init ==
    /\ mapTxLockCandidates = [t \in Txs |-> NoCandidate]
    /\ mapVotedOutpoints = [o \in Outpoints |-> {}]
    /\ mapLockedOutpoints = [o \in Outpoints |-> NoTx]
    /\ mapLockRequestAccepted = {} /\ mapLockRequestRejected = {}
    /\ mapTxLockVotes = [v \in Votes |-> NoVote]
    /\ mapTxLockVotesOrphan = [v \in Votes |-> -1]
    /\ nCachedBlockHeight = StartHeight
    /\ pc = "idle" /\ msgTx = NoTx /\ msgVotes = {} /\ msgTime = 0
    /\ copy = NoCandidate /\ ownVotes = {} /\ rpcTx = NoTx
    /\ mempool = {} /\ checkedBlock = {} /\ txIndex = {}
    /\ minedAt = [t \in Txs |-> NotInBlock]
    /\ height = StartHeight /\ peak = StartHeight
    /\ quorum \in Quorums
    /\ spork2 = TRUE /\ spork3 = TRUE /\ listSynced = TRUE
    /\ now = 0 /\ restarts = 0

Next ==
    \/ \E t \in LockRequests :
          ReceiveTxLockRequest(t) \/ RelayWalletTransaction(t) \/ SendRawTransaction(t)
    \/ RawTransactionAccepted \/ RawTransactionRefused
    \/ LockRequestAccepted \/ LockRequestRefused \/ Vote \/ FinalizeCopy
    \/ \E v \in PeerVotes \cup ownVotes : ReceiveTxLockVote(v)
    \/ \E v \in Votes : ProcessTxLockVote(v)
    \/ CheckAndRemove
    \/ \E t \in Txs : ReceiveTx(t) \/ LimitMempoolSize(t)
    \/ \E b \in Blocks : AcceptBlock(b) \/ ConnectTip(b)
    \/ DisconnectTip \/ UpdatedBlockTip
    \/ Tick \/ RanksChange \/ SporkOrSyncChange \/ Restart

Spec == Init /\ [][Next]_vars

-----------------------------------------------------------------------------
(* Properties *)

\* The only typing invariant: every map of CInstantSend, the handler's locals
\* and the node's chain and memory pool hold values of the declared kind.
TypeOK ==
    /\ mapTxLockCandidates \in [Txs -> Candidate]
    /\ mapVotedOutpoints \in [Outpoints -> SUBSET Txs]
    /\ mapLockedOutpoints \in [Outpoints -> Txs \cup {NoTx}]
    /\ mapLockRequestAccepted \subseteq Txs
    /\ mapLockRequestRejected \subseteq Txs
    /\ mapTxLockVotes \in [Votes -> VoteEntry]
    /\ mapTxLockVotesOrphan \in [Votes -> Int]
    /\ nCachedBlockHeight \in Int
    /\ pc \in {"idle", "vote", "accept", "ballot", "finalize"}
    /\ msgTx \in Txs \cup {NoTx}
    /\ msgVotes \subseteq Votes
    /\ msgTime \in Int
    /\ copy \in Candidate
    /\ ownVotes \subseteq Votes
    /\ rpcTx \in Txs \cup {NoTx}
    /\ mempool \subseteq Txs
    /\ minedAt \in [Txs -> Int]
    /\ txIndex \subseteq Txs
    /\ checkedBlock \subseteq Blocks
    /\ height \in Int /\ peak \in Int
    /\ quorum \in Quorums
    /\ spork2 \in BOOLEAN /\ spork3 \in BOOLEAN /\ listSynced \in BOOLEAN
    /\ now \in Int /\ restarts \in Int

\* Vote() dereferences mapTxLockCandidates.find(hash) for every hash of
\* mapVotedOutpoints without comparing it with end() (instantx.cpp:254-255).
\* That is sound only if the cleanup, which clears mapVotedOutpoints outpoint by
\* outpoint, and the removal of conflicting candidates never separate the two maps.
VotedOutpointsHaveCandidates ==
    \A o \in Outpoints : \A t \in mapVotedOutpoints[o] :
        /\ mapTxLockCandidates[t].state = "requested"
        /\ o \in mapTxLockCandidates[t].locks

\* A lock always belongs to a live candidate that lists the outpoint: only the
\* removal of that candidate frees an outpoint, so a lock without one would
\* freeze the coin until the node restarts.  FinalizeCopy locks outpoints from
\* a copy made before cs_instantsend was released, which is where it could go
\* wrong.
LocksHaveCandidates ==
    \A o \in Outpoints : LET t == mapLockedOutpoints[o] IN
        t # NoTx => /\ mapTxLockCandidates[t].state = "requested"
                    /\ o \in mapTxLockCandidates[t].locks

\* Every locked outpoint has SIGNATURES_REQUIRED distinct voters for its
\* transaction; this node's own vote counts although only the copy held it.
LocksBackedByVotes ==
    \A o \in Outpoints : LET t == mapLockedOutpoints[o] IN
        t # NoTx => Cardinality(VotersOf(mapTxLockCandidates[t], o) \cup
              {v.smartnode : v \in {w \in ownVotes : w.tx = t /\ w.outpoint = o}})
            >= SIGNATURES_REQUIRED

\* No transaction of the memory pool spends an outpoint that another
\* transaction has locked (AcceptToMemoryPool and ResolveConflicts each check
\* one direction).
MempoolRespectsLocks ==
    \A t \in mempool : \A o \in Inputs[t] : mapLockedOutpoints[o] \in {t, NoTx}

\* The inputs of a transaction are locked together or not at all, although
\* LockTransactionInputs inserts them one by one and map::insert skips those
\* that are taken.  Two exceptions, both because a candidate that is removed
\* frees its outpoints whoever holds them: a conflicting transaction that got
\* into a block and expired, and one that ResolveConflicts cancelled for its
\* conflict with a third transaction.
Conflict(s, t) == s # t /\ Inputs[s] \cap Inputs[t] # {}

RivalRemoved(t) ==
    \E s \in Txs : /\ Conflict(s, t)
                   /\ \/ s \in txIndex
                      \/ /\ s \in mapLockRequestRejected
                         /\ \E h \in (mapLockRequestRejected \cup txIndex) \ {t} :
                               Conflict(h, s)

InputsLockedTogether ==
    \A t \in Txs : \A o, p \in mapTxLockCandidates[t].locks :
        mapLockedOutpoints[o] = t /\ mapLockedOutpoints[p] # t => RivalRemoved(t)

\* An accepted request still has its candidate, across every interleaving of
\* the cleanup with the handler; otherwise AlreadyHave would hide the request
\* for good.  It is claimed for sporks that stay as they are: a spork 2 that is
\* turned off inside the handler lets in a request whose candidate was dropped.
AcceptedHaveCandidates ==
    \A t \in mapLockRequestAccepted : mapTxLockCandidates[t].state = "requested"

\* While a smartnode's Vote() waits for cs_instantsend again, its copy differs
\* from the stored candidate in this node's own votes only.
CopyIsCurrent ==
    pc = "finalize" =>
        LET c == mapTxLockCandidates[msgTx] IN
        /\ c = [copy EXCEPT !.votes = c.votes]
        /\ c.votes \subseteq copy.votes
        /\ copy.votes \ c.votes \subseteq Outpoints \X {Self}

\* A candidate's confirmed height is the height of its transaction's block
\* or "unconfirmed", however blocks are connected and disconnected; a stale
\* height would expire the lock of an unconfirmed transaction.
ConfirmedHeightTracksChain ==
    \A t \in Txs : mapTxLockCandidates[t].conf \in {NotInBlock, minedAt[t]}

\* Two transactions never both collect a ready lock on the same outpoint
\* while the ranks stand still: a double voter's outpoint is marked as
\* attacked in both candidates (UpdateVotedOutpoints).  It needs
\* reorganisations shallower than KeepLock: when a candidate is removed,
\* mapVotedOutpoints forgets the votes for all others on its outpoints.
NoRivalReadyLocks ==
    \A o \in Outpoints : \A t, s \in Txs :
        t # s => ~ /\ o \in mapTxLockCandidates[t].locks \cap mapTxLockCandidates[s].locks
                   /\ IsReady(mapTxLockCandidates[t], o)
                   /\ IsReady(mapTxLockCandidates[s], o)

\* What a step may never do: a lock is released only by a restart, or once a
\* transaction that spends the outpoint has been more than KeepLock blocks deep,
\* although the expiry compares a cached height that lags behind the chain with
\* a confirmed height that reorganisations rewrite.
LocksReleasedOnlyWhenBuried ==
    [][\A o \in Outpoints :
         mapLockedOutpoints[o] # NoTx /\ mapLockedOutpoints'[o] # mapLockedOutpoints[o] =>
           \/ restarts' # restarts
           \/ \E t \in Txs : /\ o \in Inputs[t]
                             /\ minedAt[t] # NotInBlock
                             /\ peak - minedAt[t] > KeepLock]_vars

\* What a step may never do, whatever the ranks: a lock is released only by a
\* restart, once a transaction that spends the outpoint is buried, or when
\* ResolveConflicts cancels two conflicting requests, one of which spends it,
\* and remembers both as rejected.
LocksReleasedForCause ==
    [][\A o \in Outpoints :
         mapLockedOutpoints[o] # NoTx /\ mapLockedOutpoints'[o] # mapLockedOutpoints[o] =>
           \/ restarts' # restarts
           \/ \E t \in Txs : /\ o \in Inputs[t]
                             /\ minedAt[t] # NotInBlock
                             /\ peak - minedAt[t] > KeepLock
           \/ \E t, h \in mapLockRequestRejected' :
                 Conflict(t, h) /\ o \in Inputs[t]]_vars

\* instantx.cpp:249-250: "Check to see if we already voted for this outpoint,
\* refuse to vote twice or to include the same outpoint in another tx".
OwnVotesNeverConflict ==
    \A v, w \in ownVotes : v.outpoint = w.outpoint => v.tx = w.tx

\* validation.cpp:3667: "We should never accept block which conflicts with
\* completed transaction lock".
ChainRespectsLocks ==
    \A t \in Txs : minedAt[t] # NotInBlock => LockConflicts(t) = {}
=============================================================================
