----------------------- MODULE InstantSendRivalsProofs -----------------------
(***************************************************************************)
(* Proofs that two conflicting transactions never both get their locks,    *)
(* and that nothing but a buried transaction releases a lock, while the    *)
(* ranks of the smartnodes stand still.                                    *)
(***************************************************************************)
EXTENDS InstantSendLocksProofs

-----------------------------------------------------------------------------
(* The invariant *)

\* This node is never among the voters: it is no smartnode (fSmartNode is off),
\* or its rank is too low.
Observer == \A q \in Quorums : \A o \in Outpoints : Self \notin q[o]

\* A node that votes runs without interruption: a restart forgets its votes, and
\* peers still send them back.
Continuous == Observer \/ MaxRestarts = 0

\* Nobody else signs with the key of this node.
OwnKey == \A v \in PeerVotes : v.smartnode # Self

\* INSTANTSEND_LOCK_TIMEOUT_SECONDS is 15, INSTANTSEND_FAILED_TIMEOUT_SECONDS 60.
TimeoutsOrdered == LOCK_TIMEOUT <= FAILED_TIMEOUT

\* The smartnode list, and with it every rank, stands still.
FixedRanks == \A q, r \in Quorums : q = r

\* COutPointLock: SIGNATURES_REQUIRED is 6 and SIGNATURES_TOTAL is 10.
Majority == 2 * SIGNATURES_REQUIRED > SIGNATURES_TOTAL

Premises == /\ Steady /\ Shallow /\ FixedRanks /\ Majority
            /\ Continuous /\ OwnKey /\ TimeoutsOrdered

\* A transaction that spends o is so deep that CheckAndRemove forgets about o.
SpentDeep(o) == \E t \in Txs : o \in Inputs[t] /\ Buried(t)

\* A candidate has all of its outpoints or none; it has votes of the quorum only,
\* and only for its outpoints.
WholeOK(cand) ==
    \A t \in Txs :
        /\ cand[t].locks \in {{}, Inputs[t]}
        /\ \A o \in Outpoints, m \in Smartnodes :
              <<o, m>> \in cand[t].votes => o \in cand[t].locks /\ m \in quorum[o]

\* Every vote is on record in mapVotedOutpoints, unless the outpoint is spent for
\* good: the removal of one candidate erases the record for all others.
RecordedOK(cand, voted) ==
    \A t \in Txs : \A o \in Outpoints, m \in Smartnodes :
        <<o, m>> \in cand[t].votes => t \in voted[o] \/ SpentDeep(o)

\* Whoever voted for two transactions on one outpoint was noticed.
DoubleOK(cand) ==
    \A t, s \in Txs : \A o \in Outpoints, m \in Smartnodes :
        t # s /\ <<o, m>> \in cand[t].votes /\ <<o, m>> \in cand[s].votes
            => o \in cand[t].attacked

RivalsOK(cand, voted) == WholeOK(cand) /\ RecordedOK(cand, voted) /\ DoubleOK(cand)

\* An orphan vote was valid, and has been counted if the request is there:
\* ProcessOrphanTxLockVotes, which validates nothing, adds only votes for the
\* request that it is called with.
OrphansOK(cand, orphans) ==
    \A v \in Votes : orphans[v] # -1 =>
        /\ v.smartnode \in quorum[v.outpoint]
        /\ cand[v.tx].state = "requested" /\ ~IsTimedOut(cand[v.tx].created)
              => <<v.outpoint, v.smartnode>> \in cand[v.tx].votes

\* The entry of an own vote, which hides the echoes of the vote from the handler,
\* until it is removed with failed votes, and then the candidate has timed out.
Hidden(v, cand, entries, msgs) ==
    /\ v \notin msgs
    /\ entries[v].state = "vote" /\ entries[v].conf = NotInBlock
    /\ cand[v.tx].created <= entries[v].created

\* Own votes are never counted in a stored candidate: Vote() adds them to its copy.
OwnOK(cand, entries, orphans, msgs) ==
    /\ \A t \in Txs : /\ cand[t].created <= now
                      /\ \A o \in Outpoints : <<o, Self>> \notin cand[t].votes
    /\ \A v \in Votes : v.smartnode = Self =>
          /\ orphans[v] = -1
          /\ v \notin ownVotes => entries[v].state = "none" /\ v \notin msgs
    /\ \A v \in ownVotes :
          /\ v.smartnode = Self /\ Self \in quorum[v.outpoint]
          /\ \/ SpentDeep(v.outpoint)
             \/ /\ cand[v.tx].state = "requested"
                /\ IsTimedOut(cand[v.tx].created) \/ Hidden(v, cand, entries, msgs)

\* cs_main keeps others from locking the inputs of a transaction that the memory
\* pool has just taken.
HeldOK == pc \in {"ballot", "finalize"} => LockConflicts(msgTx) = {}

RInv == /\ RivalsOK(mapTxLockCandidates, mapVotedOutpoints)
        /\ OrphansOK(mapTxLockCandidates, mapTxLockVotesOrphan)
        /\ OwnOK(mapTxLockCandidates, mapTxLockVotes, mapTxLockVotesOrphan, msgVotes)
        /\ HeldOK
        /\ 0 <= now /\ 0 <= restarts

-----------------------------------------------------------------------------
(* Two majorities of the quorum have a voter in common *)

LEMMA CommonVoter ==
    ASSUME Majority, NEW C \in SUBSET Smartnodes, Cardinality(C) <= SIGNATURES_TOTAL,
           NEW A \in SUBSET C, NEW B \in SUBSET C,
           Cardinality(A) >= SIGNATURES_REQUIRED, Cardinality(B) >= SIGNATURES_REQUIRED
    PROVE  \E m \in Smartnodes : m \in A /\ m \in B
<1>1. /\ IsFiniteSet(Smartnodes)
      /\ SIGNATURES_REQUIRED \in Nat /\ SIGNATURES_TOTAL \in Nat
  BY InstantSendAssumption
<1>2. IsFiniteSet(C)
  BY <1>1, FS_Subset
<1>3. IsFiniteSet(A) /\ IsFiniteSet(B)
  BY <1>2, FS_Subset
<1>4. /\ Cardinality(A) \in Nat /\ Cardinality(B) \in Nat /\ Cardinality(C) \in Nat
  BY <1>2, <1>3, FS_CardinalityType
<1> SUFFICES ASSUME A \cap B = {} PROVE FALSE
  OBVIOUS
<1>5. Cardinality(A \cup B) = Cardinality(A) + Cardinality(B) - Cardinality(A \cap B)
  BY <1>3, FS_Union
<1>6. Cardinality(A \cap B) = 0
  BY FS_EmptySet
<1>7. Cardinality(A \cup B) <= Cardinality(C)
  BY <1>2, FS_Subset
<1> QED BY <1>1, <1>4, <1>5, <1>6, <1>7 DEF Majority

\* A candidate that is ready on o has no rival with as many votes for it.
LEMMA OneMajority ==
    ASSUME Majority, TypeOK, NEW cand \in [Txs -> Candidate], WholeOK(cand), DoubleOK(cand),
           NEW t \in Txs, NEW s \in Txs, t # s, NEW o \in Outpoints,
           IsReady(cand[t], o),
           Cardinality(VotersOf(cand[s], o)) >= SIGNATURES_REQUIRED
    PROVE  FALSE
<1>1. /\ quorum[o] \in SUBSET Smartnodes
      /\ Cardinality(quorum[o]) <= SIGNATURES_TOTAL
  BY InstantSendAssumption DEF TypeOK
<1>2. VotersOf(cand[t], o) \in SUBSET quorum[o] /\ VotersOf(cand[s], o) \in SUBSET quorum[o]
  BY DEF WholeOK, VotersOf
<1>3. Cardinality(VotersOf(cand[t], o)) >= SIGNATURES_REQUIRED /\ o \notin cand[t].attacked
  BY DEF IsReady
<1>4. PICK m \in Smartnodes : m \in VotersOf(cand[t], o) /\ m \in VotersOf(cand[s], o)
  BY <1>1, <1>2, <1>3, CommonVoter
<1> QED BY <1>3, <1>4 DEF DoubleOK, VotersOf

\* So ResolveConflicts on a stored candidate never finds another transaction's lock,
\* which may rest on a vote of this node that only the copy held.
LEMMA NoLockConflict ==
    ASSUME Majority, TypeOK, NEW cand \in [Txs -> Candidate], WholeOK(cand), DoubleOK(cand),
           BackedOK(cand, mapLockedOutpoints, ownVotes),
           \A v \in ownVotes : v.smartnode = Self /\ Self \in quorum[v.outpoint],
           NEW t \in Txs, \A o \in Outpoints : <<o, Self>> \notin cand[t].votes,
           IsAllOutPointsReady(cand[t])
    PROVE  LockConflicts(t) = {}
<1> SUFFICES ASSUME NEW o \in LockConflicts(t) PROVE FALSE
  OBVIOUS
<1> DEFINE h == mapLockedOutpoints[o]
           A == VotersOf(cand[t], o)
           B == VotersOf(cand[h], o) \cup OwnVoter(ownVotes, h, o)
<1>1. /\ o \in Inputs[t] /\ o \in Outpoints
      /\ h \in Txs /\ h # t /\ h # NoTx
  BY InstantSendAssumption DEF LockConflicts, TypeOK
<1>2. IsReady(cand[t], o)
  BY <1>1 DEF IsAllOutPointsReady, WholeOK
<1>3. Cardinality(A) >= SIGNATURES_REQUIRED /\ o \notin cand[t].attacked
  BY <1>2 DEF IsReady
<1>4. Cardinality(B) >= SIGNATURES_REQUIRED
  BY <1>1 DEF BackedOK
<1>5. /\ quorum[o] \in SUBSET Smartnodes
      /\ Cardinality(quorum[o]) <= SIGNATURES_TOTAL
  BY <1>1, InstantSendAssumption DEF TypeOK
<1>6. A \in SUBSET quorum[o]
  BY <1>1 DEF WholeOK, VotersOf
<1>7. OwnVoter(ownVotes, h, o) \subseteq {Self} \cap quorum[o]
  BY DEF OwnVoter
<1>8. B \in SUBSET quorum[o]
  BY <1>1, <1>7 DEF WholeOK, VotersOf
<1> HIDE DEF A, B
<1>9. PICK m \in Smartnodes : m \in A /\ m \in B
  BY <1>3, <1>4, <1>5, <1>6, <1>8, CommonVoter
<1>10. m # Self
  BY <1>1, <1>9 DEF A, VotersOf
<1>11. <<o, m>> \in cand[t].votes /\ <<o, m>> \in cand[h].votes
  BY <1>7, <1>9, <1>10 DEF A, B, VotersOf
<1> QED BY <1>1, <1>3, <1>11 DEF DoubleOK

-----------------------------------------------------------------------------
(* The operators that lock and remove *)

\* TryToFinalizeLockCandidate then cancels nothing.
LEMMA FinalizeRivals ==
    ASSUME NEW t, NEW c, NEW cand, NEW voted, NEW orphans,
           IsAllOutPointsReady(c) => LockConflicts(t) = {},
           TryToFinalizeLockCandidate(t, c, cand, voted, orphans)
    PROVE  /\ mapTxLockCandidates' = cand
           /\ mapVotedOutpoints' = voted
           /\ mapTxLockVotesOrphan' = orphans
           /\ UNCHANGED mapTxLockVotes
           /\ \A o \in Outpoints : mapLockedOutpoints[o] # NoTx =>
                 mapLockedOutpoints'[o] = mapLockedOutpoints[o]
<1>1. CASE IsAllOutPointsReady(c)
  <2>1. \A r \in ResolveConflicts(t) : r[1] # "drop"
    BY <1>1 DEF ResolveConflicts
  <2> QED BY <2>1 DEF TryToFinalizeLockCandidate, LockTransactionInputs
<1>2. CASE ~IsAllOutPointsReady(c)
  BY <1>2 DEF TryToFinalizeLockCandidate
<1> QED BY <1>1, <1>2

\* What an operation does to the maps.  Chain, ranks and clock stay.
RivalOutcome ==
    /\ RivalsOK(mapTxLockCandidates', mapVotedOutpoints')
    /\ OrphansOK(mapTxLockCandidates', mapTxLockVotesOrphan')
    /\ OwnOK(mapTxLockCandidates', mapTxLockVotes', mapTxLockVotesOrphan', msgVotes)
    /\ \A o \in Outpoints :
          mapLockedOutpoints[o] # NoTx /\ mapLockedOutpoints'[o] # mapLockedOutpoints[o]
             => SpentDeep(o)

\* The cleanup removes buried transactions only, so what it forgets does not matter.
LEMMA CleanupRivals ==
    ASSUME IInv, SInv, RInv, TimeoutsOrdered,
           RemoveExpired(mapTxLockCandidates, mapVotedOutpoints, mapTxLockVotesOrphan, {})
    PROVE  /\ RivalOutcome
           /\ \A o \in Outpoints : mapLockedOutpoints'[o] \in {NoTx, mapLockedOutpoints[o]}
<1> DEFINE cand  == mapTxLockCandidates
           gone  == ExpiredCandidates(cand)
           freed == FreedOutpoints(cand)
<1>1. /\ nCachedBlockHeight \in Int /\ peak \in Int /\ minedAt \in [Txs -> Int]
      /\ KeepLock \in Nat
      /\ mapVotedOutpoints \in [Outpoints -> SUBSET Txs]
      /\ CandidatesOK(cand, now)
  BY InstantSendAssumption DEF IInv, TypeOK, MapsOK
<1>2. /\ mapTxLockCandidates' = [t \in Txs |-> IF t \in gone THEN NoCandidate ELSE cand[t]]
      /\ mapLockedOutpoints' = [o \in Outpoints |->
             IF o \in freed THEN NoTx ELSE mapLockedOutpoints[o]]
      /\ mapVotedOutpoints' = [o \in Outpoints |->
             IF o \in freed THEN {} ELSE mapVotedOutpoints[o]]
      /\ \A v \in Votes : mapTxLockVotesOrphan'[v] \in {-1, mapTxLockVotesOrphan[v]}
      /\ \A v \in Votes :
            \/ mapTxLockVotes'[v] = mapTxLockVotes[v]
            \/ /\ mapTxLockVotes'[v] = NoVote
               /\ \/ mapTxLockVotes[v].conf # NotInBlock
                  \/ mapTxLockVotesOrphan[v] # -1
                  \/ now - mapTxLockVotes[v].created > FAILED_TIMEOUT
  BY DEF RemoveExpired, IsExpired
<1>3. ASSUME NEW t \in gone PROVE t \in Txs /\ Buried(t)
  <2>1. t \in Txs /\ cand[t].conf # NotInBlock /\ nCachedBlockHeight - cand[t].conf > KeepLock
    BY DEF ExpiredCandidates, IsExpired
  <2>2. cand[t].conf = minedAt[t] /\ minedAt[t] # NotInBlock /\ minedAt[t] \in Int
    BY <1>1, <2>1 DEF SInv, HeightsOK, HeightOK
  <2> QED BY <1>1, <2>1, <2>2 DEF SInv, NodeOK, Buried
<1>4. \A o \in freed : SpentDeep(o)
  BY <1>1, <1>3 DEF FreedOutpoints, CandidatesOK, SpentDeep
<1>5. /\ NoCandidate.votes = {} /\ NoCandidate.locks = {}
      /\ NoCandidate.state = "none" /\ NoCandidate.created = 0 /\ NoVote.state = "none"
  BY DEF NoCandidate, NoVote
<1> HIDE DEF gone, freed
<1>6. WholeOK(mapTxLockCandidates')
  BY <1>2, <1>5 DEF RInv, RivalsOK, WholeOK
<1>7. RecordedOK(mapTxLockCandidates', mapVotedOutpoints')
  BY <1>2, <1>4, <1>5 DEF RInv, RivalsOK, RecordedOK
<1>8. DoubleOK(mapTxLockCandidates')
  BY <1>2, <1>5 DEF RInv, RivalsOK, DoubleOK
<1>9. OrphansOK(mapTxLockCandidates', mapTxLockVotesOrphan')
  <2>1. \A v \in Votes : v.tx \in Txs
    BY DEF Votes
  <2> QED BY <1>2, <1>5, <2>1 DEF RInv, OrphansOK
<1>10. \A o \in Outpoints : mapLockedOutpoints'[o] # mapLockedOutpoints[o] => SpentDeep(o)
  BY <1>2, <1>4
<1>11. OwnOK(mapTxLockCandidates', mapTxLockVotes', mapTxLockVotesOrphan', msgVotes)
  <2>1. /\ \A t \in Txs : /\ cand[t].created <= now
                          /\ \A o \in Outpoints : <<o, Self>> \notin cand[t].votes
        /\ \A v \in Votes : v.smartnode = Self =>
              /\ mapTxLockVotesOrphan[v] = -1
              /\ v \notin ownVotes => mapTxLockVotes[v].state = "none" /\ v \notin msgVotes
        /\ \A v \in ownVotes :
              /\ v.smartnode = Self /\ Self \in quorum[v.outpoint]
              /\ \/ SpentDeep(v.outpoint)
                 \/ /\ cand[v.tx].state = "requested"
                    /\ \/ IsTimedOut(cand[v.tx].created)
                       \/ Hidden(v, cand, mapTxLockVotes, msgVotes)
        /\ 0 <= now
    BY DEF RInv, OwnOK
  <2>2. \A t \in Txs : /\ mapTxLockCandidates'[t].created <= now
                       /\ \A o \in Outpoints : <<o, Self>> \notin mapTxLockCandidates'[t].votes
    BY <1>2, <1>5, <2>1
  <2>3. \A v \in Votes : v.smartnode = Self =>
              /\ mapTxLockVotesOrphan'[v] = -1
              /\ v \notin ownVotes => mapTxLockVotes'[v].state = "none" /\ v \notin msgVotes
    BY <1>2, <1>5, <2>1
  <2>4. ASSUME NEW v \in ownVotes, ~SpentDeep(v.outpoint)
        PROVE  /\ mapTxLockCandidates'[v.tx].state = "requested"
               /\ \/ IsTimedOut(mapTxLockCandidates'[v.tx].created)
                  \/ Hidden(v, mapTxLockCandidates', mapTxLockVotes', msgVotes)
    <3>1. v \in Votes /\ v.tx \in Txs /\ v.outpoint \in Inputs[v.tx]
      BY DEF IInv, TypeOK, Votes
    <3>2. v.tx \notin gone
      BY <1>3, <2>4, <3>1 DEF SpentDeep
    <3>3. mapTxLockCandidates'[v.tx] = cand[v.tx] /\ cand[v.tx].state = "requested"
      BY <1>2, <2>1, <2>4, <3>1, <3>2
    <3>4. CASE mapTxLockVotes'[v] = mapTxLockVotes[v]
      BY <2>1, <2>4, <3>3, <3>4 DEF Hidden
    <3>5. CASE ~IsTimedOut(cand[v.tx].created)
      <4>1. Hidden(v, cand, mapTxLockVotes, msgVotes) /\ mapTxLockVotesOrphan[v] = -1
        BY <2>1, <2>4, <3>1, <3>5
      <4>2. /\ cand[v.tx].created \in Int /\ mapTxLockVotes[v].created \in Int /\ now \in Int
            /\ LOCK_TIMEOUT \in Nat /\ FAILED_TIMEOUT \in Nat
        BY <3>1, InstantSendAssumption DEF IInv, TypeOK, Candidate, VoteEntry
      <4>3. ~(now - mapTxLockVotes[v].created > FAILED_TIMEOUT)
        BY <3>5, <4>1, <4>2 DEF Hidden, IsTimedOut, TimeoutsOrdered
      <4>4. mapTxLockVotes'[v] = mapTxLockVotes[v]
        BY <1>2, <3>1, <4>1, <4>3 DEF Hidden
      <4> QED BY <3>4, <4>4
    <3> QED BY <3>3, <3>5
  <2> QED BY <2>1, <2>2, <2>3, <2>4 DEF OwnOK
<1>12. \A o \in Outpoints : mapLockedOutpoints'[o] \in {NoTx, mapLockedOutpoints[o]}
  BY <1>2
<1> QED BY <1>6, <1>7, <1>8, <1>9, <1>10, <1>11, <1>12 DEF RivalOutcome, RivalsOK

-----------------------------------------------------------------------------
(* Requests and votes *)

\* An outpoint that is still unspent is not spent for good.
LEMMA UnspentNotDeep ==
    ASSUME NEW o \in Unspent(minedAt) PROVE ~SpentDeep(o)
BY DEF Unspent, SpentDeep, Buried

\* Candidates that differ only where there are no votes.
LEMMA SameVotesKeep ==
    ASSUME NEW cand \in [Txs -> Candidate], NEW cand2 \in [Txs -> Candidate], NEW voted,
           RivalsOK(cand, voted),
           \A t \in Txs : /\ cand2[t].votes = cand[t].votes
                          /\ cand2[t].locks \in {{}, Inputs[t]}
                          /\ cand[t].votes # {} => /\ cand2[t].locks = cand[t].locks
                                                   /\ cand2[t].attacked = cand[t].attacked
    PROVE  RivalsOK(cand2, voted)
<1>1. WholeOK(cand2)
  BY DEF RivalsOK, WholeOK
<1>2. RecordedOK(cand2, voted)
  BY DEF RivalsOK, RecordedOK
<1>3. DoubleOK(cand2)
  BY DEF RivalsOK, DoubleOK
<1> QED BY <1>1, <1>2, <1>3 DEF RivalsOK

\* What AddVotes adds, and whom it marks.
LEMMA AddVotesMarks ==
    ASSUME NEW cand \in [Txs -> Candidate], NEW voted, NEW vs \in SUBSET Votes,
           \A v \in vs : v.outpoint \in cand[v.tx].locks
    PROVE  LET cand2 == AddVotes(vs, cand, voted) IN
           /\ \A t \in Txs : cand[t].attacked \subseteq cand2[t].attacked
           /\ \A t \in Txs : cand[t].votes \subseteq cand2[t].votes
           /\ \A v \in vs : <<v.outpoint, v.smartnode>> \in cand2[v.tx].votes
           /\ \A t \in Txs : \A o, m :
                 <<o, m>> \in cand2[t].votes =>
                    \/ <<o, m>> \in cand[t].votes
                    \/ \E v \in vs : v.tx = t /\ v.outpoint = o /\ v.smartnode = m
           /\ \A v \in vs, s \in Txs :
                 /\ s # v.tx /\ s \in Votings(vs, voted)[v.outpoint]
                 /\ <<v.outpoint, v.smartnode>> \in cand2[s].votes
                 => /\ v.outpoint \in cand2[v.tx].attacked
                    /\ v.outpoint \in cand[s].locks => v.outpoint \in cand2[s].attacked
<1> DEFINE cand2 == AddVotes(vs, cand, voted)
           added(t) == {<<v.outpoint, v.smartnode>> :
               v \in {w \in vs : w.tx = t /\ w.outpoint \in cand[t].locks}}
           clash(v, t) == /\ t # v.tx
                          /\ t \in Votings(vs, voted)[v.outpoint]
                          /\ <<v.outpoint, v.smartnode>> \in cand[t].votes \cup added(t)
           attacked(t) == {o \in cand[t].locks : \E v \in vs :
                             /\ v.outpoint = o
                             /\ \/ clash(v, t)
                                \/ v.tx = t /\ \E s \in Txs : clash(v, s)}
<1>1. cand2 = [t \in Txs |-> [cand[t] EXCEPT !.votes = cand[t].votes \cup added(t),
                                             !.attacked = @ \cup attacked(t)]]
  BY DEF AddVotes
<1>2. \A v \in vs : v.tx \in Txs
  BY DEF Votes
<1>3. ASSUME NEW t \in Txs
      PROVE  /\ cand2[t].votes = cand[t].votes \cup added(t)
             /\ cand2[t].attacked = cand[t].attacked \cup attacked(t)
  <2>1. cand[t] \in Candidate
    OBVIOUS
  <2> HIDE DEF added, attacked, cand2
  <2> QED BY <1>1, <2>1 DEF Candidate
<1> HIDE DEF cand2
<1>4. ASSUME NEW v \in vs PROVE <<v.outpoint, v.smartnode>> \in cand2[v.tx].votes
  <2>1. v.tx \in Txs /\ <<v.outpoint, v.smartnode>> \in added(v.tx)
    BY <1>2
  <2> HIDE DEF added, attacked
  <2>2. cand2[v.tx].votes = cand[v.tx].votes \cup added(v.tx)
    BY <1>3, <2>1
  <2> QED BY <2>1, <2>2
<1>5. ASSUME NEW v \in vs, NEW s \in Txs,
             s # v.tx, s \in Votings(vs, voted)[v.outpoint],
             <<v.outpoint, v.smartnode>> \in cand2[s].votes
      PROVE  /\ v.outpoint \in cand2[v.tx].attacked
             /\ v.outpoint \in cand[s].locks => v.outpoint \in cand2[s].attacked
  <2>1. clash(v, s)
    BY <1>3, <1>5
  <2>2. v.outpoint \in attacked(v.tx)
    BY <2>1
  <2>3. v.outpoint \in cand[s].locks => v.outpoint \in attacked(s)
    BY <2>1
  <2> HIDE DEF attacked
  <2> QED BY <1>2, <1>3, <2>2, <2>3
<1>6. ASSUME NEW t \in Txs, NEW o, NEW m, <<o, m>> \in cand2[t].votes,
             <<o, m>> \notin cand[t].votes
      PROVE  \E v \in vs : v.tx = t /\ v.outpoint = o /\ v.smartnode = m
  BY <1>3, <1>6
<1>7. \A t \in Txs : /\ cand[t].attacked \subseteq cand2[t].attacked
                     /\ cand[t].votes \subseteq cand2[t].votes
  BY <1>3
<1> QED BY <1>4, <1>5, <1>6, <1>7 DEF cand2

LEMMA AddVotesCreated ==
    ASSUME NEW cand \in [Txs -> Candidate], NEW voted, NEW vs
    PROVE  \A t \in Txs : AddVotes(vs, cand, voted)[t].created = cand[t].created
<1> SUFFICES ASSUME NEW t \in Txs
             PROVE  AddVotes(vs, cand, voted)[t].created = cand[t].created
  OBVIOUS
<1>1. cand[t] \in Candidate
  OBVIOUS
<1>2. \E V, A : AddVotes(vs, cand, voted)[t] =
                  [cand[t] EXCEPT !.votes = V, !.attacked = cand[t].attacked \cup A]
  BY DEF AddVotes
<1> QED BY <1>1, <1>2 DEF Candidate

\* Counting valid votes: a vote that is not there yet is for an outpoint whose
\* record is complete, so UpdateVotedOutpoints notices a second vote.
LEMMA AddVotesRivals ==
    ASSUME NEW cand \in [Txs -> Candidate], NEW voted \in [Outpoints -> SUBSET Txs],
           NEW vs \in SUBSET Votes, RivalsOK(cand, voted),
           \A v \in vs : /\ v.outpoint \in cand[v.tx].locks
                         /\ v.smartnode \in quorum[v.outpoint],
           \A v \in vs : \/ <<v.outpoint, v.smartnode>> \in cand[v.tx].votes
                         \/ ~SpentDeep(v.outpoint)
    PROVE  RivalsOK(AddVotes(vs, cand, voted), Votings(vs, voted))
<1> DEFINE cand2 == AddVotes(vs, cand, voted)
           voted2 == Votings(vs, voted)
<1>1. \A t \in Txs : cand2[t].locks = cand[t].locks
  BY AddVotesSame
<1>2. /\ \A t \in Txs : cand[t].attacked \subseteq cand2[t].attacked
      /\ \A t \in Txs : \A o, m :
            <<o, m>> \in cand2[t].votes =>
               \/ <<o, m>> \in cand[t].votes
               \/ \E v \in vs : v.tx = t /\ v.outpoint = o /\ v.smartnode = m
      /\ \A v \in vs, s \in Txs :
            /\ s # v.tx /\ s \in voted2[v.outpoint]
            /\ <<v.outpoint, v.smartnode>> \in cand2[s].votes
            => /\ v.outpoint \in cand2[v.tx].attacked
               /\ v.outpoint \in cand[s].locks => v.outpoint \in cand2[s].attacked
  BY AddVotesMarks
<1>3. \A v \in vs : v.tx \in Txs /\ v.outpoint \in Outpoints
  BY DEF Votes
<1>4. /\ \A o \in Outpoints : voted[o] \subseteq voted2[o]
      /\ \A v \in vs : v.tx \in voted2[v.outpoint]
  BY <1>3 DEF Votings
<1> HIDE DEF cand2, voted2
<1>5. WholeOK(cand2)
  BY <1>1, <1>2 DEF RivalsOK, WholeOK
<1>6. RecordedOK(cand2, voted2)
  BY <1>2, <1>4 DEF RivalsOK, RecordedOK
<1>7. DoubleOK(cand2)
  <2> SUFFICES ASSUME NEW t \in Txs, NEW s \in Txs, NEW o \in Outpoints, NEW m \in Smartnodes,
                      t # s, <<o, m>> \in cand2[t].votes, <<o, m>> \in cand2[s].votes
               PROVE  o \in cand2[t].attacked
    BY DEF DoubleOK
  <2>1. CASE <<o, m>> \in cand[t].votes /\ <<o, m>> \in cand[s].votes
    BY <1>2, <2>1 DEF RivalsOK, DoubleOK
  <2>2. CASE <<o, m>> \notin cand[t].votes
    <3>1. PICK v \in vs : v.tx = t /\ v.outpoint = o /\ v.smartnode = m
      BY <1>2, <2>2
    <3>2. ~SpentDeep(o)
      BY <2>2, <3>1
    <3>3. s \in voted2[o]
      BY <1>2, <1>4, <3>2 DEF RivalsOK, RecordedOK
    <3> QED BY <1>2, <3>1, <3>3
  <2>3. CASE <<o, m>> \in cand[t].votes /\ <<o, m>> \notin cand[s].votes
    <3>1. PICK v \in vs : v.tx = s /\ v.outpoint = o /\ v.smartnode = m
      BY <1>2, <2>3
    <3>2. ~SpentDeep(o)
      BY <2>3, <3>1
    <3>3. t \in voted2[o] /\ o \in cand[t].locks
      BY <1>4, <2>3, <3>2 DEF RivalsOK, RecordedOK, WholeOK
    <3> QED BY <1>2, <3>1, <3>3
  <2> QED BY <2>1, <2>2, <2>3
<1> QED BY <1>5, <1>6, <1>7 DEF RivalsOK, cand2, voted2

\* A candidate without its request has no votes.
LEMMA VotesNeedRequest ==
    ASSUME IInv, RInv, NEW t \in Txs, mapTxLockCandidates[t].state # "requested"
    PROVE  mapTxLockCandidates[t].votes = {} /\ mapTxLockCandidates[t].locks = {}
<1>1. mapTxLockCandidates[t].locks = {}
  BY DEF IInv, MapsOK, CandidatesOK
<1>2. mapTxLockCandidates[t].votes \subseteq Outpoints \X Smartnodes
  BY DEF IInv, TypeOK, Candidate, Pairs
<1>3. \A o \in Outpoints, m \in Smartnodes : <<o, m>> \notin mapTxLockCandidates[t].votes
  BY <1>1 DEF RInv, RivalsOK, WholeOK
<1> QED BY <1>1, <1>2, <1>3

\* A request that is new to the node starts without votes.
LEMMA CreateRivals ==
    ASSUME IInv, RInv, NEW t \in Txs
    PROVE  LET cand == CreateTxLockCandidate(t) IN
           /\ RivalsOK(cand, mapVotedOutpoints)
           /\ \A s \in Txs \ {t} : cand[s] = mapTxLockCandidates[s]
           /\ cand[t].votes = mapTxLockCandidates[t].votes
           /\ mapTxLockCandidates[t].state # "none" =>
                 cand[t].created = mapTxLockCandidates[t].created
           /\ cand[t].created \in {now, mapTxLockCandidates[t].created}
           /\ mapTxLockCandidates[t].state = "requested" => cand[t] = mapTxLockCandidates[t]
<1> DEFINE c == mapTxLockCandidates[t]
           new == [NoCandidate EXCEPT !.state = "requested", !.locks = Inputs[t],
                                      !.created = now]
           filled == [c EXCEPT !.state = "requested",
                 !.locks = IF IsTimedOut(c.created) THEN @ ELSE Inputs[t]]
           c2 == CASE c.state = "none" -> new
                   [] c.state = "empty" -> filled
                   [] OTHER -> c
           cand == CreateTxLockCandidate(t)
<1>1. mapTxLockCandidates \in [Txs -> Candidate] /\ c \in Candidate
  BY DEF IInv, TypeOK
<1>2. cand = [mapTxLockCandidates EXCEPT ![t] = c2] /\ cand \in [Txs -> Candidate]
  BY CreateCandidateKeeps DEF CreateTxLockCandidate
<1>3. new.votes = {} /\ new.locks = Inputs[t] /\ new.created = now
  BY DEF NoCandidate
<1>4. filled.votes = c.votes /\ filled.locks \in {c.locks, Inputs[t]} /\ filled.created = c.created
  BY <1>1 DEF Candidate
<1>5. c.state # "requested" => c.votes = {} /\ c.locks = {}
  BY VotesNeedRequest
<1>6. c.locks \in {{}, Inputs[t]}
  BY DEF RInv, RivalsOK, WholeOK
<1> HIDE DEF new, filled
<1>7. /\ c2.votes = c.votes
      /\ c2.locks \in {{}, Inputs[t]}
      /\ c.votes # {} => c2 = c
      /\ c.state # "none" => c2.created = c.created
      /\ c2.created \in {now, c.created}
      /\ c.state = "requested" => c2 = c
  BY <1>1, <1>3, <1>4, <1>5, <1>6 DEF Candidate
<1> HIDE DEF c2, cand
<1>8. cand[t] = c2 /\ \A s \in Txs \ {t} : cand[s] = mapTxLockCandidates[s]
  BY <1>1, <1>2
<1>9. RivalsOK(cand, mapVotedOutpoints)
  <2>1. \A s \in Txs : /\ cand[s].votes = mapTxLockCandidates[s].votes
                       /\ cand[s].locks \in {{}, Inputs[s]}
                       /\ mapTxLockCandidates[s].votes # {} =>
                             /\ cand[s].locks = mapTxLockCandidates[s].locks
                             /\ cand[s].attacked = mapTxLockCandidates[s].attacked
    BY <1>7, <1>8 DEF RInv, RivalsOK, WholeOK
  <2> QED BY <1>1, <1>2, <2>1, SameVotesKeep DEF RInv
<1> QED BY <1>7, <1>8, <1>9 DEF cand

\* Own votes stay out of the candidates, whose requests keep their times.
LEMMA OwnGrows ==
    ASSUME IInv, RInv, NEW cand, NEW orphans,
           \A t \in Txs : /\ cand[t].created <= now
                          /\ \A o \in Outpoints : <<o, Self>> \notin cand[t].votes
                          /\ mapTxLockCandidates[t].state = "requested" =>
                                /\ cand[t].state = "requested"
                                /\ cand[t].created = mapTxLockCandidates[t].created,
           \A v \in Votes : v.smartnode = Self => orphans[v] = -1
    PROVE  OwnOK(cand, mapTxLockVotes, orphans, msgVotes)
<1>1. \A v \in ownVotes : v.tx \in Txs
  BY DEF IInv, TypeOK, Votes
<1>2. OwnOK(mapTxLockCandidates, mapTxLockVotes, mapTxLockVotesOrphan, msgVotes)
  BY DEF RInv
<1> QED BY <1>1, <1>2 DEF OwnOK, Hidden

\* The request handler adds votes for its own request only, whose inputs are unspent.
LEMMA RequestRivals ==
    ASSUME IInv, SInv, RInv, Majority, NEW t \in Txs, IsValidRequest(t), ProcessTxLockRequest(t)
    PROVE  RivalOutcome
<1> DEFINE cand == CreateTxLockCandidate(t)
           vs == Adopted(cand)
           cand2 == AddVotes(vs, cand, mapVotedOutpoints)
           voted2 == Votings(vs, mapVotedOutpoints)
           orphans2 == [v \in Votes |-> IF v \in Taken(cand) THEN -1
                                        ELSE mapTxLockVotesOrphan[v]]
<1>1. TypeOK /\ ownVotes \in SUBSET Votes /\ now \in Int
      /\ mapVotedOutpoints \in [Outpoints -> SUBSET Txs]
      /\ mapLockedOutpoints \in [Outpoints -> Txs \cup {NoTx}]
      /\ OrphansOK(mapTxLockCandidates, mapTxLockVotesOrphan)
      /\ OwnOK(mapTxLockCandidates, mapTxLockVotes, mapTxLockVotesOrphan, msgVotes)
  BY DEF IInv, TypeOK, RInv
<1>2. /\ cand \in [Txs -> Candidate]
      /\ MapsOK(cand, mapVotedOutpoints, mapLockedOutpoints, ownVotes)
      /\ CandidatesOK(cand, now)
  BY CreateCandidateKeeps DEF MapsOK
<1>3. /\ RivalsOK(cand, mapVotedOutpoints)
      /\ \A s \in Txs \ {t} : cand[s] = mapTxLockCandidates[s]
      /\ cand[t].votes = mapTxLockCandidates[t].votes
      /\ mapTxLockCandidates[t].state # "none" =>
            cand[t].created = mapTxLockCandidates[t].created
      /\ cand[t].created \in {now, mapTxLockCandidates[t].created}
      /\ mapTxLockCandidates[t].state = "requested" => cand[t] = mapTxLockCandidates[t]
  BY CreateRivals
<1>4. \A v \in Votes : v.tx \in Txs /\ v.outpoint \in Inputs[v.tx] /\ v.outpoint \in Outpoints
  BY DEF Votes
<1>5. \A s \in Txs : /\ cand[s].created <= now
                     /\ \A o \in Outpoints : <<o, Self>> \notin cand[s].votes
                     /\ mapTxLockCandidates[s].state = "requested" =>
                           /\ cand[s].state = "requested"
                           /\ cand[s].created = mapTxLockCandidates[s].created
  BY <1>1, <1>3 DEF OwnOK
<1>6. CASE CandidateUsable(t)
  <2>1. TryToFinalizeLockCandidate(t, cand2[t], cand2, voted2, orphans2)
    BY <1>6 DEF ProcessTxLockRequest
  <2> HIDE DEF cand
  <2>2. /\ vs \in SUBSET Votes
        /\ \A v \in vs : /\ cand[v.tx].state = "requested"
                         /\ v.outpoint \in cand[v.tx].locks
                         /\ v.smartnode \in quorum[v.outpoint]
                         /\ v.smartnode # Self
    BY <1>1, <1>2, <1>4 DEF Adopted, CandidatesOK, IsTimedOut, OrphansOK, OwnOK
  <2>3. ASSUME NEW v \in vs, <<v.outpoint, v.smartnode>> \notin cand[v.tx].votes
        PROVE  ~SpentDeep(v.outpoint)
    <3>1. v \in Votes /\ mapTxLockVotesOrphan[v] # -1
          /\ cand[v.tx].state = "requested" /\ ~IsTimedOut(cand[v.tx].created)
      BY DEF Adopted
    <3>2. v.tx = t
      BY <1>1, <1>3, <1>4, <2>3, <3>1 DEF OrphansOK
    <3> QED BY <1>4, <3>1, <3>2, UnspentNotDeep DEF IsValidRequest
  <2>4. \A v \in Votes : v.smartnode = Self => orphans2[v] = -1
    BY <1>1 DEF OwnOK
  <2> HIDE DEF vs
  <2>5. /\ cand2 \in [Txs -> Candidate]
        /\ MapsOK(cand2, voted2, mapLockedOutpoints, ownVotes)
    BY <1>1, <1>2, <2>2, AddVotesKeeps
  <2>6. RivalsOK(cand2, voted2)
    BY <1>1, <1>2, <1>3, <2>2, <2>3, AddVotesRivals
  <2>7. \A s \in Txs : /\ cand2[s].state = cand[s].state
                       /\ cand2[s].created = cand[s].created
    BY <1>2, AddVotesSame, AddVotesCreated
  <2>8. /\ \A v \in vs : <<v.outpoint, v.smartnode>> \in cand2[v.tx].votes
        /\ \A s \in Txs : \A o, m :
              <<o, m>> \in cand2[s].votes =>
                 \/ <<o, m>> \in cand[s].votes
                 \/ \E v \in vs : v.tx = s /\ v.outpoint = o /\ v.smartnode = m
    <3>1. cand \in [Txs -> Candidate] /\ \A v \in vs : v.outpoint \in cand[v.tx].locks
      BY <1>2, <2>2
    <3>2. vs \in SUBSET Votes
      BY <2>2
    <3>3. \A v \in vs : <<v.outpoint, v.smartnode>> \in cand2[v.tx].votes
      BY <3>1, <3>2, AddVotesMarks
    <3>4. ASSUME NEW s \in Txs, NEW o, NEW m, <<o, m>> \in cand2[s].votes,
                 <<o, m>> \notin cand[s].votes
          PROVE  \E v \in vs : v.tx = s /\ v.outpoint = o /\ v.smartnode = m
      BY <3>1, <3>2, <3>4, AddVotesMarks
    <3> QED BY <3>3, <3>4
  <2>9. \A s \in Txs : \A o \in Outpoints : <<o, Self>> \notin cand2[s].votes
    <3> HIDE DEF cand2
    <3> SUFFICES ASSUME NEW s \in Txs, NEW o \in Outpoints, <<o, Self>> \in cand2[s].votes
                 PROVE  FALSE
      OBVIOUS
    <3>1. <<o, Self>> \notin cand[s].votes
      BY <1>5
    <3>2. \E v \in vs : v.tx = s /\ v.outpoint = o /\ v.smartnode = Self
      BY <2>8, <3>1
    <3> QED BY <2>2, <3>2
  <2>10. OrphansOK(cand2, orphans2)
    <3> HIDE DEF cand2
    <3> SUFFICES ASSUME NEW v \in Votes, orphans2[v] # -1
                 PROVE  /\ v.smartnode \in quorum[v.outpoint]
                        /\ cand2[v.tx].state = "requested" /\ ~IsTimedOut(cand2[v.tx].created)
                              => <<v.outpoint, v.smartnode>> \in cand2[v.tx].votes
      BY DEF OrphansOK
    <3>1. mapTxLockVotesOrphan[v] # -1
      OBVIOUS
    <3>2. v.smartnode \in quorum[v.outpoint]
      BY <1>1, <3>1 DEF OrphansOK
    <3>3. cand[v.tx].state = "requested" /\ ~IsTimedOut(cand[v.tx].created) => v \in vs
      BY <3>1 DEF vs, Adopted
    <3> QED BY <1>4, <2>7, <2>8, <3>2, <3>3
  <2> HIDE DEF cand2, voted2, orphans2
  <2>11. OwnOK(cand2, mapTxLockVotes, orphans2, msgVotes)
    BY <1>5, <2>4, <2>7, <2>9, OwnGrows
  <2>12. IsAllOutPointsReady(cand2[t]) => LockConflicts(t) = {}
    <3>1. WholeOK(cand2) /\ DoubleOK(cand2) /\ BackedOK(cand2, mapLockedOutpoints, ownVotes)
      BY <2>5, <2>6 DEF RivalsOK, MapsOK
    <3>2. \A v \in ownVotes : v.smartnode = Self /\ Self \in quorum[v.outpoint]
      BY <1>1 DEF OwnOK
    <3> QED BY <1>1, <2>5, <2>9, <3>1, <3>2, NoLockConflict
  <2>13. /\ mapTxLockCandidates' = cand2
         /\ mapVotedOutpoints' = voted2
         /\ mapTxLockVotesOrphan' = orphans2
         /\ UNCHANGED mapTxLockVotes
         /\ \A o \in Outpoints : mapLockedOutpoints[o] # NoTx =>
               mapLockedOutpoints'[o] = mapLockedOutpoints[o]
    BY <2>1, <2>12, FinalizeRivals
  <2> QED BY <2>6, <2>10, <2>11, <2>13 DEF RivalOutcome
<1>7. CASE ~CandidateUsable(t)
  <2>1. /\ mapTxLockCandidates' = cand
        /\ UNCHANGED <<mapVotedOutpoints, mapLockedOutpoints, mapTxLockVotesOrphan,
                       mapTxLockVotes>>
    BY <1>7 DEF ProcessTxLockRequest
  <2> HIDE DEF cand
  <2>2. /\ mapTxLockCandidates[t].state # "none"
        /\ IsTimedOut(mapTxLockCandidates[t].created)
    BY <1>7 DEF CandidateUsable
  <2>3. OrphansOK(cand, mapTxLockVotesOrphan)
    BY <1>1, <1>3, <1>4, <2>2 DEF OrphansOK
  <2>4. OwnOK(cand, mapTxLockVotes, mapTxLockVotesOrphan, msgVotes)
    <3>1. \A v \in Votes : v.smartnode = Self => mapTxLockVotesOrphan[v] = -1
      BY <1>1 DEF OwnOK
    <3> QED BY <1>5, <3>1, OwnGrows
  <2> QED BY <1>3, <2>1, <2>3, <2>4 DEF RivalOutcome
<1> QED BY <1>6, <1>7

\* A valid vote for a candidate without its request waits.
LEMMA OrphanRivals ==
    ASSUME IInv, RInv, NEW v \in Votes, IsValidVote(v),
           mapTxLockCandidates[v.tx].state # "requested", v.smartnode # Self, KeepOrphan(v)
    PROVE  RivalOutcome
<1> DEFINE t == v.tx
           empty == [NoCandidate EXCEPT !.state = "empty", !.created = now]
           c2 == IF mapTxLockCandidates[t].state = "none" THEN empty
                 ELSE mapTxLockCandidates[t]
           cand == mapTxLockCandidates'
<1>1. /\ t \in Txs /\ mapTxLockCandidates \in [Txs -> Candidate]
      /\ mapTxLockVotesOrphan \in [Votes -> Int]
      /\ \A w \in Votes : w.tx \in Txs
  BY DEF IInv, TypeOK, Votes
<1>2. /\ cand = [mapTxLockCandidates EXCEPT ![t] = c2]
      /\ mapTxLockVotesOrphan' = [mapTxLockVotesOrphan EXCEPT ![v] =
               IF @ = -1 THEN msgTime ELSE @]
      /\ UNCHANGED <<mapVotedOutpoints, mapLockedOutpoints, mapTxLockVotes>>
  BY DEF KeepOrphan
<1>3. empty.state = "empty" /\ empty.votes = {} /\ empty.locks = {} /\ empty.created = now
  BY DEF NoCandidate
<1>4. mapTxLockCandidates[t].votes = {} /\ mapTxLockCandidates[t].locks = {}
  BY <1>1, VotesNeedRequest
<1>5. cand \in [Txs -> Candidate]
  BY KeepOrphanKeeps DEF MapsTypeOK
<1> HIDE DEF empty
<1>6. /\ c2.state # "requested" /\ c2.votes = {} /\ c2.locks = {}
      /\ c2.created \in {now, mapTxLockCandidates[t].created}
  BY <1>3, <1>4
<1> HIDE DEF c2, cand
<1>7. cand[t] = c2 /\ \A s \in Txs \ {t} : cand[s] = mapTxLockCandidates[s]
  BY <1>1, <1>2
<1>8. RivalsOK(cand, mapVotedOutpoints)
  <2>1. \A s \in Txs : /\ cand[s].votes = mapTxLockCandidates[s].votes
                       /\ cand[s].locks \in {{}, Inputs[s]}
                       /\ mapTxLockCandidates[s].votes # {} =>
                             /\ cand[s].locks = mapTxLockCandidates[s].locks
                             /\ cand[s].attacked = mapTxLockCandidates[s].attacked
    BY <1>4, <1>6, <1>7 DEF RInv, RivalsOK, WholeOK
  <2> QED BY <1>1, <1>5, <2>1, SameVotesKeep DEF RInv
<1>9. OrphansOK(cand, mapTxLockVotesOrphan')
  <2> SUFFICES ASSUME NEW w \in Votes, mapTxLockVotesOrphan'[w] # -1
               PROVE  /\ w.smartnode \in quorum[w.outpoint]
                      /\ cand[w.tx].state = "requested" /\ ~IsTimedOut(cand[w.tx].created)
                            => <<w.outpoint, w.smartnode>> \in cand[w.tx].votes
    BY DEF OrphansOK
  <2>1. CASE w = v
    BY <1>6, <1>7, <2>1 DEF IsValidVote
  <2>2. CASE w # v
    <3>1. mapTxLockVotesOrphan[w] # -1
      BY <1>1, <1>2, <2>2
    <3> QED BY <1>1, <1>6, <1>7, <3>1 DEF RInv, OrphansOK
  <2> QED BY <2>1, <2>2
<1>10. OwnOK(cand, mapTxLockVotes, mapTxLockVotesOrphan', msgVotes)
  <2>1. /\ OwnOK(mapTxLockCandidates, mapTxLockVotes, mapTxLockVotesOrphan, msgVotes)
        /\ now \in Int
    BY DEF RInv, IInv, TypeOK
  <2>2. \A w \in Votes : w.smartnode = Self => mapTxLockVotesOrphan'[w] = -1
    BY <1>1, <1>2, <2>1 DEF OwnOK
  <2>3. \A s \in Txs : /\ cand[s].created <= now
                       /\ \A o \in Outpoints : <<o, Self>> \notin cand[s].votes
                       /\ mapTxLockCandidates[s].state = "requested" =>
                             /\ cand[s].state = "requested"
                             /\ cand[s].created = mapTxLockCandidates[s].created
    BY <1>6, <1>7, <2>1 DEF OwnOK
  <2> QED BY <2>2, <2>3, OwnGrows
<1> QED BY <1>2, <1>8, <1>9, <1>10 DEF RivalOutcome, cand

LEMMA VoteRivals ==
    ASSUME IInv, SInv, RInv, Majority, NEW v \in Votes, ProcessTxLockVote(v)
    PROVE  RivalOutcome
<1> DEFINE t == v.tx
           c == mapTxLockCandidates[t]
           cand == AddVotes({v}, mapTxLockCandidates, mapVotedOutpoints)
           voted == Votings({v}, mapVotedOutpoints)
<1>1. /\ TypeOK /\ t \in Txs /\ v.outpoint \in Inputs[t]
      /\ mapTxLockCandidates \in [Txs -> Candidate]
      /\ mapVotedOutpoints \in [Outpoints -> SUBSET Txs]
      /\ mapLockedOutpoints \in [Outpoints -> Txs \cup {NoTx}]
      /\ ownVotes \in SUBSET Votes /\ {v} \in SUBSET Votes
      /\ \A w \in Votes : w.tx \in Txs
      /\ MapsOK(mapTxLockCandidates, mapVotedOutpoints, mapLockedOutpoints, ownVotes)
      /\ RivalsOK(mapTxLockCandidates, mapVotedOutpoints)
      /\ OrphansOK(mapTxLockCandidates, mapTxLockVotesOrphan)
      /\ OwnOK(mapTxLockCandidates, mapTxLockVotes, mapTxLockVotesOrphan, msgVotes)
  BY DEF IInv, RInv, TypeOK, Votes
<1>2. CASE UNCHANGED instantsendVars
  BY <1>1, <1>2 DEF RivalOutcome, instantsendVars
<1>3. CASE v.smartnode = Self
  <2>1. v \in msgVotes
    BY DEF ProcessTxLockVote
  <2>2. v \in ownVotes /\ ~Hidden(v, mapTxLockCandidates, mapTxLockVotes, msgVotes)
    BY <1>1, <1>3, <2>1 DEF OwnOK, Hidden
  <2>3. \/ SpentDeep(v.outpoint)
        \/ c.state = "requested" /\ IsTimedOut(c.created)
    BY <1>1, <2>2 DEF OwnOK
  <2>4. ~IsValidVote(v) \/ (c.state = "requested" /\ IsTimedOut(c.created))
    BY <2>3, UnspentNotDeep DEF IsValidVote
  <2>5. UNCHANGED instantsendVars
    BY <2>4 DEF ProcessTxLockVote
  <2> QED BY <1>2, <2>5
<1>4. CASE IsValidVote(v) /\ c.state # "requested" /\ v.smartnode # Self
  <2>1. KeepOrphan(v)
    BY <1>4 DEF ProcessTxLockVote
  <2> QED BY <2>1, <1>4, OrphanRivals
<1>5. CASE /\ IsValidVote(v) /\ c.state = "requested" /\ ~IsTimedOut(c.created)
           /\ v.smartnode # Self
  <2>1. \A w \in {v} : /\ mapTxLockCandidates[w.tx].state = "requested"
                       /\ w.outpoint \in mapTxLockCandidates[w.tx].locks
    BY <1>1, <1>5 DEF MapsOK, CandidatesOK, IsTimedOut
  <2>2. \A w \in {v} : w.smartnode \in quorum[w.outpoint] /\ ~SpentDeep(w.outpoint)
    BY <1>5, UnspentNotDeep DEF IsValidVote
  <2>3. /\ cand \in [Txs -> Candidate]
        /\ MapsOK(cand, voted, mapLockedOutpoints, ownVotes)
    BY <1>1, <2>1, AddVotesKeeps
  <2>4. RivalsOK(cand, voted)
    BY <1>1, <2>1, <2>2, AddVotesRivals
  <2>5. /\ \A s \in Txs : cand[s].state = mapTxLockCandidates[s].state
        /\ \A s \in Txs : cand[s].created = mapTxLockCandidates[s].created
    BY <1>1, AddVotesSame, AddVotesCreated
  <2>6. /\ \A s \in Txs : mapTxLockCandidates[s].votes \subseteq cand[s].votes
        /\ \A s \in Txs : \A o, m :
              <<o, m>> \in cand[s].votes =>
                 \/ <<o, m>> \in mapTxLockCandidates[s].votes
                 \/ \E w \in {v} : w.tx = s /\ w.outpoint = o /\ w.smartnode = m
    BY <1>1, <2>1, AddVotesMarks
  <2>7. \/ TryToFinalizeLockCandidate(t, cand[t], cand, voted, mapTxLockVotesOrphan)
        \/ /\ mapTxLockCandidates' = cand
           /\ mapVotedOutpoints' = voted
           /\ UNCHANGED <<mapLockedOutpoints, mapTxLockVotesOrphan, mapTxLockVotes>>
    BY <1>5 DEF ProcessTxLockVote
  <2> HIDE DEF cand, voted
  <2>8. OrphansOK(cand, mapTxLockVotesOrphan)
    BY <1>1, <2>5, <2>6 DEF OrphansOK
  <2>9. \A s \in Txs : \A o \in Outpoints : <<o, Self>> \notin cand[s].votes
    BY <1>1, <1>5, <2>6 DEF OwnOK
  <2>10. OwnOK(cand, mapTxLockVotes, mapTxLockVotesOrphan, msgVotes)
    <3>1. /\ \A w \in Votes : w.smartnode = Self => mapTxLockVotesOrphan[w] = -1
          /\ \A s \in Txs : cand[s].created <= now
      BY <1>1, <2>5 DEF OwnOK
    <3> QED BY <2>5, <2>9, <3>1, OwnGrows
  <2>11. IsAllOutPointsReady(cand[t]) => LockConflicts(t) = {}
    <3>1. WholeOK(cand) /\ DoubleOK(cand) /\ BackedOK(cand, mapLockedOutpoints, ownVotes)
      BY <2>3, <2>4 DEF RivalsOK, MapsOK
    <3>2. \A w \in ownVotes : w.smartnode = Self /\ Self \in quorum[w.outpoint]
      BY <1>1 DEF OwnOK
    <3> QED BY <1>1, <2>3, <2>9, <3>1, <3>2, NoLockConflict
  <2>12. /\ mapTxLockCandidates' = cand
         /\ mapVotedOutpoints' = voted
         /\ mapTxLockVotesOrphan' = mapTxLockVotesOrphan
         /\ UNCHANGED mapTxLockVotes
         /\ \A o \in Outpoints : mapLockedOutpoints[o] # NoTx =>
               mapLockedOutpoints'[o] = mapLockedOutpoints[o]
    BY <2>7, <2>11, FinalizeRivals
  <2> QED BY <2>4, <2>8, <2>10, <2>12 DEF RivalOutcome
<1> QED BY <1>2, <1>3, <1>4, <1>5 DEF ProcessTxLockVote

\* Vote() finalises its copy, with the votes of this node in it, before anyone else
\* can lock one of the inputs.
LEMMA CopyRivals ==
    ASSUME RInv, FinalizeCopy
    PROVE  RivalOutcome
<1>1. LockConflicts(msgTx) = {}
  BY DEF FinalizeCopy, RInv, HeldOK
<1>2. TryToFinalizeLockCandidate(msgTx, copy, mapTxLockCandidates, mapVotedOutpoints,
                                 mapTxLockVotesOrphan)
  BY DEF FinalizeCopy
<1>3. /\ UNCHANGED <<mapTxLockCandidates, mapVotedOutpoints, mapTxLockVotesOrphan,
                     mapTxLockVotes>>
      /\ \A o \in Outpoints : mapLockedOutpoints[o] # NoTx =>
            mapLockedOutpoints'[o] = mapLockedOutpoints[o]
  BY <1>1, <1>2, FinalizeRivals
<1> QED BY <1>3 DEF RInv, RivalOutcome

-----------------------------------------------------------------------------
(* The steps *)

Balloting == pc \in {"ballot", "finalize"}

\* A step of the handler or of the cleanup.  Only the cleanup runs while the handler
\* is about to vote, and it frees outpoints.
OnRivals ==
    /\ RivalOutcome
    /\ UNCHANGED <<quorum, minedAt, peak, now, ownVotes, restarts>>
    /\ msgVotes' \subseteq msgVotes
    /\ Balloting' =>
          /\ Balloting /\ UNCHANGED msgTx
          /\ \A o \in Outpoints : mapLockedOutpoints'[o] \in {NoTx, mapLockedOutpoints[o]}

LEMMA HandlerOnRivals ==
    ASSUME IInv, SInv, RInv, Majority, TimeoutsOrdered,
           \/ \E t \in LockRequests : \/ ReceiveTxLockRequest(t)
                                      \/ RelayWalletTransaction(t)
                                      \/ SendRawTransaction(t)
           \/ FinalizeCopy
           \/ \E v \in Votes : ProcessTxLockVote(v)
           \/ CheckAndRemove
    PROVE  OnRivals
<1>1. CASE \E t \in LockRequests : \/ ReceiveTxLockRequest(t)
                                   \/ RelayWalletTransaction(t)
                                   \/ SendRawTransaction(t)
  <2>1. PICK t \in LockRequests : \/ ReceiveTxLockRequest(t)
                                  \/ RelayWalletTransaction(t)
                                  \/ SendRawTransaction(t)
    BY <1>1
  <2>2. t \in Txs /\ IsValidRequest(t) /\ ProcessTxLockRequest(t)
    BY <2>1, InstantSendAssumption
       DEF ReceiveTxLockRequest, RelayWalletTransaction, SendRawTransaction
  <2>3. /\ UNCHANGED <<quorum, minedAt, peak, now, ownVotes, restarts, msgVotes>>
        /\ ~Balloting'
    BY <2>1 DEF ReceiveTxLockRequest, RelayWalletTransaction, SendRawTransaction,
                chainVars, nodeVars, handlerVars, csMainFree, Balloting
  <2> QED BY <2>2, <2>3, RequestRivals DEF OnRivals
<1>2. CASE FinalizeCopy
  <2>1. /\ UNCHANGED <<quorum, minedAt, peak, now, ownVotes, restarts, msgVotes>>
        /\ ~Balloting'
    BY <1>2 DEF FinalizeCopy, chainVars, nodeVars, Balloting
  <2> QED BY <1>2, <2>1, CopyRivals DEF OnRivals
<1>3. CASE \E v \in Votes : ProcessTxLockVote(v)
  <2>1. /\ UNCHANGED <<quorum, minedAt, peak, now, ownVotes, restarts>>
        /\ msgVotes' = {}
        /\ ~Balloting'
    BY <1>3 DEF ProcessTxLockVote, chainVars, nodeVars, Balloting
  <2> QED BY <1>3, <2>1, VoteRivals DEF OnRivals
<1>4. CASE CheckAndRemove
  <2>1. /\ UNCHANGED <<quorum, minedAt, peak, now, ownVotes, restarts, msgVotes, pc, msgTx>>
        /\ RemoveExpired(mapTxLockCandidates, mapVotedOutpoints, mapTxLockVotesOrphan, {})
    BY <1>4 DEF CheckAndRemove, chainVars, nodeVars, handlerVars
  <2> QED BY <2>1, CleanupRivals DEF OnRivals, Balloting
<1> QED BY <1>1, <1>2, <1>3, <1>4

LEMMA OnRivalsKept == ASSUME IInv, RInv, OnRivals PROVE RInv'
<1>1. /\ RivalsOK(mapTxLockCandidates', mapVotedOutpoints')
      /\ OrphansOK(mapTxLockCandidates', mapTxLockVotesOrphan')
      /\ OwnOK(mapTxLockCandidates', mapTxLockVotes', mapTxLockVotesOrphan', msgVotes)
      /\ UNCHANGED <<quorum, minedAt, peak, now, ownVotes, restarts>>
      /\ msgVotes' \subseteq msgVotes
  BY DEF OnRivals, RivalOutcome
<1>2. \A o : SpentDeep(o)' <=> SpentDeep(o)
  BY <1>1 DEF SpentDeep, Buried
<1>3. \A time : IsTimedOut(time)' <=> IsTimedOut(time)
  BY <1>1 DEF IsTimedOut
<1>4. RivalsOK(mapTxLockCandidates, mapVotedOutpoints)'
  BY <1>1, <1>2 DEF RivalsOK, WholeOK, RecordedOK, DoubleOK
<1>5. OrphansOK(mapTxLockCandidates, mapTxLockVotesOrphan)'
  BY <1>1, <1>3 DEF OrphansOK, IsTimedOut
<1>6. OwnOK(mapTxLockCandidates, mapTxLockVotes, mapTxLockVotesOrphan, msgVotes)'
  BY <1>1, <1>2, <1>3 DEF OwnOK, Hidden, IsTimedOut
<1>7. HeldOK'
  <2> SUFFICES ASSUME Balloting' PROVE LockConflicts(msgTx)' = {}
    BY DEF HeldOK, Balloting
  <2>1. /\ msgTx \in Txs /\ msgTx' = msgTx /\ LockConflicts(msgTx) = {}
        /\ \A o \in Outpoints : mapLockedOutpoints'[o] \in {NoTx, mapLockedOutpoints[o]}
    BY DEF OnRivals, Balloting, RInv, HeldOK, IInv, HandlerOK
  <2>2. Inputs[msgTx] \subseteq Outpoints
    BY <2>1, InstantSendAssumption
  <2> QED BY <2>1, <2>2 DEF LockConflicts
<1> QED BY <1>1, <1>4, <1>5, <1>6, <1>7 DEF RInv

\* A step that counts, locks and removes nothing.  A message with an own vote gets to
\* the handler only if the entry of the vote is gone.
Idle ==
    /\ \A t \in Txs : /\ mapTxLockCandidates'[t].state = mapTxLockCandidates[t].state
                      /\ mapTxLockCandidates'[t].locks = mapTxLockCandidates[t].locks
                      /\ mapTxLockCandidates'[t].votes = mapTxLockCandidates[t].votes
                      /\ mapTxLockCandidates'[t].attacked = mapTxLockCandidates[t].attacked
                      /\ mapTxLockCandidates'[t].created = mapTxLockCandidates[t].created
    /\ \A t \in Txs : Buried(t) => Buried(t)'
    /\ \A o \in Outpoints : mapVotedOutpoints[o] \subseteq mapVotedOutpoints'[o]
    /\ \A v \in Votes : v.smartnode = Self =>
          \/ /\ mapTxLockVotes'[v] = mapTxLockVotes[v]
             /\ v \in msgVotes' => v \in msgVotes
          \/ v \in ownVotes /\ mapTxLockVotes[v].state = "none"
    /\ Balloting' => UNCHANGED msgTx /\ (Balloting \/ LockConflicts(msgTx) = {})
    /\ now' \in {now, now + 1}
    /\ UNCHANGED <<mapTxLockVotesOrphan, mapLockedOutpoints, quorum, ownVotes, restarts>>

\* A step that is not about the chain.
LEMMA QuietIdle ==
    ASSUME IInv, RInv, OwnKey,
           \/ RawTransactionRefused \/ LockRequestRefused
           \/ \E v \in PeerVotes \cup ownVotes : ReceiveTxLockVote(v)
           \/ \E t \in Txs : LimitMempoolSize(t)
           \/ \E b \in Blocks : AcceptBlock(b)
           \/ UpdatedBlockTip \/ Tick \/ UNCHANGED vars
    PROVE  Idle
<1>1. CASE \E v \in PeerVotes \cup ownVotes : ReceiveTxLockVote(v)
  <2>1. PICK v \in PeerVotes \cup ownVotes : ReceiveTxLockVote(v)
    BY <1>1
  <2>2. /\ UNCHANGED <<mapTxLockCandidates, mapVotedOutpoints, mapTxLockVotesOrphan,
                       mapLockedOutpoints, quorum, minedAt, peak, ownVotes, now, restarts>>
        /\ ~Balloting' /\ msgVotes' = {v}
        /\ mapTxLockVotes[v].state = "none"
        /\ mapTxLockVotes' = [mapTxLockVotes EXCEPT ![v] =
               [state |-> "vote", conf |-> NotInBlock, created |-> now]]
    BY <2>1 DEF ReceiveTxLockVote, chainVars, nodeVars, Balloting
  <2>3. \A w \in Votes : w # v => mapTxLockVotes'[w] = mapTxLockVotes[w]
    BY <2>2 DEF IInv, TypeOK
  <2>4. v.smartnode = Self => v \in ownVotes
    BY DEF OwnKey
  <2> QED BY <2>2, <2>3, <2>4 DEF Idle, Buried
<1>2. CASE \/ RawTransactionRefused \/ LockRequestRefused
           \/ \E t \in Txs : LimitMempoolSize(t)
           \/ \E b \in Blocks : AcceptBlock(b)
           \/ UpdatedBlockTip \/ Tick \/ UNCHANGED vars
  <2>1. /\ UNCHANGED <<mapTxLockCandidates, mapVotedOutpoints, mapTxLockVotesOrphan,
                       mapTxLockVotes, mapLockedOutpoints, quorum, minedAt, peak, ownVotes,
                       msgVotes, restarts>>
        /\ UNCHANGED <<pc, msgTx>> \/ pc' = "idle"
        /\ now' \in {now, now + 1}
    BY <1>2 DEF RawTransactionRefused, LockRequestRefused, LimitMempoolSize,
          AcceptBlock, UpdatedBlockTip, Tick, vars, instantsendVars, handlerVars, chainVars,
          nodeVars
  <2> QED BY <2>1 DEF Idle, Buried, Balloting
<1> QED BY <1>1, <1>2

\* A transaction enters the memory pool, or a block is connected or disconnected.
LEMMA ChainIdle ==
    ASSUME IInv, SInv, RInv, Shallow,
           \/ LockRequestAccepted \/ RawTransactionAccepted
           \/ \E t \in Txs : ReceiveTx(t)
           \/ \E b \in Blocks : ConnectTip(b)
           \/ DisconnectTip
    PROVE  Idle
<1>1. PICK h : SyncTransaction(h)
  BY DEF LockRequestAccepted, RawTransactionAccepted, ReceiveTx, AddToMemoryPool, ConnectTip,
         DisconnectTip
<1>2. UNCHANGED <<mapVotedOutpoints, mapTxLockVotesOrphan, mapLockedOutpoints, quorum, now,
                  ownVotes, msgVotes, restarts>>
  BY DEF LockRequestAccepted, RawTransactionAccepted, ReceiveTx, ConnectTip, DisconnectTip,
         nodeVars, handlerVars
<1>3. ASSUME NEW t \in Txs
      PROVE  /\ mapTxLockCandidates'[t].state = mapTxLockCandidates[t].state
             /\ mapTxLockCandidates'[t].locks = mapTxLockCandidates[t].locks
             /\ mapTxLockCandidates'[t].votes = mapTxLockCandidates[t].votes
             /\ mapTxLockCandidates'[t].attacked = mapTxLockCandidates[t].attacked
             /\ mapTxLockCandidates'[t].created = mapTxLockCandidates[t].created
  <2>1. mapTxLockCandidates[t] \in Candidate
    BY DEF IInv, TypeOK
  <2>2. mapTxLockCandidates'[t] \in {mapTxLockCandidates[t],
                                      [mapTxLockCandidates[t] EXCEPT !.conf = h[t]]}
    BY <1>1 DEF SyncTransaction, SetConfirmedHeight
  <2> QED BY <2>1, <2>2 DEF Candidate
<1>4. \A t \in Txs : Buried(t) => Buried(t)'
  BY BuriedKept
<1>5. ASSUME NEW v \in Votes, v.smartnode = Self
      PROVE  mapTxLockVotes'[v] = mapTxLockVotes[v]
  <2>1. v.tx \in Txs /\ v.outpoint \in Outpoints
    BY DEF Votes
  <2>2. /\ mapTxLockVotesOrphan[v] = -1
        /\ <<v.outpoint, v.smartnode>> \notin mapTxLockCandidates[v.tx].votes
    BY <1>5, <2>1 DEF RInv, OwnOK
  <2> QED BY <1>1, <2>2 DEF SyncTransaction
<1>6. Balloting' => UNCHANGED msgTx /\ (Balloting \/ LockConflicts(msgTx) = {})
  BY DEF LockRequestAccepted, RawTransactionAccepted, ReceiveTx, ConnectTip, DisconnectTip,
         handlerVars, CanAccept, Balloting
<1> QED BY <1>2, <1>3, <1>4, <1>5, <1>6 DEF Idle

LEMMA IdleRivals == ASSUME IInv, RInv, Idle PROVE RInv'
<1>1. /\ now \in Int /\ LOCK_TIMEOUT \in Nat
      /\ \A t \in Txs : mapTxLockCandidates[t].created \in Int
      /\ \A v \in Votes : v.tx \in Txs
      /\ ownVotes \in SUBSET Votes
  BY InstantSendAssumption DEF IInv, TypeOK, Candidate, Votes
<1>2. WholeOK(mapTxLockCandidates)'
  BY DEF Idle, RInv, RivalsOK, WholeOK
<1>3. \A o : SpentDeep(o) => SpentDeep(o)'
  BY DEF Idle, SpentDeep
<1>4. RecordedOK(mapTxLockCandidates, mapVotedOutpoints)'
  BY <1>3 DEF Idle, RInv, RivalsOK, RecordedOK
<1>5. DoubleOK(mapTxLockCandidates)'
  BY DEF Idle, RInv, RivalsOK, DoubleOK
<1>6. \A t \in Txs : IsTimedOut(mapTxLockCandidates[t].created)
                        => IsTimedOut(mapTxLockCandidates[t].created)'
  BY <1>1 DEF Idle, IsTimedOut
<1>7. OrphansOK(mapTxLockCandidates, mapTxLockVotesOrphan)'
  BY <1>1, <1>6 DEF Idle, RInv, OrphansOK
<1>8. OwnOK(mapTxLockCandidates, mapTxLockVotes, mapTxLockVotesOrphan, msgVotes)'
  <2>1. OwnOK(mapTxLockCandidates, mapTxLockVotes, mapTxLockVotesOrphan, msgVotes)
    BY DEF RInv
  <2>2. (\A t \in Txs : /\ mapTxLockCandidates[t].created <= now
                        /\ \A o \in Outpoints : <<o, Self>> \notin mapTxLockCandidates[t].votes)'
    <3>1. \A t \in Txs : /\ mapTxLockCandidates[t].created <= now
                         /\ \A o \in Outpoints : <<o, Self>> \notin mapTxLockCandidates[t].votes
      BY <2>1 DEF OwnOK
    <3> QED BY <1>1, <3>1 DEF Idle
  <2>3. (\A v \in Votes : v.smartnode = Self =>
            /\ mapTxLockVotesOrphan[v] = -1
            /\ v \notin ownVotes => mapTxLockVotes[v].state = "none" /\ v \notin msgVotes)'
    BY <2>1 DEF OwnOK, Idle
  <2>4. ASSUME NEW v \in ownVotes
        PROVE  (/\ v.smartnode = Self /\ Self \in quorum[v.outpoint]
                /\ \/ SpentDeep(v.outpoint)
                   \/ /\ mapTxLockCandidates[v.tx].state = "requested"
                      /\ \/ IsTimedOut(mapTxLockCandidates[v.tx].created)
                         \/ Hidden(v, mapTxLockCandidates, mapTxLockVotes, msgVotes))'
    <3>1. /\ v \in Votes /\ v.tx \in Txs
          /\ v.smartnode = Self /\ Self \in quorum[v.outpoint]
          /\ \/ SpentDeep(v.outpoint)
             \/ /\ mapTxLockCandidates[v.tx].state = "requested"
                /\ \/ IsTimedOut(mapTxLockCandidates[v.tx].created)
                   \/ Hidden(v, mapTxLockCandidates, mapTxLockVotes, msgVotes)
      BY <1>1, <2>1 DEF OwnOK
    <3>2. Hidden(v, mapTxLockCandidates, mapTxLockVotes, msgVotes)
             => Hidden(v, mapTxLockCandidates, mapTxLockVotes, msgVotes)'
      BY <3>1 DEF Hidden, Idle
    <3>3. mapTxLockCandidates[v.tx].state = "requested"
             => (mapTxLockCandidates[v.tx].state = "requested")'
      BY <3>1 DEF Idle
    <3>4. (v.smartnode = Self /\ Self \in quorum[v.outpoint])'
      BY <3>1 DEF Idle
    <3> QED BY <1>3, <1>6, <3>1, <3>2, <3>3, <3>4
  <2>5. ownVotes' = ownVotes
    BY DEF Idle
  <2> QED BY <2>2, <2>3, <2>4, <2>5 DEF OwnOK
<1>9. HeldOK'
  BY DEF HeldOK, RInv, Idle, Balloting, LockConflicts
<1>10. (0 <= now /\ 0 <= restarts)'
  BY <1>1 DEF RInv, Idle
<1> QED BY <1>2, <1>4, <1>5, <1>7, <1>8, <1>9, <1>10 DEF RInv, RivalsOK

\* Vote() leaves an entry for every vote that it signs, so no echo is counted in a
\* candidate before it has timed out.
LEMMA OwnVoteRivals == ASSUME IInv, RInv, Vote PROVE RInv' /\ UNCHANGED mapLockedOutpoints
<1> DEFINE c == mapTxLockCandidates[msgTx]
           mine == {o \in c.locks : /\ spork2
                                    /\ msgTx \in mapLockRequestAccepted
                                    /\ o \in Unspent(minedAt)
                                    /\ Self \in quorum[o]
                                    /\ ~AlreadyVoted(o)}
           new == {o \in mine : <<o, Self>> \notin c.votes}
           signed(v) == v.tx = msgTx /\ v.outpoint \in mine /\ v.smartnode = Self
<1>1. /\ UNCHANGED <<mapTxLockCandidates, mapLockedOutpoints, mapTxLockVotesOrphan, msgVotes,
                     quorum, minedAt, peak, now, restarts>>
      /\ pc = "ballot"
  BY DEF Vote, chainVars, nodeVars
<1>2. /\ msgTx \in Txs /\ now \in Int /\ c.locks \subseteq Outpoints
      /\ mapTxLockCandidates \in [Txs -> Candidate]
      /\ ownVotes \in SUBSET Votes
      /\ mapTxLockVotes \in [Votes -> VoteEntry]
  BY <1>1 DEF IInv, TypeOK, HandlerOK, Candidate
<1>3. CASE c.state = "none"
  <2>1. UNCHANGED <<ownVotes, mapTxLockVotes, mapVotedOutpoints>> /\ ~Balloting'
    BY <1>3 DEF Vote, Balloting
  <2>2. Idle
    BY <1>1, <2>1 DEF Idle, Buried
  <2> QED BY <1>1, <2>2, IdleRivals
<1>4. CASE c.state # "none"
  <2>1. /\ pc' = "finalize" /\ msgTx' = msgTx
        /\ ownVotes' = ownVotes \cup {v \in Votes : signed(v) /\ v.outpoint \in new}
        /\ mapTxLockVotes' = [v \in Votes |->
              IF signed(v) /\ mapTxLockVotes[v].state = "none"
              THEN [state |-> "vote", conf |-> NotInBlock, created |-> now]
              ELSE mapTxLockVotes[v]]
        /\ mapVotedOutpoints' = [o \in Outpoints |->
              mapVotedOutpoints[o] \cup IF o \in new THEN {msgTx} ELSE {}]
    BY <1>4 DEF Vote
  <2>2. OwnOK(mapTxLockCandidates, mapTxLockVotes, mapTxLockVotesOrphan, msgVotes)
    BY DEF RInv
  <2>3. \A t \in Txs : /\ mapTxLockCandidates[t].created <= now
                       /\ \A o \in Outpoints : <<o, Self>> \notin mapTxLockCandidates[t].votes
    BY <2>2 DEF OwnOK
  <2>4. new = mine
    BY <1>2, <2>3
  <2>5. \A v \in Votes : signed(v) =>
           /\ Self \in quorum[v.outpoint] /\ v.tx = msgTx /\ v.smartnode = Self
           /\ mapTxLockCandidates[v.tx].state = "requested"
    BY <1>2 DEF IInv, MapsOK, CandidatesOK
  <2>6. ownVotes' = ownVotes \cup {v \in Votes : signed(v)}
    BY <2>1, <2>4
  <2> HIDE DEF signed, new, mine, c
  <2>7. /\ \A o \in Outpoints : mapVotedOutpoints[o] \subseteq mapVotedOutpoints'[o]
        /\ \A v \in Votes : ~(signed(v) /\ mapTxLockVotes[v].state = "none")
              => mapTxLockVotes'[v] = mapTxLockVotes[v]
        /\ \A v \in Votes : signed(v) /\ mapTxLockVotes[v].state = "none"
              => mapTxLockVotes'[v] = [state |-> "vote", conf |-> NotInBlock, created |-> now]
    BY <2>1
  <2>8. \A o : SpentDeep(o)' <=> SpentDeep(o)
    BY <1>1 DEF SpentDeep, Buried
  <2>9. RivalsOK(mapTxLockCandidates, mapVotedOutpoints)'
    BY <1>1, <2>7, <2>8 DEF RInv, RivalsOK, WholeOK, RecordedOK, DoubleOK
  <2>10. OrphansOK(mapTxLockCandidates, mapTxLockVotesOrphan)'
    BY <1>1 DEF RInv, OrphansOK, IsTimedOut
  <2>11. \A v \in Votes : v.smartnode = Self =>
            /\ mapTxLockVotesOrphan[v] = -1
            /\ v \notin ownVotes => mapTxLockVotes[v].state = "none" /\ v \notin msgVotes
    BY <2>2 DEF OwnOK
  <2>12. (\A v \in Votes : v.smartnode = Self =>
            /\ mapTxLockVotesOrphan[v] = -1
            /\ v \notin ownVotes => mapTxLockVotes[v].state = "none" /\ v \notin msgVotes)'
    BY <1>1, <2>6, <2>7, <2>11
  <2>13. ASSUME NEW v \in ownVotes'
         PROVE  (/\ v.smartnode = Self /\ Self \in quorum[v.outpoint]
                 /\ \/ SpentDeep(v.outpoint)
                    \/ /\ mapTxLockCandidates[v.tx].state = "requested"
                       /\ \/ IsTimedOut(mapTxLockCandidates[v.tx].created)
                          \/ Hidden(v, mapTxLockCandidates, mapTxLockVotes, msgVotes))'
    <3>1. CASE v \in ownVotes
      <4>1. /\ v \in Votes /\ v.smartnode = Self /\ Self \in quorum[v.outpoint]
            /\ \/ SpentDeep(v.outpoint)
               \/ /\ mapTxLockCandidates[v.tx].state = "requested"
                  /\ \/ IsTimedOut(mapTxLockCandidates[v.tx].created)
                     \/ Hidden(v, mapTxLockCandidates, mapTxLockVotes, msgVotes)
        BY <1>2, <2>2, <3>1 DEF OwnOK
      <4>2. Hidden(v, mapTxLockCandidates, mapTxLockVotes, msgVotes)
               => Hidden(v, mapTxLockCandidates, mapTxLockVotes, msgVotes)'
        BY <1>1, <2>7, <4>1 DEF Hidden
      <4> QED BY <1>1, <2>8, <4>1, <4>2 DEF IsTimedOut
    <3>2. CASE v \notin ownVotes
      <4>1. v \in Votes /\ signed(v)
        BY <2>6, <3>2
      <4>2. /\ v.smartnode = Self /\ Self \in quorum[v.outpoint] /\ v.tx \in Txs
            /\ mapTxLockCandidates[v.tx].state = "requested"
        BY <1>2, <2>5, <4>1
      <4>3. /\ mapTxLockVotes'[v] = [state |-> "vote", conf |-> NotInBlock, created |-> now]
            /\ v \notin msgVotes
        BY <2>7, <2>11, <3>2, <4>1, <4>2
      <4>4. Hidden(v, mapTxLockCandidates, mapTxLockVotes, msgVotes)'
        BY <1>1, <2>3, <4>2, <4>3 DEF Hidden
      <4> QED BY <1>1, <4>2, <4>4
    <3> QED BY <3>1, <3>2
  <2>14. OwnOK(mapTxLockCandidates, mapTxLockVotes, mapTxLockVotesOrphan, msgVotes)'
    BY <1>1, <2>3, <2>12, <2>13 DEF OwnOK
  <2>15. HeldOK'
    BY <1>1, <2>1 DEF RInv, HeldOK, LockConflicts
  <2> QED BY <1>1, <2>9, <2>10, <2>14, <2>15 DEF RInv
<1> QED BY <1>3, <1>4

\* A restart forgets everything, also that this node has voted.
LEMMA RestartRivals == ASSUME IInv, RInv, Continuous, Restart PROVE RInv'
<1>1. /\ NoCandidate.votes = {} /\ NoCandidate.locks = {} /\ NoCandidate.created = 0
      /\ NoVote.state = "none"
  BY DEF NoCandidate, NoVote
<1>2. /\ mapTxLockCandidates' = [t \in Txs |-> NoCandidate]
      /\ mapTxLockVotes' = [v \in Votes |-> NoVote]
      /\ mapTxLockVotesOrphan' = [v \in Votes |-> -1]
      /\ msgVotes' = {} /\ pc' = "idle" /\ restarts' = restarts + 1
      /\ UNCHANGED <<ownVotes, now>>
      /\ restarts < MaxRestarts /\ restarts \in Int /\ now \in Int
      /\ 0 <= restarts /\ 0 <= now
  BY DEF Restart, RInv, IInv, TypeOK
<1>3. MaxRestarts # 0
  BY <1>2
<1>4. ownVotes = {}
  <2> SUFFICES ASSUME NEW v \in ownVotes PROVE FALSE
    OBVIOUS
  <2>1. quorum \in Quorums /\ v.outpoint \in Outpoints
    BY DEF IInv, TypeOK, Votes
  <2>2. Self \in quorum[v.outpoint]
    BY DEF RInv, OwnOK
  <2> QED BY <1>3, <2>1, <2>2 DEF Continuous, Observer
<1>5. RivalsOK(mapTxLockCandidates, mapVotedOutpoints)'
  BY <1>1, <1>2 DEF RivalsOK, WholeOK, RecordedOK, DoubleOK
<1>6. OrphansOK(mapTxLockCandidates, mapTxLockVotesOrphan)'
  BY <1>2 DEF OrphansOK
<1>7. OwnOK(mapTxLockCandidates, mapTxLockVotes, mapTxLockVotesOrphan, msgVotes)'
  BY <1>1, <1>2, <1>4 DEF OwnOK
<1> QED BY <1>2, <1>5, <1>6, <1>7 DEF RInv, HeldOK

\* Every step is of one of these kinds.
LEMMA RivalSteps ==
    ASSUME IInv, SInv, RInv, Premises, [Next]_vars
    PROVE  OnRivals \/ Idle \/ Vote \/ Restart
<1>1. /\ Steady /\ Shallow /\ FixedRanks /\ Majority /\ OwnKey /\ TimeoutsOrdered
  BY DEF Premises
<1>2. ~RanksChange
  BY <1>1 DEF RanksChange, FixedRanks, IInv, TypeOK
<1>3. ~SporkOrSyncChange
  BY <1>1 DEF SporkOrSyncChange, Steady
<1>4. CASE \/ \E t \in LockRequests : \/ ReceiveTxLockRequest(t)
                                      \/ RelayWalletTransaction(t)
                                      \/ SendRawTransaction(t)
           \/ FinalizeCopy
           \/ \E v \in Votes : ProcessTxLockVote(v)
           \/ CheckAndRemove
  BY <1>1, <1>4, HandlerOnRivals
<1>5. CASE \/ RawTransactionRefused \/ LockRequestRefused
           \/ \E v \in PeerVotes \cup ownVotes : ReceiveTxLockVote(v)
           \/ \E t \in Txs : LimitMempoolSize(t)
           \/ \E b \in Blocks : AcceptBlock(b)
           \/ UpdatedBlockTip \/ Tick \/ UNCHANGED vars
  BY <1>1, <1>5, QuietIdle
<1>6. CASE \/ LockRequestAccepted \/ RawTransactionAccepted
           \/ \E t \in Txs : ReceiveTx(t)
           \/ \E b \in Blocks : ConnectTip(b)
           \/ DisconnectTip
  BY <1>1, <1>6, ChainIdle
<1> QED BY <1>2, <1>3, <1>4, <1>5, <1>6 DEF Next

LEMMA RivalsInit == ASSUME Init PROVE RInv
<1>1. /\ NoCandidate.votes = {} /\ NoCandidate.locks = {} /\ NoCandidate.created = 0
      /\ NoVote.state = "none"
  BY DEF NoCandidate, NoVote
<1>2. RivalsOK(mapTxLockCandidates, mapVotedOutpoints)
  BY <1>1 DEF Init, RivalsOK, WholeOK, RecordedOK, DoubleOK
<1>3. OrphansOK(mapTxLockCandidates, mapTxLockVotesOrphan)
  BY DEF Init, OrphansOK
<1>4. OwnOK(mapTxLockCandidates, mapTxLockVotes, mapTxLockVotesOrphan, msgVotes)
  BY <1>1 DEF Init, OwnOK
<1> QED BY <1>2, <1>3, <1>4 DEF RInv, Init, HeldOK

LEMMA RivalsNext ==
    ASSUME IInv, SInv, RInv, Premises, [Next]_vars
    PROVE  RInv'
<1>1. CASE OnRivals
  BY <1>1, OnRivalsKept
<1>2. CASE Idle
  BY <1>2, IdleRivals
<1>3. CASE Vote
  BY <1>3, OwnVoteRivals
<1>4. CASE Restart
  BY <1>4, RestartRivals DEF Premises
<1> QED BY <1>1, <1>2, <1>3, <1>4, RivalSteps

-----------------------------------------------------------------------------
(* The theorems *)

\* The invariant, for ranks that stand still.
THEOREM RivalsInductive == ASSUME Premises PROVE Spec => []RInv
<1>1. Init => RInv
  BY RivalsInit
<1>2. IInv /\ SInv /\ RInv /\ [Next]_vars => RInv'
  BY RivalsNext
<1>3. Steady
  BY DEF Premises
<1> QED BY <1>1, <1>2, <1>3, Inductive, SteadyInductive, PTL DEF Spec

\* Two conflicting transactions never both collect a ready lock on an outpoint,
\* whichever votes arrive twice, early or late, and whatever the cleanup forgets:
\* two majorities share a voter, and UpdateVotedOutpoints marked both candidates
\* when the second vote of that smartnode came.
THEOREM NeverTwoReady == ASSUME Premises PROVE Spec => []NoRivalReadyLocks
<1>1. IInv /\ RInv => NoRivalReadyLocks
  <2> SUFFICES ASSUME IInv, RInv, NEW o \in Outpoints, NEW t \in Txs, NEW s \in Txs, t # s,
                      IsReady(mapTxLockCandidates[t], o), IsReady(mapTxLockCandidates[s], o)
               PROVE  FALSE
    BY DEF NoRivalReadyLocks
  <2>1. /\ TypeOK /\ mapTxLockCandidates \in [Txs -> Candidate]
        /\ WholeOK(mapTxLockCandidates) /\ DoubleOK(mapTxLockCandidates)
    BY DEF IInv, TypeOK, RInv, RivalsOK
  <2>2. Cardinality(VotersOf(mapTxLockCandidates[s], o)) >= SIGNATURES_REQUIRED
    BY DEF IsReady
  <2>3. Majority
    BY DEF Premises
  <2> QED BY <2>1, <2>2, <2>3, OneMajority
<1> QED BY <1>1, Inductive, RivalsInductive, PTL

\* A lock is released only by a restart or once a transaction that spends the
\* outpoint is buried: ResolveConflicts never has two locks to cancel, although a
\* lock may rest on a vote of this node that no stored candidate holds.
THEOREM ReleasedOnlyWhenBuried == ASSUME Premises PROVE Spec => LocksReleasedOnlyWhenBuried
<1> DEFINE Released == \A o \in Outpoints :
         mapLockedOutpoints[o] # NoTx /\ mapLockedOutpoints'[o] # mapLockedOutpoints[o] =>
           \/ restarts' # restarts
           \/ \E t \in Txs : /\ o \in Inputs[t]
                             /\ minedAt[t] # NotInBlock
                             /\ peak - minedAt[t] > KeepLock
<1>1. IInv /\ SInv /\ RInv /\ [Next]_vars => [Released]_vars
  <2> SUFFICES ASSUME IInv, SInv, RInv, [Next]_vars PROVE Released
    OBVIOUS
  <2>1. CASE OnRivals
    BY <2>1 DEF OnRivals, RivalOutcome, SpentDeep, Buried
  <2>2. CASE Idle
    BY <2>2 DEF Idle
  <2>3. CASE Vote
    BY <2>3, OwnVoteRivals
  <2>4. CASE Restart
    BY <2>4 DEF Restart, IInv, TypeOK
  <2> QED BY <2>1, <2>2, <2>3, <2>4, RivalSteps
<1>2. Steady
  BY DEF Premises
<1> QED BY <1>1, <1>2, Inductive, SteadyInductive, RivalsInductive, PTL
        DEF Spec, LocksReleasedOnlyWhenBuried
=============================================================================
