-------------------------- MODULE InstantSendProofs --------------------------
(***************************************************************************)
(* Proofs about InstantSend, for all sets of transactions, outpoints and   *)
(* smartnodes and all thresholds, timeouts and bounds.                     *)
(***************************************************************************)
EXTENDS InstantSend, FiniteSetTheorems, TLAPS

-----------------------------------------------------------------------------
(* The inductive invariant *)

\* The part of TypeOK that is about the maps of CInstantSend.
MapsTypeOK ==
    /\ mapTxLockCandidates \in [Txs -> Candidate]
    /\ mapVotedOutpoints \in [Outpoints -> SUBSET Txs]
    /\ mapLockedOutpoints \in [Outpoints -> Txs \cup {NoTx}]
    /\ mapLockRequestAccepted \subseteq Txs
    /\ mapLockRequestRejected \subseteq Txs
    /\ mapTxLockVotes \in [Votes -> VoteEntry]
    /\ mapTxLockVotesOrphan \in [Votes -> Int]

\* A candidate locks inputs of its transaction only; it has outpoints only
\* with its request, and with its request it has all of them unless the
\* request arrived too late.
CandidatesOK(cand, time) ==
    \A t \in Txs :
        /\ cand[t].locks \subseteq Inputs[t]
        /\ cand[t].locks # {} => cand[t].state = "requested"
        /\ cand[t].state = "requested" =>
              cand[t].locks = Inputs[t] \/ time - cand[t].created > LOCK_TIMEOUT

VotedOK(cand, voted) ==
    \A o \in Outpoints : \A t \in voted[o] :
        cand[t].state = "requested" /\ o \in cand[t].locks

LockedOK(cand, locked) ==
    \A o \in Outpoints : locked[o] # NoTx =>
        /\ cand[locked[o]].state = "requested"
        /\ o \in cand[locked[o]].locks

\* This node, if it has relayed a vote for t on o.
OwnVoter(own, t, o) ==
    {v.smartnode : v \in {w \in own : w.tx = t /\ w.outpoint = o}}

BackedOK(cand, locked, own) ==
    \A o \in Outpoints : locked[o] # NoTx =>
        Cardinality(VotersOf(cand[locked[o]], o) \cup OwnVoter(own, locked[o], o))
            >= SIGNATURES_REQUIRED

MapsOK(cand, voted, locked, own) ==
    /\ CandidatesOK(cand, now)
    /\ VotedOK(cand, voted)
    /\ LockedOK(cand, locked)
    /\ BackedOK(cand, locked, own)

\* What the handler knows about the request it is working on.
HandlerOK ==
    /\ pc \in {"accept", "ballot", "finalize"} => msgTx \in Txs
    /\ pc = "ballot" => \/ mapTxLockCandidates[msgTx].state = "none"
                        \/ mapTxLockCandidates[msgTx].conf = NotInBlock
    /\ pc = "finalize" => mapTxLockCandidates[msgTx].conf = NotInBlock
    /\ pc = "finalize" =>
          copy.votes \subseteq mapTxLockCandidates[msgTx].votes \cup
              {<<v.outpoint, v.smartnode>> : v \in {w \in ownVotes : w.tx = msgTx}}

IInv == /\ TypeOK
        /\ MapsOK(mapTxLockCandidates, mapVotedOutpoints, mapLockedOutpoints, ownVotes)
        /\ MempoolRespectsLocks
        /\ HandlerOK
        /\ CopyIsCurrent

-----------------------------------------------------------------------------
(* Lemmas about the operators that write the maps *)

\* More votes never undo the backing of a lock.
LEMMA VotersGrow ==
    ASSUME NEW A \in SUBSET Smartnodes, NEW B \in SUBSET Smartnodes, A \subseteq B,
           Cardinality(A) >= SIGNATURES_REQUIRED
    PROVE  Cardinality(B) >= SIGNATURES_REQUIRED
<1>1. IsFiniteSet(Smartnodes) /\ SIGNATURES_REQUIRED \in Nat
  BY InstantSendAssumption
<1>2. IsFiniteSet(B)
  BY <1>1, FS_Subset
<1>3. Cardinality(A) <= Cardinality(B)
  BY <1>2, FS_Subset
<1>4. Cardinality(A) \in Nat /\ Cardinality(B) \in Nat
  BY <1>1, <1>2, FS_Subset, FS_CardinalityType
<1> QED
  BY <1>1, <1>3, <1>4

\* The cleanup keeps the maps consistent: a candidate takes its locked and
\* voted outpoints with it (CheckAndRemove, instantx.cpp:720-744).
LEMMA RemoveExpiredKeeps ==
    ASSUME TypeOK,
           NEW cand \in [Txs -> Candidate],
           NEW voted \in [Outpoints -> SUBSET Txs],
           NEW orphans \in [Votes -> Int],
           NEW reject \in SUBSET Txs,
           MapsOK(cand, voted, mapLockedOutpoints, ownVotes),
           RemoveExpired(cand, voted, orphans, reject)
    PROVE  /\ MapsTypeOK'
           /\ MapsOK(mapTxLockCandidates', mapVotedOutpoints',
                     mapLockedOutpoints', ownVotes)
           /\ \A o \in Outpoints : mapLockedOutpoints'[o] \in {mapLockedOutpoints[o], NoTx}
           /\ \A t \in Txs : cand[t].state = "none" \/ cand[t].conf = NotInBlock
                             => mapTxLockCandidates'[t] = cand[t]
<1> DEFINE gone  == ExpiredCandidates(cand)
           freed == FreedOutpoints(cand)
<1>1. /\ mapTxLockCandidates' = [t \in Txs |-> IF t \in gone THEN NoCandidate ELSE cand[t]]
      /\ mapLockedOutpoints' = [o \in Outpoints |->
             IF o \in freed THEN NoTx ELSE mapLockedOutpoints[o]]
      /\ mapVotedOutpoints' = [o \in Outpoints |-> IF o \in freed THEN {} ELSE voted[o]]
  BY DEF RemoveExpired
<1>2. \A t \in gone : \A o \in cand[t].locks : o \in freed
  BY DEF FreedOutpoints
<1>3. NoCandidate \in Candidate /\ NoVote \in VoteEntry
  BY DEF NoCandidate, Candidate, NoVote, VoteEntry, NotInBlock
<1>4. MapsTypeOK'
  <2>1. mapTxLockCandidates' \in [Txs -> Candidate]
    BY <1>1, <1>3
  <2>2. mapVotedOutpoints' \in [Outpoints -> SUBSET Txs]
    BY <1>1
  <2>3. mapLockedOutpoints' \in [Outpoints -> Txs \cup {NoTx}]
    BY <1>1 DEF TypeOK
  <2>4. mapLockRequestAccepted' \subseteq Txs /\ mapLockRequestRejected' \subseteq Txs
    BY DEF RemoveExpired, TypeOK
  <2>5. mapTxLockVotes' \in [Votes -> VoteEntry]
    BY <1>3 DEF RemoveExpired, TypeOK
  <2>6. mapTxLockVotesOrphan' \in [Votes -> Int]
    BY DEF RemoveExpired
  <2> QED BY <2>1, <2>2, <2>3, <2>4, <2>5, <2>6 DEF MapsTypeOK
<1>5. CandidatesOK(mapTxLockCandidates', now)
  BY <1>1 DEF MapsOK, CandidatesOK, NoCandidate
<1>6. VotedOK(mapTxLockCandidates', mapVotedOutpoints')
  BY <1>1, <1>2 DEF MapsOK, VotedOK
<1>7. LockedOK(mapTxLockCandidates', mapLockedOutpoints')
  BY <1>1, <1>2, InstantSendAssumption DEF MapsOK, LockedOK, TypeOK
<1>8. BackedOK(mapTxLockCandidates', mapLockedOutpoints', ownVotes)
  <2> SUFFICES ASSUME NEW o \in Outpoints, mapLockedOutpoints'[o] # NoTx
               PROVE  Cardinality(VotersOf(mapTxLockCandidates'[mapLockedOutpoints'[o]], o)
                        \cup OwnVoter(ownVotes, mapLockedOutpoints'[o], o))
                        >= SIGNATURES_REQUIRED
    BY DEF BackedOK
  <2>1. /\ mapLockedOutpoints'[o] = mapLockedOutpoints[o]
        /\ mapLockedOutpoints[o] \in Txs
    BY <1>1 DEF TypeOK
  <2>2. mapTxLockCandidates'[mapLockedOutpoints[o]] = cand[mapLockedOutpoints[o]]
    BY <1>1, <1>2, <2>1 DEF MapsOK, LockedOK
  <2> QED BY <2>1, <2>2 DEF MapsOK, BackedOK
<1>9. \A o \in Outpoints : mapLockedOutpoints'[o] \in {mapLockedOutpoints[o], NoTx}
  BY <1>1
<1>10. \A t \in Txs : cand[t].state = "none" \/ cand[t].conf = NotInBlock
                         => mapTxLockCandidates'[t] = cand[t]
  BY <1>1 DEF ExpiredCandidates, IsExpired
<1> QED BY <1>4, <1>5, <1>6, <1>7, <1>8, <1>9, <1>10 DEF MapsOK

\* Setting confirmed heights does not matter to the consistency of the maps.
LEMMA HeightsDoNotMatter ==
    ASSUME NEW cand \in [Txs -> Candidate], NEW cand2 \in [Txs -> Candidate],
           NEW voted \in [Outpoints -> SUBSET Txs],
           NEW locked \in [Outpoints -> Txs \cup {NoTx}], NEW own,
           MapsOK(cand, voted, locked, own),
           \A t \in Txs : cand2[t] = [cand[t] EXCEPT !.conf = cand2[t].conf]
    PROVE  MapsOK(cand2, voted, locked, own)
<1>1. \A t \in Txs : /\ cand2[t].state = cand[t].state
                     /\ cand2[t].locks = cand[t].locks
                     /\ cand2[t].votes = cand[t].votes
                     /\ cand2[t].created = cand[t].created
  BY DEF Candidate
<1>2. CandidatesOK(cand2, now) /\ VotedOK(cand2, voted) /\ LockedOK(cand2, locked)
  BY <1>1 DEF MapsOK, CandidatesOK, VotedOK, LockedOK
<1>3. \A t \in Txs : \A o \in Outpoints : VotersOf(cand2[t], o) = VotersOf(cand[t], o)
  BY <1>1 DEF VotersOf
<1>4. BackedOK(cand2, locked, own)
  BY <1>3 DEF MapsOK, BackedOK
<1> QED BY <1>2, <1>4 DEF MapsOK

\* The pairs of the votes this node has relayed for t.
OwnPairs(own, t) == {<<v.outpoint, v.smartnode>> : v \in {w \in own : w.tx = t}}

\* The dropping of two conflicting locks (instantx.cpp:608-636).
LEMMA DropBothKeeps ==
    ASSUME TypeOK,
           NEW t \in Txs, NEW h \in Txs,
           NEW cand \in [Txs -> Candidate],
           NEW voted \in [Outpoints -> SUBSET Txs],
           NEW orphans \in [Votes -> Int],
           MapsOK(cand, voted, mapLockedOutpoints, ownVotes),
           DropBoth(t, h, cand, voted, orphans)
    PROVE  /\ MapsTypeOK'
           /\ MapsOK(mapTxLockCandidates', mapVotedOutpoints',
                     mapLockedOutpoints', ownVotes)
           /\ \A o \in Outpoints : mapLockedOutpoints'[o] \in {mapLockedOutpoints[o], NoTx}
<1> DEFINE expired == [s \in Txs |->
               IF s \in {t, h} THEN SetConfirmedHeight(cand[s], 0) ELSE cand[s]]
           missing == cand[t].state = "none" \/ cand[h].state = "none"
<1>1. expired \in [Txs -> Candidate]
  BY DEF Candidate, SetConfirmedHeight
<1>2. \A s \in Txs : expired[s] = [cand[s] EXCEPT !.conf = expired[s].conf]
  BY DEF Candidate, SetConfirmedHeight
<1>3. MapsOK(expired, voted, mapLockedOutpoints, ownVotes)
  <2> HIDE DEF expired
  <2> QED BY <1>1, <1>2, HeightsDoNotMatter DEF TypeOK
<1>4. CASE ~missing /\ listSynced
  <2>1. RemoveExpired(expired, voted, orphans, {t, h})
    BY <1>4 DEF DropBoth
  <2> HIDE DEF expired
  <2> QED BY <2>1, <1>1, <1>3, RemoveExpiredKeeps
<1>5. CASE ~(~missing /\ listSynced)
  <2>1. /\ mapTxLockCandidates' = IF missing THEN cand ELSE expired
        /\ mapVotedOutpoints' = voted
        /\ mapTxLockVotesOrphan' = orphans
        /\ mapLockRequestRejected' \subseteq Txs
        /\ mapLockedOutpoints' = mapLockedOutpoints
        /\ mapLockRequestAccepted' = mapLockRequestAccepted
        /\ mapTxLockVotes' = mapTxLockVotes
    BY <1>5 DEF DropBoth, TypeOK
  <2> HIDE DEF expired, missing
  <2>2. MapsTypeOK'
    BY <2>1, <1>1 DEF MapsTypeOK, TypeOK
  <2>3. MapsOK(mapTxLockCandidates', voted, mapLockedOutpoints, ownVotes)
    BY <2>1, <1>3
  <2> QED BY <2>1, <2>2, <2>3
<1> QED BY <1>4, <1>5

\* A lock is taken only when it is backed and no memory pool transaction
\* spends its outpoints (TryToFinalizeLockCandidate, instantx.cpp:512-529).
LEMMA TryToFinalizeKeeps ==
    ASSUME TypeOK, MempoolRespectsLocks,
           NEW t \in Txs, NEW c \in Candidate,
           NEW cand \in [Txs -> Candidate],
           NEW voted \in [Outpoints -> SUBSET Txs],
           NEW orphans \in [Votes -> Int],
           MapsOK(cand, voted, mapLockedOutpoints, ownVotes),
           c.locks = cand[t].locks,
           c.votes \subseteq cand[t].votes \cup OwnPairs(ownVotes, t),
           TryToFinalizeLockCandidate(t, c, cand, voted, orphans)
    PROVE  /\ MapsTypeOK'
           /\ MapsOK(mapTxLockCandidates', mapVotedOutpoints',
                     mapLockedOutpoints', ownVotes)
           /\ \A s \in mempool : \A o \in Inputs[s] : mapLockedOutpoints'[o] \in {s, NoTx}
<1> DEFINE ready == /\ spork2
                    /\ IsAllOutPointsReady(c)
                    /\ ~IsLockedInstantSendTransaction(t, cand, mapLockedOutpoints)
           Kept == /\ mapTxLockCandidates' = cand
                   /\ mapVotedOutpoints' = voted
                   /\ mapTxLockVotesOrphan' = orphans
                   /\ mapLockRequestAccepted' = mapLockRequestAccepted
                   /\ mapLockRequestRejected' = mapLockRequestRejected
                   /\ mapTxLockVotes' = mapTxLockVotes
<1>0. /\ mapLockedOutpoints \in [Outpoints -> Txs \cup {NoTx}]
      /\ Inputs \in [Txs -> SUBSET Outpoints]
      /\ mempool \subseteq Txs
  BY InstantSendAssumption DEF TypeOK
<1>1. CASE Kept /\ mapLockedOutpoints' = mapLockedOutpoints
  <2>1. MapsTypeOK'
    BY <1>1 DEF MapsTypeOK, TypeOK
  <2> QED BY <1>1, <2>1 DEF MempoolRespectsLocks
<1>2. ASSUME NEW h \in Txs, DropBoth(t, h, cand, voted, orphans)
      PROVE  /\ MapsTypeOK'
             /\ MapsOK(mapTxLockCandidates', mapVotedOutpoints',
                       mapLockedOutpoints', ownVotes)
             /\ \A s \in mempool : \A o \in Inputs[s] : mapLockedOutpoints'[o] \in {s, NoTx}
  <2>1. /\ MapsTypeOK'
        /\ MapsOK(mapTxLockCandidates', mapVotedOutpoints', mapLockedOutpoints', ownVotes)
        /\ \A o \in Outpoints : mapLockedOutpoints'[o] \in {mapLockedOutpoints[o], NoTx}
    BY <1>2, DropBothKeeps
  <2> QED BY <2>1, <1>0 DEF MempoolRespectsLocks
<1>3. CASE /\ Kept
           /\ IsAllOutPointsReady(c)
           /\ <<"ok", NoTx>> \in ResolveConflicts(t)
           /\ LockTransactionInputs(t, c)
  <2>1. \A o \in Inputs[t] : Spenders(o) \ {t} = {}
    <3>1. LockConflicts(t) = {}
          /\ {o \in Inputs[t] \ LockConflicts(t) : Spenders(o) \ {t} # {}} = {}
      BY <1>3 DEF ResolveConflicts
    <3> QED BY <3>1
  <2>2. mapLockedOutpoints' = [o \in Outpoints |->
            IF o \in c.locks /\ mapLockedOutpoints[o] = NoTx
            THEN t ELSE mapLockedOutpoints[o]]
    BY <1>3 DEF LockTransactionInputs
  <2>3. c.locks \subseteq Inputs[t]
    BY DEF MapsOK, CandidatesOK
  <2>4. MapsTypeOK'
    BY <1>3, <2>2, <1>0 DEF MapsTypeOK, TypeOK
  <2>5. \A s \in mempool : \A o \in Inputs[s] : mapLockedOutpoints'[o] \in {s, NoTx}
    BY <2>1, <2>2, <2>3, <1>0 DEF Spenders, MempoolRespectsLocks
  <2>6. LockedOK(cand, mapLockedOutpoints')
    BY <2>2, <1>0 DEF MapsOK, LockedOK, CandidatesOK
  <2>7. BackedOK(cand, mapLockedOutpoints', ownVotes)
    <3> SUFFICES ASSUME NEW o \in Outpoints, mapLockedOutpoints'[o] # NoTx
                 PROVE  Cardinality(VotersOf(cand[mapLockedOutpoints'[o]], o)
                          \cup OwnVoter(ownVotes, mapLockedOutpoints'[o], o))
                          >= SIGNATURES_REQUIRED
      BY DEF BackedOK
    <3>1. CASE mapLockedOutpoints[o] # NoTx
      BY <3>1, <2>2 DEF MapsOK, BackedOK
    <3>2. CASE mapLockedOutpoints[o] = NoTx
      <4>1. o \in c.locks /\ mapLockedOutpoints'[o] = t
        BY <3>2, <2>2
      <4>2. Cardinality(VotersOf(c, o)) >= SIGNATURES_REQUIRED
        BY <4>1, <1>3 DEF IsAllOutPointsReady, IsReady
      <4>3. VotersOf(c, o) \subseteq VotersOf(cand[t], o) \cup OwnVoter(ownVotes, t, o)
        BY DEF VotersOf, OwnVoter, OwnPairs
      <4>4. OwnVoter(ownVotes, t, o) \subseteq Smartnodes
        BY DEF OwnVoter, TypeOK, Votes
      <4> QED BY <4>1, <4>2, <4>3, <4>4, VotersGrow DEF VotersOf
    <3> QED BY <3>1, <3>2
  <2> QED BY <1>3, <2>4, <2>5, <2>6, <2>7 DEF MapsOK
<1>4. CASE ready
  <2>1. PICK r \in ResolveConflicts(t) :
          IF r[1] = "drop"
          THEN DropBoth(t, r[2], cand, voted, orphans)
          ELSE /\ Kept
               /\ IF r[1] = "ok" THEN LockTransactionInputs(t, c)
                                 ELSE UNCHANGED mapLockedOutpoints
    BY <1>4 DEF TryToFinalizeLockCandidate
  <2>2. \/ r = <<"ok", NoTx>>
        \/ r = <<"fail", NoTx>>
        \/ r[1] = "drop" /\ r[2] \in Txs
    BY <1>0 DEF ResolveConflicts, LockConflicts
  <2> QED BY <2>1, <2>2, <1>1, <1>2, <1>3, <1>4
<1>5. CASE ~ready
  BY <1>1, <1>5 DEF TryToFinalizeLockCandidate
<1> QED BY <1>4, <1>5

\* Counting votes of candidates that have their outpoints keeps the maps
\* consistent (UpdateVotedOutpoints and AddVote).
LEMMA AddVotesKeeps ==
    ASSUME NEW cand \in [Txs -> Candidate],
           NEW voted \in [Outpoints -> SUBSET Txs],
           NEW locked \in [Outpoints -> Txs \cup {NoTx}],
           NEW own \in SUBSET Votes,
           NEW vs \in SUBSET Votes,
           \A v \in vs : /\ cand[v.tx].state = "requested"
                         /\ v.outpoint \in cand[v.tx].locks,
           MapsOK(cand, voted, locked, own)
    PROVE  /\ AddVotes(vs, cand, voted) \in [Txs -> Candidate]
           /\ Votings(vs, voted) \in [Outpoints -> SUBSET Txs]
           /\ MapsOK(AddVotes(vs, cand, voted), Votings(vs, voted), locked, own)
           /\ \A t \in Txs : AddVotes(vs, cand, voted)[t].locks = cand[t].locks
<1> DEFINE cand2 == AddVotes(vs, cand, voted)
<1>1. \A v \in vs : v.tx \in Txs /\ v.outpoint \in Outpoints /\ v.smartnode \in Smartnodes
  BY DEF Votes
<1>2. /\ cand2 \in [Txs -> Candidate]
      /\ \A t \in Txs : /\ cand2[t].state = cand[t].state
                        /\ cand2[t].locks = cand[t].locks
                        /\ cand2[t].created = cand[t].created
                        /\ cand[t].votes \subseteq cand2[t].votes
  <2> DEFINE added(t) == {<<v.outpoint, v.smartnode>> :
                 v \in {w \in vs : w.tx = t /\ w.outpoint \in cand[t].locks}}
             clash(v, t) == /\ t # v.tx
                            /\ t \in Votings(vs, voted)[v.outpoint]
                            /\ <<v.outpoint, v.smartnode>> \in cand[t].votes \cup added(t)
             attacked(t) == {o \in cand[t].locks : \E v \in vs :
                               /\ v.outpoint = o
                               /\ \/ clash(v, t)
                                  \/ v.tx = t /\ \E s \in Txs : clash(v, s)}
  <2>1. cand2 = [t \in Txs |-> [cand[t] EXCEPT !.votes = cand[t].votes \cup added(t),
                                               !.attacked = @ \cup attacked(t)]]
    BY DEF AddVotes
  <2>2. \A t \in Txs : added(t) \subseteq Pairs /\ attacked(t) \subseteq cand[t].locks
    BY <1>1 DEF Pairs
  <2>3. cand2 \in [Txs -> Candidate]
    <3> HIDE DEF added, attacked, cand2
    <3> SUFFICES ASSUME NEW t \in Txs
                 PROVE  [cand[t] EXCEPT !.votes = cand[t].votes \cup added(t),
                                        !.attacked = @ \cup attacked(t)] \in Candidate
      BY <2>1
    <3>1. cand[t] \in Candidate
      OBVIOUS
    <3>2. /\ cand[t].votes \cup added(t) \in SUBSET Pairs
          /\ cand[t].attacked \cup attacked(t) \in SUBSET Outpoints
      BY <2>2, <3>1 DEF Candidate
    <3> QED BY <3>1, <3>2 DEF Candidate
  <2>4. ASSUME NEW t \in Txs
        PROVE  /\ cand2[t].state = cand[t].state
               /\ cand2[t].locks = cand[t].locks
               /\ cand2[t].created = cand[t].created
               /\ cand[t].votes \subseteq cand2[t].votes
    <3>1. cand[t] \in Candidate
      OBVIOUS
    <3> HIDE DEF added, attacked, cand2
    <3> QED BY <2>1, <3>1 DEF Candidate
  <2> QED BY <2>3, <2>4
<1>3. Votings(vs, voted) \in [Outpoints -> SUBSET Txs]
  BY <1>1 DEF Votings
<1> HIDE DEF cand2
<1>4. CandidatesOK(cand2, now) /\ LockedOK(cand2, locked)
  BY <1>2 DEF MapsOK, CandidatesOK, LockedOK
<1>5. VotedOK(cand2, Votings(vs, voted))
  <2> SUFFICES ASSUME NEW o \in Outpoints, NEW t \in Votings(vs, voted)[o]
               PROVE  cand2[t].state = "requested" /\ o \in cand2[t].locks
    BY DEF VotedOK
  <2>1. t \in voted[o] \/ \E v \in vs : v.outpoint = o /\ v.tx = t
    BY DEF Votings
  <2>2. cand[t].state = "requested" /\ o \in cand[t].locks
    BY <2>1 DEF MapsOK, VotedOK
  <2> QED BY <2>2, <1>2, <1>3
<1>6. BackedOK(cand2, locked, own)
  <2> SUFFICES ASSUME NEW o \in Outpoints, locked[o] # NoTx
               PROVE  Cardinality(VotersOf(cand2[locked[o]], o) \cup OwnVoter(own, locked[o], o))
                        >= SIGNATURES_REQUIRED
    BY DEF BackedOK
  <2>1. locked[o] \in Txs
    OBVIOUS
  <2>2. VotersOf(cand[locked[o]], o) \subseteq VotersOf(cand2[locked[o]], o)
    BY <1>2, <2>1 DEF VotersOf
  <2>3. /\ VotersOf(cand2[locked[o]], o) \subseteq Smartnodes
        /\ OwnVoter(own, locked[o], o) \subseteq Smartnodes
    BY DEF VotersOf, OwnVoter, Votes
  <2>4. Cardinality(VotersOf(cand[locked[o]], o) \cup OwnVoter(own, locked[o], o))
            >= SIGNATURES_REQUIRED
    BY DEF MapsOK, BackedOK
  <2> QED BY <2>2, <2>3, <2>4, VotersGrow
<1> QED BY <1>2, <1>3, <1>4, <1>5, <1>6 DEF MapsOK, cand2

\* A candidate that exists with its request is left alone by
\* CreateTxLockCandidate, so what rests on it stands.
LEMMA CreateCandidateKeeps ==
    ASSUME IInv, NEW t \in Txs
    PROVE  /\ CreateTxLockCandidate(t) \in [Txs -> Candidate]
           /\ MapsOK(CreateTxLockCandidate(t), mapVotedOutpoints, mapLockedOutpoints, ownVotes)
<1> DEFINE cand == mapTxLockCandidates
           cand2 == CreateTxLockCandidate(t)
           new == [NoCandidate EXCEPT !.state = "requested", !.locks = Inputs[t],
                                      !.created = now]
           filled == [cand[t] EXCEPT !.state = "requested",
                 !.locks = IF IsTimedOut(cand[t].created) THEN @ ELSE Inputs[t]]
           c2 == CASE cand[t].state = "none" -> new
                   [] cand[t].state = "empty" -> filled
                   [] OTHER -> cand[t]
<1>a. cand2 = [cand EXCEPT ![t] = c2]
  BY DEF CreateTxLockCandidate
<1>1. /\ cand \in [Txs -> Candidate]
      /\ mapVotedOutpoints \in [Outpoints -> SUBSET Txs]
      /\ mapLockedOutpoints \in [Outpoints -> Txs \cup {NoTx}]
      /\ MapsOK(cand, mapVotedOutpoints, mapLockedOutpoints, ownVotes)
      /\ Inputs \in [Txs -> SUBSET Outpoints]
      /\ now \in Int /\ LOCK_TIMEOUT \in Nat
  BY InstantSendAssumption DEF IInv, TypeOK
<1>2. /\ cand2 \in [Txs -> Candidate]
      /\ \A s \in Txs : s # t \/ cand[s].state = "requested" => cand2[s] = cand[s]
  <2>1. c2 \in Candidate /\ (cand[t].state = "requested" => c2 = cand[t])
    <3>1. new \in Candidate
      <4>1. NoCandidate \in Candidate
        BY DEF Candidate, NoCandidate, NotInBlock
      <4>2. Inputs[t] \in SUBSET Outpoints
        BY <1>1
      <4> QED BY <4>1, <4>2, <1>1 DEF Candidate
    <3>2. filled \in Candidate
      <4>1. cand[t] \in Candidate /\ Inputs[t] \in SUBSET Outpoints
        BY <1>1
      <4>2. \A l \in SUBSET Outpoints :
              [cand[t] EXCEPT !.state = "requested", !.locks = l] \in Candidate
        BY <4>1 DEF Candidate
      <4>3. (IF IsTimedOut(cand[t].created) THEN cand[t].locks ELSE Inputs[t])
              \in SUBSET Outpoints
        BY <4>1 DEF Candidate
      <4> QED BY <4>2, <4>3
    <3> HIDE DEF new, filled
    <3> QED BY <1>1, <3>1, <3>2
  <2> HIDE DEF c2, cand2
  <2> QED BY <1>1, <1>a, <2>1
<1>3. CandidatesOK(cand2, now)
  <2> SUFFICES ASSUME NEW s \in Txs
               PROVE  /\ cand2[s].locks \subseteq Inputs[s]
                      /\ cand2[s].locks # {} => cand2[s].state = "requested"
                      /\ cand2[s].state = "requested" =>
                           cand2[s].locks = Inputs[s] \/ now - cand2[s].created > LOCK_TIMEOUT
    BY DEF CandidatesOK
  <2>1. CASE cand2[s] = cand[s]
    BY <2>1, <1>1 DEF MapsOK, CandidatesOK
  <2>2. CASE s = t /\ cand[t].state = "none"
    <3>1. cand2[t] = new
      BY <2>2, <1>1, <1>a
    <3> QED BY <2>2, <3>1 DEF NoCandidate
  <2>3. CASE s = t /\ cand[t].state = "empty"
    <3>1. cand2[t] = filled /\ cand[t] \in Candidate
      BY <2>3, <1>1, <1>a
    <3>2. cand2[t].state = "requested" /\ cand2[t].created = cand[t].created
      BY <3>1 DEF Candidate
    <3>3. cand2[t].locks = IF IsTimedOut(cand[t].created) THEN cand[t].locks ELSE Inputs[t]
      BY <3>1 DEF Candidate
    <3> QED BY <2>3, <1>1, <3>2, <3>3 DEF IsTimedOut, MapsOK, CandidatesOK
  <2> QED BY <2>1, <2>2, <2>3, <1>1, <1>2 DEF Candidate
<1> HIDE DEF cand2
<1>4. VotedOK(cand2, mapVotedOutpoints) /\ LockedOK(cand2, mapLockedOutpoints)
  BY <1>1, <1>2 DEF MapsOK, VotedOK, LockedOK
<1>5. BackedOK(cand2, mapLockedOutpoints, ownVotes)
  BY <1>1, <1>2 DEF MapsOK, LockedOK, BackedOK
<1> QED BY <1>2, <1>3, <1>4, <1>5 DEF MapsOK, cand2

\* ProcessTxLockRequest as a whole keeps the maps consistent.
LEMMA ProcessRequestKeeps ==
    ASSUME IInv, NEW t \in Txs, ProcessTxLockRequest(t)
    PROVE  /\ MapsTypeOK'
           /\ MapsOK(mapTxLockCandidates', mapVotedOutpoints',
                     mapLockedOutpoints', ownVotes)
           /\ \A s \in mempool : \A o \in Inputs[s] : mapLockedOutpoints'[o] \in {s, NoTx}
<1> DEFINE cand == CreateTxLockCandidate(t)
           vs == Adopted(cand)
           cand2 == AddVotes(vs, cand, mapVotedOutpoints)
           voted2 == Votings(vs, mapVotedOutpoints)
           orphans2 == [v \in Votes |-> IF v \in Taken(cand) THEN -1
                                        ELSE mapTxLockVotesOrphan[v]]
<1>1. TypeOK /\ MempoolRespectsLocks /\ ownVotes \in SUBSET Votes
      /\ mapVotedOutpoints \in [Outpoints -> SUBSET Txs]
      /\ mapLockedOutpoints \in [Outpoints -> Txs \cup {NoTx}]
  BY DEF IInv, TypeOK
<1>2. /\ cand \in [Txs -> Candidate]
      /\ MapsOK(cand, mapVotedOutpoints, mapLockedOutpoints, ownVotes)
  BY CreateCandidateKeeps
<1>3. CASE CandidateUsable(t)
  <2>1. TryToFinalizeLockCandidate(t, cand2[t], cand2, voted2, orphans2)
    BY <1>3 DEF ProcessTxLockRequest
  <2> HIDE DEF cand
  <2>2. vs \in SUBSET Votes
        /\ \A v \in vs : cand[v.tx].state = "requested" /\ v.outpoint \in cand[v.tx].locks
    BY <1>2, InstantSendAssumption
       DEF Adopted, Votes, MapsOK, CandidatesOK, IsTimedOut
  <2>3. /\ cand2 \in [Txs -> Candidate]
        /\ voted2 \in [Outpoints -> SUBSET Txs]
        /\ MapsOK(cand2, voted2, mapLockedOutpoints, ownVotes)
    <3> HIDE DEF vs
    <3> QED BY <1>1, <1>2, <2>2, AddVotesKeeps
  <2>4. orphans2 \in [Votes -> Int]
    BY DEF IInv, TypeOK
  <2> HIDE DEF cand2, voted2, orphans2
  <2> QED BY <1>1, <2>1, <2>3, <2>4, TryToFinalizeKeeps
<1>4. CASE ~CandidateUsable(t)
  <2>1. /\ mapTxLockCandidates' = cand
        /\ UNCHANGED <<mapVotedOutpoints, mapLockedOutpoints, mapLockRequestAccepted,
                       mapLockRequestRejected, mapTxLockVotes, mapTxLockVotesOrphan>>
    BY <1>4 DEF ProcessTxLockRequest
  <2> HIDE DEF cand
  <2> QED BY <1>1, <1>2, <2>1 DEF MapsTypeOK, TypeOK, MempoolRespectsLocks
<1> QED BY <1>3, <1>4

\* SyncTransaction changes heights only.
LEMMA SyncKeeps ==
    ASSUME IInv, NEW S \in SUBSET Txs, NEW h \in [S -> Int], SyncTransaction(h)
    PROVE  /\ mapTxLockCandidates' \in [Txs -> Candidate]
           /\ mapTxLockVotes' \in [Votes -> VoteEntry]
           /\ MapsOK(mapTxLockCandidates', mapVotedOutpoints, mapLockedOutpoints, ownVotes)
           /\ \A t \in S : mapTxLockCandidates'[t].conf =
                 IF mapTxLockCandidates[t].state = "none"
                 THEN mapTxLockCandidates[t].conf ELSE h[t]
<1>1. /\ mapTxLockCandidates \in [Txs -> Candidate]
      /\ mapVotedOutpoints \in [Outpoints -> SUBSET Txs]
      /\ mapLockedOutpoints \in [Outpoints -> Txs \cup {NoTx}]
      /\ mapTxLockVotes \in [Votes -> VoteEntry]
      /\ MapsOK(mapTxLockCandidates, mapVotedOutpoints, mapLockedOutpoints, ownVotes)
      /\ now \in Int
  BY DEF IInv, TypeOK
<1>2. /\ mapTxLockCandidates' \in [Txs -> Candidate]
      /\ \A t \in Txs : mapTxLockCandidates'[t] =
             [mapTxLockCandidates[t] EXCEPT !.conf = mapTxLockCandidates'[t].conf]
  <2> SUFFICES ASSUME NEW t \in Txs
               PROVE  /\ mapTxLockCandidates'[t] \in Candidate
                      /\ mapTxLockCandidates'[t] =
                            [mapTxLockCandidates[t] EXCEPT !.conf = mapTxLockCandidates'[t].conf]
    BY DEF SyncTransaction
  <2>1. CASE mapTxLockCandidates'[t] = mapTxLockCandidates[t]
    BY <2>1, <1>1 DEF Candidate
  <2>2. CASE t \in S /\ mapTxLockCandidates'[t] = [mapTxLockCandidates[t] EXCEPT !.conf = h[t]]
    <3>1. mapTxLockCandidates[t] \in Candidate /\ h[t] \in Int
      BY <2>2, <1>1
    <3> QED BY <2>2, <3>1 DEF Candidate
  <2> QED BY <2>1, <2>2 DEF SyncTransaction, SetConfirmedHeight
<1>3. mapTxLockVotes' \in [Votes -> VoteEntry]
  BY <1>1 DEF SyncTransaction, SetConfirmedHeight, VoteEntry
<1>4. MapsOK(mapTxLockCandidates', mapVotedOutpoints, mapLockedOutpoints, ownVotes)
  BY <1>1, <1>2, HeightsDoNotMatter
<1>5. \A t \in S : mapTxLockCandidates'[t].conf =
          IF mapTxLockCandidates[t].state = "none"
          THEN mapTxLockCandidates[t].conf ELSE h[t]
  BY <1>1 DEF SyncTransaction, SetConfirmedHeight, Candidate
<1> QED BY <1>2, <1>3, <1>4, <1>5

-----------------------------------------------------------------------------
(* One lemma per group of actions *)

\* The rest of the type invariant.
RestTypeOK ==
    /\ nCachedBlockHeight \in Int
    /\ pc \in {"idle", "vote", "accept", "ballot", "finalize"}
    /\ msgTx \in Txs \cup {NoTx}
    /\ msgVotes \subseteq Votes
    /\ msgTime \in Int
    /\ copy \in Candidate
    /\ ownVotes \subseteq Votes
    /\ rpcTx \in Txs \cup {NoTx}
    /\ mempool \subseteq Txs
    /\ minedAt \in [Txs -> Int]
    /\ txIndex \subseteq Txs
    /\ checkedBlock \subseteq Blocks
    /\ height \in Int /\ peak \in Int
    /\ quorum \in Quorums
    /\ spork2 \in BOOLEAN /\ spork3 \in BOOLEAN /\ listSynced \in BOOLEAN
    /\ now \in Int /\ restarts \in Int

LEMMA TypeSplit == TypeOK <=> MapsTypeOK /\ RestTypeOK
BY DEF TypeOK, MapsTypeOK, RestTypeOK

\* The parts of the invariant after a step, put together.
LEMMA Assemble ==
    ASSUME MapsTypeOK', RestTypeOK',
           MapsOK(mapTxLockCandidates, mapVotedOutpoints, mapLockedOutpoints, ownVotes)',
           MempoolRespectsLocks', HandlerOK', CopyIsCurrent'
    PROVE  IInv'
BY DEF IInv, TypeOK, MapsTypeOK, RestTypeOK

\* The maps stay consistent when neither the clock nor this node's votes move.
LEMMA SameClock ==
    ASSUME MapsOK(mapTxLockCandidates', mapVotedOutpoints', mapLockedOutpoints', ownVotes),
           now' = now, ownVotes' = ownVotes
    PROVE  MapsOK(mapTxLockCandidates, mapVotedOutpoints, mapLockedOutpoints, ownVotes)'
BY DEF MapsOK, CandidatesOK, VotedOK, LockedOK, BackedOK

LEMMA InitOK == Init => IInv
<1> SUFFICES ASSUME Init PROVE IInv
  OBVIOUS
<1> USE InstantSendAssumption
<1>1. NoCandidate \in Candidate /\ NoVote \in VoteEntry
  BY DEF NoCandidate, Candidate, NoVote, VoteEntry, NotInBlock
<1>2. MapsTypeOK
  BY <1>1 DEF Init, MapsTypeOK
<1>3. RestTypeOK
  BY <1>1 DEF Init, RestTypeOK, NotInBlock
<1>4. MapsOK(mapTxLockCandidates, mapVotedOutpoints, mapLockedOutpoints, ownVotes)
  BY DEF Init, MapsOK, CandidatesOK, VotedOK, LockedOK, BackedOK, NoCandidate
<1>5. MempoolRespectsLocks /\ HandlerOK /\ CopyIsCurrent
  BY DEF Init, MempoolRespectsLocks, HandlerOK, CopyIsCurrent
<1> QED BY <1>2, <1>3, <1>4, <1>5, TypeSplit DEF IInv

\* Lock requests, from a peer or from the wallet.
LEMMA RequestStep ==
    ASSUME IInv, NEW t \in LockRequests,
           ReceiveTxLockRequest(t) \/ RelayWalletTransaction(t) \/ SendRawTransaction(t)
    PROVE  IInv'
<1>1. t \in Txs /\ ProcessTxLockRequest(t)
  BY InstantSendAssumption DEF ReceiveTxLockRequest, RelayWalletTransaction, SendRawTransaction
<1>2. /\ MapsTypeOK'
      /\ MapsOK(mapTxLockCandidates', mapVotedOutpoints', mapLockedOutpoints', ownVotes)
      /\ \A s \in mempool : \A o \in Inputs[s] : mapLockedOutpoints'[o] \in {s, NoTx}
  BY <1>1, ProcessRequestKeeps
<1>3. RestTypeOK
  BY TypeSplit DEF IInv
<1>4. UNCHANGED <<nCachedBlockHeight, msgVotes, msgTime, copy, ownVotes, mempool,
                  minedAt, txIndex, checkedBlock, height, peak,
                  quorum, spork2, spork3, listSynced, now, restarts>>
  BY DEF ReceiveTxLockRequest, RelayWalletTransaction, SendRawTransaction, handlerVars, chainVars, nodeVars
<1>5. /\ pc' \in {"idle", "vote", "accept"}
      /\ msgTx' \in Txs \cup {NoTx}
      /\ pc' = "accept" => msgTx' \in Txs
      /\ rpcTx' \in Txs \cup {NoTx}
  <2>1. CASE ReceiveTxLockRequest(t)
    BY <2>1, <1>1, <1>3 DEF ReceiveTxLockRequest, RestTypeOK, nodeVars
  <2>2. CASE RelayWalletTransaction(t)
    BY <2>2, <1>3 DEF RelayWalletTransaction, handlerVars, nodeVars, csMainFree, RestTypeOK,
                      IInv, HandlerOK
  <2>3. CASE SendRawTransaction(t)
    BY <2>3, <1>1, <1>3 DEF SendRawTransaction, handlerVars, csMainFree, RestTypeOK, IInv,
                      HandlerOK
  <2> QED BY <2>1, <2>2, <2>3
<1>6. RestTypeOK'
  BY <1>3, <1>4, <1>5 DEF RestTypeOK, Blocks
<1>7. MapsOK(mapTxLockCandidates, mapVotedOutpoints, mapLockedOutpoints, ownVotes)'
  BY <1>2, <1>4, SameClock
<1>8. MempoolRespectsLocks' /\ HandlerOK' /\ CopyIsCurrent'
  BY <1>2, <1>4, <1>5 DEF MempoolRespectsLocks, HandlerOK, CopyIsCurrent
<1> QED BY <1>2, <1>6, <1>7, <1>8, Assemble

\* Vote() on the copy: every new pair of the copy is one of this node's votes.
LEMMA VoteStep == ASSUME IInv, Vote PROVE IInv'
<1> DEFINE c == mapTxLockCandidates[msgTx]
           mine == {o \in c.locks : /\ spork2
                                    /\ msgTx \in mapLockRequestAccepted
                                    /\ o \in Unspent(minedAt)
                                    /\ Self \in quorum[o]
                                    /\ ~AlreadyVoted(o)}
           new == {o \in mine : <<o, Self>> \notin c.votes}
           signed(v) == v.tx = msgTx /\ v.outpoint \in mine /\ v.smartnode = Self
<1>1. /\ MapsTypeOK /\ RestTypeOK /\ pc = "ballot" /\ msgTx \in Txs
      /\ c \in Candidate
      /\ c.state = "none" \/ c.conf = NotInBlock
      /\ MapsOK(mapTxLockCandidates, mapVotedOutpoints, mapLockedOutpoints, ownVotes)
      /\ MempoolRespectsLocks
  BY TypeSplit DEF IInv, HandlerOK, Vote, MapsTypeOK
<1>2. UNCHANGED <<mapTxLockCandidates, mapLockedOutpoints, mapLockRequestAccepted,
                  mapLockRequestRejected, mapTxLockVotesOrphan, nCachedBlockHeight,
                  msgVotes, msgTime, mempool, minedAt, txIndex, checkedBlock, height,
                  peak, quorum, spork2, spork3, listSynced, rpcTx, now, restarts>>
  BY DEF Vote, chainVars, nodeVars
<1>3. MempoolRespectsLocks'
  BY <1>1, <1>2 DEF MempoolRespectsLocks
<1>4. CASE c.state = "none"
  <2>1. /\ pc' = "idle" /\ msgTx' = NoTx
        /\ UNCHANGED <<copy, ownVotes, mapTxLockVotes, mapVotedOutpoints>>
    BY <1>4 DEF Vote
  <2>2. MapsTypeOK' /\ RestTypeOK'
    BY <1>1, <1>2, <2>1 DEF MapsTypeOK, RestTypeOK, Blocks
  <2>3. MapsOK(mapTxLockCandidates, mapVotedOutpoints, mapLockedOutpoints, ownVotes)'
    BY <1>1, <1>2, <2>1, SameClock
  <2>4. HandlerOK' /\ CopyIsCurrent'
    BY <2>1 DEF HandlerOK, CopyIsCurrent
  <2> QED BY <2>2, <2>3, <2>4, <1>3, Assemble
<1>5. CASE c.state # "none"
  <2>1. /\ pc' = "finalize" /\ msgTx' = msgTx
        /\ copy' = [c EXCEPT !.votes = @ \cup {<<o, Self>> : o \in new}]
        /\ ownVotes' = ownVotes \cup {v \in Votes : signed(v) /\ v.outpoint \in new}
        /\ mapTxLockVotes' = [v \in Votes |->
              IF signed(v) /\ mapTxLockVotes[v].state = "none"
              THEN [state |-> "vote", conf |-> NotInBlock, created |-> now]
              ELSE mapTxLockVotes[v]]
        /\ mapVotedOutpoints' = [o \in Outpoints |->
              mapVotedOutpoints[o] \cup IF o \in new THEN {msgTx} ELSE {}]
    BY <1>5 DEF Vote
  <2>2. /\ new \subseteq Outpoints
        /\ new \subseteq c.locks
        /\ \A o \in new : Self \in Smartnodes /\ o \in Inputs[msgTx]
    <3>1. quorum \in [Outpoints -> SUBSET Smartnodes]
      BY <1>1, InstantSendAssumption DEF RestTypeOK
    <3>2. c.locks \subseteq Outpoints /\ c.locks \subseteq Inputs[msgTx]
      BY <1>1 DEF Candidate, MapsOK, CandidatesOK
    <3> QED BY <3>1, <3>2
  <2>3. \A o \in new : \E v \in ownVotes' : v.tx = msgTx /\ v.outpoint = o /\ v.smartnode = Self
    <3> SUFFICES ASSUME NEW o \in new
                 PROVE  \E v \in ownVotes' : v.tx = msgTx /\ v.outpoint = o /\ v.smartnode = Self
      OBVIOUS
    <3>1. [tx |-> msgTx, outpoint |-> o, smartnode |-> Self] \in Votes
      BY <1>1, <2>2 DEF Votes
    <3>2. signed([tx |-> msgTx, outpoint |-> o, smartnode |-> Self])
      OBVIOUS
    <3> HIDE DEF signed, new
    <3> QED BY <2>1, <3>1, <3>2
  <2> HIDE DEF new, signed
  <2>4. copy' \in Candidate
    <3>1. {<<o, Self>> : o \in new} \subseteq Pairs
      BY <2>2 DEF Pairs
    <3> QED BY <1>1, <2>1, <3>1 DEF Candidate
  <2>5. MapsTypeOK'
    <3>1. mapTxLockVotes' \in [Votes -> VoteEntry]
      BY <1>1, <2>1 DEF MapsTypeOK, RestTypeOK, VoteEntry, NotInBlock
    <3>2. mapVotedOutpoints' \in [Outpoints -> SUBSET Txs]
      BY <1>1, <2>1 DEF MapsTypeOK
    <3> QED BY <1>1, <1>2, <3>1, <3>2 DEF MapsTypeOK
  <2>6. RestTypeOK'
    BY <1>1, <1>2, <2>1, <2>4 DEF RestTypeOK, Blocks
  <2>7. VotedOK(mapTxLockCandidates, mapVotedOutpoints')
    BY <1>1, <2>1, <2>2 DEF MapsTypeOK, MapsOK, VotedOK, CandidatesOK
  <2>8. BackedOK(mapTxLockCandidates, mapLockedOutpoints, ownVotes')
    <3> SUFFICES ASSUME NEW o \in Outpoints, mapLockedOutpoints[o] # NoTx
                 PROVE  Cardinality(VotersOf(mapTxLockCandidates[mapLockedOutpoints[o]], o)
                          \cup OwnVoter(ownVotes', mapLockedOutpoints[o], o))
                          >= SIGNATURES_REQUIRED
      BY DEF BackedOK
    <3>1. Cardinality(VotersOf(mapTxLockCandidates[mapLockedOutpoints[o]], o)
                          \cup OwnVoter(ownVotes, mapLockedOutpoints[o], o))
                          >= SIGNATURES_REQUIRED
      BY <1>1 DEF MapsOK, BackedOK
    <3>2. OwnVoter(ownVotes, mapLockedOutpoints[o], o)
            \subseteq OwnVoter(ownVotes', mapLockedOutpoints[o], o)
      BY <2>1 DEF OwnVoter
    <3>3. /\ OwnVoter(ownVotes', mapLockedOutpoints[o], o) \subseteq Smartnodes
          /\ VotersOf(mapTxLockCandidates[mapLockedOutpoints[o]], o) \subseteq Smartnodes
      BY <2>6 DEF OwnVoter, VotersOf, RestTypeOK, Votes
    <3> QED BY <3>1, <3>2, <3>3, VotersGrow
  <2>9. MapsOK(mapTxLockCandidates, mapVotedOutpoints, mapLockedOutpoints, ownVotes)'
    BY <1>1, <1>2, <2>7, <2>8 DEF MapsOK, CandidatesOK, VotedOK, LockedOK, BackedOK
  <2>10. CopyIsCurrent'
    <3>1. copy'.votes = c.votes \cup {<<o, Self>> : o \in new}
      BY <1>1, <2>1 DEF Candidate
    <3>2. c = [copy' EXCEPT !.votes = c.votes]
      BY <1>1, <2>1 DEF Candidate
    <3>3. copy'.votes \ c.votes \subseteq Outpoints \X {Self}
      BY <3>1, <2>2
    <3> QED BY <1>2, <2>1, <3>1, <3>2, <3>3 DEF CopyIsCurrent
  <2>11. HandlerOK'
    <3>1. copy'.votes = c.votes \cup {<<o, Self>> : o \in new}
      BY <1>1, <2>1 DEF Candidate
    <3>2. {<<o, Self>> : o \in new} \subseteq
            {<<v.outpoint, v.smartnode>> : v \in {w \in ownVotes' : w.tx = msgTx}}
      BY <2>3
    <3> QED BY <1>1, <1>2, <1>5, <2>1, <3>1, <3>2 DEF HandlerOK
  <2> QED BY <2>5, <2>6, <2>9, <2>10, <2>11, <1>3, Assemble
<1> QED BY <1>4, <1>5

\* The second half of Vote(): the copy still has the outpoints of the stored
\* candidate, and its extra votes are this node's own.
LEMMA FinalizeStep == ASSUME IInv, FinalizeCopy PROVE IInv'
<1> DEFINE c == mapTxLockCandidates[msgTx]
<1>1. /\ TypeOK /\ MempoolRespectsLocks /\ RestTypeOK
      /\ msgTx \in Txs /\ c \in Candidate /\ copy \in Candidate
      /\ mapTxLockCandidates \in [Txs -> Candidate]
      /\ mapVotedOutpoints \in [Outpoints -> SUBSET Txs]
      /\ mapTxLockVotesOrphan \in [Votes -> Int]
      /\ MapsOK(mapTxLockCandidates, mapVotedOutpoints, mapLockedOutpoints, ownVotes)
      /\ c = [copy EXCEPT !.votes = c.votes]
      /\ copy.votes \subseteq c.votes \cup OwnPairs(ownVotes, msgTx)
  BY TypeSplit DEF IInv, TypeOK, HandlerOK, CopyIsCurrent, FinalizeCopy, OwnPairs
<1>2. copy.locks = c.locks
  BY <1>1 DEF Candidate
<1>3. TryToFinalizeLockCandidate(msgTx, copy, mapTxLockCandidates,
                                 mapVotedOutpoints, mapTxLockVotesOrphan)
  BY DEF FinalizeCopy
<1>4. /\ MapsTypeOK'
      /\ MapsOK(mapTxLockCandidates', mapVotedOutpoints', mapLockedOutpoints', ownVotes)
      /\ \A s \in mempool : \A o \in Inputs[s] : mapLockedOutpoints'[o] \in {s, NoTx}
  BY <1>1, <1>2, <1>3, TryToFinalizeKeeps
<1>5. /\ pc' = "idle" /\ msgTx' = NoTx /\ copy' = NoCandidate
      /\ UNCHANGED <<nCachedBlockHeight, msgVotes, msgTime, ownVotes, mempool,
                     minedAt, txIndex, checkedBlock, height, peak,
                     quorum, spork2, spork3, listSynced, rpcTx, now, restarts>>
  BY DEF FinalizeCopy, chainVars, nodeVars
<1>6. RestTypeOK'
  BY <1>1, <1>5 DEF RestTypeOK, Blocks, NoCandidate, Candidate, NotInBlock
<1>7. MapsOK(mapTxLockCandidates, mapVotedOutpoints, mapLockedOutpoints, ownVotes)'
  BY <1>4, <1>5, SameClock
<1>8. MempoolRespectsLocks' /\ HandlerOK' /\ CopyIsCurrent'
  BY <1>4, <1>5 DEF MempoolRespectsLocks, HandlerOK, CopyIsCurrent
<1> QED BY <1>4, <1>6, <1>7, <1>8, Assemble

\* A vote message is recorded as seen.
LEMMA ReceiveVoteStep ==
    ASSUME IInv, NEW v \in Votes, ReceiveTxLockVote(v)
    PROVE  IInv'
<1>1. /\ MapsTypeOK /\ RestTypeOK /\ MempoolRespectsLocks
      /\ MapsOK(mapTxLockCandidates, mapVotedOutpoints, mapLockedOutpoints, ownVotes)
  BY TypeSplit DEF IInv
<1>2. /\ pc' = "vote" /\ msgVotes' = {v} /\ msgTime' = now
      /\ mapTxLockVotes' = [mapTxLockVotes EXCEPT ![v] =
             [state |-> "vote", conf |-> NotInBlock, created |-> now]]
      /\ UNCHANGED <<mapTxLockCandidates, mapVotedOutpoints, mapLockedOutpoints,
                     mapLockRequestAccepted, mapLockRequestRejected,
                     mapTxLockVotesOrphan, nCachedBlockHeight, msgTx, copy, ownVotes,
                     mempool, minedAt, txIndex, checkedBlock, height, peak,
                     quorum, spork2, spork3, listSynced, rpcTx, now, restarts>>
  BY DEF ReceiveTxLockVote, chainVars, nodeVars
<1>3. MapsTypeOK'
  BY <1>1, <1>2 DEF MapsTypeOK, RestTypeOK, VoteEntry, NotInBlock
<1>4. RestTypeOK'
  BY <1>1, <1>2 DEF RestTypeOK, Blocks
<1>5. MapsOK(mapTxLockCandidates, mapVotedOutpoints, mapLockedOutpoints, ownVotes)'
  BY <1>1, <1>2, SameClock
<1>6. MempoolRespectsLocks' /\ HandlerOK' /\ CopyIsCurrent'
  BY <1>1, <1>2 DEF MempoolRespectsLocks, HandlerOK, CopyIsCurrent
<1> QED BY <1>3, <1>4, <1>5, <1>6, Assemble

\* An orphan vote only adds an empty candidate.
LEMMA KeepOrphanKeeps ==
    ASSUME IInv, NEW v \in Votes, mapTxLockCandidates[v.tx].state # "requested",
           KeepOrphan(v)
    PROVE  /\ MapsTypeOK'
           /\ MapsOK(mapTxLockCandidates', mapVotedOutpoints', mapLockedOutpoints', ownVotes)
           /\ mapLockedOutpoints' = mapLockedOutpoints
<1> DEFINE t == v.tx
           empty == [NoCandidate EXCEPT !.state = "empty", !.created = now]
           c2 == IF mapTxLockCandidates[t].state = "none" THEN empty
                 ELSE mapTxLockCandidates[t]
<1>1. /\ MapsTypeOK /\ t \in Txs /\ now \in Int /\ msgTime \in Int
      /\ MapsOK(mapTxLockCandidates, mapVotedOutpoints, mapLockedOutpoints, ownVotes)
      /\ mapTxLockCandidates \in [Txs -> Candidate]
  BY TypeSplit DEF IInv, TypeOK, Votes
<1>2. /\ mapTxLockCandidates' = [mapTxLockCandidates EXCEPT ![t] = c2]
      /\ UNCHANGED <<mapVotedOutpoints, mapLockedOutpoints, mapLockRequestAccepted,
                     mapLockRequestRejected, mapTxLockVotes>>
      /\ mapTxLockVotesOrphan' \in [Votes -> Int]
  BY <1>1 DEF KeepOrphan, MapsTypeOK
<1>3. empty \in Candidate /\ empty.state = "empty" /\ empty.locks = {}
  <2>1. NoCandidate \in Candidate /\ NoCandidate.locks = {}
    BY DEF NoCandidate, Candidate, NotInBlock
  <2> QED BY <1>1, <2>1 DEF Candidate
<1> HIDE DEF empty
<1>4. mapTxLockCandidates' \in [Txs -> Candidate]
  BY <1>1, <1>2, <1>3
<1>5. \A s \in Txs : /\ s # t => mapTxLockCandidates'[s] = mapTxLockCandidates[s]
                     /\ s = t => \/ mapTxLockCandidates'[s] = mapTxLockCandidates[s]
                                 \/ mapTxLockCandidates'[s] = empty
  BY <1>1, <1>2
<1>6. CandidatesOK(mapTxLockCandidates', now)
  BY <1>1, <1>3, <1>5 DEF MapsOK, CandidatesOK
<1>7. /\ \A o \in Outpoints : t \notin mapVotedOutpoints[o]
      /\ \A o \in Outpoints : mapLockedOutpoints[o] # t
  BY <1>1, InstantSendAssumption DEF MapsOK, VotedOK, LockedOK
<1>8. VotedOK(mapTxLockCandidates', mapVotedOutpoints)
  BY <1>1, <1>5, <1>7 DEF MapsTypeOK, MapsOK, VotedOK
<1>9. LockedOK(mapTxLockCandidates', mapLockedOutpoints)
  BY <1>1, <1>5, <1>7 DEF MapsTypeOK, MapsOK, LockedOK
<1>10. BackedOK(mapTxLockCandidates', mapLockedOutpoints, ownVotes)
  BY <1>1, <1>5, <1>7 DEF MapsTypeOK, MapsOK, BackedOK
<1>11. MapsTypeOK'
  BY <1>1, <1>2, <1>4 DEF MapsTypeOK
<1> QED BY <1>2, <1>6, <1>8, <1>9, <1>10, <1>11 DEF MapsOK

\* Counting a vote, or keeping it as an orphan.
LEMMA ProcessVoteStep ==
    ASSUME IInv, NEW v \in Votes, ProcessTxLockVote(v)
    PROVE  IInv'
<1> DEFINE t == v.tx
           c == mapTxLockCandidates[t]
           cand == AddVotes({v}, mapTxLockCandidates, mapVotedOutpoints)
           voted == Votings({v}, mapVotedOutpoints)
           MapsKept == /\ MapsTypeOK'
                       /\ MapsOK(mapTxLockCandidates', mapVotedOutpoints',
                                 mapLockedOutpoints', ownVotes)
                       /\ \A s \in mempool : \A o \in Inputs[s] :
                             mapLockedOutpoints'[o] \in {s, NoTx}
<1>1. /\ TypeOK /\ MapsTypeOK /\ RestTypeOK /\ MempoolRespectsLocks /\ t \in Txs
      /\ v.outpoint \in Inputs[t]
      /\ MapsOK(mapTxLockCandidates, mapVotedOutpoints, mapLockedOutpoints, ownVotes)
  BY TypeSplit DEF IInv, Votes
<1>2. /\ pc' = "idle" /\ msgVotes' = {} /\ msgTime' = 0
      /\ UNCHANGED <<nCachedBlockHeight, msgTx, copy, ownVotes,
                     mempool, minedAt, txIndex, checkedBlock, height, peak,
                     quorum, spork2, spork3, listSynced, rpcTx, now, restarts>>
  BY DEF ProcessTxLockVote, chainVars, nodeVars
<1>3. ASSUME UNCHANGED instantsendVars PROVE MapsKept
  BY <1>1, <1>3 DEF instantsendVars, MapsTypeOK, MempoolRespectsLocks
<1>4. ASSUME IsValidVote(v), c.state # "requested" PROVE MapsKept
  <2>1. KeepOrphan(v)
    BY <1>4 DEF ProcessTxLockVote
  <2> QED BY <2>1, <1>1, <1>4, KeepOrphanKeeps DEF MempoolRespectsLocks
<1>5. ASSUME IsValidVote(v), c.state = "requested", ~IsTimedOut(c.created)
      PROVE  MapsKept
  <2>1. v.outpoint \in c.locks
    BY <1>1, <1>5 DEF MapsOK, CandidatesOK, IsTimedOut
  <2>2. /\ cand \in [Txs -> Candidate]
        /\ voted \in [Outpoints -> SUBSET Txs]
        /\ MapsOK(cand, voted, mapLockedOutpoints, ownVotes)
    <3>1. \A w \in {v} : /\ mapTxLockCandidates[w.tx].state = "requested"
                         /\ w.outpoint \in mapTxLockCandidates[w.tx].locks
      BY <1>5, <2>1
    <3>2. {v} \in SUBSET Votes /\ ownVotes \in SUBSET Votes
      BY <1>1 DEF RestTypeOK
    <3> QED BY <1>1, <3>1, <3>2, AddVotesKeeps DEF MapsTypeOK
  <2>3. \/ TryToFinalizeLockCandidate(t, cand[t], cand, voted, mapTxLockVotesOrphan)
        \/ /\ mapTxLockCandidates' = cand
           /\ mapVotedOutpoints' = voted
           /\ UNCHANGED <<mapLockedOutpoints, mapLockRequestAccepted,
                  mapLockRequestRejected, mapTxLockVotes, mapTxLockVotesOrphan>>
    BY <1>5 DEF ProcessTxLockVote
  <2> HIDE DEF cand, voted
  <2>4. CASE TryToFinalizeLockCandidate(t, cand[t], cand, voted, mapTxLockVotesOrphan)
    <3>1. cand[t] \in Candidate /\ mapTxLockVotesOrphan \in [Votes -> Int]
      BY <1>1, <2>2 DEF MapsTypeOK
    <3> QED BY <1>1, <2>2, <2>4, <3>1, TryToFinalizeKeeps
  <2>5. CASE /\ mapTxLockCandidates' = cand
             /\ mapVotedOutpoints' = voted
             /\ UNCHANGED <<mapLockedOutpoints, mapLockRequestAccepted,
                    mapLockRequestRejected, mapTxLockVotes, mapTxLockVotesOrphan>>
    BY <1>1, <2>2, <2>5 DEF MapsTypeOK, MempoolRespectsLocks
  <2> QED BY <2>3, <2>4, <2>5
<1>6. MapsKept
  <2>1. \/ UNCHANGED instantsendVars
        \/ IsValidVote(v) /\ c.state # "requested"
        \/ IsValidVote(v) /\ c.state = "requested" /\ ~IsTimedOut(c.created)
    BY DEF ProcessTxLockVote
  <2> QED BY <2>1, <1>3, <1>4, <1>5
<1>7. RestTypeOK'
  BY <1>1, <1>2 DEF RestTypeOK, Blocks
<1>8. MapsOK(mapTxLockCandidates, mapVotedOutpoints, mapLockedOutpoints, ownVotes)'
  BY <1>6, <1>2, SameClock
<1>9. MempoolRespectsLocks' /\ HandlerOK' /\ CopyIsCurrent'
  BY <1>6, <1>2 DEF MempoolRespectsLocks, HandlerOK, CopyIsCurrent
<1> QED BY <1>6, <1>7, <1>8, <1>9, Assemble

\* Steps of the node that change neither the maps nor the handler, and that
\* add nothing to the memory pool.
LEMMA OutsideStep ==
    ASSUME IInv, UNCHANGED <<instantsendVars, handlerVars, now>>,
           mempool' \subseteq mempool, RestTypeOK'
    PROVE  IInv'
<1>1. /\ MapsTypeOK /\ MempoolRespectsLocks /\ HandlerOK /\ CopyIsCurrent
      /\ MapsOK(mapTxLockCandidates, mapVotedOutpoints, mapLockedOutpoints, ownVotes)
  BY TypeSplit DEF IInv
<1>2. UNCHANGED <<mapTxLockCandidates, mapVotedOutpoints, mapLockedOutpoints,
                  mapLockRequestAccepted, mapLockRequestRejected, mapTxLockVotes,
                  mapTxLockVotesOrphan, pc, msgTx, msgVotes, msgTime, copy, ownVotes, now>>
  BY DEF instantsendVars, handlerVars
<1>3. MapsTypeOK'
  BY <1>1, <1>2 DEF MapsTypeOK
<1>4. MapsOK(mapTxLockCandidates, mapVotedOutpoints, mapLockedOutpoints, ownVotes)'
  BY <1>1, <1>2, SameClock
<1>5. MempoolRespectsLocks'
  BY <1>1, <1>2 DEF MempoolRespectsLocks
<1>6. HandlerOK' /\ CopyIsCurrent'
  BY <1>1, <1>2 DEF HandlerOK, CopyIsCurrent
<1> QED BY <1>3, <1>4, <1>5, <1>6, Assemble

\* Steps of the node that report transactions with SyncTransaction.  They need
\* cs_main, so no copy is out, and they add to the memory pool only
\* transactions that respect the locks.
LEMMA SyncStep ==
    ASSUME IInv, NEW S \in SUBSET Txs, NEW h \in [S -> Int], SyncTransaction(h),
           UNCHANGED <<mapVotedOutpoints, mapLockedOutpoints, mapLockRequestAccepted,
                       mapLockRequestRejected, mapTxLockVotesOrphan, handlerVars, now>>,
           pc \notin {"ballot", "finalize"},
           \A t \in mempool' : t \in mempool \/ LockConflicts(t) = {},
           RestTypeOK'
    PROVE  IInv'
<1>1. /\ MapsTypeOK /\ RestTypeOK /\ MempoolRespectsLocks /\ HandlerOK
  BY TypeSplit DEF IInv
<1>2. /\ mapTxLockCandidates' \in [Txs -> Candidate]
      /\ mapTxLockVotes' \in [Votes -> VoteEntry]
      /\ MapsOK(mapTxLockCandidates', mapVotedOutpoints, mapLockedOutpoints, ownVotes)
  BY SyncKeeps
<1>3. MapsTypeOK'
  BY <1>1, <1>2 DEF MapsTypeOK
<1>4. MapsOK(mapTxLockCandidates, mapVotedOutpoints, mapLockedOutpoints, ownVotes)'
  BY <1>2, SameClock DEF handlerVars
<1>5. MempoolRespectsLocks'
  BY <1>1 DEF MempoolRespectsLocks, LockConflicts
<1>6. HandlerOK' /\ CopyIsCurrent'
  BY <1>1 DEF HandlerOK, CopyIsCurrent, handlerVars
<1> QED BY <1>3, <1>4, <1>5, <1>6, Assemble

\* The memory pool's answer to a request.
LEMMA AcceptStep == ASSUME IInv, LockRequestAccepted PROVE IInv'
<1> DEFINE h == [s \in {msgTx} |-> NotInBlock]
<1>1. /\ MapsTypeOK /\ RestTypeOK /\ MempoolRespectsLocks /\ msgTx \in Txs
  BY TypeSplit DEF IInv, HandlerOK, LockRequestAccepted
<1>2. /\ SyncTransaction(h)
      /\ mempool' = (mempool \ MempoolConflicts(msgTx)) \cup {msgTx}
      /\ LockConflicts(msgTx) = {}
      /\ mapLockRequestAccepted' = mapLockRequestAccepted \cup {msgTx}
      /\ pc' = "ballot"
      /\ UNCHANGED <<mapVotedOutpoints, mapLockedOutpoints, mapLockRequestRejected,
                     mapTxLockVotesOrphan, nCachedBlockHeight, msgTx, msgVotes, msgTime,
                     copy, ownVotes, minedAt, txIndex, checkedBlock, height, peak,
                     quorum, spork2, spork3, listSynced, rpcTx, now, restarts>>
  BY DEF LockRequestAccepted, AddToMemoryPool, CanAccept, chainVars, nodeVars
<1>3. {msgTx} \in SUBSET Txs /\ h \in [{msgTx} -> Int]
  BY <1>1 DEF NotInBlock
<1> HIDE DEF h
<1>4. /\ mapTxLockCandidates' \in [Txs -> Candidate]
      /\ mapTxLockVotes' \in [Votes -> VoteEntry]
      /\ MapsOK(mapTxLockCandidates', mapVotedOutpoints, mapLockedOutpoints, ownVotes)
      /\ \A t \in {msgTx} : mapTxLockCandidates'[t].conf =
            IF mapTxLockCandidates[t].state = "none"
            THEN mapTxLockCandidates[t].conf ELSE h[t]
  BY <1>2, <1>3, SyncKeeps
<1>5. /\ MapsTypeOK' /\ RestTypeOK'
  <2>1. MapsTypeOK'
    BY <1>1, <1>2, <1>4 DEF MapsTypeOK
  <2>2. RestTypeOK'
    BY <1>1, <1>2 DEF RestTypeOK, Blocks
  <2> QED BY <2>1, <2>2
<1>6. MapsOK(mapTxLockCandidates, mapVotedOutpoints, mapLockedOutpoints, ownVotes)'
  BY <1>2, <1>4, SameClock
<1>7. MempoolRespectsLocks'
  BY <1>1, <1>2 DEF MempoolRespectsLocks, LockConflicts
<1>8. \/ mapTxLockCandidates'[msgTx].state = "none"
      \/ mapTxLockCandidates'[msgTx].conf = NotInBlock
  <2>1. CASE mapTxLockCandidates[msgTx].state = "none"
    BY <2>1, <1>1, <1>2 DEF SyncTransaction
  <2>2. CASE mapTxLockCandidates[msgTx].state # "none"
    BY <2>2, <1>4 DEF h
  <2> QED BY <2>1, <2>2
<1>9. HandlerOK' /\ CopyIsCurrent'
  BY <1>1, <1>2, <1>8 DEF HandlerOK, CopyIsCurrent
<1> QED BY <1>5, <1>6, <1>7, <1>9, Assemble

LEMMA RefuseStep == ASSUME IInv, LockRequestRefused PROVE IInv'
<1>1. /\ MapsTypeOK /\ RestTypeOK /\ MempoolRespectsLocks /\ msgTx \in Txs
      /\ MapsOK(mapTxLockCandidates, mapVotedOutpoints, mapLockedOutpoints, ownVotes)
  BY TypeSplit DEF IInv, HandlerOK, LockRequestRefused
<1>2. /\ mapLockRequestRejected' \subseteq mapLockRequestRejected \cup {msgTx}
      /\ pc' = "idle" /\ msgTx' = NoTx
      /\ UNCHANGED <<mapTxLockCandidates, mapVotedOutpoints, mapLockedOutpoints,
                     mapLockRequestAccepted, mapTxLockVotes, mapTxLockVotesOrphan,
                     nCachedBlockHeight, msgVotes, msgTime, copy, ownVotes, mempool,
                     minedAt, txIndex, checkedBlock, height, peak,
                     quorum, spork2, spork3, listSynced, rpcTx, now, restarts>>
  BY DEF LockRequestRefused, chainVars, nodeVars
<1>3. MapsTypeOK'
  BY <1>1, <1>2 DEF MapsTypeOK
<1>4. RestTypeOK'
  BY <1>1, <1>2 DEF RestTypeOK, Blocks
<1>5. MapsOK(mapTxLockCandidates, mapVotedOutpoints, mapLockedOutpoints, ownVotes)'
  BY <1>1, <1>2, SameClock
<1>6. MempoolRespectsLocks' /\ HandlerOK' /\ CopyIsCurrent'
  BY <1>1, <1>2 DEF MempoolRespectsLocks, HandlerOK, CopyIsCurrent
<1> QED BY <1>3, <1>4, <1>5, <1>6, Assemble

\* The cleanup thread.  The candidate the handler works on is unconfirmed, so
\* the cleanup leaves it, and with it the handler's copy, as it was.
LEMMA CleanupStep == ASSUME IInv, CheckAndRemove PROVE IInv'
<1>1. /\ TypeOK /\ RestTypeOK /\ MempoolRespectsLocks /\ HandlerOK /\ CopyIsCurrent
      /\ mapTxLockCandidates \in [Txs -> Candidate]
      /\ mapVotedOutpoints \in [Outpoints -> SUBSET Txs]
      /\ mapLockedOutpoints \in [Outpoints -> Txs \cup {NoTx}]
      /\ mapTxLockVotesOrphan \in [Votes -> Int]
      /\ MapsOK(mapTxLockCandidates, mapVotedOutpoints, mapLockedOutpoints, ownVotes)
  BY TypeSplit DEF IInv, TypeOK
<1>2. RemoveExpired(mapTxLockCandidates, mapVotedOutpoints, mapTxLockVotesOrphan, {})
  BY DEF CheckAndRemove
<1>3. {} \in SUBSET Txs
  OBVIOUS
<1>4. /\ MapsTypeOK'
      /\ MapsOK(mapTxLockCandidates', mapVotedOutpoints', mapLockedOutpoints', ownVotes)
      /\ \A o \in Outpoints : mapLockedOutpoints'[o] \in {mapLockedOutpoints[o], NoTx}
      /\ \A t \in Txs : mapTxLockCandidates[t].state = "none"
                          \/ mapTxLockCandidates[t].conf = NotInBlock
                        => mapTxLockCandidates'[t] = mapTxLockCandidates[t]
  BY <1>1, <1>2, <1>3, RemoveExpiredKeeps
<1>5. UNCHANGED <<nCachedBlockHeight, pc, msgTx, msgVotes, msgTime, copy, ownVotes,
                  mempool, minedAt, txIndex, checkedBlock, height, peak,
                  quorum, spork2, spork3, listSynced, rpcTx, now, restarts>>
  BY DEF CheckAndRemove, handlerVars, chainVars, nodeVars
<1>6. RestTypeOK'
  BY <1>1, <1>5 DEF RestTypeOK, Blocks
<1>7. MapsOK(mapTxLockCandidates, mapVotedOutpoints, mapLockedOutpoints, ownVotes)'
  BY <1>4, <1>5, SameClock
<1>8. MempoolRespectsLocks'
  <2>1. \A t \in mempool : Inputs[t] \subseteq Outpoints
    BY <1>1, InstantSendAssumption DEF RestTypeOK
  <2> QED BY <1>1, <1>4, <1>5, <2>1 DEF MempoolRespectsLocks
<1>9. HandlerOK' /\ CopyIsCurrent'
  <2>1. CASE pc \in {"ballot", "finalize"}
    <3>1. mapTxLockCandidates'[msgTx] = mapTxLockCandidates[msgTx] /\ msgTx \in Txs
      BY <2>1, <1>1, <1>4 DEF HandlerOK
    <3> QED BY <2>1, <3>1, <1>1, <1>5 DEF HandlerOK, CopyIsCurrent
  <2>2. CASE pc \notin {"ballot", "finalize"}
    BY <2>2, <1>1, <1>5 DEF HandlerOK, CopyIsCurrent
  <2> QED BY <2>1, <2>2
<1> QED BY <1>4, <1>6, <1>7, <1>8, <1>9, Assemble

\* A transaction enters the memory pool outside the request handler.
LEMMA ReceiveTxStep == ASSUME IInv, NEW t \in Txs, ReceiveTx(t) PROVE IInv'
<1> DEFINE h == [s \in {t} |-> NotInBlock]
<1>1. RestTypeOK
  BY TypeSplit DEF IInv
<1>2. /\ SyncTransaction(h)
      /\ mempool' = (mempool \ MempoolConflicts(t)) \cup {t}
      /\ LockConflicts(t) = {} /\ pc \notin {"ballot", "finalize"}
      /\ UNCHANGED <<mapVotedOutpoints, mapLockedOutpoints, mapLockRequestAccepted,
                     mapLockRequestRejected, mapTxLockVotesOrphan, handlerVars, now>>
      /\ UNCHANGED <<nCachedBlockHeight, pc, msgTx, msgVotes, msgTime, copy, ownVotes,
                     minedAt, txIndex, checkedBlock, height, peak,
                     quorum, spork2, spork3, listSynced, rpcTx, restarts>>
  BY DEF ReceiveTx, AddToMemoryPool, csMainFree, CanAccept, handlerVars, chainVars, nodeVars
<1>3. {t} \in SUBSET Txs /\ h \in [{t} -> Int]
  BY DEF NotInBlock
<1>4. RestTypeOK'
  BY <1>1, <1>2 DEF RestTypeOK, Blocks
<1>5. \A s \in mempool' : s \in mempool \/ LockConflicts(s) = {}
  BY <1>2
<1> HIDE DEF h
<1> QED BY <1>2, <1>3, <1>4, <1>5, SyncStep

\* The same for the RPC thread.
LEMMA RawTransactionStep == ASSUME IInv, RawTransactionAccepted PROVE IInv'
<1> DEFINE t == rpcTx
           h == [s \in {t} |-> NotInBlock]
<1>1. RestTypeOK /\ t \in Txs /\ rpcTx' = NoTx
  BY TypeSplit DEF IInv, RawTransactionAccepted, RestTypeOK
<1>2. /\ SyncTransaction(h)
      /\ mempool' = (mempool \ MempoolConflicts(t)) \cup {t}
      /\ LockConflicts(t) = {} /\ pc \notin {"ballot", "finalize"}
      /\ UNCHANGED <<mapVotedOutpoints, mapLockedOutpoints, mapLockRequestAccepted,
                     mapLockRequestRejected, mapTxLockVotesOrphan, handlerVars, now>>
      /\ UNCHANGED <<nCachedBlockHeight, pc, msgTx, msgVotes, msgTime, copy, ownVotes,
                     minedAt, txIndex, checkedBlock, height, peak,
                     quorum, spork2, spork3, listSynced, restarts>>
  BY DEF RawTransactionAccepted, AddToMemoryPool, CanAccept, handlerVars, chainVars
<1>3. {t} \in SUBSET Txs /\ h \in [{t} -> Int]
  BY <1>1 DEF NotInBlock
<1>4. RestTypeOK'
  BY <1>1, <1>2 DEF RestTypeOK, Blocks
<1>5. \A s \in mempool' : s \in mempool \/ LockConflicts(s) = {}
  BY <1>2
<1> HIDE DEF h, t
<1> QED BY <1>2, <1>3, <1>4, <1>5, SyncStep

LEMMA ConnectStep == ASSUME IInv, NEW b \in Blocks, ConnectTip(b) PROVE IInv'
<1> DEFINE S == b \cup UNION {MempoolConflicts(t) : t \in b}
           h == [t \in S |-> IF t \in b THEN height + 1 ELSE NotInBlock]
<1>1. RestTypeOK
  BY TypeSplit DEF IInv
<1>2. /\ SyncTransaction(h) /\ pc \notin {"ballot", "finalize"}
      /\ mempool' \subseteq mempool
      /\ minedAt' = [t \in Txs |-> IF t \in b THEN height + 1 ELSE minedAt[t]]
      /\ txIndex' = txIndex \cup b /\ checkedBlock' = {}
      /\ height' = height + 1
      /\ peak' = IF height + 1 > peak THEN height + 1 ELSE peak
      /\ UNCHANGED <<mapVotedOutpoints, mapLockedOutpoints, mapLockRequestAccepted,
                     mapLockRequestRejected, mapTxLockVotesOrphan, handlerVars, now>>
      /\ UNCHANGED <<nCachedBlockHeight, pc, msgTx, msgVotes, msgTime, copy, ownVotes,
                     quorum, spork2, spork3, listSynced, rpcTx, restarts>>
  BY DEF ConnectTip, csMainFree, handlerVars, nodeVars
<1>3. b \subseteq Txs
  BY DEF Blocks
<1>4. S \in SUBSET Txs
  BY <1>1, <1>3 DEF MempoolConflicts, RestTypeOK
<1>5. h \in [S -> Int]
  BY <1>1 DEF NotInBlock, RestTypeOK
<1>6. RestTypeOK'
  BY <1>1, <1>2, <1>3 DEF RestTypeOK, Blocks
<1> HIDE DEF h, S
<1> QED BY <1>2, <1>4, <1>5, <1>6, SyncStep

LEMMA DisconnectStep == ASSUME IInv, DisconnectTip PROVE IInv'
<1> DEFINE block == {t \in Txs : minedAt[t] = height}
           mined == [t \in Txs |-> IF t \in block THEN NotInBlock ELSE minedAt[t]]
           h == [t \in block |-> NotInBlock]
<1>1. RestTypeOK
  BY TypeSplit DEF IInv
<1>2. /\ SyncTransaction(h) /\ pc \notin {"ballot", "finalize"}
      /\ mempool' = mempool \cup {t \in block : CanAccept(t, Unspent(mined))}
      /\ minedAt' = mined /\ height' = height - 1
      /\ UNCHANGED <<mapVotedOutpoints, mapLockedOutpoints, mapLockRequestAccepted,
                     mapLockRequestRejected, mapTxLockVotesOrphan, handlerVars, now>>
      /\ UNCHANGED <<nCachedBlockHeight, pc, msgTx, msgVotes, msgTime, copy, ownVotes,
                     txIndex, checkedBlock, peak,
                     quorum, spork2, spork3, listSynced, rpcTx, restarts>>
  BY DEF DisconnectTip, csMainFree, handlerVars, nodeVars
<1>3. block \in SUBSET Txs /\ h \in [block -> Int]
  BY DEF NotInBlock
<1>4. RestTypeOK'
  BY <1>1, <1>2 DEF RestTypeOK, Blocks, NotInBlock
<1>5. \A t \in mempool' : t \in mempool \/ LockConflicts(t) = {}
  BY <1>2 DEF CanAccept
<1> HIDE DEF h, block, mined
<1> QED BY <1>2, <1>3, <1>4, <1>5, SyncStep

\* Time passes: a candidate whose request came too late stays too late.
LEMMA TickStep == ASSUME IInv, Tick PROVE IInv'
<1>1. /\ MapsTypeOK /\ RestTypeOK /\ MempoolRespectsLocks /\ HandlerOK /\ CopyIsCurrent
      /\ MapsOK(mapTxLockCandidates, mapVotedOutpoints, mapLockedOutpoints, ownVotes)
  BY TypeSplit DEF IInv
<1>2. /\ now' = now + 1
      /\ UNCHANGED <<mapTxLockCandidates, mapVotedOutpoints, mapLockedOutpoints,
                     mapLockRequestAccepted, mapLockRequestRejected, mapTxLockVotes,
                     mapTxLockVotesOrphan, nCachedBlockHeight, pc, msgTx, msgVotes,
                     msgTime, copy, ownVotes, mempool, minedAt, txIndex, checkedBlock,
                     height, peak, quorum, spork2, spork3, listSynced, rpcTx, restarts>>
  BY DEF Tick, instantsendVars, handlerVars, chainVars, nodeVars
<1>3. MapsTypeOK' /\ RestTypeOK'
  BY <1>1, <1>2 DEF MapsTypeOK, RestTypeOK, Blocks
<1>4. CandidatesOK(mapTxLockCandidates, now + 1)
  <2>1. /\ now \in Int /\ LOCK_TIMEOUT \in Nat
        /\ \A t \in Txs : mapTxLockCandidates[t].created \in Int
    BY <1>1, InstantSendAssumption DEF MapsTypeOK, RestTypeOK, Candidate
  <2>2. CandidatesOK(mapTxLockCandidates, now)
    BY <1>1 DEF MapsOK
  <2> QED BY <2>1, <2>2 DEF CandidatesOK
<1>5. MapsOK(mapTxLockCandidates, mapVotedOutpoints, mapLockedOutpoints, ownVotes)'
  BY <1>1, <1>2, <1>4 DEF MapsOK, CandidatesOK, VotedOK, LockedOK, BackedOK
<1>6. MempoolRespectsLocks' /\ HandlerOK' /\ CopyIsCurrent'
  BY <1>1, <1>2 DEF MempoolRespectsLocks, HandlerOK, CopyIsCurrent
<1> QED BY <1>3, <1>5, <1>6, Assemble

LEMMA RestartStep == ASSUME IInv, Restart PROVE IInv'
<1>1. RestTypeOK
  BY TypeSplit DEF IInv
<1>2. NoCandidate \in Candidate /\ NoVote \in VoteEntry
  BY DEF NoCandidate, Candidate, NoVote, VoteEntry, NotInBlock
<1>3. MapsTypeOK'
  BY <1>2 DEF Restart, MapsTypeOK
<1>4. RestTypeOK'
  BY <1>1, <1>2 DEF Restart, RestTypeOK, Blocks, nodeVars
<1>5. MapsOK(mapTxLockCandidates, mapVotedOutpoints, mapLockedOutpoints, ownVotes)'
  BY DEF Restart, MapsOK, CandidatesOK, VotedOK, LockedOK, BackedOK, NoCandidate
<1>6. MempoolRespectsLocks' /\ HandlerOK' /\ CopyIsCurrent'
  BY DEF Restart, MempoolRespectsLocks, HandlerOK, CopyIsCurrent
<1> QED BY <1>3, <1>4, <1>5, <1>6, Assemble

\* Every step keeps the invariant.
LEMMA NextOK == IInv /\ [Next]_vars => IInv'
<1> SUFFICES ASSUME IInv, [Next]_vars PROVE IInv'
  OBVIOUS
<1>0. RestTypeOK
  BY TypeSplit DEF IInv
<1>1. CASE \E t \in LockRequests :
              ReceiveTxLockRequest(t) \/ RelayWalletTransaction(t) \/ SendRawTransaction(t)
  BY <1>1, RequestStep
<1>2. CASE LockRequestAccepted
  BY <1>2, AcceptStep
<1>3. CASE LockRequestRefused
  BY <1>3, RefuseStep
<1>4. CASE Vote
  BY <1>4, VoteStep
<1>5. CASE FinalizeCopy
  BY <1>5, FinalizeStep
<1>6. CASE \E v \in PeerVotes \cup ownVotes : ReceiveTxLockVote(v)
  <2>1. PeerVotes \cup ownVotes \subseteq Votes
    BY <1>0, InstantSendAssumption DEF RestTypeOK
  <2> QED BY <1>6, <2>1, ReceiveVoteStep
<1>7. CASE \E v \in Votes : ProcessTxLockVote(v)
  BY <1>7, ProcessVoteStep
<1>8. CASE CheckAndRemove
  BY <1>8, CleanupStep
<1>9. CASE \E t \in Txs : ReceiveTx(t)
  BY <1>9, ReceiveTxStep
<1>10. CASE \E t \in Txs : LimitMempoolSize(t)
  <2>1. PICK t \in Txs : LimitMempoolSize(t)
    BY <1>10
  <2>2. RestTypeOK'
    BY <1>0, <2>1 DEF LimitMempoolSize, RestTypeOK, Blocks, handlerVars, chainVars, nodeVars
  <2> QED BY <2>1, <2>2, OutsideStep DEF LimitMempoolSize
<1>11. CASE \E b \in Blocks : AcceptBlock(b)
  <2>1. PICK b \in Blocks : AcceptBlock(b)
    BY <1>11
  <2>2. RestTypeOK'
    BY <1>0, <2>1 DEF AcceptBlock, RestTypeOK, Blocks, handlerVars, nodeVars
  <2> QED BY <2>1, <2>2, OutsideStep DEF AcceptBlock
<1>12. CASE \E b \in Blocks : ConnectTip(b)
  BY <1>12, ConnectStep
<1>13. CASE DisconnectTip
  BY <1>13, DisconnectStep
<1>14. CASE UpdatedBlockTip
  <2>1. RestTypeOK'
    BY <1>0, <1>14 DEF UpdatedBlockTip, RestTypeOK, Blocks, handlerVars, chainVars, nodeVars
  <2> QED BY <1>14, <2>1, OutsideStep DEF UpdatedBlockTip
<1>15. CASE Tick
  BY <1>15, TickStep
<1>16. CASE RanksChange
  <2>1. RestTypeOK'
    BY <1>0, <1>16 DEF RanksChange, RestTypeOK, Blocks, handlerVars, chainVars
  <2> QED BY <1>16, <2>1, OutsideStep DEF RanksChange
<1>17. CASE SporkOrSyncChange
  <2>1. RestTypeOK'
    BY <1>0, <1>17 DEF SporkOrSyncChange, RestTypeOK, Blocks, handlerVars, chainVars
  <2> QED BY <1>17, <2>1, OutsideStep DEF SporkOrSyncChange
<1>18. CASE Restart
  BY <1>18, RestartStep
<1>19. CASE UNCHANGED vars
  <2>1. RestTypeOK'
    BY <1>0, <1>19 DEF vars, RestTypeOK, Blocks, handlerVars, chainVars, nodeVars
  <2> QED BY <1>19, <2>1, OutsideStep DEF vars
<1>20. CASE RawTransactionAccepted
  BY <1>20, RawTransactionStep
<1>21. CASE RawTransactionRefused
  <2>1. RestTypeOK'
    BY <1>0, <1>21 DEF RawTransactionRefused, RestTypeOK, Blocks, handlerVars, chainVars
  <2> QED BY <1>21, <2>1, OutsideStep DEF RawTransactionRefused
<1> QED
  BY <1>1, <1>2, <1>3, <1>4, <1>5, <1>6, <1>7, <1>8, <1>9, <1>10, <1>11, <1>12, <1>13,
     <1>14, <1>15, <1>16, <1>17, <1>18, <1>19, <1>20, <1>21 DEF Next

-----------------------------------------------------------------------------
(* The theorems *)

\* The invariant holds in every reachable state.
THEOREM Inductive == Spec => []IInv
BY InitOK, NextOK, PTL DEF Spec

\* Type correctness of CInstantSend's maps, the handler's locals and the node.
THEOREM TypeCorrect == Spec => []TypeOK
<1>1. IInv => TypeOK
  BY DEF IInv
<1> QED BY <1>1, Inductive, PTL

\* The unchecked find() in Vote() (instantx.cpp:254-255) never returns end():
\* each hash of mapVotedOutpoints has a candidate that lists the outpoint.
THEOREM VotedDereferenceSafe == Spec => []VotedOutpointsHaveCandidates
<1>1. IInv => VotedOutpointsHaveCandidates
  BY DEF IInv, MapsOK, VotedOK, VotedOutpointsHaveCandidates
<1> QED BY <1>1, Inductive, PTL

\* No outpoint stays locked without a candidate whose removal would free it,
\* although Vote() finalizes a copy taken before cs_instantsend was released.
THEOREM NoOrphanedLock == Spec => []LocksHaveCandidates
<1>1. IInv => LocksHaveCandidates
  BY DEF IInv, MapsOK, LockedOK, LocksHaveCandidates
<1> QED BY <1>1, Inductive, PTL

\* Every lock rests on SIGNATURES_REQUIRED distinct smartnodes, whatever the
\* thresholds, the voters and the order of requests, votes and cleanups.
THEOREM LocksBacked == Spec => []LocksBackedByVotes
<1>1. IInv => LocksBackedByVotes
  BY DEF IInv, MapsOK, BackedOK, LocksBackedByVotes, OwnVoter
<1> QED BY <1>1, Inductive, PTL

\* AcceptToMemoryPool and ResolveConflicts together keep every transaction
\* that conflicts with a lock out of the memory pool.
THEOREM MempoolAgreesWithLocks == Spec => []MempoolRespectsLocks
<1>1. IInv => MempoolRespectsLocks
  BY DEF IInv
<1> QED BY <1>1, Inductive, PTL

\* Between the two critical sections of Vote() (instantx.cpp:185-205) the
\* handler's copy of the candidate stays current but for this node's votes.
THEOREM CopyStaysCurrent == Spec => []CopyIsCurrent
<1>1. IInv => CopyIsCurrent
  BY DEF IInv
<1> QED BY <1>1, Inductive, PTL
=============================================================================
