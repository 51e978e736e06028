----------------------- MODULE InstantSendLocksProofs -----------------------
(***************************************************************************)
(* More proofs about InstantSend: what removes candidates and releases     *)
(* locks, on a node whose sporks and sync stay as they are and whose chain *)
(* is longer than KeepLock, the time a lock is kept; and how the chain can *)
(* come to disagree with the locks.                                        *)
(***************************************************************************)
EXTENDS InstantSendProofs

-----------------------------------------------------------------------------
(* The invariant *)

\* ResolveConflicts expires candidates by setting their height to 0, which works
\* from this height on, and while the list is synced.
Steady == ~SporksMove /\ KeepLock < StartHeight

\* t is so deep in the chain that its candidate expires.
Buried(t) == minedAt[t] # NotInBlock /\ peak - minedAt[t] > KeepLock

NodeOK ==
    /\ listSynced
    /\ StartHeight <= height /\ height <= peak
    /\ StartHeight <= nCachedBlockHeight /\ nCachedBlockHeight <= peak
    /\ \A t \in Txs : minedAt[t] # NotInBlock => t \in txIndex

HeightOK(c, t) ==
    /\ c.conf \in {NotInBlock, minedAt[t]}
    /\ c.state = "none" => c.conf = NotInBlock

HeightsOK(cand) == \A t \in Txs : HeightOK(cand[t], t)

\* RivalRemoved for other values of mapLockRequestRejected.
RivalGone(t, rejected) ==
    \E s \in Txs : /\ Conflict(s, t)
                   /\ \/ s \in txIndex
                      \/ s \in rejected /\ \E h \in (rejected \cup txIndex) \ {t} : Conflict(h, s)

TogetherOK(cand, locked, rejected) ==
    \A t \in Txs : \A o, p \in cand[t].locks :
        locked[o] = t /\ locked[p] # t => RivalGone(t, rejected)

SInv == /\ NodeOK
        /\ HeightsOK(mapTxLockCandidates)
        /\ TogetherOK(mapTxLockCandidates, mapLockedOutpoints, mapLockRequestRejected)

\* Why the lock on o may go: a buried transaction, or two that were cancelled.
Cause(o, rejected) ==
    \/ \E t \in Txs : o \in Inputs[t] /\ Buried(t)
    \/ \E t, h \in rejected : Conflict(t, h) /\ o \in Inputs[t]

(***************************************************************************)
(* What an operation that starts from the candidates cand does to the      *)
(* maps.  The chain does not change meanwhile.                             *)
(***************************************************************************)
Outcome(cand) ==
    /\ HeightsOK(mapTxLockCandidates')
    /\ TogetherOK(mapTxLockCandidates', mapLockedOutpoints', mapLockRequestRejected')
    /\ \A t \in Txs : cand[t].state = "requested" =>
          \/ mapTxLockCandidates'[t].state = "requested"
          \/ t \in mapLockRequestRejected'
          \/ Buried(t)
    /\ \A t \in mapLockRequestAccepted' :
          /\ t \in mapLockRequestAccepted
          /\ cand[t].state = "requested" => mapTxLockCandidates'[t].state = "requested"
    /\ \A t \in mapLockRequestRejected : t \in mapLockRequestRejected' \/ Buried(t)
    /\ \A o \in Outpoints :
          mapLockedOutpoints[o] # NoTx /\ mapLockedOutpoints'[o] # mapLockedOutpoints[o]
             => Cause(o, mapLockRequestRejected')

-----------------------------------------------------------------------------
(* The operators that remove and lock *)

\* The cleanup, alone or for the two transactions D that ResolveConflicts cancels.
LEMMA CleanupOutcome ==
    ASSUME TypeOK, NodeOK, Steady,
           NEW cand \in [Txs -> Candidate], NEW voted, NEW orphans,
           NEW D \in SUBSET Txs,
           D = {} \/ \E t, h \in Txs : D = {t, h} /\ Conflict(t, h),
           \A t \in D : cand[t].state = "requested" /\ cand[t].conf = 0,
           \A t \in Txs \ D : HeightOK(cand[t], t),
           CandidatesOK(cand, now),
           TogetherOK(cand, mapLockedOutpoints, mapLockRequestRejected),
           RemoveExpired(cand, voted, orphans, D)
    PROVE  Outcome(cand)
<1> DEFINE gone  == ExpiredCandidates(cand)
           freed == FreedOutpoints(cand)
           named == {t \in gone : cand[t].state = "requested"}
<1>0. /\ nCachedBlockHeight \in Int /\ peak \in Int /\ minedAt \in [Txs -> Int]
      /\ KeepLock \in Nat /\ StartHeight \in Nat /\ NoTx \notin Txs
      /\ mapLockedOutpoints \in [Outpoints -> Txs \cup {NoTx}]
      /\ mapLockRequestRejected \subseteq Txs /\ mapLockRequestAccepted \subseteq Txs
  BY InstantSendAssumption DEF TypeOK
<1>1. /\ mapTxLockCandidates' = [t \in Txs |-> IF t \in gone THEN NoCandidate ELSE cand[t]]
      /\ mapLockedOutpoints' = [o \in Outpoints |->
             IF o \in freed THEN NoTx ELSE mapLockedOutpoints[o]]
      /\ mapLockRequestAccepted' = mapLockRequestAccepted \ named
      /\ mapLockRequestRejected' = (mapLockRequestRejected \ named) \cup D
  BY DEF RemoveExpired
<1>2. ASSUME NEW t \in gone
      PROVE  t \in Txs /\ (t \in D \/ Buried(t))
  <2>1. t \in Txs /\ cand[t].conf # NotInBlock /\ nCachedBlockHeight - cand[t].conf > KeepLock
    BY DEF ExpiredCandidates, IsExpired
  <2>2. CASE t \notin D
    <3>1. cand[t].conf = minedAt[t] /\ minedAt[t] # NotInBlock /\ minedAt[t] \in Int
      BY <1>0, <2>1, <2>2 DEF HeightOK
    <3> QED BY <1>0, <2>1, <3>1 DEF NodeOK, Buried
  <2> QED BY <2>1, <2>2
<1>3. D \subseteq gone
  <2> SUFFICES ASSUME NEW t \in D PROVE t \in gone
    OBVIOUS
  <2>1. cand[t].state # "none" /\ cand[t].conf = 0
    OBVIOUS
  <2>2. nCachedBlockHeight - 0 > KeepLock
    BY <1>0 DEF NodeOK, Steady
  <2> QED BY <2>1, <2>2 DEF ExpiredCandidates, IsExpired, NotInBlock
<1>4. \A t \in Txs : Buried(t) => t \in txIndex
  BY DEF NodeOK, Buried
<1>5. ASSUME NEW o \in freed
      PROVE  \E t \in gone : o \in cand[t].locks /\ o \in Inputs[t]
  BY <1>2 DEF FreedOutpoints, CandidatesOK
<1>6. NoCandidate.conf = NotInBlock /\ NoCandidate.state = "none" /\ NoCandidate.locks = {}
  BY DEF NoCandidate
<1> HIDE DEF gone, freed
<1>7. HeightsOK(mapTxLockCandidates')
  BY <1>1, <1>3, <1>6 DEF HeightsOK, HeightOK
<1>8. \A t \in mapLockRequestRejected : t \in mapLockRequestRejected' \/ Buried(t)
  BY <1>1, <1>2
<1>9. ASSUME NEW t \in Txs, RivalGone(t, mapLockRequestRejected)
      PROVE  RivalGone(t, mapLockRequestRejected')
  <2>1. PICK s \in Txs : /\ Conflict(s, t)
                         /\ \/ s \in txIndex
                            \/ /\ s \in mapLockRequestRejected
                               /\ \E h \in (mapLockRequestRejected \cup txIndex) \ {t} :
                                     Conflict(h, s)
    BY <1>9 DEF RivalGone
  <2>2. CASE s \in txIndex
    BY <2>1, <2>2 DEF RivalGone
  <2>3. CASE s \notin txIndex
    <3>1. s \in mapLockRequestRejected'
      BY <1>4, <1>8, <2>1, <2>3
    <3>2. PICK h \in (mapLockRequestRejected \cup txIndex) \ {t} : Conflict(h, s)
      BY <2>1, <2>3
    <3>3. h \in (mapLockRequestRejected' \cup txIndex) \ {t}
      BY <1>0, <1>4, <1>8
    <3> QED BY <2>1, <3>1, <3>2, <3>3 DEF RivalGone
  <2> QED BY <2>2, <2>3
<1>10. TogetherOK(mapTxLockCandidates', mapLockedOutpoints', mapLockRequestRejected')
  <2> SUFFICES ASSUME NEW t \in Txs, NEW o \in mapTxLockCandidates'[t].locks,
                      NEW p \in mapTxLockCandidates'[t].locks,
                      mapLockedOutpoints'[o] = t, mapLockedOutpoints'[p] # t
               PROVE  RivalGone(t, mapLockRequestRejected')
    BY DEF TogetherOK
  <2>1. t \notin gone /\ o \in cand[t].locks /\ p \in cand[t].locks
    BY <1>1, <1>6
  <2>2. o \in Outpoints /\ p \in Outpoints /\ p \in Inputs[t]
    BY <2>1 DEF CandidatesOK, Candidate
  <2>3. mapLockedOutpoints[o] = t
    BY <1>0, <1>1, <2>2
  <2>4. CASE mapLockedOutpoints[p] # t
    BY <1>9, <2>1, <2>3, <2>4 DEF TogetherOK
  <2>5. CASE mapLockedOutpoints[p] = t
    <3>1. p \in freed
      BY <1>1, <2>2, <2>5
    <3>2. PICK e \in gone : p \in Inputs[e]
      BY <1>5, <3>1
    <3>3. e \in Txs /\ Conflict(e, t)
      BY <1>2, <2>1, <2>2, <3>2 DEF Conflict
    <3>4. CASE Buried(e)
      BY <1>4, <3>3, <3>4 DEF RivalGone
    <3>5. CASE e \in D
      <4>1. PICK h \in D : Conflict(h, e)
        BY <3>5 DEF Conflict
      <4>2. h # t /\ e \in mapLockRequestRejected' /\ h \in mapLockRequestRejected'
        BY <1>1, <1>3, <2>1, <3>5, <4>1
      <4> QED BY <3>3, <4>1, <4>2 DEF RivalGone
    <3> QED BY <1>2, <3>4, <3>5
  <2> QED BY <2>4, <2>5
<1>11. \A t \in Txs : cand[t].state = "requested" =>
          \/ mapTxLockCandidates'[t].state = "requested"
          \/ t \in mapLockRequestRejected'
          \/ Buried(t)
  BY <1>1, <1>2
<1>12. \A t \in mapLockRequestAccepted' :
          /\ t \in mapLockRequestAccepted
          /\ cand[t].state = "requested" => mapTxLockCandidates'[t].state = "requested"
  BY <1>0, <1>1
<1>13. ASSUME NEW o \in Outpoints, mapLockedOutpoints'[o] # mapLockedOutpoints[o]
       PROVE  Cause(o, mapLockRequestRejected')
  <2>1. o \in freed
    BY <1>1, <1>13
  <2>2. PICK e \in gone : o \in Inputs[e]
    BY <1>5, <2>1
  <2>3. CASE Buried(e)
    BY <1>2, <2>2, <2>3 DEF Cause
  <2>4. CASE e \in D
    <3>1. PICK h \in D : Conflict(e, h)
      BY <2>4 DEF Conflict
    <3> QED BY <1>1, <2>2, <2>4, <3>1 DEF Cause
  <2> QED BY <1>2, <2>3, <2>4
<1> QED BY <1>7, <1>8, <1>10, <1>11, <1>12, <1>13 DEF Outcome

\* An operation that only stores the candidates.
LEMMA KeptOutcome ==
    ASSUME TypeOK, NEW cand \in [Txs -> Candidate], HeightsOK(cand),
           TogetherOK(cand, mapLockedOutpoints, mapLockRequestRejected),
           mapTxLockCandidates' = cand,
           UNCHANGED <<mapLockedOutpoints, mapLockRequestAccepted, mapLockRequestRejected>>
    PROVE  Outcome(cand)
BY DEF Outcome, TypeOK

\* The same outcome, seen from candidates with fewer requests.
LEMMA OutcomeBefore ==
    ASSUME TypeOK, NEW cand, NEW cand2, Outcome(cand2),
           \A t \in Txs : cand[t].state = "requested" => cand2[t].state = "requested"
    PROVE  Outcome(cand)
<1>1. mapLockRequestAccepted \subseteq Txs
  BY DEF TypeOK
<1> QED BY <1>1 DEF Outcome

\* ResolveConflicts cancels t and the transaction h that holds one of its inputs.
LEMMA DropOutcome ==
    ASSUME TypeOK, NodeOK, Steady,
           NEW t \in Txs, NEW h \in Txs, Conflict(t, h),
           NEW cand \in [Txs -> Candidate], NEW voted, NEW orphans,
           cand[t].state = "requested", cand[h].state = "requested",
           CandidatesOK(cand, now), HeightsOK(cand),
           TogetherOK(cand, mapLockedOutpoints, mapLockRequestRejected),
           DropBoth(t, h, cand, voted, orphans)
    PROVE  Outcome(cand)
<1> DEFINE expired == [s \in Txs |->
               IF s \in {t, h} THEN SetConfirmedHeight(cand[s], 0) ELSE cand[s]]
<1>1. RemoveExpired(expired, voted, orphans, {t, h})
  BY DEF DropBoth, NodeOK
<1>2. expired \in [Txs -> Candidate]
  BY DEF Candidate, SetConfirmedHeight
<1>3. /\ \A s \in Txs : /\ expired[s].state = cand[s].state
                        /\ expired[s].locks = cand[s].locks
                        /\ expired[s].created = cand[s].created
      /\ \A s \in Txs \ {t, h} : expired[s].conf = cand[s].conf
      /\ \A s \in {t, h} : expired[s].conf = 0
  BY DEF Candidate, SetConfirmedHeight
<1> HIDE DEF expired
<1>4. CandidatesOK(expired, now)
  BY <1>3 DEF CandidatesOK
<1>5. TogetherOK(expired, mapLockedOutpoints, mapLockRequestRejected)
  BY <1>3 DEF TogetherOK
<1>6. \A s \in Txs \ {t, h} : HeightOK(expired[s], s)
  BY <1>3 DEF HeightsOK, HeightOK
<1>7. \A s \in {t, h} : expired[s].state = "requested" /\ expired[s].conf = 0
  BY <1>3
<1>8. {t, h} \in SUBSET Txs /\ \E a, b \in Txs : {t, h} = {a, b} /\ Conflict(a, b)
  OBVIOUS
<1>9. Outcome(expired)
  BY <1>1, <1>2, <1>4, <1>5, <1>6, <1>7, <1>8, CleanupOutcome
<1> QED BY <1>3, <1>9, OutcomeBefore

\* Locking all inputs of t, none of which is taken, or cancelling t.
LEMMA FinalizeOutcome ==
    ASSUME TypeOK, NodeOK, Steady,
           NEW t \in Txs, NEW c \in Candidate,
           NEW cand \in [Txs -> Candidate], NEW voted, NEW orphans,
           c.locks = cand[t].locks,
           CandidatesOK(cand, now), LockedOK(cand, mapLockedOutpoints), HeightsOK(cand),
           TogetherOK(cand, mapLockedOutpoints, mapLockRequestRejected),
           TryToFinalizeLockCandidate(t, c, cand, voted, orphans)
    PROVE  Outcome(cand)
<1> DEFINE ready == /\ spork2
                    /\ IsAllOutPointsReady(c)
                    /\ ~IsLockedInstantSendTransaction(t, cand, mapLockedOutpoints)
           Kept == /\ mapTxLockCandidates' = cand
                   /\ UNCHANGED <<mapLockRequestAccepted, mapLockRequestRejected>>
<1>0. /\ mapLockedOutpoints \in [Outpoints -> Txs \cup {NoTx}]
      /\ Inputs \in [Txs -> SUBSET Outpoints] /\ NoTx \notin Txs
      /\ mapLockRequestAccepted \subseteq Txs
  BY InstantSendAssumption DEF TypeOK
<1>1. CASE Kept /\ mapLockedOutpoints' = mapLockedOutpoints
  BY <1>1, KeptOutcome
<1>2. ASSUME IsAllOutPointsReady(c), NEW o \in LockConflicts(t),
             DropBoth(t, mapLockedOutpoints[o], cand, voted, orphans)
      PROVE  Outcome(cand)
  <2> DEFINE h == mapLockedOutpoints[o]
  <2>1. o \in Inputs[t] /\ h # t /\ h \in Txs /\ o \in Outpoints
    BY <1>0 DEF LockConflicts
  <2>2. cand[h].state = "requested" /\ o \in Inputs[h]
    BY <1>0, <2>1 DEF LockedOK, CandidatesOK
  <2>3. cand[t].state = "requested"
    BY <1>2 DEF IsAllOutPointsReady, CandidatesOK
  <2>4. Conflict(t, h)
    BY <2>1, <2>2 DEF Conflict
  <2> HIDE DEF h
  <2>5. DropBoth(t, h, cand, voted, orphans)
    BY <1>2 DEF h
  <2> QED BY <2>1, <2>2, <2>3, <2>4, <2>5, DropOutcome
<1>3. CASE /\ Kept
           /\ <<"ok", NoTx>> \in ResolveConflicts(t)
           /\ LockTransactionInputs(t, c)
  <2>1. LockConflicts(t) = {}
    BY <1>3 DEF ResolveConflicts
  <2>2. mapLockedOutpoints' = [o \in Outpoints |->
            IF o \in c.locks /\ mapLockedOutpoints[o] = NoTx
            THEN t ELSE mapLockedOutpoints[o]]
    BY <1>3 DEF LockTransactionInputs
  <2>3. c.locks \subseteq Inputs[t]
    BY DEF CandidatesOK
  <2>4. \A o \in c.locks : mapLockedOutpoints'[o] = t
    BY <1>0, <2>1, <2>2, <2>3 DEF LockConflicts
  <2>5. \A o \in Outpoints : mapLockedOutpoints'[o] # mapLockedOutpoints[o]
                                => mapLockedOutpoints[o] = NoTx /\ o \in c.locks
    BY <2>2
  <2>6. TogetherOK(cand, mapLockedOutpoints', mapLockRequestRejected)
    <3> SUFFICES ASSUME NEW s \in Txs, NEW o \in cand[s].locks, NEW p \in cand[s].locks,
                        mapLockedOutpoints'[o] = s, mapLockedOutpoints'[p] # s
                 PROVE  RivalGone(s, mapLockRequestRejected)
      BY DEF TogetherOK
    <3>1. s # t /\ o \in Outpoints /\ p \in Outpoints
      BY <2>4 DEF Candidate
    <3>2. mapLockedOutpoints[o] = s
      BY <1>0, <2>2, <3>1
    <3>3. mapLockedOutpoints[p] # s
      BY <1>0, <2>2, <3>1
    <3> QED BY <3>2, <3>3 DEF TogetherOK
  <2> QED BY <1>3, <2>5, <2>6 DEF Outcome
<1>4. CASE ready
  <2>1. PICK r \in ResolveConflicts(t) :
          IF r[1] = "drop"
          THEN DropBoth(t, r[2], cand, voted, orphans)
          ELSE /\ Kept
               /\ IF r[1] = "ok" THEN LockTransactionInputs(t, c)
                                 ELSE UNCHANGED mapLockedOutpoints
    BY <1>4 DEF TryToFinalizeLockCandidate
  <2>2. \/ r = <<"ok", NoTx>>
        \/ r = <<"fail", NoTx>>
        \/ r[1] = "drop" /\ \E o \in LockConflicts(t) : r[2] = mapLockedOutpoints[o]
    BY DEF ResolveConflicts
  <2> QED BY <2>1, <2>2, <1>1, <1>2, <1>3, <1>4
<1>5. CASE ~ready
  BY <1>1, <1>5 DEF TryToFinalizeLockCandidate
<1> QED BY <1>4, <1>5

-----------------------------------------------------------------------------
(* Requests and votes *)

\* The candidates cand, which got more requests or votes, but no other heights,
\* and whose requests have the outpoints they had.
Grown(cand) ==
    \A t \in Txs :
        /\ cand[t].conf = mapTxLockCandidates[t].conf
        /\ mapTxLockCandidates[t].state # "none" => cand[t].state # "none"
        /\ mapTxLockCandidates[t].state = "requested" =>
              /\ cand[t].state = "requested"
              /\ cand[t].locks = mapTxLockCandidates[t].locks

LEMMA GrownKeeps ==
    ASSUME IInv, SInv, NEW cand \in [Txs -> Candidate], Grown(cand)
    PROVE  /\ HeightsOK(cand)
           /\ TogetherOK(cand, mapLockedOutpoints, mapLockRequestRejected)
<1>1. HeightsOK(cand)
  BY DEF SInv, Grown, HeightsOK, HeightOK
<1>2. TogetherOK(cand, mapLockedOutpoints, mapLockRequestRejected)
  <2> SUFFICES ASSUME NEW t \in Txs, NEW o \in cand[t].locks, NEW p \in cand[t].locks,
                      mapLockedOutpoints[o] = t, mapLockedOutpoints[p] # t
               PROVE  RivalGone(t, mapLockRequestRejected)
    BY DEF TogetherOK
  <2>1. o \in Outpoints
    BY DEF Candidate
  <2>2. mapTxLockCandidates[t].state = "requested"
    BY <2>1, InstantSendAssumption DEF IInv, MapsOK, LockedOK
  <2> QED BY <2>2 DEF Grown, SInv, TogetherOK
<1> QED BY <1>1, <1>2

LEMMA CreateGrows ==
    ASSUME IInv, SInv, NEW t \in Txs
    PROVE  Grown(CreateTxLockCandidate(t))
<1> DEFINE c == mapTxLockCandidates[t]
           new == [NoCandidate EXCEPT !.state = "requested", !.locks = Inputs[t],
                                      !.created = now]
           filled == [c EXCEPT !.state = "requested",
                 !.locks = IF IsTimedOut(c.created) THEN @ ELSE Inputs[t]]
           c2 == CASE c.state = "none" -> new
                   [] c.state = "empty" -> filled
                   [] OTHER -> c
           cand == CreateTxLockCandidate(t)
<1>1. mapTxLockCandidates \in [Txs -> Candidate] /\ c \in Candidate
  BY DEF IInv, TypeOK
<1>2. cand = [mapTxLockCandidates EXCEPT ![t] = c2]
  BY DEF CreateTxLockCandidate
<1>3. new.conf = NotInBlock /\ new.state = "requested"
  BY DEF NoCandidate
<1>4. filled.conf = c.conf /\ filled.state = "requested"
  BY <1>1 DEF Candidate
<1>5. c.state = "none" => c.conf = NotInBlock
  BY DEF SInv, HeightsOK, HeightOK
<1> HIDE DEF new, filled
<1>6. /\ c2.conf = c.conf
      /\ c2.state = "requested"
      /\ c.state = "requested" => c2 = c
  BY <1>1, <1>3, <1>4, <1>5 DEF Candidate
<1> HIDE DEF c2, cand
<1>7. cand[t] = c2 /\ \A s \in Txs \ {t} : cand[s] = mapTxLockCandidates[s]
  BY <1>1, <1>2
<1> QED BY <1>6, <1>7 DEF Grown, cand

\* Counting votes changes neither heights nor outpoints.
LEMMA AddVotesSame ==
    ASSUME NEW cand \in [Txs -> Candidate], NEW voted, NEW vs
    PROVE  \A t \in Txs : /\ AddVotes(vs, cand, voted)[t].state = cand[t].state
                          /\ AddVotes(vs, cand, voted)[t].locks = cand[t].locks
                          /\ AddVotes(vs, cand, voted)[t].conf = cand[t].conf
<1> SUFFICES ASSUME NEW t \in Txs
             PROVE  /\ AddVotes(vs, cand, voted)[t].state = cand[t].state
                    /\ AddVotes(vs, cand, voted)[t].locks = cand[t].locks
                    /\ AddVotes(vs, cand, voted)[t].conf = cand[t].conf
  OBVIOUS
<1> DEFINE added(s) == {<<v.outpoint, v.smartnode>> :
               v \in {w \in vs : w.tx = s /\ w.outpoint \in cand[s].locks}}
           clash(v, s) == /\ s # v.tx
                          /\ s \in Votings(vs, voted)[v.outpoint]
                          /\ <<v.outpoint, v.smartnode>> \in cand[s].votes \cup added(s)
           attacked(u) == {o \in cand[u].locks : \E v \in vs :
                             /\ v.outpoint = o
                             /\ \/ clash(v, u)
                                \/ v.tx = u /\ \E s \in Txs : clash(v, s)}
<1>1. AddVotes(vs, cand, voted)
        = [u \in Txs |-> [cand[u] EXCEPT !.votes = cand[u].votes \cup added(u),
                                         !.attacked = @ \cup attacked(u)]]
  BY DEF AddVotes
<1>2. cand[t] \in Candidate
  OBVIOUS
<1> HIDE DEF added, attacked
<1>3. AddVotes(vs, cand, voted)[t] = [cand[t] EXCEPT !.votes = cand[t].votes \cup added(t),
                                                     !.attacked = @ \cup attacked(t)]
  BY <1>1
<1> QED BY <1>2, <1>3 DEF Candidate

\* The request handler, up to the memory pool.
LEMMA RequestOutcome ==
    ASSUME IInv, SInv, Steady, NEW t \in Txs, ProcessTxLockRequest(t)
    PROVE  /\ Outcome(mapTxLockCandidates)
           /\ CandidateUsable(t) => \/ mapTxLockCandidates'[t].state = "requested"
                                    \/ t \in mapLockRequestRejected'
                                    \/ Buried(t)
<1> DEFINE cand == CreateTxLockCandidate(t)
           vs == Adopted(cand)
           cand2 == AddVotes(vs, cand, mapVotedOutpoints)
           voted2 == Votings(vs, mapVotedOutpoints)
           orphans2 == [v \in Votes |-> IF v \in Taken(cand) THEN -1
                                        ELSE mapTxLockVotesOrphan[v]]
<1>1. TypeOK /\ ownVotes \in SUBSET Votes /\ NodeOK
      /\ mapVotedOutpoints \in [Outpoints -> SUBSET Txs]
      /\ mapLockedOutpoints \in [Outpoints -> Txs \cup {NoTx}]
  BY DEF IInv, TypeOK, SInv
<1>2. /\ cand \in [Txs -> Candidate]
      /\ MapsOK(cand, mapVotedOutpoints, mapLockedOutpoints, ownVotes)
  BY CreateCandidateKeeps
<1>3. Grown(cand)
  BY CreateGrows
<1>4. CASE CandidateUsable(t)
  <2>1. TryToFinalizeLockCandidate(t, cand2[t], cand2, voted2, orphans2)
    BY <1>4 DEF ProcessTxLockRequest
  <2>0. cand[t].state = "requested"
    BY DEF CreateTxLockCandidate, IInv, TypeOK, Candidate, NoCandidate
  <2> HIDE DEF cand
  <2>2. vs \in SUBSET Votes
        /\ \A v \in vs : cand[v.tx].state = "requested" /\ v.outpoint \in cand[v.tx].locks
    BY <1>2, InstantSendAssumption
       DEF Adopted, Votes, MapsOK, CandidatesOK, IsTimedOut
  <2> HIDE DEF vs
  <2>3. /\ cand2 \in [Txs -> Candidate]
        /\ MapsOK(cand2, voted2, mapLockedOutpoints, ownVotes)
    BY <1>1, <1>2, <2>2, AddVotesKeeps
  <2>4. \A s \in Txs : /\ cand2[s].state = cand[s].state
                       /\ cand2[s].locks = cand[s].locks
                       /\ cand2[s].conf = cand[s].conf
    BY <1>2, AddVotesSame
  <2> HIDE DEF cand2, voted2, orphans2
  <2>5. Grown(cand2)
    BY <1>3, <2>4 DEF Grown
  <2>6. HeightsOK(cand2) /\ TogetherOK(cand2, mapLockedOutpoints, mapLockRequestRejected)
    BY <2>3, <2>5, GrownKeeps
  <2>7. Outcome(cand2)
    <3>1. CandidatesOK(cand2, now) /\ LockedOK(cand2, mapLockedOutpoints)
      BY <2>3 DEF MapsOK
    <3>2. cand2[t] \in Candidate
      BY <2>3
    <3> QED BY <1>1, <2>1, <2>3, <2>6, <3>1, <3>2, FinalizeOutcome
  <2>8. Outcome(mapTxLockCandidates)
    BY <1>1, <2>5, <2>7, OutcomeBefore DEF Grown
  <2>9. \/ mapTxLockCandidates'[t].state = "requested"
        \/ t \in mapLockRequestRejected'
        \/ Buried(t)
    BY <2>0, <2>4, <2>7 DEF Outcome
  <2> QED BY <2>8, <2>9
<1>5. CASE ~CandidateUsable(t)
  <2>1. /\ mapTxLockCandidates' = cand
        /\ UNCHANGED <<mapLockedOutpoints, mapLockRequestAccepted, mapLockRequestRejected>>
    BY <1>5 DEF ProcessTxLockRequest
  <2> HIDE DEF cand
  <2>2. HeightsOK(cand) /\ TogetherOK(cand, mapLockedOutpoints, mapLockRequestRejected)
    BY <1>2, <1>3, GrownKeeps
  <2>3. Outcome(cand)
    BY <1>1, <1>2, <2>1, <2>2, KeptOutcome
  <2> QED BY <1>1, <1>3, <1>5, <2>3, OutcomeBefore DEF Grown
<1> QED BY <1>4, <1>5

\* An orphan vote adds at most an empty candidate.
LEMMA OrphanOutcome ==
    ASSUME IInv, SInv, NEW v \in Votes, mapTxLockCandidates[v.tx].state # "requested",
           KeepOrphan(v)
    PROVE  Outcome(mapTxLockCandidates)
<1> DEFINE t == v.tx
           empty == [NoCandidate EXCEPT !.state = "empty", !.created = now]
           c2 == IF mapTxLockCandidates[t].state = "none" THEN empty
                 ELSE mapTxLockCandidates[t]
           cand == mapTxLockCandidates'
<1>1. /\ TypeOK /\ t \in Txs /\ mapTxLockCandidates \in [Txs -> Candidate]
  BY DEF IInv, TypeOK, Votes
<1>2. /\ cand = [mapTxLockCandidates EXCEPT ![t] = c2]
      /\ UNCHANGED <<mapLockedOutpoints, mapLockRequestAccepted, mapLockRequestRejected>>
  BY DEF KeepOrphan
<1>3. empty.state = "empty" /\ empty.conf = NotInBlock
  BY DEF NoCandidate
<1>4. cand \in [Txs -> Candidate]
  BY KeepOrphanKeeps DEF MapsTypeOK
<1>5. mapTxLockCandidates[t].state = "none" => mapTxLockCandidates[t].conf = NotInBlock
  BY <1>1 DEF SInv, HeightsOK, HeightOK
<1> HIDE DEF empty
<1>6. Grown(cand)
  BY <1>1, <1>2, <1>3, <1>5 DEF Grown
<1> HIDE DEF cand
<1>7. HeightsOK(cand) /\ TogetherOK(cand, mapLockedOutpoints, mapLockRequestRejected)
  BY <1>4, <1>6, GrownKeeps
<1>8. Outcome(cand)
  BY <1>1, <1>2, <1>4, <1>7, KeptOutcome DEF cand
<1> QED BY <1>1, <1>6, <1>8, OutcomeBefore DEF Grown

LEMMA VoteOutcome ==
    ASSUME IInv, SInv, Steady, NEW v \in Votes, ProcessTxLockVote(v)
    PROVE  Outcome(mapTxLockCandidates)
<1> DEFINE t == v.tx
           c == mapTxLockCandidates[t]
           cand == AddVotes({v}, mapTxLockCandidates, mapVotedOutpoints)
           voted == Votings({v}, mapVotedOutpoints)
<1>1. /\ TypeOK /\ NodeOK /\ t \in Txs /\ v.outpoint \in Inputs[t]
      /\ mapTxLockCandidates \in [Txs -> Candidate]
      /\ mapVotedOutpoints \in [Outpoints -> SUBSET Txs]
      /\ mapLockedOutpoints \in [Outpoints -> Txs \cup {NoTx}]
      /\ ownVotes \in SUBSET Votes /\ {v} \in SUBSET Votes
      /\ MapsOK(mapTxLockCandidates, mapVotedOutpoints, mapLockedOutpoints, ownVotes)
  BY DEF IInv, SInv, TypeOK, Votes
<1>2. CASE UNCHANGED instantsendVars
  BY <1>1, <1>2, KeptOutcome DEF SInv, instantsendVars
<1>3. CASE IsValidVote(v) /\ c.state # "requested"
  <2>1. KeepOrphan(v)
    BY <1>3 DEF ProcessTxLockVote
  <2> QED BY <2>1, <1>3, OrphanOutcome
<1>4. CASE IsValidVote(v) /\ c.state = "requested" /\ ~IsTimedOut(c.created)
  <2>1. \A w \in {v} : /\ mapTxLockCandidates[w.tx].state = "requested"
                       /\ w.outpoint \in mapTxLockCandidates[w.tx].locks
    BY <1>1, <1>4 DEF MapsOK, CandidatesOK, IsTimedOut
  <2>2. /\ cand \in [Txs -> Candidate]
        /\ MapsOK(cand, voted, mapLockedOutpoints, ownVotes)
    BY <1>1, <2>1, AddVotesKeeps
  <2>3. Grown(cand)
    BY <1>1, AddVotesSame DEF Grown
  <2>4. \/ TryToFinalizeLockCandidate(t, cand[t], cand, voted, mapTxLockVotesOrphan)
        \/ /\ mapTxLockCandidates' = cand
           /\ UNCHANGED <<mapLockedOutpoints, mapLockRequestAccepted, mapLockRequestRejected>>
    BY <1>4 DEF ProcessTxLockVote
  <2> HIDE DEF cand, voted
  <2>5. HeightsOK(cand) /\ TogetherOK(cand, mapLockedOutpoints, mapLockRequestRejected)
    BY <2>2, <2>3, GrownKeeps
  <2>6. CandidatesOK(cand, now) /\ LockedOK(cand, mapLockedOutpoints) /\ cand[t] \in Candidate
    BY <1>1, <2>2 DEF MapsOK
  <2>7. Outcome(cand)
    BY <1>1, <2>2, <2>4, <2>5, <2>6, FinalizeOutcome, KeptOutcome
  <2> QED BY <1>1, <2>3, <2>7, OutcomeBefore DEF Grown
<1> QED BY <1>2, <1>3, <1>4 DEF ProcessTxLockVote

-----------------------------------------------------------------------------
(* The steps *)

\* What is known of a request that the handler brings to the memory pool.
Settled(t, cand, rejected) ==
    cand[t].state = "requested" \/ t \in rejected \/ Buried(t)

\* A step that leaves the chain alone.
OnMaps ==
    /\ Outcome(mapTxLockCandidates)
    /\ UNCHANGED <<minedAt, txIndex, height, peak, nCachedBlockHeight, listSynced>>
    /\ pc' = "accept" =>
          /\ msgTx' \in Txs
          /\ \/ pc = "accept" /\ msgTx' = msgTx
             \/ Settled(msgTx', mapTxLockCandidates', mapLockRequestRejected')

LEMMA RequestOnMaps ==
    ASSUME IInv, SInv, Steady, NEW t \in LockRequests,
           ReceiveTxLockRequest(t) \/ RelayWalletTransaction(t) \/ SendRawTransaction(t)
    PROVE  OnMaps
<1>1. t \in Txs /\ ProcessTxLockRequest(t)
  BY InstantSendAssumption DEF ReceiveTxLockRequest, RelayWalletTransaction, SendRawTransaction
<1>2. /\ Outcome(mapTxLockCandidates)
      /\ CandidateUsable(t) => Settled(t, mapTxLockCandidates', mapLockRequestRejected')
  BY <1>1, RequestOutcome DEF Settled
<1>3. UNCHANGED <<minedAt, txIndex, height, peak, nCachedBlockHeight, listSynced>>
  BY DEF ReceiveTxLockRequest, RelayWalletTransaction, SendRawTransaction, chainVars, nodeVars
<1>4. pc' = "accept" =>
          \/ pc = "accept" /\ msgTx' = msgTx
          \/ msgTx' = t /\ CandidateUsable(t)
  BY DEF ReceiveTxLockRequest, RelayWalletTransaction, SendRawTransaction, handlerVars
<1>5. pc = "accept" => msgTx \in Txs
  BY DEF IInv, HandlerOK
<1> QED BY <1>1, <1>2, <1>3, <1>4, <1>5 DEF OnMaps

LEMMA HandlerOnMaps ==
    ASSUME IInv, SInv, Steady,
           \/ FinalizeCopy
           \/ CheckAndRemove
           \/ \E v \in Votes : ProcessTxLockVote(v)
    PROVE  OnMaps
<1>1. /\ TypeOK /\ NodeOK
      /\ mapTxLockCandidates \in [Txs -> Candidate]
      /\ MapsOK(mapTxLockCandidates, mapVotedOutpoints, mapLockedOutpoints, ownVotes)
      /\ CandidatesOK(mapTxLockCandidates, now)
      /\ LockedOK(mapTxLockCandidates, mapLockedOutpoints)
      /\ HeightsOK(mapTxLockCandidates)
      /\ TogetherOK(mapTxLockCandidates, mapLockedOutpoints, mapLockRequestRejected)
      /\ pc = "accept" => msgTx \in Txs
  BY DEF IInv, SInv, TypeOK, MapsOK, HandlerOK
<1>2. CASE FinalizeCopy
  <2>1. msgTx \in Txs /\ copy \in Candidate
        /\ LET c == mapTxLockCandidates[msgTx] IN c = [copy EXCEPT !.votes = c.votes]
    BY <1>2 DEF FinalizeCopy, IInv, TypeOK, HandlerOK, CopyIsCurrent
  <2>2. copy.locks = mapTxLockCandidates[msgTx].locks
    BY <2>1 DEF Candidate
  <2>3. TryToFinalizeLockCandidate(msgTx, copy, mapTxLockCandidates,
                                   mapVotedOutpoints, mapTxLockVotesOrphan)
    BY <1>2 DEF FinalizeCopy
  <2>4. Outcome(mapTxLockCandidates)
    BY <1>1, <2>1, <2>2, <2>3, FinalizeOutcome
  <2> QED BY <1>2, <2>4 DEF OnMaps, FinalizeCopy, chainVars, nodeVars
<1>3. CASE CheckAndRemove
  <2>1. RemoveExpired(mapTxLockCandidates, mapVotedOutpoints, mapTxLockVotesOrphan, {})
    BY <1>3 DEF CheckAndRemove
  <2>2. \A t \in Txs \ {} : HeightOK(mapTxLockCandidates[t], t)
    BY <1>1 DEF HeightsOK
  <2>3. Outcome(mapTxLockCandidates)
    BY <1>1, <2>1, <2>2, CleanupOutcome
  <2> QED BY <1>1, <1>3, <2>3 DEF OnMaps, CheckAndRemove, chainVars, nodeVars, handlerVars
<1>4. CASE \E v \in Votes : ProcessTxLockVote(v)
  BY <1>4, VoteOutcome DEF OnMaps, ProcessTxLockVote, chainVars, nodeVars
<1> QED BY <1>2, <1>3, <1>4

\* Steps that lock and remove nothing, and report no transaction.
LEMMA QuietOnMaps ==
    ASSUME IInv, SInv,
           \/ RawTransactionRefused \/ LockRequestRefused \/ Vote
           \/ \E v \in Votes : ReceiveTxLockVote(v)
           \/ \E t \in Txs : LimitMempoolSize(t)
           \/ \E b \in Blocks : AcceptBlock(b)
           \/ Tick \/ RanksChange \/ UNCHANGED vars
    PROVE  OnMaps
<1>1. /\ UNCHANGED <<mapTxLockCandidates, mapLockedOutpoints, mapLockRequestAccepted>>
      /\ mapLockRequestRejected \subseteq mapLockRequestRejected'
      /\ UNCHANGED <<minedAt, txIndex, height, peak, nCachedBlockHeight, listSynced>>
      /\ pc' = "accept" => pc = "accept" /\ msgTx' = msgTx
  BY DEF RawTransactionRefused, LockRequestRefused, Vote, ReceiveTxLockVote, LimitMempoolSize,
         AcceptBlock, Tick, RanksChange, vars, instantsendVars, handlerVars, chainVars, nodeVars
<1>2. HeightsOK(mapTxLockCandidates')
  BY <1>1 DEF SInv
<1>3. TogetherOK(mapTxLockCandidates', mapLockedOutpoints', mapLockRequestRejected')
  <2>1. \A t \in Txs : RivalGone(t, mapLockRequestRejected)
                          => RivalGone(t, mapLockRequestRejected')
    BY <1>1 DEF RivalGone
  <2> QED BY <1>1, <2>1 DEF SInv, TogetherOK
<1>4. Outcome(mapTxLockCandidates)
  BY <1>1, <1>2, <1>3 DEF Outcome
<1>5. pc = "accept" => msgTx \in Txs
  BY DEF IInv, HandlerOK
<1> QED BY <1>1, <1>4, <1>5 DEF OnMaps

\* A step that reports transactions of the memory pool or of a block with
\* SyncTransaction: heights change, and nothing else of a candidate.
OnChain ==
    /\ UNCHANGED <<mapLockedOutpoints, mapLockRequestRejected, listSynced>>
    /\ \A t \in Txs : /\ mapTxLockCandidates'[t].state = mapTxLockCandidates[t].state
                      /\ mapTxLockCandidates'[t].locks = mapTxLockCandidates[t].locks
    /\ NodeOK' /\ HeightsOK(mapTxLockCandidates)'
    /\ txIndex \subseteq txIndex'

LEMMA SyncSame ==
    ASSUME IInv, NEW S \in SUBSET Txs, NEW h \in [S -> Int], SyncTransaction(h)
    PROVE  \A t \in Txs :
              /\ mapTxLockCandidates'[t].state = mapTxLockCandidates[t].state
              /\ mapTxLockCandidates'[t].locks = mapTxLockCandidates[t].locks
              /\ mapTxLockCandidates'[t].conf =
                    IF t \in S /\ mapTxLockCandidates[t].state # "none"
                    THEN h[t] ELSE mapTxLockCandidates[t].conf
<1> SUFFICES ASSUME NEW t \in Txs
             PROVE  /\ mapTxLockCandidates'[t].state = mapTxLockCandidates[t].state
                    /\ mapTxLockCandidates'[t].locks = mapTxLockCandidates[t].locks
                    /\ mapTxLockCandidates'[t].conf =
                          IF t \in S /\ mapTxLockCandidates[t].state # "none"
                          THEN h[t] ELSE mapTxLockCandidates[t].conf
  OBVIOUS
<1>1. mapTxLockCandidates[t] \in Candidate /\ DOMAIN h = S
  BY DEF IInv, TypeOK
<1>2. mapTxLockCandidates'[t] =
          IF t \in S /\ mapTxLockCandidates[t].state # "none"
          THEN [mapTxLockCandidates[t] EXCEPT !.conf = h[t]]
          ELSE mapTxLockCandidates[t]
  BY <1>1 DEF SyncTransaction, SetConfirmedHeight
<1> QED BY <1>1, <1>2 DEF Candidate

\* A transaction enters the memory pool.
LEMMA PoolOnChain ==
    ASSUME IInv, SInv,
           LockRequestAccepted \/ RawTransactionAccepted \/ \E t \in Txs : ReceiveTx(t)
    PROVE  OnChain /\ UNCHANGED <<minedAt, peak>>
<1>1. PICK t \in Txs : SyncTransaction([s \in {t} |-> NotInBlock])
  <2>1. CASE LockRequestAccepted
    BY <2>1 DEF LockRequestAccepted, AddToMemoryPool, IInv, HandlerOK
  <2>2. CASE RawTransactionAccepted
    BY <2>2 DEF RawTransactionAccepted, AddToMemoryPool, IInv, TypeOK
  <2>3. CASE \E t \in Txs : ReceiveTx(t)
    BY <2>3 DEF ReceiveTx, AddToMemoryPool
  <2> QED BY <2>1, <2>2, <2>3
<1>2. UNCHANGED <<mapLockedOutpoints, mapLockRequestRejected, minedAt, txIndex, height, peak,
                  nCachedBlockHeight, listSynced>>
  BY DEF LockRequestAccepted, RawTransactionAccepted, ReceiveTx, chainVars, nodeVars
<1> DEFINE h == [s \in {t} |-> NotInBlock]
<1>3. {t} \in SUBSET Txs /\ h \in [{t} -> Int]
  BY DEF NotInBlock
<1>4. \A s \in Txs :
          /\ mapTxLockCandidates'[s].state = mapTxLockCandidates[s].state
          /\ mapTxLockCandidates'[s].locks = mapTxLockCandidates[s].locks
          /\ mapTxLockCandidates'[s].conf =
                IF s \in {t} /\ mapTxLockCandidates[s].state # "none"
                THEN h[s] ELSE mapTxLockCandidates[s].conf
  <2> HIDE DEF h
  <2> QED BY <1>1, <1>3, SyncSame DEF h
<1>5. HeightsOK(mapTxLockCandidates)'
  BY <1>2, <1>4 DEF SInv, HeightsOK, HeightOK
<1>6. NodeOK'
  BY <1>2 DEF SInv, NodeOK
<1> QED BY <1>2, <1>4, <1>5, <1>6 DEF OnChain

LEMMA ConnectOnChain ==
    ASSUME IInv, SInv, NEW b \in Blocks, ConnectTip(b)
    PROVE  OnChain /\ peak <= peak' /\ \A t \in Txs : minedAt[t] \in {NotInBlock, minedAt'[t]}
<1> DEFINE S == b \cup UNION {MempoolConflicts(t) : t \in b}
           h == [t \in S |-> IF t \in b THEN height + 1 ELSE NotInBlock]
<1>1. /\ SyncTransaction(h)
      /\ \A t \in b : Inputs[t] \subseteq Unspent(minedAt)
      /\ minedAt' = [t \in Txs |-> IF t \in b THEN height + 1 ELSE minedAt[t]]
      /\ txIndex' = txIndex \cup b
      /\ height' = height + 1
      /\ peak' = IF height + 1 > peak THEN height + 1 ELSE peak
      /\ UNCHANGED <<mapLockedOutpoints, mapLockRequestRejected, nCachedBlockHeight, listSynced>>
  BY DEF ConnectTip, nodeVars
<1>2. /\ b \subseteq Txs /\ mempool \subseteq Txs
      /\ height \in Int /\ peak \in Int /\ StartHeight \in Nat /\ nCachedBlockHeight \in Int
      /\ Inputs \in [Txs -> (SUBSET Outpoints) \ {{}}]
  BY InstantSendAssumption DEF IInv, TypeOK, Blocks
<1>3. S \in SUBSET Txs
  BY <1>2 DEF MempoolConflicts
<1>4. h \in [S -> Int]
  BY <1>2 DEF NotInBlock
<1>5. \A t \in S : h[t] = IF t \in b THEN height + 1 ELSE NotInBlock
  OBVIOUS
<1>6. b \subseteq S
  OBVIOUS
<1> HIDE DEF h, S
<1>7. \A s \in Txs :
          /\ mapTxLockCandidates'[s].state = mapTxLockCandidates[s].state
          /\ mapTxLockCandidates'[s].locks = mapTxLockCandidates[s].locks
          /\ mapTxLockCandidates'[s].conf =
                IF s \in S /\ mapTxLockCandidates[s].state # "none"
                THEN h[s] ELSE mapTxLockCandidates[s].conf
  BY <1>1, <1>3, <1>4, SyncSame
<1>8. HeightsOK(mapTxLockCandidates)'
  BY <1>1, <1>5, <1>6, <1>7 DEF SInv, HeightsOK, HeightOK
<1>9. NodeOK' /\ peak <= peak'
  BY <1>1, <1>2 DEF SInv, NodeOK
<1>10. \A t \in b : minedAt[t] = NotInBlock
  BY <1>1, <1>2 DEF Unspent
<1> QED BY <1>1, <1>7, <1>8, <1>9, <1>10 DEF OnChain

LEMMA DisconnectOnChain ==
    ASSUME IInv, SInv, DisconnectTip
    PROVE  /\ OnChain /\ peak' = peak
           /\ \A t \in Txs : minedAt'[t] = minedAt[t] \/ peak - minedAt[t] < MaxReorg
<1> DEFINE block == {t \in Txs : minedAt[t] = height}
           h == [t \in block |-> NotInBlock]
<1>1. /\ SyncTransaction(h)
      /\ minedAt' = [t \in Txs |-> IF t \in block THEN NotInBlock ELSE minedAt[t]]
      /\ height > StartHeight /\ peak - height < MaxReorg
      /\ height' = height - 1 /\ peak' = peak /\ txIndex' = txIndex
      /\ UNCHANGED <<mapLockedOutpoints, mapLockRequestRejected, nCachedBlockHeight, listSynced>>
  BY DEF DisconnectTip, nodeVars
<1>2. /\ height \in Int /\ peak \in Int /\ StartHeight \in Nat /\ nCachedBlockHeight \in Int
  BY InstantSendAssumption DEF IInv, TypeOK
<1>3. block \in SUBSET Txs /\ h \in [block -> Int]
  BY DEF NotInBlock
<1>4. \A t \in block : h[t] = NotInBlock
  OBVIOUS
<1> HIDE DEF h
<1>5. \A s \in Txs :
          /\ mapTxLockCandidates'[s].state = mapTxLockCandidates[s].state
          /\ mapTxLockCandidates'[s].locks = mapTxLockCandidates[s].locks
          /\ mapTxLockCandidates'[s].conf =
                IF s \in block /\ mapTxLockCandidates[s].state # "none"
                THEN h[s] ELSE mapTxLockCandidates[s].conf
  <2> HIDE DEF block
  <2> QED BY <1>1, <1>3, SyncSame
<1>6. HeightsOK(mapTxLockCandidates)'
  BY <1>1, <1>4, <1>5 DEF SInv, HeightsOK, HeightOK
<1>7. NodeOK'
  BY <1>1, <1>2 DEF SInv, NodeOK
<1> QED BY <1>1, <1>5, <1>6, <1>7 DEF OnChain

-----------------------------------------------------------------------------
(* The invariant is inductive *)

LEMMA SteadyInit == ASSUME Init PROVE SInv
<1>1. NodeOK
  BY InstantSendAssumption DEF Init, NodeOK
<1>2. HeightsOK(mapTxLockCandidates)
  BY DEF Init, HeightsOK, HeightOK, NoCandidate
<1>3. TogetherOK(mapTxLockCandidates, mapLockedOutpoints, mapLockRequestRejected)
  BY DEF Init, TogetherOK, NoCandidate
<1> QED BY <1>1, <1>2, <1>3 DEF SInv

\* Every step is of one of four kinds.
LEMMA StepKinds ==
    ASSUME IInv, SInv, Steady, [Next]_vars
    PROVE  OnMaps \/ OnChain \/ UpdatedBlockTip \/ Restart
<1>1. CASE \E t \in LockRequests :
              ReceiveTxLockRequest(t) \/ RelayWalletTransaction(t) \/ SendRawTransaction(t)
  BY <1>1, RequestOnMaps
<1>2. CASE FinalizeCopy \/ CheckAndRemove \/ \E v \in Votes : ProcessTxLockVote(v)
  BY <1>2, HandlerOnMaps
<1>3. CASE \/ RawTransactionRefused \/ LockRequestRefused \/ Vote
           \/ \E v \in PeerVotes \cup ownVotes : ReceiveTxLockVote(v)
           \/ \E t \in Txs : LimitMempoolSize(t)
           \/ \E b \in Blocks : AcceptBlock(b)
           \/ Tick \/ RanksChange \/ UNCHANGED vars
  <2>1. PeerVotes \cup ownVotes \subseteq Votes
    BY InstantSendAssumption DEF IInv, TypeOK
  <2> QED BY <1>3, <2>1, QuietOnMaps
<1>4. CASE LockRequestAccepted \/ RawTransactionAccepted \/ \E t \in Txs : ReceiveTx(t)
  BY <1>4, PoolOnChain
<1>5. CASE \E b \in Blocks : ConnectTip(b)
  BY <1>5, ConnectOnChain
<1>6. CASE DisconnectTip
  BY <1>6, DisconnectOnChain
<1>7. CASE SporkOrSyncChange
  BY <1>7 DEF SporkOrSyncChange, Steady
<1> QED BY <1>1, <1>2, <1>3, <1>4, <1>5, <1>6, <1>7 DEF Next

LEMMA SteadyNext == ASSUME IInv, SInv, Steady, [Next]_vars PROVE SInv'
<1>1. CASE OnMaps
  <2>1. /\ HeightsOK(mapTxLockCandidates')
        /\ TogetherOK(mapTxLockCandidates', mapLockedOutpoints', mapLockRequestRejected')
        /\ UNCHANGED <<minedAt, txIndex, height, peak, nCachedBlockHeight, listSynced>>
    BY <1>1 DEF OnMaps, Outcome
  <2>2. NodeOK'
    BY <2>1 DEF SInv, NodeOK
  <2>3. HeightsOK(mapTxLockCandidates)'
    BY <2>1 DEF HeightsOK, HeightOK
  <2>4. TogetherOK(mapTxLockCandidates, mapLockedOutpoints, mapLockRequestRejected)'
    BY <2>1 DEF TogetherOK, RivalGone
  <2> QED BY <2>2, <2>3, <2>4 DEF SInv
<1>2. CASE OnChain
  <2>1. \A t \in Txs : RivalGone(t, mapLockRequestRejected)
                          => RivalGone(t, mapLockRequestRejected)'
    BY <1>2 DEF OnChain, RivalGone
  <2>2. TogetherOK(mapTxLockCandidates, mapLockedOutpoints, mapLockRequestRejected)'
    BY <1>2, <2>1 DEF OnChain, SInv, TogetherOK
  <2> QED BY <1>2, <2>2 DEF OnChain, SInv
<1>3. CASE UpdatedBlockTip
  <2>1. /\ nCachedBlockHeight' = height
        /\ UNCHANGED <<mapTxLockCandidates, mapLockedOutpoints, mapLockRequestRejected,
                       minedAt, txIndex, height, peak, listSynced>>
    BY <1>3 DEF UpdatedBlockTip, instantsendVars, chainVars, nodeVars
  <2> QED BY <2>1 DEF SInv, NodeOK, HeightsOK, HeightOK, TogetherOK, RivalGone
<1>4. CASE Restart
  <2>1. /\ nCachedBlockHeight' = height
        /\ mapTxLockCandidates' = [t \in Txs |-> NoCandidate]
        /\ UNCHANGED <<minedAt, txIndex, height, peak, listSynced>>
    BY <1>4 DEF Restart
  <2>2. NodeOK'
    BY <2>1 DEF SInv, NodeOK
  <2>3. HeightsOK(mapTxLockCandidates)'
    BY <2>1 DEF HeightsOK, HeightOK, NoCandidate
  <2>4. TogetherOK(mapTxLockCandidates, mapLockedOutpoints, mapLockRequestRejected)'
    BY <2>1 DEF TogetherOK, NoCandidate
  <2> QED BY <2>2, <2>3, <2>4 DEF SInv
<1> QED BY <1>1, <1>2, <1>3, <1>4, StepKinds

-----------------------------------------------------------------------------
(* Accepted requests *)

\* Reorganisations that are shallower than the depth at which a lock is given up.
Shallow == MaxReorg <= KeepLock

AInv == /\ AcceptedHaveCandidates
        /\ pc = "accept" => Settled(msgTx, mapTxLockCandidates, mapLockRequestRejected)

LEMMA AcceptedInit == ASSUME Init PROVE AInv
BY DEF Init, AInv, AcceptedHaveCandidates

\* A buried transaction stays buried: its inputs are spent, so it is not mined
\* again, and no reorganisation gets that deep.
LEMMA BuriedStays ==
    ASSUME IInv, NEW t \in Txs, Buried(t), peak <= peak', peak' \in Int,
           minedAt'[t] = minedAt[t]
    PROVE  Buried(t)'
<1>1. /\ peak \in Int /\ minedAt[t] \in Int /\ KeepLock \in Nat
  BY InstantSendAssumption DEF IInv, TypeOK
<1> QED BY <1>1 DEF Buried

\* Transactions reach the memory pool or a block, or a block is disconnected.
LEMMA BuriedKept ==
    ASSUME IInv, SInv, Shallow,
           \/ LockRequestAccepted \/ RawTransactionAccepted
           \/ \E t \in Txs : ReceiveTx(t)
           \/ \E b \in Blocks : ConnectTip(b)
           \/ DisconnectTip
    PROVE  \A t \in Txs : Buried(t) => Buried(t)'
<1>1. peak \in Int /\ minedAt \in [Txs -> Int] /\ KeepLock \in Nat /\ MaxReorg \in Nat
  BY InstantSendAssumption DEF IInv, TypeOK
<1>2. peak' \in Int
  BY NextOK DEF Next, IInv, TypeOK
<1> SUFFICES ASSUME NEW t \in Txs, Buried(t) PROVE Buried(t)'
  OBVIOUS
<1>3. CASE LockRequestAccepted \/ RawTransactionAccepted \/ \E s \in Txs : ReceiveTx(s)
  BY <1>3, PoolOnChain DEF Buried
<1>4. CASE \E b \in Blocks : ConnectTip(b)
  <2>1. peak <= peak' /\ minedAt[t] \in {NotInBlock, minedAt'[t]}
    BY <1>4, ConnectOnChain
  <2>2. minedAt'[t] = minedAt[t]
    BY <2>1 DEF Buried
  <2> QED BY <1>2, <2>1, <2>2, BuriedStays
<1>5. CASE DisconnectTip
  <2>1. peak' = peak /\ (minedAt'[t] = minedAt[t] \/ peak - minedAt[t] < MaxReorg)
    BY <1>5, DisconnectOnChain
  <2>2. minedAt'[t] = minedAt[t]
    BY <1>1, <2>1 DEF Buried, Shallow
  <2> QED BY <1>1, <1>2, <2>1, <2>2, BuriedStays
<1> QED BY <1>3, <1>4, <1>5

LEMMA AcceptedOnMaps == ASSUME IInv, AInv, OnMaps PROVE AInv'
<1>1. mapLockRequestAccepted \subseteq Txs /\ (pc = "accept" => msgTx \in Txs)
  BY DEF IInv, TypeOK, HandlerOK
<1>2. AcceptedHaveCandidates'
  BY <1>1 DEF OnMaps, Outcome, AInv, AcceptedHaveCandidates
<1>3. ASSUME pc' = "accept"
      PROVE  Settled(msgTx', mapTxLockCandidates', mapLockRequestRejected')
  <2>1. CASE pc = "accept" /\ msgTx' = msgTx
    BY <1>1, <2>1 DEF AInv, Settled, OnMaps, Outcome
  <2> QED BY <1>3, <2>1 DEF OnMaps
<1>4. UNCHANGED <<minedAt, peak>>
  BY DEF OnMaps
<1>5. pc' = "accept" => Settled(msgTx, mapTxLockCandidates, mapLockRequestRejected)'
  BY <1>3, <1>4 DEF Settled, Buried
<1> QED BY <1>2, <1>5 DEF AInv

\* The memory pool takes a request that was neither rejected nor mined, so its
\* candidate is there.
LEMMA AcceptedAccept == ASSUME IInv, SInv, AInv, LockRequestAccepted PROVE AInv'
<1>1. /\ pc = "accept" /\ pc' = "ballot" /\ msgTx \in Txs
      /\ msgTx \notin mapLockRequestRejected
      /\ Inputs[msgTx] \subseteq Unspent(minedAt)
      /\ mapLockRequestAccepted' = mapLockRequestAccepted \cup {msgTx}
      /\ mapLockRequestAccepted \subseteq Txs
  BY DEF LockRequestAccepted, AlreadyHave, CanAccept, IInv, TypeOK, HandlerOK
<1>2. \A t \in Txs : mapTxLockCandidates'[t].state = mapTxLockCandidates[t].state
  BY PoolOnChain DEF OnChain
<1>3. minedAt[msgTx] = NotInBlock
  BY <1>1, InstantSendAssumption DEF Unspent
<1>4. mapTxLockCandidates[msgTx].state = "requested"
  BY <1>1, <1>3 DEF AInv, Settled, Buried
<1>5. AcceptedHaveCandidates'
  BY <1>1, <1>2, <1>4 DEF AInv, AcceptedHaveCandidates
<1> QED BY <1>1, <1>5 DEF AInv

\* The other steps that report transactions.
LEMMA AcceptedOnChain ==
    ASSUME IInv, SInv, AInv, Shallow,
           \/ RawTransactionAccepted
           \/ \E t \in Txs : ReceiveTx(t)
           \/ \E b \in Blocks : ConnectTip(b)
           \/ DisconnectTip
    PROVE  AInv'
<1>1. mapLockRequestAccepted \subseteq Txs /\ (pc = "accept" => msgTx \in Txs)
  BY DEF IInv, TypeOK, HandlerOK
<1>2. UNCHANGED <<pc, msgTx, mapLockRequestAccepted>>
  BY DEF RawTransactionAccepted, ReceiveTx, ConnectTip, DisconnectTip, handlerVars
<1>3. OnChain
  BY PoolOnChain, ConnectOnChain, DisconnectOnChain
<1>4. \A t \in Txs : Buried(t) => Buried(t)'
  BY BuriedKept
<1>5. AcceptedHaveCandidates'
  BY <1>1, <1>2, <1>3 DEF AInv, AcceptedHaveCandidates, OnChain
<1>6. pc' = "accept" => Settled(msgTx, mapTxLockCandidates, mapLockRequestRejected)'
  BY <1>1, <1>2, <1>3, <1>4 DEF AInv, Settled, OnChain
<1> QED BY <1>5, <1>6 DEF AInv

LEMMA AcceptedNext ==
    ASSUME IInv, SInv, AInv, Steady, Shallow, [Next]_vars PROVE AInv'
<1>1. CASE OnMaps
  BY <1>1, AcceptedOnMaps
<1>2. CASE LockRequestAccepted
  BY <1>2, AcceptedAccept
<1>3. CASE \/ RawTransactionAccepted
           \/ \E t \in Txs : ReceiveTx(t)
           \/ \E b \in Blocks : ConnectTip(b)
           \/ DisconnectTip
  BY <1>3, AcceptedOnChain
<1>4. CASE UpdatedBlockTip
  BY <1>4 DEF UpdatedBlockTip, AInv, AcceptedHaveCandidates, Settled, Buried,
              instantsendVars, handlerVars, chainVars
<1>5. CASE Restart
  BY <1>5 DEF Restart, AInv, AcceptedHaveCandidates
<1>6. CASE \E t \in LockRequests :
              ReceiveTxLockRequest(t) \/ RelayWalletTransaction(t) \/ SendRawTransaction(t)
  BY <1>1, <1>6, RequestOnMaps
<1>7. CASE FinalizeCopy \/ CheckAndRemove \/ \E v \in Votes : ProcessTxLockVote(v)
  BY <1>1, <1>7, HandlerOnMaps
<1>8. CASE \/ RawTransactionRefused \/ LockRequestRefused \/ Vote
           \/ \E v \in PeerVotes \cup ownVotes : ReceiveTxLockVote(v)
           \/ \E t \in Txs : LimitMempoolSize(t)
           \/ \E b \in Blocks : AcceptBlock(b)
           \/ Tick \/ RanksChange \/ UNCHANGED vars
  <2>1. PeerVotes \cup ownVotes \subseteq Votes
    BY InstantSendAssumption DEF IInv, TypeOK
  <2> QED BY <1>1, <1>8, <2>1, QuietOnMaps
<1>9. CASE SporkOrSyncChange
  BY <1>9 DEF SporkOrSyncChange, Steady
<1> QED BY <1>2, <1>3, <1>4, <1>5, <1>6, <1>7, <1>8, <1>9 DEF Next

-----------------------------------------------------------------------------
(* The chain and the locks *)

\* A mined transaction spends no outpoint that another one has locked, unless
\* that one was in a block before: the transaction index is not unwound, so
\* ResolveConflicts takes it for mined and locks inputs that are spent.
ChainAgrees ==
    \A s \in Txs : minedAt[s] # NotInBlock =>
        \A o \in Inputs[s] : mapLockedOutpoints[o] \in {s, NoTx} \cup txIndex

\* Between CheckBlock, which sets fChecked, and ConnectTip nothing is locked.
NoLockMeanwhile ==
    [][checkedBlock # {} => \A o \in Outpoints :
          mapLockedOutpoints'[o] \in {mapLockedOutpoints[o], NoTx}]_vars

\* The block that waits still agrees with the locks it was checked against.
CheckedAgrees == \A b \in checkedBlock : \A t \in b : LockConflicts(t) = {}

CInv == spork3 /\ ChainAgrees /\ CheckedAgrees

\* t may lock: its inputs are unspent, or it is taken for mined.
MayLock(t) == t \in txIndex \/ Inputs[t] \subseteq Unspent(minedAt)

\* A step locks an outpoint for a transaction that spends it and may lock.
LocksMoved ==
    \A o \in Outpoints :
        \/ mapLockedOutpoints'[o] \in {mapLockedOutpoints[o], NoTx}
        \/ \E t \in Txs : mapLockedOutpoints'[o] = t /\ o \in Inputs[t] /\ MayLock(t)

LEMMA FinalizeMoves ==
    ASSUME TypeOK,
           NEW t \in Txs, NEW c \in Candidate,
           NEW cand \in [Txs -> Candidate],
           NEW voted \in [Outpoints -> SUBSET Txs],
           NEW orphans \in [Votes -> Int],
           MapsOK(cand, voted, mapLockedOutpoints, ownVotes),
           c.locks = cand[t].locks,
           TryToFinalizeLockCandidate(t, c, cand, voted, orphans)
    PROVE  LocksMoved
<1>1. /\ Inputs[t] \subseteq Outpoints
      /\ mapLockedOutpoints \in [Outpoints -> Txs \cup {NoTx}]
  BY InstantSendAssumption DEF TypeOK
<1>2. CASE UNCHANGED mapLockedOutpoints
  BY <1>2 DEF LocksMoved
<1>3. ASSUME NEW h \in Txs, DropBoth(t, h, cand, voted, orphans) PROVE LocksMoved
  <2>1. \A o \in Outpoints : mapLockedOutpoints'[o] \in {mapLockedOutpoints[o], NoTx}
    BY <1>3, DropBothKeeps
  <2> QED BY <2>1 DEF LocksMoved
<1>4. CASE LockTransactionInputs(t, c) /\ <<"ok", NoTx>> \in ResolveConflicts(t)
  <2>1. MayLock(t)
    BY <1>4 DEF ResolveConflicts, MayLock, FoundInBlock
  <2>2. c.locks \subseteq Inputs[t]
    BY DEF MapsOK, CandidatesOK
  <2> QED BY <1>1, <1>4, <2>1, <2>2 DEF LockTransactionInputs, LocksMoved
<1>5. \/ UNCHANGED mapLockedOutpoints
      \/ \E r \in ResolveConflicts(t) :
            \/ r[1] = "drop" /\ DropBoth(t, r[2], cand, voted, orphans)
            \/ r[1] = "ok" /\ LockTransactionInputs(t, c)
  BY DEF TryToFinalizeLockCandidate
<1>6. \A r \in ResolveConflicts(t) :
          /\ r[1] = "drop" => r[2] \in Txs
          /\ r[1] = "ok" => r = <<"ok", NoTx>>
  BY <1>1 DEF ResolveConflicts, LockConflicts
<1> QED BY <1>2, <1>3, <1>4, <1>5, <1>6

LEMMA RequestMoves ==
    ASSUME IInv, NEW t \in Txs, ProcessTxLockRequest(t) PROVE LocksMoved
<1> DEFINE cand == CreateTxLockCandidate(t)
           vs == Adopted(cand)
           cand2 == AddVotes(vs, cand, mapVotedOutpoints)
           voted2 == Votings(vs, mapVotedOutpoints)
           orphans2 == [v \in Votes |-> IF v \in Taken(cand) THEN -1
                                        ELSE mapTxLockVotesOrphan[v]]
<1>1. /\ TypeOK /\ ownVotes \in SUBSET Votes
      /\ mapVotedOutpoints \in [Outpoints -> SUBSET Txs]
      /\ mapLockedOutpoints \in [Outpoints -> Txs \cup {NoTx}]
      /\ orphans2 \in [Votes -> Int]
  BY DEF IInv, TypeOK
<1>2. /\ cand \in [Txs -> Candidate]
      /\ MapsOK(cand, mapVotedOutpoints, mapLockedOutpoints, ownVotes)
  BY CreateCandidateKeeps
<1>3. \/ UNCHANGED mapLockedOutpoints
      \/ TryToFinalizeLockCandidate(t, cand2[t], cand2, voted2, orphans2)
  BY DEF ProcessTxLockRequest
<1> HIDE DEF cand, orphans2
<1>4. /\ vs \in SUBSET Votes
      /\ \A v \in vs : cand[v.tx].state = "requested" /\ v.outpoint \in cand[v.tx].locks
  BY <1>2, InstantSendAssumption DEF Adopted, Votes, MapsOK, CandidatesOK, IsTimedOut
<1>5. /\ cand2 \in [Txs -> Candidate]
      /\ voted2 \in [Outpoints -> SUBSET Txs]
      /\ MapsOK(cand2, voted2, mapLockedOutpoints, ownVotes)
  <2> HIDE DEF vs
  <2> QED BY <1>1, <1>2, <1>4, AddVotesKeeps
<1> HIDE DEF cand2, voted2
<1>6. CASE UNCHANGED mapLockedOutpoints
  BY <1>6 DEF LocksMoved
<1>7. CASE TryToFinalizeLockCandidate(t, cand2[t], cand2, voted2, orphans2)
  BY <1>1, <1>5, <1>7, FinalizeMoves
<1> QED BY <1>3, <1>6, <1>7

LEMMA VoteMoves ==
    ASSUME IInv, NEW v \in Votes, ProcessTxLockVote(v) PROVE LocksMoved
<1> DEFINE t == v.tx
           c == mapTxLockCandidates[t]
           cand == AddVotes({v}, mapTxLockCandidates, mapVotedOutpoints)
           voted == Votings({v}, mapVotedOutpoints)
<1>1. /\ TypeOK /\ MapsTypeOK /\ ownVotes \in SUBSET Votes /\ t \in Txs
      /\ v.outpoint \in Inputs[t]
      /\ MapsOK(mapTxLockCandidates, mapVotedOutpoints, mapLockedOutpoints, ownVotes)
  BY TypeSplit DEF IInv, Votes, TypeOK
<1>2. CASE UNCHANGED mapLockedOutpoints
  BY <1>2 DEF LocksMoved
<1>3. CASE /\ c.state = "requested" /\ ~IsTimedOut(c.created)
           /\ TryToFinalizeLockCandidate(t, cand[t], cand, voted, mapTxLockVotesOrphan)
  <2>1. \A w \in {v} : /\ mapTxLockCandidates[w.tx].state = "requested"
                       /\ w.outpoint \in mapTxLockCandidates[w.tx].locks
    BY <1>1, <1>3 DEF MapsOK, CandidatesOK, IsTimedOut
  <2>2. /\ cand \in [Txs -> Candidate]
        /\ voted \in [Outpoints -> SUBSET Txs]
        /\ MapsOK(cand, voted, mapLockedOutpoints, ownVotes)
    <3>1. {v} \in SUBSET Votes
      OBVIOUS
    <3> QED BY <1>1, <2>1, <3>1, AddVotesKeeps DEF MapsTypeOK
  <2> HIDE DEF cand, voted
  <2> QED BY <1>1, <1>3, <2>2, FinalizeMoves DEF MapsTypeOK
<1>4. \/ UNCHANGED mapLockedOutpoints
      \/ /\ c.state = "requested" /\ ~IsTimedOut(c.created)
         /\ TryToFinalizeLockCandidate(t, cand[t], cand, voted, mapTxLockVotesOrphan)
  BY DEF ProcessTxLockVote, KeepOrphan, instantsendVars
<1> QED BY <1>2, <1>3, <1>4

\* A step that leaves the chain alone and locks as it may.
Locking == LocksMoved /\ UNCHANGED <<minedAt, txIndex, checkedBlock, spork3>>

LEMMA HandlerLocks ==
    ASSUME IInv,
           \/ \E t \in LockRequests :
                 ReceiveTxLockRequest(t) \/ RelayWalletTransaction(t) \/ SendRawTransaction(t)
           \/ FinalizeCopy \/ CheckAndRemove
           \/ \E v \in Votes : ProcessTxLockVote(v)
    PROVE  Locking
<1>1. CASE \E t \in LockRequests :
              ReceiveTxLockRequest(t) \/ RelayWalletTransaction(t) \/ SendRawTransaction(t)
  <2>1. \E t \in Txs : ProcessTxLockRequest(t)
    BY <1>1, InstantSendAssumption
       DEF ReceiveTxLockRequest, RelayWalletTransaction, SendRawTransaction
  <2>2. UNCHANGED <<minedAt, txIndex, checkedBlock, spork3>>
    BY <1>1 DEF ReceiveTxLockRequest, RelayWalletTransaction, SendRawTransaction,
                chainVars, nodeVars
  <2> QED BY <2>1, <2>2, RequestMoves DEF Locking
<1>2. CASE FinalizeCopy
  <2>1. /\ TypeOK /\ msgTx \in Txs /\ copy \in Candidate
        /\ mapTxLockCandidates \in [Txs -> Candidate]
        /\ mapVotedOutpoints \in [Outpoints -> SUBSET Txs]
        /\ mapTxLockVotesOrphan \in [Votes -> Int]
        /\ MapsOK(mapTxLockCandidates, mapVotedOutpoints, mapLockedOutpoints, ownVotes)
        /\ LET c == mapTxLockCandidates[msgTx] IN c = [copy EXCEPT !.votes = c.votes]
    BY <1>2 DEF FinalizeCopy, IInv, TypeOK, HandlerOK, CopyIsCurrent
  <2>2. copy.locks = mapTxLockCandidates[msgTx].locks
    BY <2>1 DEF Candidate
  <2>3. TryToFinalizeLockCandidate(msgTx, copy, mapTxLockCandidates,
                                   mapVotedOutpoints, mapTxLockVotesOrphan)
    BY <1>2 DEF FinalizeCopy
  <2>4. LocksMoved
    BY <2>1, <2>2, <2>3, FinalizeMoves
  <2> QED BY <1>2, <2>4 DEF Locking, FinalizeCopy, chainVars, nodeVars
<1>3. CASE CheckAndRemove
  <2>1. \A o \in Outpoints : mapLockedOutpoints'[o] \in {mapLockedOutpoints[o], NoTx}
    BY <1>3 DEF CheckAndRemove, RemoveExpired
  <2> QED BY <1>3, <2>1 DEF Locking, LocksMoved, CheckAndRemove, chainVars, nodeVars
<1>4. CASE \E v \in Votes : ProcessTxLockVote(v)
  <2>1. LocksMoved
    BY <1>4, VoteMoves
  <2> QED BY <1>4, <2>1 DEF Locking, ProcessTxLockVote, chainVars, nodeVars
<1> QED BY <1>1, <1>2, <1>3, <1>4

\* Steps that leave the locks and the chain alone.
LEMMA QuietLocks ==
    ASSUME \/ RawTransactionRefused \/ RawTransactionAccepted
           \/ LockRequestAccepted \/ LockRequestRefused \/ Vote
           \/ \E v \in PeerVotes \cup ownVotes : ReceiveTxLockVote(v)
           \/ \E t \in Txs : ReceiveTx(t) \/ LimitMempoolSize(t)
           \/ UpdatedBlockTip \/ Tick \/ RanksChange \/ UNCHANGED vars
    PROVE  Locking
<1>1. UNCHANGED <<mapLockedOutpoints, minedAt, txIndex, checkedBlock, spork3>>
  BY DEF RawTransactionRefused, RawTransactionAccepted, LockRequestAccepted,
         LockRequestRefused, Vote, ReceiveTxLockVote, ReceiveTx, LimitMempoolSize,
         UpdatedBlockTip, Tick, RanksChange, vars, instantsendVars, handlerVars,
         chainVars, nodeVars
<1> QED BY <1>1 DEF Locking, LocksMoved

\* A lock that is taken while no block waits is on an unspent outpoint.
LEMMA LockingAgrees ==
    ASSUME IInv, CInv, Locking,
           checkedBlock # {} => \A o \in Outpoints :
              mapLockedOutpoints'[o] \in {mapLockedOutpoints[o], NoTx}
    PROVE  CInv'
<1>1. /\ Inputs \in [Txs -> (SUBSET Outpoints) \ {{}}]
      /\ checkedBlock \subseteq Blocks
      /\ UNCHANGED <<minedAt, txIndex, checkedBlock, spork3>>
  BY InstantSendAssumption DEF IInv, TypeOK, Locking
<1>2. ChainAgrees'
  <2> SUFFICES ASSUME NEW s \in Txs, minedAt[s] # NotInBlock, NEW o \in Inputs[s]
               PROVE  mapLockedOutpoints'[o] \in {s, NoTx} \cup txIndex
    BY <1>1 DEF ChainAgrees
  <2>1. o \in Outpoints /\ mapLockedOutpoints[o] \in {s, NoTx} \cup txIndex
    BY <1>1 DEF CInv, ChainAgrees
  <2>2. ASSUME NEW t \in Txs, o \in Inputs[t], MayLock(t) PROVE t \in txIndex
    BY <2>1, <2>2 DEF MayLock, Unspent
  <2> QED BY <2>1, <2>2 DEF Locking, LocksMoved
<1>3. CheckedAgrees'
  <2> SUFFICES ASSUME NEW b \in checkedBlock, NEW t \in b, NEW o \in Inputs[t]
               PROVE  mapLockedOutpoints'[o] \in {t, NoTx}
    BY <1>1 DEF CheckedAgrees, LockConflicts
  <2>1. t \in Txs /\ o \in Outpoints
    BY <1>1 DEF Blocks
  <2>2. mapLockedOutpoints[o] \in {t, NoTx}
    BY DEF CInv, CheckedAgrees, LockConflicts
  <2> QED BY <2>1, <2>2
<1> QED BY <1>1, <1>2, <1>3 DEF CInv

LEMMA ConnectAgrees ==
    ASSUME IInv, CInv, NEW b \in Blocks, ConnectTip(b) PROVE CInv'
<1>1. /\ \A t \in b : LockConflicts(t) = {}
      /\ minedAt' = [t \in Txs |-> IF t \in b THEN height + 1 ELSE minedAt[t]]
      /\ txIndex' = txIndex \cup b
      /\ checkedBlock' = {}
      /\ UNCHANGED <<mapLockedOutpoints, spork3>>
  BY DEF ConnectTip, BlockRespectsLocks, CInv, CheckedAgrees, nodeVars
<1>2. ChainAgrees'
  BY <1>1 DEF CInv, ChainAgrees, LockConflicts
<1> QED BY <1>1, <1>2 DEF CInv, CheckedAgrees

LEMMA AgreesNext ==
    ASSUME IInv, CInv, ~SporksMove, [Next]_vars,
           checkedBlock # {} => \A o \in Outpoints :
              mapLockedOutpoints'[o] \in {mapLockedOutpoints[o], NoTx}
    PROVE  CInv'
<1>1. CASE Locking
  BY <1>1, LockingAgrees
<1>2. CASE \E b \in Blocks : AcceptBlock(b)
  BY <1>2 DEF AcceptBlock, BlockRespectsLocks, CInv, ChainAgrees, CheckedAgrees,
              LockConflicts, instantsendVars, nodeVars
<1>3. CASE \E b \in Blocks : ConnectTip(b)
  BY <1>3, ConnectAgrees
<1>4. CASE DisconnectTip
  <2>1. /\ checkedBlock = {}
        /\ \A t \in Txs : minedAt'[t] \in {minedAt[t], NotInBlock}
        /\ UNCHANGED <<mapLockedOutpoints, txIndex, checkedBlock, spork3>>
    BY <1>4 DEF DisconnectTip, nodeVars
  <2> QED BY <2>1 DEF CInv, ChainAgrees, CheckedAgrees
<1>5. CASE Restart
  <2>1. /\ mapLockedOutpoints' = [o \in Outpoints |-> NoTx] /\ checkedBlock' = {}
        /\ UNCHANGED <<minedAt, txIndex, spork3>>
    BY <1>5 DEF Restart
  <2>2. \A t \in Txs : Inputs[t] \subseteq Outpoints
    BY InstantSendAssumption
  <2> QED BY <2>1, <2>2 DEF CInv, ChainAgrees, CheckedAgrees
<1>6. CASE SporkOrSyncChange
  BY <1>6 DEF SporkOrSyncChange
<1>7. CASE \/ \E t \in LockRequests :
                 ReceiveTxLockRequest(t) \/ RelayWalletTransaction(t) \/ SendRawTransaction(t)
           \/ FinalizeCopy \/ CheckAndRemove
           \/ \E v \in Votes : ProcessTxLockVote(v)
  BY <1>1, <1>7, HandlerLocks
<1>8. CASE \/ RawTransactionRefused \/ RawTransactionAccepted
           \/ LockRequestAccepted \/ LockRequestRefused \/ Vote
           \/ \E v \in PeerVotes \cup ownVotes : ReceiveTxLockVote(v)
           \/ \E t \in Txs : ReceiveTx(t) \/ LimitMempoolSize(t)
           \/ UpdatedBlockTip \/ Tick \/ RanksChange \/ UNCHANGED vars
  BY <1>1, <1>8, QuietLocks
<1> QED BY <1>2, <1>3, <1>4, <1>5, <1>6, <1>7, <1>8 DEF Next

-----------------------------------------------------------------------------
(* The theorems *)

\* The invariant, on a node whose sporks and sync stay as they are.
THEOREM SteadyInductive == ASSUME Steady PROVE Spec => []SInv
<1>1. Init => SInv
  BY SteadyInit
<1>2. IInv /\ SInv /\ [Next]_vars => SInv'
  BY SteadyNext
<1> QED BY <1>1, <1>2, Inductive, PTL DEF Spec

\* A candidate's confirmed height is that of its block or none, through every
\* connection, disconnection and ResolveConflicts, which sets heights to 0 for
\* a cleanup that removes those candidates at once.
THEOREM HeightsTrackChain == ASSUME Steady PROVE Spec => []ConfirmedHeightTracksChain
<1>1. SInv => ConfirmedHeightTracksChain
  BY DEF SInv, HeightsOK, HeightOK, ConfirmedHeightTracksChain
<1> QED BY <1>1, SteadyInductive, PTL

\* LockTransactionInputs locks the inputs of a transaction together, and only
\* the removal of a conflicting candidate separates them.
THEOREM LockedTogether == ASSUME Steady PROVE Spec => []InputsLockedTogether
<1>1. SInv => InputsLockedTogether
  BY DEF SInv, TogetherOK, RivalGone, InputsLockedTogether, RivalRemoved
<1> QED BY <1>1, SteadyInductive, PTL

\* No step releases a lock but a restart, the burial of a transaction that
\* spends the outpoint, or the cancellation of two conflicting requests.
THEOREM ReleasedForCause == ASSUME Steady PROVE Spec => LocksReleasedForCause
<1> DEFINE Released == \A o \in Outpoints :
         mapLockedOutpoints[o] # NoTx /\ mapLockedOutpoints'[o] # mapLockedOutpoints[o] =>
           \/ restarts' # restarts
           \/ \E t \in Txs : /\ o \in Inputs[t]
                             /\ minedAt[t] # NotInBlock
                             /\ peak - minedAt[t] > KeepLock
           \/ \E t, h \in mapLockRequestRejected' :
                 Conflict(t, h) /\ o \in Inputs[t]
<1>1. IInv /\ SInv /\ [Next]_vars => [Released]_vars
  <2> SUFFICES ASSUME IInv, SInv, [Next]_vars PROVE Released
    OBVIOUS
  <2>1. CASE OnMaps
    BY <2>1 DEF OnMaps, Outcome, Cause, Buried
  <2>2. CASE OnChain
    BY <2>2 DEF OnChain
  <2>3. CASE UpdatedBlockTip
    BY <2>3 DEF UpdatedBlockTip, instantsendVars
  <2>4. CASE Restart
    BY <2>4 DEF Restart, IInv, TypeOK
  <2> QED BY <2>1, <2>2, <2>3, <2>4, StepKinds
<1> QED BY <1>1, Inductive, SteadyInductive, PTL DEF Spec, LocksReleasedForCause

\* A request that AlreadyHave answers for as accepted has its candidate, however
\* the cleanup thread, other requests and reorganisations come between the
\* handler's steps.
THEOREM AcceptedNotLost ==
    ASSUME Steady, Shallow PROVE Spec => []AcceptedHaveCandidates
<1>1. Init => AInv
  BY AcceptedInit
<1>2. IInv /\ SInv /\ AInv /\ [Next]_vars => AInv'
  BY AcceptedNext
<1>3. AInv => AcceptedHaveCandidates
  BY DEF AInv
<1> QED BY <1>1, <1>2, <1>3, Inductive, SteadyInductive, PTL DEF Spec

\* What CheckBlock promises of the chain ("never accept block which conflicts
\* with completed transaction lock", validation.cpp:3667) fails in two ways
\* only: a lock that completes between CheckBlock and ConnectTip, and a
\* transaction that the index knows from a block that was disconnected.  The
\* run block_race shows the first.
THEOREM OnlyTheRaceBreaksTheChain ==
    ASSUME ~SporksMove PROVE Spec /\ NoLockMeanwhile => []ChainAgrees
<1> DEFINE Meanwhile == checkedBlock # {} => \A o \in Outpoints :
               mapLockedOutpoints'[o] \in {mapLockedOutpoints[o], NoTx}
<1>1. Init => CInv
  BY DEF Init, CInv, ChainAgrees, CheckedAgrees
<1>2. IInv /\ CInv /\ [Next]_vars /\ [Meanwhile]_vars => CInv'
  <2> SUFFICES ASSUME IInv, CInv, [Next]_vars, [Meanwhile]_vars PROVE CInv'
    OBVIOUS
  <2>1. Meanwhile
    BY DEF vars, instantsendVars
  <2> QED BY <2>1, AgreesNext
<1>3. CInv => ChainAgrees
  BY DEF CInv
<1> HIDE DEF Meanwhile
<1> QED BY <1>1, <1>2, <1>3, Inductive, PTL DEF Spec, NoLockMeanwhile, Meanwhile
=============================================================================
