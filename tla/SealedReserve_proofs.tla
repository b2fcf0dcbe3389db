------------------------ MODULE SealedReserve_proofs ------------------------
(***************************************************************************)
(* Proofs about SealedReserve, for every council, threshold, set of amounts *)
(* and bound: type correctness, the shape of the chain, conservation of the *)
(* reserve, and that the reserve implements SealChain.                      *)
(***************************************************************************)
EXTENDS SealedReserve, SequenceTheorems, FiniteSetTheorems, TLAPS

-----------------------------------------------------------------------------
(* The vote arithmetic.                                                     *)

(* Filling in the silent sentinels leaves no vote missing and changes no    *)
(* vote that was cast.                                                      *)
LEMMA FillVotesCompletes ==
    ASSUME NEW v \in Votes, NEW w \in Verdicts
    PROVE  /\ FillVotes(v, w) \in Votes
           /\ Missing(FillVotes(v, w)) = {}
           /\ \A a \in Sentinels \ Missing(v) : FillVotes(v, w)[a] = v[a]
<1>1. NoVote \notin Verdicts
  BY DEF NoVote, Verdicts
<1>2. FillVotes(v, w) \in Votes
  BY DEF FillVotes, Votes
<1>3. Missing(FillVotes(v, w)) = {}
  BY <1>1 DEF FillVotes, Missing
<1>4. \A a \in Sentinels \ Missing(v) : FillVotes(v, w)[a] = v[a]
  BY DEF FillVotes, Missing
<1> QED
  BY <1>2, <1>3, <1>4

(* With all votes in, the quorum rule never waits.                          *)
LEMMA CompleteVotesDecide ==
    ASSUME NEW v \in Votes, Missing(v) = {}
    PROVE  EvaluateQuorum(v) \in Statuses
BY DEF EvaluateQuorum, Statuses

(* On complete votes without a ZEUS veto the rule for stored seals agrees   *)
(* with the rule for candidates; with a veto it does not attest either.     *)
THEOREM QuorumRulesAgree ==
    ASSUME NEW v \in Votes, Missing(v) = {}
    PROVE  /\ v[Zeus] # "reject" => EvaluateBackQuorum(v) = EvaluateQuorum(v)
           /\ EvaluateBackQuorum(v) = "attested" <=> EvaluateQuorum(v) = "attested"
BY DEF EvaluateQuorum, EvaluateBackQuorum, QuorumMet

(* A new candidate has a well-formed, empty vote vector.                    *)
LEMMA NoVotesTyped == NoVotes \in Votes
BY DEF NoVotes, Votes

(* The cron's votes complete a candidate's and replace none.                *)
LEMMA CronVotesComplete ==
    ASSUME NEW c \in Candidates
    PROVE  /\ CronVotes(c) \in Votes
           /\ Missing(CronVotes(c)) = {}
           /\ \A a \in Sentinels \ Missing(c.votes) : CronVotes(c)[a] = c.votes[a]
<1> DEFINE w == IF gate THEN "flag" ELSE "pass"
<1>1. w \in Verdicts /\ c.votes \in Votes
  BY DEF Verdicts, Candidates
<1>2. CronVotes(c) = FillVotes(c.votes, w)
  BY DEF CronVotes
<1> QED
  BY <1>1, <1>2, FillVotesCompletes

-----------------------------------------------------------------------------
(* Formation.                                                               *)

(* formCandidate returns a candidate.                                       *)
LEMMA NewCandidateTyped ==
    ASSUME NEW t \in [seq: Nat, hash: Nat], NEW hs \in Seq(Signatures),
           cycle \in Cycles, formed \in Nat
    PROVE  /\ NewCandidate(t, hs) \in Candidates
           /\ NewCandidate(t, hs) # None
<1>1. t.seq + 1 \in Nat \ {0} /\ t.hash \in Nat /\ formed + 1 \in Nat
  OBVIOUS
<1>2. NewCandidate(t, hs) \in Candidates
  BY <1>1, NoVotesTyped DEF NewCandidate, Candidates
<1> QED
  BY <1>2, NoneAssumption

(* What a formation carries forward are deposit hashes.                     *)
LEMMA CarriedForwardTyped ==
    ASSUME NEW hs \in Seq(Signatures), NEW n \in Int
    PROVE  CarriedForward(hs, n) \in Seq(Signatures)
<1>1. CASE n > 0 /\ hs # <<>>
  <2>1. Len(hs) \in 1..Len(hs)
    BY <1>1
  <2>2. hs[Len(hs)] \in Signatures
    BY <2>1
  <2> QED
    BY <1>1, <2>2 DEF CarriedForward
<1>2. CASE ~(n > 0 /\ hs # <<>>)
  BY <1>2 DEF CarriedForward
<1> QED
  BY <1>1, <1>2

(* An index stays an index.                                                 *)
LEMMA PushIfMissingTyped ==
    ASSUME NEW S, NEW s \in Seq(S), NEW x \in S
    PROVE  PushIfMissing(s, x) \in Seq(S)
BY DEF PushIfMissing

(* The retry queue stays a queue of names, at its cap or below it.          *)
LEMMA EnqueuedTyped ==
    ASSUME NEW q \in Seq(SealIds), NEW id \in SealIds
    PROVE  Enqueued(q, id) \in Seq(SealIds)
<1>1. <<id>> \in Seq(SealIds)
  OBVIOUS
<1>2. CASE id \in Range(q)
  BY <1>2 DEF Enqueued
<1>3. CASE id \notin Range(q) /\ Len(q) < RetryCap
  BY <1>1, <1>3, ConcatProperties DEF Enqueued
<1>4. CASE id \notin Range(q) /\ ~(Len(q) < RetryCap)
  <2>1. RetryCap \in Nat \ {0} /\ Len(q) \in Nat
    BY ReserveAssumption
  <2>2. SubSeq(q, 1, RetryCap - 1) \in Seq(SealIds)
    BY <1>4, <2>1, SubSeqProperties
  <2> QED
    BY <1>1, <1>4, <2>2, ConcatProperties DEF Enqueued
<1> QED
  BY <1>2, <1>3, <1>4

-----------------------------------------------------------------------------
(* The chain, as an operator of a store: the lemmas below are about the     *)
(* stored seals ss, the attested index ch and the latest pointer la.        *)

StoreTyped(ss, ch) ==
    /\ DOMAIN ss \subseteq SealIds
    /\ \A id \in DOMAIN ss : ss[id] \in Seals /\ Id(ss[id]) = id
    /\ ch \in Seq(SealIds)

Linked(ss, ch, la) ==
    /\ \A i \in DOMAIN ch :
          /\ ch[i] \in DOMAIN ss
          /\ ss[ch[i]].status = "attested"
          /\ ss[ch[i]].seq = i
          /\ ss[ch[i]].prev = IF i = 1 THEN 0 ELSE ss[ch[i - 1]].hash
    /\ la = IF ch = <<>> THEN None ELSE ch[Len(ch)]

HeadHash(ss, ch) == IF ch = <<>> THEN 0 ELSE ss[ch[Len(ch)]].hash

(* The tip a formation reads is the head of the chain.                      *)
LEMMA TipIsHead ==
    ASSUME NEW ss, NEW ch, NEW la, StoreTyped(ss, ch), Linked(ss, ch, la)
    PROVE  /\ Tip(ss, la) \in [seq: Nat, hash: Nat]
           /\ Tip(ss, la).seq = Len(ch)
           /\ Tip(ss, la).hash = HeadHash(ss, ch)
<1>1. CASE ch = <<>>
  <2>1. la = None /\ None \notin DOMAIN ss
    BY <1>1, NoneAssumption DEF Linked, StoreTyped
  <2> QED
    BY <1>1, <2>1 DEF Tip, HeadHash
<1>2. CASE ch # <<>>
  <2>1. Len(ch) \in DOMAIN ch /\ la = ch[Len(ch)]
    BY <1>2 DEF Linked, StoreTyped
  <2>2. la \in DOMAIN ss /\ ss[la].seq = Len(ch)
    BY <2>1 DEF Linked
  <2>3. ss[la].seq \in Nat /\ ss[la].hash \in Nat
    BY <2>2 DEF StoreTyped, Seals
  <2> QED
    BY <1>2, <2>1, <2>2, <2>3 DEF Tip, HeadHash
<1> QED
  BY <1>1, <1>2

(* The name of a seal numbered one past the chain is not on the chain,      *)
(* whatever its cycle: names of chained seals hold their places.            *)
LEMMA NextNameIsFree ==
    ASSUME NEW ss, NEW ch, NEW la, StoreTyped(ss, ch), Linked(ss, ch, la),
           NEW s, s.seq = Len(ch) + 1
    PROVE  Id(s) \notin Range(ch)
<1> SUFFICES ASSUME NEW i \in DOMAIN ch, Id(s) = ch[i]
             PROVE  FALSE
  BY DEF Range
<1>1. ch[i] \in DOMAIN ss /\ ss[ch[i]].seq = i
  BY DEF Linked
<1>2. ss[Id(s)].seq = s.seq
  BY <1>1 DEF StoreTyped, Id
<1>3. i \in 1..Len(ch) /\ Len(ch) \in Nat
  BY DEF StoreTyped
<1> QED
  BY <1>1, <1>2, <1>3

(* The name of a seal is a name.                                            *)
LEMMA SealIdTyped ==
    ASSUME NEW s \in Seals
    PROVE  Id(s) \in SealIds
BY DEF Seals, Id, SealIds

(* Writing a seal under a name that is not on the chain keeps the chain.    *)
LEMMA PutKeepsChain ==
    ASSUME NEW ss, NEW ch, NEW la, StoreTyped(ss, ch), Linked(ss, ch, la),
           NEW s \in Seals, Id(s) \notin Range(ch)
    PROVE  /\ StoreTyped(Put(ss, Id(s), s), ch)
           /\ Linked(Put(ss, Id(s), s), ch, la)
           /\ \A i \in DOMAIN ch : Put(ss, Id(s), s)[ch[i]] = ss[ch[i]]
<1> DEFINE new == Put(ss, Id(s), s)
<1>1. /\ DOMAIN new = DOMAIN ss \cup {Id(s)}
      /\ new[Id(s)] = s
      /\ \A id \in DOMAIN ss : id # Id(s) => new[id] = ss[id]
  BY DEF Put
<1>2. StoreTyped(new, ch)
  <2>1. Id(s) \in SealIds
    BY SealIdTyped
  <2>2. ASSUME NEW id \in DOMAIN new
        PROVE  new[id] \in Seals /\ Id(new[id]) = id
    <3> HIDE DEF new
    <3>1. CASE id = Id(s)
      BY <1>1, <3>1
    <3>2. CASE id # Id(s)
      BY <1>1, <3>2 DEF StoreTyped
    <3> QED
      BY <3>1, <3>2
  <2> HIDE DEF new
  <2> QED
    BY <1>1, <2>1, <2>2 DEF StoreTyped
<1>3. \A i \in DOMAIN ch : ch[i] \in DOMAIN ss /\ ch[i] # Id(s) /\ new[ch[i]] = ss[ch[i]]
  <2> HIDE DEF new
  <2> QED
    BY <1>1 DEF Linked, Range
<1> HIDE DEF new
<1>4. Linked(new, ch, la)
  <2>1. ASSUME NEW i \in DOMAIN ch
        PROVE  /\ ch[i] \in DOMAIN new
               /\ new[ch[i]].status = "attested"
               /\ new[ch[i]].seq = i
               /\ new[ch[i]].prev = IF i = 1 THEN 0 ELSE new[ch[i - 1]].hash
    <3>1. /\ ch[i] \in DOMAIN ss
          /\ ss[ch[i]].status = "attested"
          /\ ss[ch[i]].seq = i
          /\ ss[ch[i]].prev = IF i = 1 THEN 0 ELSE ss[ch[i - 1]].hash
      BY DEF Linked
    <3>2. i # 1 => i - 1 \in DOMAIN ch
      BY DEF StoreTyped
    <3> QED
      BY <1>1, <1>3, <3>1, <3>2
  <2> QED
    BY <2>1 DEF Linked
<1> QED
  BY <1>2, <1>3, <1>4 DEF new

(* Appending a stored attested seal that extends the head keeps the chain.  *)
LEMMA AppendExtendsChain ==
    ASSUME NEW ss, NEW ch, NEW la, StoreTyped(ss, ch), Linked(ss, ch, la),
           NEW id \in DOMAIN ss,
           ss[id].status = "attested",
           ss[id].seq = Len(ch) + 1,
           ss[id].prev = HeadHash(ss, ch)
    PROVE  /\ StoreTyped(ss, Append(ch, id))
           /\ Linked(ss, Append(ch, id), id)
<1>1. /\ ch \in Seq(SealIds) /\ id \in SealIds /\ Len(ch) \in Nat
      /\ DOMAIN ch = 1..Len(ch)
  BY DEF StoreTyped
<1> DEFINE new == Append(ch, id)
<1>2. /\ new \in Seq(SealIds)
      /\ Len(new) = Len(ch) + 1
      /\ DOMAIN new = 1..(Len(ch) + 1)
      /\ \A i \in 1..Len(ch) : new[i] = ch[i]
      /\ new[Len(ch) + 1] = id
  BY <1>1, AppendProperties
<1> HIDE DEF new
<1>3. ASSUME NEW i \in DOMAIN new
      PROVE  /\ new[i] \in DOMAIN ss
             /\ ss[new[i]].status = "attested"
             /\ ss[new[i]].seq = i
             /\ ss[new[i]].prev = IF i = 1 THEN 0 ELSE ss[new[i - 1]].hash
  <2>1. CASE i \in 1..Len(ch)
    <3>1. i # 1 => i - 1 \in 1..Len(ch)
      BY <1>1, <2>1
    <3> QED
      BY <1>1, <1>2, <2>1, <3>1 DEF Linked
  <2>2. CASE i = Len(ch) + 1
    <3>1. i = 1 <=> ch = <<>>
      BY <1>1, <2>2
    <3>2. i # 1 => i - 1 \in 1..Len(ch) /\ i - 1 = Len(ch)
      BY <1>1, <2>2
    <3>3. ss[new[i]].prev = IF i = 1 THEN 0 ELSE ss[new[i - 1]].hash
      BY <1>2, <2>2, <3>1, <3>2 DEF HeadHash
    <3> QED
      BY <1>2, <2>2, <3>3
  <2> QED
    BY <1>1, <1>2, <2>1, <2>2
<1>4. new # <<>> /\ new[Len(new)] = id
  BY <1>1, <1>2
<1>5. StoreTyped(ss, new)
  BY <1>2 DEF StoreTyped
<1>6. Linked(ss, new, id)
  BY <1>3, <1>4 DEF Linked
<1> QED
  BY <1>5, <1>6 DEF new

-----------------------------------------------------------------------------
(* The inductive invariant.                                                 *)

(* Hashes number the formations, so none stored is that of a candidate that *)
(* is still in flight.                                                      *)
HashesFresh ==
    /\ \A id \in DOMAIN seals : seals[id].hash <= formed
    /\ candidate # None => \A id \in DOMAIN seals : seals[id].hash < formed

IInv == TypeOK /\ ChainLinked /\ CandidateOnTip /\ StatusIsDecided /\ HashesFresh

(* What the invariant says of the store, in terms of the operators above.   *)
DecidedStore(ss, ch) ==
    \A id \in DOMAIN ss :
        /\ Missing(ss[id].votes) = {}
        /\ ss[id].status = EvaluateQuorum(ss[id].votes)
        /\ (ss[id].status = "attested") <=> (id \in Range(ch))

(* The invariant, read as facts about the stored seals and the index.       *)
LEMMA StoreOfInvariant ==
    ASSUME IInv
    PROVE  /\ StoreTyped(seals, chain)
           /\ Linked(seals, chain, latest)
           /\ DecidedStore(seals, chain)
BY DEF IInv, TypeOK, ChainLinked, StatusIsDecided, StoreTyped, Linked, DecidedStore

(* With no vote missing anywhere, the sweep has nothing to do.              *)
LEMMA SweepIdle ==
    ASSUME NEW st, NEW ch, NEW ok, DecidedStore(st.seals, ch)
    PROVE  Swept(st, ok, {}) = st
<1>1. Unvoted(st.seals) = {}
  BY DEF Unvoted, DecidedStore
<1>2. Unvoted(st.seals) \ {} = {}
  BY <1>1
<1> QED
  BY <1>2 DEF Swept

(* FormNext, whichever branch it takes.                                     *)
LEMMA FormNextEffect ==
    ASSUME TypeOK, NEW t \in [seq: Nat, hash: Nat], FormNext(t)
    PROVE  /\ balance' \in Nat /\ hashes' \in Seq(Signatures) /\ formed' \in Nat
           /\ candidate' \in Candidates \cup {None}
           /\ formed' >= formed
           /\ candidate' # None =>
                /\ candidate'.seq = t.seq + 1
                /\ candidate'.prev = t.hash
                /\ candidate'.hash = formed'
                /\ formed' = formed + 1
           /\ \/ formed' = formed /\ balance' = balance /\ candidate' = None
              \/ formed' = formed + 1 /\ balance' = balance - Threshold /\ candidate' # None
<1>1. CASE gate \/ balance < Threshold
  BY <1>1 DEF FormNext, TypeOK
<1>2. CASE ~(gate \/ balance < Threshold)
  <2>1. /\ candidate' = NewCandidate(t, hashes)
        /\ balance' = balance - Threshold
        /\ hashes' = CarriedForward(hashes, balance - Threshold)
        /\ formed' = formed + 1
    BY <1>2 DEF FormNext
  <2>2. balance \in Nat /\ Threshold \in Nat /\ formed \in Nat /\ balance - Threshold \in Nat
    BY <1>2, ReserveAssumption DEF TypeOK
  <2>3. hashes' \in Seq(Signatures)
    BY <2>1, <2>2, CarriedForwardTyped DEF TypeOK
  <2>4. candidate' \in Candidates /\ candidate' # None
    BY <2>1, NewCandidateTyped DEF TypeOK
  <2>5. /\ candidate'.seq = t.seq + 1
        /\ candidate'.prev = t.hash
        /\ candidate'.hash = formed'
    BY <2>1 DEF NewCandidate
  <2> QED
    BY <2>1, <2>2, <2>3, <2>4, <2>5
<1> QED
  BY <1>1, <1>2

(* The store after a candidate of the invariant is decided.                 *)
LEMMA Finalized ==
    ASSUME IInv, candidate # None, NEW ok \in BOOLEAN,
           NEW s, s = SealOf(candidate, CronVotes(candidate), ok),
           NEW st, st = Stored(Store, s)
    PROVE  /\ s \in Seals /\ Id(s) \notin Range(chain)
           /\ st.seals = Put(seals, Id(s), s)
           /\ StoreTyped(st.seals, st.chain)
           /\ Linked(st.seals, st.chain, st.latest)
           /\ DecidedStore(st.seals, st.chain)
           /\ st.audit \in Seq(SealIds) /\ st.retry \in Seq(SealIds)
           /\ st.latest \in SealIds \cup {None}
           /\ \A id \in DOMAIN st.seals : st.seals[id].hash <= formed
           /\ \/ s.status = "attested" /\ st.chain = Append(chain, Id(s))
              \/ s.status # "attested" /\ st.chain = chain
<1> DEFINE v == CronVotes(candidate)
<1>0. /\ candidate \in Candidates
      /\ candidate.seq = Len(chain) + 1
      /\ candidate.prev = HeadHash(seals, chain)
      /\ candidate.hash = formed
      /\ formed \in Nat
  <2>1. Tip(seals, latest).hash = HeadHash(seals, chain)
    BY StoreOfInvariant, TipIsHead
  <2> QED
    BY <2>1 DEF IInv, TypeOK, CandidateOnTip
<1>1. v \in Votes /\ Missing(v) = {}
  BY <1>0, CronVotesComplete
<1>2. EvaluateQuorum(v) \in Statuses
  BY <1>1, CompleteVotesDecide
<1>3. /\ s.seq = candidate.seq /\ s.prev = candidate.prev /\ s.hash = candidate.hash
      /\ s.votes = v /\ s.status = EvaluateQuorum(v)
  BY DEF SealOf
<1>4. s \in Seals
  BY <1>0, <1>1, <1>2 DEF SealOf, Seals, Candidates
<1>5. Id(s) \notin Range(chain)
  BY <1>0, <1>3, StoreOfInvariant, NextNameIsFree
<1>6. /\ st.seals = Put(seals, Id(s), s)
      /\ st.chain = IF s.status = "attested" THEN Append(chain, Id(s)) ELSE chain
      /\ st.audit = PushIfMissing(audit, Id(s))
      /\ st.latest = IF s.status = "attested" THEN Id(s) ELSE latest
      /\ st.retry = IF s.status = "attested" /\ ~s.pointer THEN Enqueued(retry, Id(s)) ELSE retry
  BY <1>5 DEF Stored, Store, PushIfMissing
<1> HIDE DEF v
<1>7. /\ StoreTyped(st.seals, chain)
      /\ Linked(st.seals, chain, latest)
      /\ \A i \in DOMAIN chain : st.seals[chain[i]] = seals[chain[i]]
  BY <1>4, <1>5, <1>6, StoreOfInvariant, PutKeepsChain
<1>8. Id(s) \in DOMAIN st.seals /\ st.seals[Id(s)] = s
  BY <1>6 DEF Put
<1>9. \A id \in DOMAIN st.seals : id # Id(s) => id \in DOMAIN seals /\ st.seals[id] = seals[id]
  BY <1>6 DEF Put
<1>10. HeadHash(st.seals, chain) = HeadHash(seals, chain)
  <2>1. chain # <<>> => Len(chain) \in DOMAIN chain
    BY StoreOfInvariant DEF StoreTyped
  <2> QED
    BY <1>7, <2>1 DEF HeadHash
<1>11. /\ StoreTyped(st.seals, st.chain)
       /\ Linked(st.seals, st.chain, st.latest)
  <2>1. CASE s.status = "attested"
    BY <1>0, <1>3, <1>6, <1>7, <1>8, <1>10, <2>1, AppendExtendsChain
  <2>2. CASE s.status # "attested"
    BY <1>6, <1>7, <2>2
  <2> QED
    BY <2>1, <2>2
<1>12. Id(s) \in SealIds
  BY <1>4, SealIdTyped
<1>13. /\ st.audit \in Seq(SealIds) /\ st.retry \in Seq(SealIds)
       /\ st.latest \in SealIds \cup {None}
  BY <1>6, <1>12, PushIfMissingTyped, EnqueuedTyped DEF IInv, TypeOK
<1>14. Range(st.chain) = IF s.status = "attested" THEN Range(chain) \cup {Id(s)} ELSE Range(chain)
  <2>1. CASE s.status = "attested"
    <3>1. chain \in Seq(SealIds)
      BY DEF IInv, TypeOK
    <3>2. /\ DOMAIN Append(chain, Id(s)) = DOMAIN chain \cup {Len(chain) + 1}
          /\ \A i \in DOMAIN chain : Append(chain, Id(s))[i] = chain[i]
          /\ Append(chain, Id(s))[Len(chain) + 1] = Id(s)
      BY <1>12, <3>1, AppendProperties
    <3> QED
      BY <1>6, <2>1, <3>2 DEF Range
  <2>2. CASE s.status # "attested"
    BY <1>6, <2>2
  <2> QED
    BY <2>1, <2>2
<1>15. DecidedStore(st.seals, st.chain)
  <2> SUFFICES ASSUME NEW id \in DOMAIN st.seals
               PROVE  /\ Missing(st.seals[id].votes) = {}
                      /\ st.seals[id].status = EvaluateQuorum(st.seals[id].votes)
                      /\ (st.seals[id].status = "attested") <=> (id \in Range(st.chain))
    BY DEF DecidedStore
  <2>1. CASE id = Id(s)
    BY <1>1, <1>3, <1>5, <1>8, <1>14, <2>1
  <2>2. CASE id # Id(s)
    BY <1>9, <1>14, <2>2, StoreOfInvariant DEF DecidedStore
  <2> QED
    BY <2>1, <2>2
<1>16. \A id \in DOMAIN st.seals : st.seals[id].hash <= formed
  BY <1>0, <1>3, <1>8, <1>9 DEF IInv, HashesFresh
<1> QED
  BY <1>4, <1>5, <1>6, <1>11, <1>13, <1>15, <1>16

(* An empty store satisfies the invariant.                                  *)
LEMMA InitInvariant == Init => IInv
<1> SUFFICES ASSUME Init PROVE IInv
  OBVIOUS
<1>1. /\ DOMAIN seals = {} /\ chain = <<>> /\ candidate = None
      /\ latest = None /\ formed = 0 /\ cycle = 1
  BY DEF Init
<1>2. 1 \in Cycles
  BY ReserveAssumption DEF Cycles
<1>3. TypeOK
  <2>1. v1Balance \in Nat /\ balance \in Nat /\ formed \in Nat /\ cycle \in Cycles
    BY <1>1, <1>2 DEF Init
  <2>2. hashes \in Seq(Signatures) /\ audit \in Seq(SealIds) /\ retry \in Seq(SealIds)
    BY DEF Init
  <2>3. gate \in BOOLEAN
    BY DEF Init
  <2>4. /\ DOMAIN seals \subseteq SealIds
        /\ \A id \in DOMAIN seals : seals[id] \in Seals /\ Id(seals[id]) = id
    BY <1>1
  <2>5. chain \in Seq(SealIds) /\ candidate \in Candidates \cup {None} /\ latest \in SealIds \cup {None}
    BY <1>1
  <2> QED
    BY <2>1, <2>2, <2>3, <2>4, <2>5 DEF TypeOK
<1>4. ChainLinked /\ CandidateOnTip /\ StatusIsDecided /\ HashesFresh
  BY <1>1 DEF ChainLinked, CandidateOnTip, StatusIsDecided, HashesFresh
<1> QED
  BY <1>3, <1>4 DEF IInv

(* A step that leaves the store alone keeps what the invariant says of it.  *)
LEMMA StoreUntouched ==
    ASSUME IInv, UNCHANGED store, formed' \in Nat, formed' >= formed,
           candidate' # None =>
              /\ candidate'.seq = Len(chain) + 1
              /\ candidate'.prev = Tip(seals, latest).hash
              /\ candidate'.hash = formed'
              /\ candidate # None \/ formed' = formed + 1,
           candidate # None => formed' = formed
    PROVE  ChainLinked' /\ CandidateOnTip' /\ StatusIsDecided' /\ HashesFresh'
<1>1. UNCHANGED <<seals, chain, latest>>
  BY DEF store
<1>2. ChainLinked' /\ StatusIsDecided'
  BY <1>1 DEF IInv, ChainLinked, StatusIsDecided
<1>3. CandidateOnTip'
  BY <1>1 DEF CandidateOnTip, Tip
<1>4. HashesFresh'
  <2>1. formed \in Nat /\ \A id \in DOMAIN seals : seals[id] \in Seals
    BY DEF IInv, TypeOK
  <2>2. \A id \in DOMAIN seals : seals[id].hash \in Nat
    BY <2>1 DEF Seals
  <2> QED
    BY <1>1, <2>1, <2>2 DEF HashesFresh, IInv
<1> QED
  BY <1>2, <1>3, <1>4

(* The tip formation reads in a state of the invariant.                     *)
LEMMA TipOfInvariant ==
    ASSUME IInv
    PROVE  /\ Tip(seals, latest) \in [seq: Nat, hash: Nat]
           /\ Tip(seals, latest).seq = Len(chain)
           /\ Tip(seals, latest).hash = HeadHash(seals, chain)
BY StoreOfInvariant, TipIsHead

(* A deposit is queued, or forms a candidate at once.                       *)
LEMMA DepositEffect ==
    ASSUME IInv, NEW amount \in Nat, NEW sig \in Signatures, Deposit(amount, sig)
    PROVE  /\ v1Balance' = v1Balance + amount
           /\ UNCHANGED <<store, gate, cycle>>
           /\ \/ /\ balance' = balance + amount
                 /\ hashes' = PushIfMissing(hashes, sig)
                 /\ UNCHANGED <<candidate, formed>>
              \/ /\ candidate = None
                 /\ candidate' = NewCandidate(Tip(seals, latest), PushIfMissing(hashes, sig))
                 /\ balance' = balance + amount - Threshold
                 /\ balance' \in Nat
                 /\ balance' > 0 => hashes' = <<sig>>
                 /\ hashes' \in Seq(Signatures)
                 /\ formed' = formed + 1
<1> DEFINE next == balance + amount
           all  == PushIfMissing(hashes, sig)
<1>1. v1Balance' = v1Balance + amount /\ UNCHANGED <<store, gate, cycle>>
  BY DEF Deposit
<1>2. balance \in Nat /\ next \in Nat /\ Threshold \in Nat
  BY ReserveAssumption DEF IInv, TypeOK
<1>3. CASE next < Threshold \/ candidate # None \/ gate
  <2>1. balance' = next /\ hashes' = all /\ UNCHANGED <<candidate, formed>>
    BY <1>3 DEF Deposit
  <2> QED
    BY <1>1, <2>1
<1>4. CASE ~(next < Threshold \/ candidate # None \/ gate)
  <2>1. /\ candidate = None /\ ~(next < Threshold)
        /\ candidate' = NewCandidate(Tip(seals, latest), all)
        /\ balance' = next - Threshold
        /\ hashes' = IF next > Threshold THEN <<sig>> ELSE <<>>
        /\ formed' = formed + 1
    BY <1>4 DEF Deposit
  <2> HIDE DEF all
  <2>2. balance' \in Nat /\ balance' = balance + amount - Threshold
    BY <1>2, <2>1
  <2> HIDE DEF next
  <2>3. balance' > 0 => hashes' = <<sig>>
    BY <1>2, <2>1
  <2>4. hashes' \in Seq(Signatures)
    BY <2>1
  <2> QED
    BY <1>1, <2>1, <2>2, <2>3, <2>4 DEF all
<1> QED
  BY <1>3, <1>4

(* A deposit keeps the invariant.                                           *)
LEMMA DepositKeeps ==
    ASSUME IInv, NEW amount \in Amounts, NEW sig \in Signatures, Deposit(amount, sig)
    PROVE  IInv'
<1> DEFINE all == PushIfMissing(hashes, sig)
<1>1. /\ balance \in Nat /\ v1Balance \in Nat /\ amount \in Nat /\ Threshold \in Nat
      /\ formed \in Nat /\ cycle \in Cycles /\ hashes \in Seq(Signatures)
  BY ReserveAssumption DEF IInv, TypeOK
<1>2. all \in Seq(Signatures)
  BY <1>1, PushIfMissingTyped
<1> HIDE DEF all
<1>3. /\ v1Balance' = v1Balance + amount
      /\ UNCHANGED <<store, gate, cycle>>
  BY <1>1, DepositEffect
<1>4. CASE balance' = balance + amount /\ hashes' = all /\ UNCHANGED <<candidate, formed>>
  <2>1. TypeOK'
    BY <1>1, <1>2, <1>3, <1>4 DEF IInv, TypeOK, store
  <2>2. ChainLinked' /\ CandidateOnTip' /\ StatusIsDecided' /\ HashesFresh'
    BY <1>1, <1>3, <1>4, StoreUntouched DEF IInv, CandidateOnTip
  <2> QED
    BY <2>1, <2>2 DEF IInv
<1>5. CASE /\ candidate = None
           /\ candidate' = NewCandidate(Tip(seals, latest), all)
           /\ balance' \in Nat /\ hashes' \in Seq(Signatures)
           /\ formed' = formed + 1
  <2>1. candidate' \in Candidates
    BY <1>1, <1>2, <1>5, TipOfInvariant, NewCandidateTyped
  <2>2. TypeOK'
    <3>1. balance' \in Nat /\ v1Balance' \in Nat /\ formed' \in Nat
      BY <1>1, <1>3, <1>5
    <3>2. hashes' \in Seq(Signatures)
      BY <1>5
    <3>3. UNCHANGED <<seals, chain, audit, latest, retry, gate, cycle>>
      BY <1>3 DEF store
    <3> QED
      BY <2>1, <3>1, <3>2, <3>3 DEF IInv, TypeOK
  <2>3. /\ candidate'.seq = Tip(seals, latest).seq + 1
        /\ candidate'.prev = Tip(seals, latest).hash
        /\ candidate'.hash = formed'
    BY <1>5 DEF NewCandidate
  <2>4. ChainLinked' /\ CandidateOnTip' /\ StatusIsDecided' /\ HashesFresh'
    BY <1>1, <1>3, <1>5, <2>3, TipOfInvariant, StoreUntouched
  <2> QED
    BY <2>2, <2>4 DEF IInv
<1> QED
  BY <1>1, <1>4, <1>5, DepositEffect DEF all

(* The formation endpoint keeps the invariant.                              *)
LEMMA RequestFormationKeeps ==
    ASSUME IInv, RequestFormation
    PROVE  IInv'
<1>1. /\ candidate = None
      /\ FormNext(Tip(seals, latest))
      /\ UNCHANGED <<v1Balance, store, gate, cycle>>
  BY DEF RequestFormation
<1>2. TypeOK
  BY DEF IInv
<1>3. /\ balance' \in Nat /\ hashes' \in Seq(Signatures) /\ formed' \in Nat
      /\ candidate' \in Candidates \cup {None}
      /\ formed' >= formed
      /\ candidate' # None =>
            /\ candidate'.seq = Tip(seals, latest).seq + 1
            /\ candidate'.prev = Tip(seals, latest).hash
            /\ candidate'.hash = formed'
            /\ formed' = formed + 1
  BY <1>1, <1>2, TipOfInvariant, FormNextEffect
<1>4. TypeOK'
  BY <1>1, <1>3 DEF IInv, TypeOK, store
<1>5. ChainLinked' /\ CandidateOnTip' /\ StatusIsDecided' /\ HashesFresh'
  BY <1>1, <1>3, TipOfInvariant, StoreUntouched
<1> QED
  BY <1>4, <1>5 DEF IInv

(* A step that only touches the votes or the window of the candidate.       *)
LEMMA VotingKeeps ==
    ASSUME IInv, candidate # None, candidate' \in Candidates,
           candidate'.seq = candidate.seq, candidate'.prev = candidate.prev,
           candidate'.hash = candidate.hash,
           UNCHANGED <<ledger, store, gate, cycle, formed>>
    PROVE  IInv'
<1>1. TypeOK'
  BY DEF IInv, TypeOK, ledger, store
<1>2. formed \in Nat
  BY DEF IInv, TypeOK
<1>3. ChainLinked' /\ CandidateOnTip' /\ StatusIsDecided' /\ HashesFresh'
  BY <1>2, StoreUntouched DEF IInv, CandidateOnTip
<1> QED
  BY <1>1, <1>3 DEF IInv

(* A sentinel's vote keeps the invariant.                                   *)
LEMMA SubmitAttestationKeeps ==
    ASSUME IInv, NEW agent \in Sentinels, NEW verdict \in CastVerdicts,
           SubmitAttestation(agent, verdict)
    PROVE  IInv'
<1>1. /\ candidate # None
      /\ candidate' = [candidate EXCEPT !.votes[agent] = verdict]
      /\ UNCHANGED <<ledger, store, gate, cycle, formed>>
  BY DEF SubmitAttestation
<1>2. candidate \in Candidates /\ verdict \in Verdicts
  BY <1>1, ReserveAssumption DEF IInv, TypeOK
<1>3. [candidate.votes EXCEPT ![agent] = verdict] \in Votes
  BY <1>2 DEF Candidates, Votes
<1>4. /\ candidate' \in Candidates
      /\ candidate'.seq = candidate.seq /\ candidate'.prev = candidate.prev
      /\ candidate'.hash = candidate.hash
  BY <1>1, <1>2, <1>3 DEF Candidates
<1> QED
  BY <1>1, <1>4, VotingKeeps

(* The end of the attestation window keeps the invariant.                   *)
LEMMA CloseWindowKeeps ==
    ASSUME IInv, CloseWindow
    PROVE  IInv'
<1>1. /\ candidate # None
      /\ candidate' = [candidate EXCEPT !.open = FALSE]
      /\ UNCHANGED <<ledger, store, gate, cycle, formed>>
  BY DEF CloseWindow
<1>2. candidate \in Candidates
  BY <1>1 DEF IInv, TypeOK
<1>3. /\ candidate' \in Candidates
      /\ candidate'.seq = candidate.seq /\ candidate'.prev = candidate.prev
      /\ candidate'.hash = candidate.hash
  BY <1>1, <1>2 DEF Candidates
<1> QED
  BY <1>1, <1>3, VotingKeeps

(* A cron run: the store changes by the seal of the candidate, if there is  *)
(* one, and the next candidate is formed on top of the new head.            *)
LEMMA AttestationEffect ==
    ASSUME IInv, NEW ok \in BOOLEAN, VaultAttestation(ok)
    PROVE  /\ FormNext(Tip(seals', latest'))
           /\ UNCHANGED <<v1Balance, gate, cycle>>
           /\ StoreTyped(seals', chain')
           /\ Linked(seals', chain', latest')
           /\ DecidedStore(seals', chain')
           /\ audit' \in Seq(SealIds) /\ retry' \in Seq(SealIds)
           /\ latest' \in SealIds \cup {None}
           /\ \A id \in DOMAIN seals' : seals'[id].hash <= formed
           /\ \/ candidate = None /\ UNCHANGED store
              \/ /\ candidate # None
                 /\ \E s \in Seals :
                       /\ s = SealOf(candidate, CronVotes(candidate), ok)
                       /\ seals' = Put(seals, Id(s), s)
                       /\ Id(s) \notin Range(chain)
                       /\ \/ s.status = "attested" /\ chain' = Append(chain, Id(s))
                          \/ s.status # "attested" /\ chain' = chain
<1>1. PICK st \in Decided(ok) :
         /\ FormNext(Tip(st.seals, st.latest))
         /\ \E swept \in {IF gate THEN st ELSE Swept(st, ok, {})} : SetStore(swept)
         /\ UNCHANGED <<v1Balance, gate, cycle>>
  BY DEF VaultAttestation
<1>2. ASSUME DecidedStore(st.seals, st.chain)
      PROVE  SetStore(st)
  BY <1>1, <1>2, SweepIdle
<1>3. CASE candidate = None
  <2>1. st = Store
    BY <1>1, <1>3 DEF Decided
  <2>2. /\ st.seals = seals /\ st.chain = chain /\ st.audit = audit
        /\ st.latest = latest /\ st.retry = retry
    BY <2>1 DEF Store
  <2>3. SetStore(st)
    BY <1>2, <2>2, StoreOfInvariant
  <2>4. UNCHANGED store
    BY <2>2, <2>3 DEF SetStore, store
  <2>5. UNCHANGED <<seals, chain, audit, latest, retry>>
    BY <2>4 DEF store
  <2>6. FormNext(Tip(seals', latest'))
    BY <1>1, <2>2, <2>5
  <2>7. \A id \in DOMAIN seals : seals[id].hash <= formed
    BY DEF IInv, HashesFresh
  <2>8. audit \in Seq(SealIds) /\ retry \in Seq(SealIds) /\ latest \in SealIds \cup {None}
    BY DEF IInv, TypeOK
  <2> QED
    BY <1>1, <1>3, <2>4, <2>5, <2>6, <2>7, <2>8, StoreOfInvariant
<1>4. CASE candidate # None
  <2> DEFINE s == SealOf(candidate, CronVotes(candidate), ok)
  <2>1. st = Stored(Store, s)
    BY <1>1, <1>4 DEF Decided
  <2> HIDE DEF s
  <2>2. s = SealOf(candidate, CronVotes(candidate), ok)
    BY DEF s
  <2>3. /\ s \in Seals /\ Id(s) \notin Range(chain)
        /\ st.seals = Put(seals, Id(s), s)
        /\ StoreTyped(st.seals, st.chain)
        /\ Linked(st.seals, st.chain, st.latest)
        /\ DecidedStore(st.seals, st.chain)
        /\ st.audit \in Seq(SealIds) /\ st.retry \in Seq(SealIds)
        /\ st.latest \in SealIds \cup {None}
        /\ \A id \in DOMAIN st.seals : st.seals[id].hash <= formed
        /\ \/ s.status = "attested" /\ st.chain = Append(chain, Id(s))
           \/ s.status # "attested" /\ st.chain = chain
    BY <1>4, <2>1, <2>2, Finalized
  <2>4. /\ seals' = st.seals /\ chain' = st.chain /\ audit' = st.audit
        /\ latest' = st.latest /\ retry' = st.retry
    BY <1>2, <2>3 DEF SetStore
  <2>5. FormNext(Tip(seals', latest'))
    BY <1>1, <2>4
  <2>6. \E z \in Seals :
           /\ z = SealOf(candidate, CronVotes(candidate), ok)
           /\ seals' = Put(seals, Id(z), z)
           /\ Id(z) \notin Range(chain)
           /\ \/ z.status = "attested" /\ chain' = Append(chain, Id(z))
              \/ z.status # "attested" /\ chain' = chain
    BY <2>2, <2>3, <2>4
  <2> QED
    BY <1>1, <1>4, <2>3, <2>4, <2>5, <2>6
<1> QED
  BY <1>3, <1>4

(* A cron run keeps the invariant.                                          *)
LEMMA VaultAttestationKeeps ==
    ASSUME IInv, NEW ok \in BOOLEAN, VaultAttestation(ok)
    PROVE  IInv'
<1>1. /\ FormNext(Tip(seals', latest'))
      /\ UNCHANGED <<v1Balance, gate, cycle>>
      /\ StoreTyped(seals', chain')
      /\ Linked(seals', chain', latest')
      /\ DecidedStore(seals', chain')
      /\ audit' \in Seq(SealIds) /\ retry' \in Seq(SealIds)
      /\ latest' \in SealIds \cup {None}
      /\ \A id \in DOMAIN seals' : seals'[id].hash <= formed
  BY AttestationEffect
<1>2. /\ Tip(seals', latest') \in [seq: Nat, hash: Nat]
      /\ Tip(seals', latest').seq = Len(chain')
      /\ Tip(seals', latest').hash = HeadHash(seals', chain')
  BY <1>1, TipIsHead
<1>3. TypeOK
  BY DEF IInv
<1>4. /\ balance' \in Nat /\ hashes' \in Seq(Signatures) /\ formed' \in Nat
      /\ candidate' \in Candidates \cup {None}
      /\ formed' >= formed
      /\ candidate' # None =>
            /\ candidate'.seq = Tip(seals', latest').seq + 1
            /\ candidate'.prev = Tip(seals', latest').hash
            /\ candidate'.hash = formed'
            /\ formed' = formed + 1
  BY <1>1, <1>2, <1>3, FormNextEffect
<1>5. TypeOK'
  BY <1>1, <1>3, <1>4 DEF TypeOK, StoreTyped
<1>6. ChainLinked' /\ StatusIsDecided'
  BY <1>1 DEF ChainLinked, StatusIsDecided, Linked, DecidedStore
<1>7. CandidateOnTip'
  BY <1>2, <1>4 DEF CandidateOnTip
<1>8. HashesFresh'
  <2>1. formed \in Nat /\ formed' \in Nat
    BY <1>3, <1>4 DEF TypeOK
  <2>2. \A id \in DOMAIN seals' : seals'[id].hash \in Nat
    BY <1>1 DEF StoreTyped, Seals
  <2> QED
    BY <1>1, <1>4, <2>1, <2>2 DEF HashesFresh
<1> QED
  BY <1>5, <1>6, <1>7, <1>8 DEF IInv

(* The gate and the cycle keep the invariant.                               *)
LEMMA SurroundingsKeep ==
    ASSUME IInv, SwitchGate \/ RollCycle
    PROVE  IInv'
<1>1. /\ UNCHANGED <<ledger, candidate, store, formed>>
      /\ gate' \in BOOLEAN /\ cycle' \in Cycles
  <2>1. gate \in BOOLEAN /\ cycle \in 1..MaxCycle /\ MaxCycle \in Nat
    BY ReserveAssumption DEF IInv, TypeOK, Cycles
  <2>2. CASE SwitchGate
    BY <2>1, <2>2 DEF SwitchGate, Cycles
  <2>3. CASE RollCycle
    BY <2>1, <2>3 DEF RollCycle, Cycles
  <2> QED
    BY <2>2, <2>3
<1>2. TypeOK'
  BY <1>1 DEF IInv, TypeOK, ledger, store
<1>3. formed \in Nat
  BY DEF IInv, TypeOK
<1>4. ChainLinked' /\ CandidateOnTip' /\ StatusIsDecided' /\ HashesFresh'
  BY <1>1, <1>3, StoreUntouched DEF IInv, CandidateOnTip
<1> QED
  BY <1>2, <1>4 DEF IInv

(* A substrate write succeeds or fails.                                     *)
LEMMA OutcomesBoolean ==
    ASSUME NEW ok \in SubstrateOutcomes
    PROVE  ok \in BOOLEAN
BY ReserveAssumption

(* Every step keeps the invariant.                                          *)
LEMMA StepInvariant == IInv /\ [Next]_vars => IInv'
<1> SUFFICES ASSUME IInv, [Next]_vars PROVE IInv'
  OBVIOUS
<1>1. CASE \E amount \in Amounts, sig \in Signatures : Deposit(amount, sig)
  BY <1>1, DepositKeeps
<1>2. CASE RequestFormation
  BY <1>2, RequestFormationKeeps
<1>3. CASE \E agent \in Sentinels, verdict \in CastVerdicts : SubmitAttestation(agent, verdict)
  BY <1>3, SubmitAttestationKeeps
<1>4. CASE CloseWindow
  BY <1>4, CloseWindowKeeps
<1>5. CASE \E ok \in SubstrateOutcomes : VaultAttestation(ok)
  BY <1>5, OutcomesBoolean, VaultAttestationKeeps
<1>6. CASE SwitchGate \/ RollCycle
  BY <1>6, SurroundingsKeep
<1>7. CASE UNCHANGED vars
  BY <1>7 DEF vars, ledger, store, IInv, TypeOK, ChainLinked, CandidateOnTip, Tip,
              StatusIsDecided, HashesFresh
<1> QED
  BY <1>1, <1>2, <1>3, <1>4, <1>5, <1>6, <1>7 DEF Next

(* The invariant holds in every reachable state.                            *)
LEMMA InvariantHolds == Spec => []IInv
BY InitInvariant, StepInvariant, PTL DEF Spec

(* The state of the KV store and of the candidate keeps its type.           *)
THEOREM TypeCorrect == Spec => []TypeOK
<1>1. IInv => TypeOK
  BY DEF IInv
<1> QED
  BY <1>1, InvariantHolds, PTL

(* The attested index is a linked chain whose head the latest pointer names.*)
THEOREM ChainStaysLinked == Spec => []ChainLinked
<1>1. IInv => ChainLinked
  BY DEF IInv
<1> QED
  BY <1>1, InvariantHolds, PTL

(* A candidate extends the head of the chain for as long as it is in flight.*)
THEOREM CandidateStaysOnTip == Spec => []CandidateOnTip
<1>1. IInv => CandidateOnTip
  BY DEF IInv
<1> QED
  BY <1>1, InvariantHolds, PTL

(* The status of every stored seal is the one its complete votes decide.    *)
THEOREM StatusStaysDecided == Spec => []StatusIsDecided
<1>1. IInv => StatusIsDecided
  BY DEF IInv
<1> QED
  BY <1>1, InvariantHolds, PTL

-----------------------------------------------------------------------------
(* The reserve is conserved.                                                *)

(* One more parcel formed is one threshold more.                            *)
LEMMA OneMoreParcel ==
    ASSUME NEW n \in Nat, NEW t \in Nat
    PROVE  t * (n + 1) = t * n + t
OBVIOUS

(* Every step conserves the reserve.                                        *)
LEMMA ReserveStep == IInv /\ ReserveConserved /\ [Next]_vars => ReserveConserved'
<1> SUFFICES ASSUME IInv, ReserveConserved, [Next]_vars PROVE ReserveConserved'
  OBVIOUS
<1> DEFINE parcels(n) == Threshold * n
<1>1. /\ v1Balance \in Nat /\ balance \in Nat /\ formed \in Nat /\ Threshold \in Nat \ {0}
      /\ TypeOK
  BY ReserveAssumption DEF IInv, TypeOK
<1>2. parcels(formed) \in Nat /\ parcels(formed + 1) = parcels(formed) + Threshold
  BY <1>1, OneMoreParcel
<1>3. v1Balance = balance + parcels(formed)
  BY DEF ReserveConserved
<1>4. ASSUME NEW t \in [seq: Nat, hash: Nat], FormNext(t), v1Balance' = v1Balance
      PROVE  v1Balance' = balance' + parcels(formed')
  <2> HIDE DEF parcels
  <2>1. \/ formed' = formed /\ balance' = balance
        \/ formed' = formed + 1 /\ balance' = balance - Threshold
    BY <1>1, <1>4, FormNextEffect
  <2> QED
    BY <1>1, <1>2, <1>3, <1>4, <2>1
<1>5. CASE \E amount \in Amounts, sig \in Signatures : Deposit(amount, sig)
  <2> HIDE DEF parcels
  <2>1. PICK amount \in Amounts, sig \in Signatures : Deposit(amount, sig)
    BY <1>5
  <2>2. amount \in Nat /\ v1Balance' = v1Balance + amount
    BY <2>1, ReserveAssumption DEF Deposit
  <2>3. \/ balance' = balance + amount /\ formed' = formed
        \/ balance' = balance + amount - Threshold /\ formed' = formed + 1
    BY <2>1, <2>2, DepositEffect
  <2>4. v1Balance' = balance' + parcels(formed')
    BY <1>1, <1>2, <1>3, <2>2, <2>3
  <2> QED
    BY <2>4 DEF ReserveConserved, parcels
<1>6. CASE RequestFormation
  <2>1. FormNext(Tip(seals, latest)) /\ v1Balance' = v1Balance
    BY <1>6 DEF RequestFormation
  <2> QED
    BY <1>4, <2>1, TipOfInvariant DEF ReserveConserved
<1>7. CASE \E ok \in SubstrateOutcomes : VaultAttestation(ok)
  <2>1. /\ FormNext(Tip(seals', latest')) /\ v1Balance' = v1Balance
        /\ StoreTyped(seals', chain') /\ Linked(seals', chain', latest')
    BY <1>7, OutcomesBoolean, AttestationEffect
  <2>2. Tip(seals', latest') \in [seq: Nat, hash: Nat]
    BY <2>1, TipIsHead
  <2> QED
    BY <1>4, <2>1, <2>2 DEF ReserveConserved
<1>8. CASE \/ \E agent \in Sentinels, verdict \in CastVerdicts : SubmitAttestation(agent, verdict)
           \/ CloseWindow \/ SwitchGate \/ RollCycle \/ UNCHANGED vars
  <2>1. UNCHANGED <<v1Balance, balance, formed>>
    BY <1>8 DEF SubmitAttestation, CloseWindow, SwitchGate, RollCycle, vars, ledger
  <2> QED
    BY <2>1 DEF ReserveConserved
<1> QED
  BY <1>5, <1>6, <1>7, <1>8 DEF Next

(* No deposited unit is lost or counted twice.                              *)
THEOREM ReserveStaysConserved == Spec => []ReserveConserved
<1>1. Init => ReserveConserved
  BY ReserveAssumption DEF Init, ReserveConserved
<1> QED
  BY <1>1, ReserveStep, InvariantHolds, PTL DEF Spec

-----------------------------------------------------------------------------
(* What is in progress, in flight or sealed names at least one deposit.     *)

(* FormNext leaves no reserve without a source.                             *)
LEMMA FormNextSources ==
    ASSUME TypeOK, ReserveHasSources, NEW t, FormNext(t)
    PROVE  /\ balance' > 0 => hashes' # <<>>
           /\ candidate' # None => candidate'.sources # <<>>
<1>1. CASE gate \/ balance < Threshold
  BY <1>1 DEF FormNext, ReserveHasSources
<1>2. CASE ~(gate \/ balance < Threshold)
  <2>1. /\ candidate' = NewCandidate(t, hashes)
        /\ balance' = balance - Threshold
        /\ hashes' = CarriedForward(hashes, balance - Threshold)
    BY <1>2 DEF FormNext
  <2>2. balance \in Nat /\ Threshold \in Nat \ {0}
    BY ReserveAssumption DEF TypeOK
  <2>3. hashes # <<>>
    BY <1>2, <2>2 DEF ReserveHasSources
  <2>4. candidate'.sources = hashes
    BY <2>1 DEF NewCandidate
  <2>5. balance' > 0 => hashes' = <<hashes[Len(hashes)]>>
    BY <2>1, <2>3 DEF CarriedForward
  <2> QED
    BY <2>3, <2>4, <2>5
<1> QED
  BY <1>1, <1>2

(* Every step keeps the provenance of the reserve.                          *)
LEMMA SourcesStep == IInv /\ ReserveHasSources /\ [Next]_vars => ReserveHasSources'
<1> SUFFICES ASSUME IInv, ReserveHasSources, [Next]_vars PROVE ReserveHasSources'
  OBVIOUS
<1>1. TypeOK /\ hashes \in Seq(Signatures) /\ balance \in Nat /\ Threshold \in Nat \ {0}
  BY ReserveAssumption DEF IInv, TypeOK
<1>2. CASE \E amount \in Amounts, sig \in Signatures : Deposit(amount, sig)
  <2>1. PICK amount \in Amounts, sig \in Signatures : Deposit(amount, sig)
    BY <1>2
  <2> DEFINE all == PushIfMissing(hashes, sig)
  <2>2. all # <<>>
    <3>1. CASE sig \in Range(hashes)
      <4>1. hashes # <<>>
        BY <3>1 DEF Range
      <4> QED
        BY <3>1, <4>1 DEF PushIfMissing
    <3>2. CASE sig \notin Range(hashes)
      BY <1>1, <3>2, AppendProperties DEF PushIfMissing
    <3> QED
      BY <3>1, <3>2
  <2> HIDE DEF all
  <2>3. UNCHANGED seals
    BY <2>1 DEF Deposit, store
  <2>4. amount \in Nat
    BY ReserveAssumption
  <2>5. CASE hashes' = all /\ UNCHANGED candidate
    BY <2>2, <2>3, <2>5 DEF ReserveHasSources
  <2>6. CASE /\ candidate' = NewCandidate(Tip(seals, latest), all)
             /\ balance' > 0 => hashes' = <<sig>>
    <3>1. candidate'.sources = all
      BY <2>6 DEF NewCandidate
    <3>2. balance' > 0 => hashes' # <<>>
      <4> DEFINE one == <<sig>>
      <4>1. one # <<>>
        OBVIOUS
      <4>2. balance' > 0 => hashes' = one
        BY <2>6
      <4> HIDE DEF one
      <4> QED
        BY <4>1, <4>2
    <3>3. \A id \in DOMAIN seals' : seals'[id].sources # <<>>
      BY <2>3 DEF ReserveHasSources
    <3> QED
      BY <2>2, <3>1, <3>2, <3>3 DEF ReserveHasSources
  <2> QED
    BY <2>1, <2>4, <2>5, <2>6, DepositEffect DEF all
<1>3. CASE RequestFormation
  <2>1. FormNext(Tip(seals, latest)) /\ UNCHANGED seals
    BY <1>3 DEF RequestFormation, store
  <2> QED
    BY <1>1, <2>1, FormNextSources DEF ReserveHasSources
<1>4. CASE \E ok \in SubstrateOutcomes : VaultAttestation(ok)
  <2>1. PICK ok \in SubstrateOutcomes : VaultAttestation(ok)
    BY <1>4
  <2>2. FormNext(Tip(seals', latest'))
    BY <2>1, OutcomesBoolean, AttestationEffect
  <2>3. /\ balance' > 0 => hashes' # <<>>
        /\ candidate' # None => candidate'.sources # <<>>
    BY <1>1, <2>2, FormNextSources
  <2>4. \A id \in DOMAIN seals' : seals'[id].sources # <<>>
    <3>1. CASE candidate = None
      <4>1. UNCHANGED seals
        BY <2>1, <3>1, OutcomesBoolean, AttestationEffect DEF store
      <4> QED
        BY <4>1 DEF ReserveHasSources
    <3>2. CASE candidate # None
      <4>1. PICK s \in Seals : /\ s = SealOf(candidate, CronVotes(candidate), ok)
                               /\ seals' = Put(seals, Id(s), s)
        BY <2>1, <3>2, OutcomesBoolean, AttestationEffect
      <4>2. s.sources = candidate.sources
        BY <4>1 DEF SealOf
      <4>3. s.sources # <<>>
        BY <3>2, <4>2 DEF ReserveHasSources
      <4> QED
        BY <4>1, <4>3 DEF Put, ReserveHasSources
    <3> QED
      BY <3>1, <3>2
  <2> QED
    BY <2>3, <2>4 DEF ReserveHasSources
<1>5. CASE \E agent \in Sentinels, verdict \in CastVerdicts : SubmitAttestation(agent, verdict)
  <2>1. PICK agent \in Sentinels, verdict \in CastVerdicts : SubmitAttestation(agent, verdict)
    BY <1>5
  <2>2. /\ candidate # None /\ UNCHANGED <<balance, hashes, seals>>
        /\ candidate' = [candidate EXCEPT !.votes[agent] = verdict]
    BY <2>1 DEF SubmitAttestation, ledger, store
  <2>3. candidate'.sources = candidate.sources
    BY <2>2 DEF IInv, TypeOK, Candidates
  <2> QED
    BY <2>2, <2>3 DEF ReserveHasSources
<1>6. CASE CloseWindow
  <2>1. /\ candidate # None /\ UNCHANGED <<balance, hashes, seals>>
        /\ candidate' = [candidate EXCEPT !.open = FALSE]
    BY <1>6 DEF CloseWindow, ledger, store
  <2>2. candidate'.sources = candidate.sources
    BY <2>1 DEF IInv, TypeOK, Candidates
  <2> QED
    BY <2>1, <2>2 DEF ReserveHasSources
<1>7. CASE SwitchGate \/ RollCycle \/ UNCHANGED vars
  <2>1. UNCHANGED <<balance, hashes, candidate, seals>>
    BY <1>7 DEF SwitchGate, RollCycle, vars, ledger, store
  <2> QED
    BY <2>1 DEF ReserveHasSources
<1> QED
  BY <1>2, <1>3, <1>4, <1>5, <1>6, <1>7 DEF Next

(* No reserve without provenance.                                           *)
THEOREM ReserveKeepsSources == Spec => []ReserveHasSources
<1>1. Init => ReserveHasSources
  BY DEF Init, ReserveHasSources
<1> QED
  BY <1>1, SourcesStep, InvariantHolds, PTL DEF Spec

-----------------------------------------------------------------------------
(* Attested seals are final, and cast votes count.                          *)

(* Only the cron run writes the store.                                      *)
LEMMA OtherStepsKeepStore ==
    ASSUME \/ \E amount \in Amounts, sig \in Signatures : Deposit(amount, sig)
           \/ RequestFormation
           \/ \E agent \in Sentinels, verdict \in CastVerdicts : SubmitAttestation(agent, verdict)
           \/ CloseWindow \/ SwitchGate \/ RollCycle \/ UNCHANGED vars
    PROVE  UNCHANGED <<seals, chain, latest>>
BY DEF Deposit, RequestFormation, SubmitAttestation, CloseWindow, SwitchGate, RollCycle, vars, store

(* One step leaves every attested seal as it is.                            *)
LEMMA AttestedKept ==
    IInv /\ [Next]_vars =>
        \A id \in DOMAIN seals :
            seals[id].status = "attested" => id \in DOMAIN seals' /\ seals'[id] = seals[id]
<1> SUFFICES ASSUME IInv, [Next]_vars,
                    NEW id \in DOMAIN seals, seals[id].status = "attested"
             PROVE  id \in DOMAIN seals' /\ seals'[id] = seals[id]
  OBVIOUS
<1>1. CASE \E ok \in SubstrateOutcomes : VaultAttestation(ok)
  <2>1. PICK ok \in SubstrateOutcomes : VaultAttestation(ok)
    BY <1>1
  <2>2. CASE candidate = None
    <3>1. UNCHANGED seals
      BY <2>1, <2>2, OutcomesBoolean, AttestationEffect DEF store
    <3> QED
      BY <3>1
  <2>3. CASE candidate # None
    <3>1. PICK s \in Seals : seals' = Put(seals, Id(s), s) /\ Id(s) \notin Range(chain)
      BY <2>1, <2>3, OutcomesBoolean, AttestationEffect
    <3>2. id \in Range(chain)
      BY StoreOfInvariant DEF DecidedStore
    <3> QED
      BY <3>1, <3>2 DEF Put
  <2> QED
    BY <2>2, <2>3
<1>2. CASE ~\E ok \in SubstrateOutcomes : VaultAttestation(ok)
  <2>1. UNCHANGED <<seals, chain, latest>>
    BY <1>2, OtherStepsKeepStore DEF Next
  <2> QED
    BY <2>1
<1> QED
  BY <1>1, <1>2

(* No step changes or removes an attested seal: no later candidate is given *)
(* its name.                                                                *)
THEOREM AttestedStaysFinal == Spec => AttestedIsFinal
<1>1. IInv /\ [Next]_vars =>
        [\A id \in DOMAIN seals :
            seals[id].status = "attested" => id \in DOMAIN seals' /\ seals'[id] = seals[id]]_vars
  BY AttestedKept
<1> QED
  BY <1>1, InvariantHolds, PTL DEF Spec, AttestedIsFinal

(* One step that turns a candidate into a seal keeps the cast votes.        *)
LEMMA CastVotesKept ==
    IInv /\ [Next]_vars =>
        \A id \in DOMAIN seals' :
            candidate # None /\ seals'[id].hash = candidate.hash /\ candidate' # candidate =>
                \A a \in Sentinels \ Missing(candidate.votes) :
                    seals'[id].votes[a] = candidate.votes[a]
<1> SUFFICES ASSUME IInv, [Next]_vars, NEW id \in DOMAIN seals',
                    candidate # None, seals'[id].hash = candidate.hash,
                    NEW a \in Sentinels \ Missing(candidate.votes)
             PROVE  seals'[id].votes[a] = candidate.votes[a]
  OBVIOUS
<1>1. candidate \in Candidates /\ candidate.hash = formed /\ formed \in Nat
  BY DEF IInv, TypeOK, CandidateOnTip
<1>2. \A x \in DOMAIN seals : seals[x].hash \in Nat /\ seals[x].hash < formed
  BY StoreOfInvariant DEF IInv, HashesFresh, StoreTyped, Seals
<1>3. CASE \E ok \in SubstrateOutcomes : VaultAttestation(ok)
  <2>1. PICK ok \in SubstrateOutcomes : VaultAttestation(ok)
    BY <1>3
  <2>2. PICK s \in Seals : /\ s = SealOf(candidate, CronVotes(candidate), ok)
                           /\ seals' = Put(seals, Id(s), s)
    BY <2>1, OutcomesBoolean, AttestationEffect
  <2>3. id = Id(s)
    BY <1>1, <1>2, <2>2 DEF Put
  <2>4. seals'[id] = s
    BY <2>2, <2>3 DEF Put
  <2>5. s.votes = CronVotes(candidate)
    BY <2>2 DEF SealOf
  <2> QED
    BY <1>1, <2>4, <2>5, CronVotesComplete
<1>4. CASE ~\E ok \in SubstrateOutcomes : VaultAttestation(ok)
  <2>1. UNCHANGED <<seals, chain, latest>>
    BY <1>4, OtherStepsKeepStore DEF Next
  <2> QED
    BY <1>1, <1>2, <2>1
<1> QED
  BY <1>3, <1>4

(* The votes sentinels cast are in the seal as they were cast.              *)
THEOREM CastVotesAlwaysCount == Spec => CastVotesCount
<1>1. IInv /\ [Next]_vars =>
        [\A id \in DOMAIN seals' :
            candidate # None /\ seals'[id].hash = candidate.hash /\ candidate' # candidate =>
                \A a \in Sentinels \ Missing(candidate.votes) :
                    seals'[id].votes[a] = candidate.votes[a]]_vars
  BY CastVotesKept
<1> QED
  BY <1>1, InvariantHolds, PTL DEF Spec, CastVotesCount

-----------------------------------------------------------------------------
(* The reserve implements the abstract chain of blocks.                     *)

Flight(c)      == IF c = None THEN None ELSE [hash |-> c.hash, prev |-> c.prev]
LogOf(ss, ch)  == [i \in DOMAIN ch |-> [hash |-> ss[ch[i]].hash, prev |-> ss[ch[i]].prev]]

(* The parcel in flight is a block, told apart from none.                   *)
LEMMA FlightProperties ==
    ASSUME NEW c \in Candidates \cup {None}
    PROVE  /\ Flight(c) = None <=> c = None
           /\ c # None => Flight(c) \in Links /\ Flight(c).hash = c.hash /\ Flight(c).prev = c.prev
<1>1. CASE c = None
  BY <1>1 DEF Flight
<1>2. CASE c # None
  <2>1. Flight(c) = [hash |-> c.hash, prev |-> c.prev] /\ c.hash \in Nat /\ c.prev \in Nat
    BY <1>2 DEF Flight, Candidates
  <2>2. Flight(c) \in Links
    BY <2>1 DEF Links
  <2> QED
    BY <1>2, <2>1, <2>2, NoneAssumption
<1> QED
  BY <1>1, <1>2

(* The log has one block per chained seal, and the head's hash as its tip.  *)
LEMMA LogProperties ==
    ASSUME NEW ss, NEW ch, NEW la, StoreTyped(ss, ch), Linked(ss, ch, la)
    PROVE  /\ LogOf(ss, ch) \in Seq(Links)
           /\ Len(LogOf(ss, ch)) = Len(ch)
           /\ DOMAIN LogOf(ss, ch) = DOMAIN ch
           /\ \A i \in DOMAIN ch : /\ ch[i] \in DOMAIN ss
                                   /\ LogOf(ss, ch)[i].hash = ss[ch[i]].hash
           /\ Chain!TipHash(LogOf(ss, ch)) = HeadHash(ss, ch)
<1> DEFINE log == LogOf(ss, ch)
<1>1. Len(ch) \in Nat /\ DOMAIN ch = 1..Len(ch)
  BY DEF StoreTyped
<1>2. \A i \in DOMAIN ch :
         /\ ch[i] \in DOMAIN ss
         /\ log[i] = [hash |-> ss[ch[i]].hash, prev |-> ss[ch[i]].prev]
         /\ ss[ch[i]].hash \in Nat /\ ss[ch[i]].prev \in Nat
  BY DEF LogOf, Linked, StoreTyped, Seals
<1>3. log \in [1..Len(ch) -> Links]
  BY <1>1, <1>2 DEF LogOf, Links
<1> HIDE DEF log
<1>4. log \in Seq(Links) /\ Len(log) = Len(ch) /\ DOMAIN log = DOMAIN ch
  BY <1>1, <1>3
<1>5. Chain!TipHash(log) = HeadHash(ss, ch)
  <2>1. CASE ch = <<>>
    <3>1. log = <<>>
      BY <1>4, <2>1
    <3> QED
      BY <2>1, <3>1 DEF Chain!TipHash, HeadHash
  <2>2. CASE ch # <<>>
    <3>1. log # <<>> /\ Len(ch) \in DOMAIN ch
      BY <1>1, <1>4, <2>2
    <3> QED
      BY <1>2, <1>4, <2>2, <3>1 DEF Chain!TipHash, HeadHash
  <2> QED
    BY <2>1, <2>2
<1> QED
  BY <1>2, <1>4, <1>5 DEF log

(* A formation, on top of the head of some store, takes a parcel.           *)
LEMMA FormationTakes ==
    ASSUME TypeOK, NEW ss, NEW ch, NEW la, StoreTyped(ss, ch), Linked(ss, ch, la),
           \A id \in DOMAIN ss : ss[id].hash <= formed,
           NEW p \in Nat,
           \/ candidate' = None /\ balance' = p
           \/ /\ candidate' \in Candidates
              /\ candidate'.prev = Tip(ss, la).hash /\ candidate'.hash = formed + 1
              /\ balance' \in Nat /\ balance' = p - Threshold
    PROVE  Chain!TakeParcel(p, LogOf(ss, ch))
<1>1. formed \in Nat /\ Threshold \in Nat \ {0}
  BY ReserveAssumption DEF TypeOK
<1>2. CASE candidate' = None /\ balance' = p
  BY <1>2 DEF Chain!TakeParcel
<1>3. CASE /\ candidate' \in Candidates
           /\ candidate'.prev = Tip(ss, la).hash /\ candidate'.hash = formed + 1
           /\ balance' \in Nat /\ balance' = p - Threshold
  <2>1. candidate' # None
    BY <1>3, NoneAssumption
  <2>2. /\ Flight(candidate') # None
        /\ Flight(candidate').hash = formed + 1
        /\ Flight(candidate').prev = Tip(ss, la).hash
    BY <1>3, <2>1, FlightProperties
  <2>3. Tip(ss, la).hash = Chain!TipHash(LogOf(ss, ch))
    BY TipIsHead, LogProperties
  <2>4. \A i \in DOMAIN LogOf(ss, ch) : LogOf(ss, ch)[i].hash # formed + 1
    <3>1. \A id \in DOMAIN ss : ss[id].hash \in Nat
      BY DEF StoreTyped, Seals
    <3> QED
      BY <1>1, <3>1, LogProperties
  <2>5. p >= Threshold
    BY <1>1, <1>3
  <2> QED
    BY <1>3, <2>2, <2>3, <2>4, <2>5 DEF Chain!TakeParcel, Flight
<1> QED
  BY <1>2, <1>3

(* Initial states map to initial states.                                    *)
LEMMA InitImplements == Init => Chain!Init
<1> SUFFICES ASSUME Init PROVE Chain!Init
  OBVIOUS
<1>1. balance = 0 /\ candidate = None /\ chain = <<>>
  BY DEF Init
<1>2. LogOf(seals, chain) = <<>>
  BY <1>1 DEF LogOf
<1> QED
  BY <1>1, <1>2 DEF Chain!Init, LogOf

(* A deposit maps to Fill.                                                  *)
LEMMA DepositImplements ==
    ASSUME IInv, NEW amount \in Amounts, NEW sig \in Signatures, Deposit(amount, sig)
    PROVE  Chain!Fill
<1>1. /\ amount \in Nat /\ balance \in Nat /\ Threshold \in Nat /\ formed \in Nat /\ TypeOK
      /\ candidate \in Candidates \cup {None} /\ cycle \in Cycles /\ hashes \in Seq(Signatures)
  BY ReserveAssumption DEF IInv, TypeOK
<1>2. UNCHANGED <<seals, chain>>
  BY DEF Deposit, store
<1>3. UNCHANGED LogOf(seals, chain)
  BY <1>2
<1>4. StoreTyped(seals, chain) /\ Linked(seals, chain, latest)
  BY StoreOfInvariant
<1>5. \A id \in DOMAIN seals : seals[id].hash <= formed
  BY DEF IInv, HashesFresh
<1>6. CASE balance' = balance + amount /\ UNCHANGED candidate
  <2>1. CASE candidate = None
    <3>0. balance + amount \in Nat /\ candidate' = None
      BY <1>1, <1>6, <2>1
    <3>1. Chain!TakeParcel(balance + amount, LogOf(seals, chain))
      BY <1>1, <1>4, <1>5, <1>6, <3>0, FormationTakes
    <3> QED
      BY <1>3, <2>1, <3>1 DEF Chain!Fill, LogOf
  <2>2. CASE candidate # None
    <3>1. Flight(candidate) # None /\ UNCHANGED Flight(candidate)
      BY <1>1, <1>6, <2>2, FlightProperties
    <3> QED
      BY <1>3, <1>6, <3>1 DEF Chain!Fill, LogOf, Flight
  <2> QED
    BY <2>1, <2>2
<1>7. CASE /\ candidate = None
           /\ candidate' = NewCandidate(Tip(seals, latest), PushIfMissing(hashes, sig))
           /\ balance' = balance + amount - Threshold
           /\ balance' \in Nat
  <2>1. candidate' \in Candidates
    BY <1>1, <1>7, TipOfInvariant, PushIfMissingTyped, NewCandidateTyped
  <2>2. candidate'.prev = Tip(seals, latest).hash /\ candidate'.hash = formed + 1
    BY <1>7 DEF NewCandidate
  <2> DEFINE p == balance + amount
  <2>3. p \in Nat /\ balance' = p - Threshold
    BY <1>1, <1>7
  <2> HIDE DEF p
  <2>4. Chain!TakeParcel(p, LogOf(seals, chain))
    BY <1>1, <1>4, <1>5, <1>7, <2>1, <2>2, <2>3, FormationTakes
  <2> QED
    BY <1>3, <1>7, <2>4 DEF Chain!Fill, LogOf, p
<1> QED
  BY <1>1, <1>6, <1>7, DepositEffect

(* A formation by FormNext takes a parcel, or leaves the reserve pooled.    *)
LEMMA FormNextTakes ==
    ASSUME TypeOK, NEW ss, NEW ch, NEW la, StoreTyped(ss, ch), Linked(ss, ch, la),
           \A id \in DOMAIN ss : ss[id].hash <= formed,
           FormNext(Tip(ss, la))
    PROVE  Chain!TakeParcel(balance, LogOf(ss, ch))
<1>1. balance \in Nat
  BY DEF TypeOK
<1>2. \/ candidate' = None /\ balance' = balance
      \/ /\ candidate' \in Candidates
         /\ candidate'.prev = Tip(ss, la).hash /\ candidate'.hash = formed + 1
         /\ balance' \in Nat /\ balance' = balance - Threshold
  BY TipIsHead, FormNextEffect
<1> QED
  BY <1>1, <1>2, FormationTakes

(* The formation endpoint maps to Take.                                     *)
LEMMA RequestFormationImplements ==
    ASSUME IInv, RequestFormation
    PROVE  Chain!Take
<1>1. candidate = None /\ FormNext(Tip(seals, latest)) /\ UNCHANGED <<seals, chain>>
  BY DEF RequestFormation, store
<1>2. TypeOK /\ \A id \in DOMAIN seals : seals[id].hash <= formed
  BY DEF IInv, HashesFresh
<1>3. Chain!TakeParcel(balance, LogOf(seals, chain))
  BY <1>1, <1>2, StoreOfInvariant, FormNextTakes
<1>4. UNCHANGED LogOf(seals, chain)
  BY <1>1
<1> QED
  BY <1>1, <1>3, <1>4 DEF Chain!Take, LogOf

(* Minting appends one block to the log.                                    *)
LEMMA MintAppends ==
    ASSUME NEW ss, NEW ch, NEW la, StoreTyped(ss, ch), Linked(ss, ch, la),
           NEW s \in Seals, Id(s) \notin Range(ch)
    PROVE  LogOf(Put(ss, Id(s), s), Append(ch, Id(s)))
             = Append(LogOf(ss, ch), [hash |-> s.hash, prev |-> s.prev])
<1> DEFINE new == Put(ss, Id(s), s)
           idx == Append(ch, Id(s))
           log == LogOf(ss, ch)
           blk == [hash |-> s.hash, prev |-> s.prev]
<1>1. /\ \A i \in DOMAIN ch : new[ch[i]] = ss[ch[i]]
      /\ new[Id(s)] = s
  BY PutKeepsChain DEF Put
<1>2. ch \in Seq(SealIds) /\ Id(s) \in SealIds
  BY SealIdTyped DEF StoreTyped
<1>3. /\ idx \in Seq(SealIds) /\ Len(idx) = Len(ch) + 1
      /\ DOMAIN idx = 1..(Len(ch) + 1)
      /\ \A i \in 1..Len(ch) : idx[i] = ch[i]
      /\ idx[Len(ch) + 1] = Id(s)
      /\ Len(ch) \in Nat /\ DOMAIN ch = 1..Len(ch)
  BY <1>2, AppendProperties
<1>0. Len(ch) \in Nat
  BY <1>3
<1>4. log \in Seq(Links) /\ Len(log) = Len(ch)
  BY LogProperties
<1>5. blk \in Links
  BY DEF Seals, Links
<1>6. \A i \in 1..Len(ch) : log[i] = [hash |-> ss[ch[i]].hash, prev |-> ss[ch[i]].prev]
  BY <1>3 DEF LogOf
<1> HIDE DEF log, blk
<1>7. /\ Append(log, blk) \in Seq(Links) /\ Len(Append(log, blk)) = Len(ch) + 1
      /\ \A i \in 1..Len(ch) : Append(log, blk)[i] = log[i]
      /\ Append(log, blk)[Len(ch) + 1] = blk
  BY <1>4, <1>5, AppendProperties
<1> HIDE DEF new, idx
<1>8. LogOf(new, idx) = [i \in 1..(Len(ch) + 1) |->
                           [hash |-> new[idx[i]].hash, prev |-> new[idx[i]].prev]]
  BY <1>3 DEF LogOf
<1>9. ASSUME NEW i \in 1..(Len(ch) + 1)
      PROVE  [hash |-> new[idx[i]].hash, prev |-> new[idx[i]].prev] = Append(log, blk)[i]
  <2>1. CASE i \in 1..Len(ch)
    BY <1>1, <1>3, <1>6, <1>7, <2>1
  <2>2. CASE i = Len(ch) + 1
    BY <1>1, <1>3, <1>7, <2>2 DEF blk
  <2>3. i \in 1..Len(ch) \/ i = Len(ch) + 1
    BY <1>0
  <2> QED
    BY <2>1, <2>2, <2>3
<1>10. LogOf(new, idx) \in Seq(Links) /\ Len(LogOf(new, idx)) = Len(ch) + 1
  <2>1. \A i \in 1..(Len(ch) + 1) : Append(log, blk)[i] \in Links
    BY <1>7
  <2>2. LogOf(new, idx) \in [1..(Len(ch) + 1) -> Links]
    BY <1>8, <1>9, <2>1
  <2>3. Len(ch) + 1 \in Nat
    BY <1>0
  <2> HIDE DEF LogOf
  <2> QED
    BY <2>2, <2>3
<1>11. LogOf(new, idx) = Append(log, blk)
  <2>1. \A i \in 1..(Len(ch) + 1) : LogOf(new, idx)[i] = Append(log, blk)[i]
    BY <1>8, <1>9
  <2> QED
    BY <1>7, <1>10, <2>1, SeqEqual
<1> QED
  BY <1>11 DEF new, idx, log, blk

(* A cron run maps to Take, Mint or Hold.                                   *)
LEMMA VaultAttestationImplements ==
    ASSUME IInv, NEW ok \in BOOLEAN, VaultAttestation(ok)
    PROVE  Chain!Take \/ Chain!Mint \/ Chain!Hold
<1>1. TypeOK /\ candidate \in Candidates \cup {None}
  BY DEF IInv, TypeOK
<1>2. Chain!TakeParcel(balance, LogOf(seals', chain'))
  BY <1>1, AttestationEffect, FormNextTakes
<1>3. CASE candidate = None
  <2>1. UNCHANGED <<seals, chain>>
    BY <1>3, AttestationEffect DEF store
  <2>2. UNCHANGED LogOf(seals, chain)
    BY <2>1
  <2>3. LogOf(seals', chain') = LogOf(seals, chain)
    BY <2>1
  <2> QED
    BY <1>2, <1>3, <2>2, <2>3 DEF Chain!Take, LogOf
<1>4. CASE candidate # None
  <2>1. PICK s \in Seals :
           /\ s = SealOf(candidate, CronVotes(candidate), ok)
           /\ seals' = Put(seals, Id(s), s)
           /\ Id(s) \notin Range(chain)
           /\ \/ s.status = "attested" /\ chain' = Append(chain, Id(s))
              \/ s.status # "attested" /\ chain' = chain
    BY <1>4, AttestationEffect
  <2>2. Flight(candidate) # None
    BY <1>1, <1>4, FlightProperties
  <2>3. CASE chain' = Append(chain, Id(s))
    <3>1. s.hash = candidate.hash /\ s.prev = candidate.prev
      BY <2>1 DEF SealOf
    <3>2. LogOf(seals', chain') = Append(LogOf(seals, chain), [hash |-> s.hash, prev |-> s.prev])
      BY <2>1, <2>3, StoreOfInvariant, MintAppends
    <3>3. LogOf(seals', chain') = Append(LogOf(seals, chain), Flight(candidate))
      BY <1>4, <3>1, <3>2 DEF Flight
    <3> QED
      BY <1>2, <2>2, <3>3 DEF Chain!Mint, LogOf, Flight
  <2>4. CASE chain' = chain
    <3>1. \A i \in DOMAIN chain : seals'[chain[i]] = seals[chain[i]]
      BY <2>1, StoreOfInvariant, PutKeepsChain
    <3>2. LogOf(seals', chain') = LogOf(seals, chain)
      BY <2>4, <3>1 DEF LogOf
    <3> QED
      BY <1>2, <2>2, <3>2 DEF Chain!Hold, LogOf, Flight
  <2> QED
    BY <2>1, <2>3, <2>4
<1> QED
  BY <1>3, <1>4

(* Votes, the window, the gate and the cycle map to stuttering.             *)
LEMMA OtherStepsStutter ==
    ASSUME IInv,
           \/ \E agent \in Sentinels, verdict \in CastVerdicts : SubmitAttestation(agent, verdict)
           \/ CloseWindow \/ SwitchGate \/ RollCycle \/ UNCHANGED vars
    PROVE  UNCHANGED Chain!vars
<1>1. UNCHANGED <<balance, seals, chain>>
  BY DEF SubmitAttestation, CloseWindow, SwitchGate, RollCycle, vars, ledger, store
<1>2. candidate \in Candidates \cup {None}
  BY DEF IInv, TypeOK
<1>3. Flight(candidate') = Flight(candidate)
  <2>1. CASE UNCHANGED candidate
    BY <2>1
  <2>2. CASE \E agent \in Sentinels, verdict \in CastVerdicts : SubmitAttestation(agent, verdict)
    <3>1. PICK agent \in Sentinels, verdict \in CastVerdicts : SubmitAttestation(agent, verdict)
      BY <2>2
    <3>2. candidate \in Candidates /\ candidate' = [candidate EXCEPT !.votes[agent] = verdict]
      BY <1>2, <3>1 DEF SubmitAttestation
    <3>3. [candidate.votes EXCEPT ![agent] = verdict] \in Votes
      BY <3>2, ReserveAssumption DEF Candidates, Votes
    <3>4. /\ candidate' \in Candidates
          /\ candidate'.hash = candidate.hash /\ candidate'.prev = candidate.prev
      BY <3>2, <3>3 DEF Candidates
    <3> QED
      BY <3>2, <3>4, NoneAssumption DEF Flight
  <2>3. CASE CloseWindow
    <3>1. candidate \in Candidates /\ candidate' = [candidate EXCEPT !.open = FALSE]
      BY <1>2, <2>3 DEF CloseWindow
    <3>2. /\ candidate' \in Candidates
          /\ candidate'.hash = candidate.hash /\ candidate'.prev = candidate.prev
      BY <3>1 DEF Candidates
    <3> QED
      BY <3>1, <3>2, NoneAssumption DEF Flight
  <2> QED
    BY <2>1, <2>2, <2>3 DEF SwitchGate, RollCycle, vars
<1>4. LogOf(seals', chain') = LogOf(seals, chain)
  BY <1>1
<1> QED
  BY <1>1, <1>3, <1>4 DEF Chain!vars, LogOf, Flight

(* Every behaviour of the reserve is one of the abstract chain: parcels of  *)
(* Threshold units, one in flight, appended to a log that is never          *)
(* rewritten.                                                               *)
THEOREM ReserveImplementsChain == Spec => ImplementsChain
<1>1. IInv /\ [Next]_vars => [Chain!Next]_(Chain!vars)
  <2> SUFFICES ASSUME IInv, [Next]_vars PROVE [Chain!Next]_(Chain!vars)
    OBVIOUS
  <2>1. CASE \E amount \in Amounts, sig \in Signatures : Deposit(amount, sig)
    BY <2>1, DepositImplements DEF Chain!Next
  <2>2. CASE RequestFormation
    BY <2>2, RequestFormationImplements DEF Chain!Next
  <2>3. CASE \E ok \in SubstrateOutcomes : VaultAttestation(ok)
    BY <2>3, OutcomesBoolean, VaultAttestationImplements DEF Chain!Next
  <2>4. CASE \/ \E agent \in Sentinels, verdict \in CastVerdicts : SubmitAttestation(agent, verdict)
             \/ CloseWindow \/ SwitchGate \/ RollCycle \/ UNCHANGED vars
    BY <2>4, OtherStepsStutter
  <2> QED
    BY <2>1, <2>2, <2>3, <2>4 DEF Next
<1> QED
  BY <1>1, InitImplements, InvariantHolds, PTL DEF Spec, ImplementsChain, Chain!Spec
=============================================================================
