------------------------ MODULE VaultRefinement_proofs ------------------------
(***************************************************************************)
(* The proof that VaultSteps refines SealedReserve: while no handler meets  *)
(* another and none is killed, the accesses of each handler amount to one   *)
(* of its whole-handler actions, whatever the council, the threshold, the   *)
(* handlers and the bounds.                                                 *)
(***************************************************************************)
EXTENDS VaultSteps_proofs

-----------------------------------------------------------------------------
(* How far a lone handler has got.                                          *)

(* A copy of the keys, as the handler in flight found them: the store, and  *)
(* what the cron leaves of it once it has decided its candidate.            *)
StoreIn(k) == [seals |-> k.seals, chain |-> k.chain, audit |-> k.audit, latest |-> k.latest,
               retry |-> <<>>]

SealIn(k) == SealOf(k.candidate, FillVotes(k.candidate.votes, "pass"), TRUE)

DecidedIn(k) == IF k.candidate = None THEN StoreIn(k) ELSE Stored(StoreIn(k), SealIn(k))

SameStore(st) ==
    seals = st.seals /\ chain = st.chain /\ audit = st.audit /\ latest = st.latest

(* The parcel number n + 1, of the deposits hs, on top of store st.         *)
Parcel(st, hs, n) ==
    LET t == Tip(st.seals, st.latest)
    IN  [seq |-> t.seq + 1, cycle |-> 1, hash |-> n + 1, prev |-> t.hash,
         sources |-> hs, votes |-> NoVotes, open |-> TRUE]

(* What handler p forms a parcel from, if it does: from the keys k it found.*)
Base(p, k)      == IF p \in CronRuns THEN DecidedIn(k) ELSE StoreIn(k)
Listed(p, k, r) == IF p \in Depositors THEN PushIfMissing(k.hashes, r.arg.sig) ELSE k.hashes

(* Where the parcel is written and the balance or its hashes are not.       *)
Taking == {"formSet", "formCarry"}

(* How far handler p, at r, has got with each of the keys k it found.       *)
LedgerTracks(p, r, k) ==
    /\ p \in Depositors => k.v1Balance + r.arg.amount <= MaxReserve
    /\ v1Balance = IF r.at = "v1Write" THEN k.v1Balance ELSE k.v1Balance + Due(p, r)
    /\ r.at \notin {"formCarry", "sweep"} => balance = k.balance
    /\ r.at \notin Taking \cup {"sweep"} => formed = k.formed
    /\ r.at \in Taking => formed = k.formed + 1
    /\ r.at \in Forming => r.n = k.balance + Due(p, r)
    /\ r.at \in {"v1Write", "accrue", "hashWrite"} => hashes = k.hashes
    /\ r.at = "hashWrite" => r.hs = Listed(p, k, r)
    /\ r.at \notin {"v1Write", "accrue", "hashWrite", "sweep"} => hashes = Listed(p, k, r)
    /\ r.at = "sweep" =>
          IF k.balance < Threshold
          THEN balance = k.balance /\ hashes = k.hashes /\ formed = k.formed
          ELSE /\ balance = k.balance - Threshold
               /\ hashes = CarriedForward(k.hashes, k.balance - Threshold)
               /\ formed = k.formed + 1

CandidateTracks(p, r, k) ==
    /\ r.at \in Taking => candidate = Parcel(Base(p, k), Listed(p, k, r), k.formed)
    /\ r.at = "sweep" =>
          candidate = IF k.balance < Threshold THEN None
                      ELSE Parcel(DecidedIn(k), k.hashes, k.formed)
    /\ p \in Depositors =>
          /\ r.at \notin Taking => candidate = k.candidate
          /\ r.at \in Forming => k.candidate = None
          /\ r.at = "setNext" => r.n < Threshold \/ k.candidate # None
    /\ p \in Voters => candidate = k.candidate /\ Open(candidate)
    /\ p \in CronRuns =>
          /\ r.at = "begin" => candidate = k.candidate
          /\ r.at \in {"vote", "voteWrite"} \cup Deciding =>
                /\ k.candidate # None
                /\ candidate = [k.candidate EXCEPT !.votes = candidate.votes]
                /\ FillVotes(candidate.votes, "pass") = FillVotes(k.candidate.votes, "pass")

StoreTracks(p, r, k) ==
    LET st == DecidedIn(k)
    IN  /\ p \notin CronRuns \/ r.at \in {"begin", "vote", "voteWrite", "index", "body"} =>
              SameStore(StoreIn(k))
        /\ r.at = "append" =>
              /\ chain  = IF "chain" \in r.todo THEN k.chain ELSE st.chain
              /\ audit  = IF "audit" \in r.todo THEN k.audit ELSE st.audit
              /\ seals  = IF "seal" \in r.todo THEN k.seals ELSE st.seals
              /\ latest = IF "latest" \in r.todo THEN k.latest ELSE st.latest
        /\ r.at \in {"auditRead", "auditWrite"} =>
              seals = st.seals /\ chain = st.chain /\ latest = st.latest /\ audit = k.audit
        /\ r.at = "auditWrite" => Id(r.seal) \notin Range(audit)
        /\ p \in CronRuns /\ r.at \in {"clear", "formBalance", "formCheck", "formHashes", "sweep"} \cup Forming =>
              SameStore(st)

(* The copy is of keys that held what they may hold.                        *)
CopyTyped(k) ==
    /\ k.candidate \in Candidates \cup {None}
    /\ k.v1Balance \in Nat /\ k.balance \in Nat /\ k.formed \in Nat

Tracks(p, r, k) ==
    CopyTyped(k) /\ LedgerTracks(p, r, k) /\ CandidateTracks(p, r, k) /\ StoreTracks(p, r, k)

(* The windows that have closed are of the first n parcels.                 *)
ClosedUpTo(n) == \A h \in closed : h \in Nat /\ h <= n

Numbered == ClosedUpTo(formed) /\ (candidate # None => candidate.hash <= formed)

Followed ==
    ~disturbed /\ kills = 0 =>
        /\ Numbered
        /\ \A p \in InFlight : Tracks(p, run[p], before) /\ ClosedUpTo(before.formed)


-----------------------------------------------------------------------------
(* The operators of the reserve that is refined are those of the reserve.   *)

LEMMA SameSentinels == Reserve!Sentinels = Sentinels /\ Reserve!NoVotes = NoVotes
BY DEF Reserve!Sentinels, Sentinels, Reserve!Range, Range, Reserve!NoVotes, NoVotes,
       Reserve!NoVote, NoVote

LEMMA SameDecision ==
    ASSUME NEW v
    PROVE  Reserve!EvaluateQuorum(v) = EvaluateQuorum(v)
BY DEF Reserve!EvaluateQuorum, EvaluateQuorum, Reserve!QuorumMet, QuorumMet, Reserve!Missing,
       Missing, Reserve!Objects, Objects, Reserve!Passes, Passes, Reserve!Sentinels, Sentinels,
       Reserve!Range, Range, Reserve!NoVote, NoVote, Reserve!Cardinality, Cardinality

LEMMA SameSeal ==
    ASSUME NEW c, NEW v, NEW ok
    PROVE  Reserve!SealOf(c, v, ok) = SealOf(c, v, ok)
BY SameDecision DEF Reserve!SealOf, SealOf

LEMMA SameFill ==
    ASSUME NEW v, NEW w
    PROVE  Reserve!FillVotes(v, w) = FillVotes(v, w)
BY SameSentinels DEF Reserve!FillVotes, FillVotes, Reserve!NoVote, NoVote

LEMMA SamePush ==
    ASSUME NEW s, NEW x
    PROVE  Reserve!PushIfMissing(s, x) = PushIfMissing(s, x)
BY DEF Reserve!PushIfMissing, PushIfMissing, Reserve!Range, Range

LEMMA SameTip ==
    ASSUME NEW ss, NEW id
    PROVE  Reserve!Tip(ss, id) = Tip(ss, id)
BY DEF Reserve!Tip, Tip

LEMMA SameCarry ==
    ASSUME NEW hs, NEW n
    PROVE  Reserve!CarriedForward(hs, n) = CarriedForward(hs, n)
BY DEF Reserve!CarriedForward, CarriedForward

LEMMA SameName ==
    ASSUME NEW s
    PROVE  Reserve!Id(s) = Id(s)
BY DEF Reserve!Id, Id

(* A seal whose substrate write succeeds leaves the retry queue alone.      *)
LEMMA SameStored ==
    ASSUME NEW st, NEW s, s.status = "attested" => s.pointer
    PROVE  /\ Reserve!Stored(st, s).seals = Stored(st, s).seals
           /\ Reserve!Stored(st, s).chain = Stored(st, s).chain
           /\ Reserve!Stored(st, s).audit = Stored(st, s).audit
           /\ Reserve!Stored(st, s).latest = Stored(st, s).latest
           /\ Reserve!Stored(st, s).retry = st.retry
BY SamePush, SameName DEF Reserve!Stored, Stored, Reserve!Put, Put

(* With no vote missing on a quarantined seal the sweep has nothing to do.  *)
LEMMA SameSweep ==
    ASSUME NEW st, NEW ok, NEW skip, Unvoted(st.seals) = {}
    PROVE  Reserve!Swept(st, ok, skip) = st
<1>1. Reserve!Unvoted(st.seals) = {}
  BY SameSentinels DEF Reserve!Unvoted, Unvoted, Reserve!Missing, Missing, Reserve!NoVote, NoVote
<1> QED
  BY <1>1 DEF Reserve!Swept

(* The candidate as a reader sees it.                                       *)
LEMMA ShutFields ==
    ASSUME NEW c \in Candidates
    PROVE  /\ Shut(c) = [c EXCEPT !.open = Open(c)]
           /\ Shut(c) \in Candidates /\ Shut(c) # None
           /\ Shut(c).votes = c.votes
<1>1. c # None
  BY NoneAssumption
<1>2. Open(c) \in BOOLEAN
  BY DEF Open
<1>3. Shut(c) = [c EXCEPT !.open = Open(c)]
  BY <1>1 DEF Shut
<1>4. Shut(c) \in Candidates
  BY <1>2, <1>3 DEF Candidates
<1> QED
  BY <1>3, <1>4, NoneAssumption DEF Candidates

LEMMA ShutSeal ==
    ASSUME NEW c \in Candidates, NEW v, NEW ok
    PROVE  SealOf(Shut(c), v, ok) = SealOf(c, v, ok)
<1>1. Shut(c) = [c EXCEPT !.open = Open(c)]
  BY ShutFields
<1>2. /\ Shut(c).seq = c.seq /\ Shut(c).cycle = c.cycle /\ Shut(c).hash = c.hash
      /\ Shut(c).prev = c.prev /\ Shut(c).sources = c.sources
  BY <1>1 DEF Candidates
<1> QED
  BY <1>2 DEF SealOf

-----------------------------------------------------------------------------
(* The whole-handler steps, from what a reader sees before and after.       *)

Surroundings == UNCHANGED <<retry, gate, cycle>> /\ gate = FALSE /\ cycle = 1

LEMMA StutterMaps ==
    ASSUME Surroundings, UNCHANGED <<closed, Seen>>
    PROVE  UNCHANGED Reserve!vars
BY DEF Surroundings, Reserve!vars, Reserve!ledger, Reserve!store, Shut, Open

(* A new parcel has its window open.                                        *)
LEMMA ParcelOpen ==
    ASSUME NEW st, NEW hs, NEW n, n + 1 \notin closed'
    PROVE  Shut(Parcel(st, hs, n))' = Parcel(st, hs, n)
<1>1. Parcel(st, hs, n).hash = n + 1 /\ Parcel(st, hs, n).open = TRUE
  BY DEF Parcel
<1> QED
  BY <1>1 DEF Shut, Open, Parcel

LEMMA DepositMaps ==
    ASSUME Surroundings, UNCHANGED closed, NEW k, NEW m, Seen = k, Seen' = m, CopyTyped(k),
           k.formed + 1 \notin closed,
           NEW amount \in Amounts, NEW sig \in Signatures,
           k.v1Balance + amount <= MaxReserve, m.v1Balance = k.v1Balance + amount,
           m.seals = k.seals, m.chain = k.chain, m.audit = k.audit, m.latest = k.latest,
           IF k.balance + amount < Threshold \/ k.candidate # None
           THEN /\ m.balance = k.balance + amount
                /\ m.hashes = PushIfMissing(k.hashes, sig)
                /\ m.candidate = k.candidate /\ m.formed = k.formed
           ELSE /\ m.candidate = Parcel(StoreIn(k), PushIfMissing(k.hashes, sig), k.formed)
                /\ m.balance = k.balance + amount - Threshold
                /\ m.hashes = IF k.balance + amount > Threshold THEN <<sig>> ELSE <<>>
                /\ m.formed = k.formed + 1
    PROVE  Reserve!Deposit(amount, sig)
<1>1. k.candidate = None <=> Shut(k.candidate) = None
  BY ShutFields, NoneAssumption DEF CopyTyped, Shut
<1>2. CASE k.balance + amount < Threshold \/ k.candidate # None
  <2>1. Shut(m.candidate)' = Shut(k.candidate)
    BY <1>2 DEF Shut, Open
  <2> QED
    BY <1>1, <1>2, <2>1, SamePush DEF Reserve!Deposit, Reserve!store, Surroundings
<1>3. CASE ~(k.balance + amount < Threshold \/ k.candidate # None)
  <2>1. Shut(m.candidate)' = m.candidate
    BY <1>3, ParcelOpen
  <2>2. m.candidate = Reserve!NewCandidate(Reserve!Tip(k.seals, k.latest),
                                           Reserve!PushIfMissing(k.hashes, sig))
    BY <1>3, SamePush, SameTip, SameSentinels
       DEF Reserve!NewCandidate, Parcel, StoreIn, Surroundings
  <2>3. ~(k.balance + amount < Threshold \/ Shut(k.candidate) # None \/ gate)
    BY <1>1, <1>3 DEF Surroundings
  <2>4. /\ Seen'.formed = Seen.formed + 1 /\ Seen'.balance = Seen.balance + amount - Threshold
        /\ Seen'.hashes = IF Seen.balance + amount > Threshold THEN <<sig>> ELSE <<>>
        /\ Shut(Seen.candidate)' = Reserve!NewCandidate(Reserve!Tip(Seen.seals, Seen.latest),
                                           Reserve!PushIfMissing(Seen.hashes, sig))
    BY <1>3, <2>1, <2>2
  <2>5. UNCHANGED <<Reserve!store, gate, cycle>>
    BY DEF Reserve!store, Surroundings
  <2>6. Seen.v1Balance + amount <= MaxReserve /\ Seen'.v1Balance = Seen.v1Balance + amount
    OBVIOUS
  <2>7. ~(Seen.balance + amount < Threshold \/ Shut(Seen.candidate) # None \/ gate)
    BY <2>3
  <2>8. Seen.balance \in Nat /\ amount \in Nat /\ Threshold \in Nat
    BY ReserveAssumption DEF CopyTyped
  <2> QED
    BY ONLY <2>7, <2>8, <2>4, <2>5, <2>6 DEF Reserve!Deposit
<1> QED
  BY <1>2, <1>3

LEMMA VoteMaps ==
    ASSUME Surroundings, UNCHANGED closed, NEW k, NEW m, Seen = k, Seen' = m,
           k.candidate \in Candidates, Open(k.candidate),
           NEW p \in Sentinels, NEW verdict \in Verdicts,
           m.candidate = [k.candidate EXCEPT !.votes[p] = verdict],
           m.v1Balance = k.v1Balance, m.balance = k.balance, m.hashes = k.hashes,
           m.seals = k.seals, m.chain = k.chain, m.audit = k.audit, m.latest = k.latest,
           m.formed = k.formed
    PROVE  Reserve!SubmitAttestation(p, verdict)
<1> DEFINE c == k.candidate
           d == [c EXCEPT !.votes[p] = verdict]
<1>1. /\ Shut(c) = [c EXCEPT !.open = TRUE] /\ Shut(c) # None
      /\ Shut(c).open = TRUE
  BY ShutFields DEF Candidates
<1>2. DOMAIN c = {"seq", "cycle", "hash", "prev", "sources", "votes", "open"}
  BY DEF Candidates
<1>3. d \in Candidates
  BY VoteTyped
<1>4. d.hash = c.hash
  BY <1>2
<1>5. d # None
  BY <1>3, NoneAssumption
<1>6. Shut(d)' = [d EXCEPT !.open = TRUE]
  <2> HIDE DEF d
  <2> QED
    BY <1>4, <1>5 DEF Shut, Open
<1>7. [d EXCEPT !.open = TRUE] = [[c EXCEPT !.open = TRUE] EXCEPT !.votes[p] = verdict]
  BY <1>2
<1>8. Shut(Seen.candidate)' = [Shut(Seen.candidate) EXCEPT !.votes[p] = verdict]
  BY <1>1, <1>6, <1>7
<1> QED
  BY <1>1, <1>8 DEF Reserve!SubmitAttestation, Reserve!ledger, Reserve!store, Surroundings

LEMMA CloseMaps ==
    ASSUME Surroundings, candidate \in Candidates, Open(candidate), UNCHANGED Seen,
           Seen.candidate = candidate, closed' = closed \cup {candidate.hash}
    PROVE  Reserve!CloseWindow
<1> DEFINE c == candidate
<1> HIDE DEF c
<1>1. c \in Candidates /\ Open(c) /\ Seen.candidate = c /\ c.hash \in closed'
  BY DEF c
<1>2. Shut(c) = [c EXCEPT !.open = TRUE] /\ Shut(c) # None /\ Shut(c).open = TRUE
  <2>1. Open(c) = TRUE
    BY <1>1 DEF Open
  <2>2. Shut(c) = [c EXCEPT !.open = Open(c)] /\ Shut(c) # None
    BY <1>1, ShutFields
  <2>3. Shut(c) = [c EXCEPT !.open = TRUE]
    BY <2>1, <2>2
  <2> QED
    BY <1>1, <2>2, <2>3 DEF Candidates
<1>3. Shut(Seen.candidate)' = [c EXCEPT !.open = FALSE]
  <2>1. (Seen.candidate)' = c /\ c # None
    BY <1>1, NoneAssumption
  <2> QED
    BY <1>1, <2>1 DEF Shut, Open
<1>4. [Shut(c) EXCEPT !.open = FALSE] = [c EXCEPT !.open = FALSE]
  BY <1>2
<1> QED
  BY <1>1, <1>2, <1>3, <1>4
     DEF Reserve!CloseWindow, Reserve!ledger, Reserve!store, Surroundings

(* The seal of the candidate a reader saw, and the store with it.           *)
LEMMA DecisionMaps ==
    ASSUME Surroundings, NEW k, Seen = k, CopyTyped(k)
    PROVE  \E st \in Reserve!Decided(TRUE) :
              /\ st.seals = DecidedIn(k).seals /\ st.chain = DecidedIn(k).chain
              /\ st.audit = DecidedIn(k).audit /\ st.latest = DecidedIn(k).latest
              /\ st.retry = retry
<1> DEFINE full == [seals |-> k.seals, chain |-> k.chain, audit |-> k.audit,
                    latest |-> k.latest, retry |-> retry]
           c    == k.candidate
           s    == SealIn(k)
<1>1. Reserve!Store = full
  BY DEF Reserve!Store
<1>2. CASE c = None
  <2>1. Shut(c) = None
    BY <1>2 DEF Shut
  <2>2. Reserve!Decided(TRUE) = {full} /\ DecidedIn(k) = StoreIn(k)
    BY <1>1, <1>2, <2>1 DEF Reserve!Decided, DecidedIn
  <2>3. /\ full.seals = DecidedIn(k).seals /\ full.chain = DecidedIn(k).chain
        /\ full.audit = DecidedIn(k).audit /\ full.latest = DecidedIn(k).latest
        /\ full.retry = retry
    BY <2>2 DEF StoreIn
  <2>4. full \in Reserve!Decided(TRUE)
    BY <2>2
  <2> HIDE DEF full
  <2> QED
    BY <2>3, <2>4
<1>3. CASE c # None
  <2>1. c \in Candidates
    BY <1>3 DEF CopyTyped
  <2>2. Shut(c) # None /\ Shut(c).votes = c.votes /\ \A v : SealOf(Shut(c), v, TRUE) = SealOf(c, v, TRUE)
    BY <2>1, ShutFields, ShutSeal
  <2>3. Reserve!SealOf(Shut(c), Reserve!CronVotes(Shut(c)), TRUE) = s
    BY <2>2, SameSeal, SameFill DEF Reserve!CronVotes, SealIn, Surroundings
  <2>4. Reserve!Decided(TRUE) = {Reserve!Stored(full, s)}
    BY <1>1, <2>2, <2>3 DEF Reserve!Decided
  <2>5. s.status = "attested" => s.pointer
    BY DEF SealIn, SealOf
  <2>6. DecidedIn(k) = Stored(StoreIn(k), s)
    BY <1>3 DEF DecidedIn
  <2>7. /\ Stored(full, s).seals = Stored(StoreIn(k), s).seals
        /\ Stored(full, s).chain = Stored(StoreIn(k), s).chain
        /\ Stored(full, s).audit = Stored(StoreIn(k), s).audit
        /\ Stored(full, s).latest = Stored(StoreIn(k), s).latest
    BY DEF Stored, StoreIn
  <2> HIDE DEF s, full
  <2>8. full.retry = retry
    BY DEF full
  <2> DEFINE st == Reserve!Stored(full, s)
  <2>9. /\ st.seals = Stored(full, s).seals /\ st.chain = Stored(full, s).chain
        /\ st.audit = Stored(full, s).audit /\ st.latest = Stored(full, s).latest
        /\ st.retry = retry
    BY <2>5, <2>8, SameStored
  <2>10. st \in Reserve!Decided(TRUE)
    BY <2>4
  <2> HIDE DEF st
  <2> QED
    BY <2>6, <2>7, <2>9, <2>10
<1> QED
  BY <1>2, <1>3

LEMMA AttestationMaps ==
    ASSUME Surroundings, UNCHANGED closed, NEW k, NEW m, Seen = k, Seen' = m, CopyTyped(k),
           k.formed + 1 \notin closed, Unvoted(m.seals) = {},
           m.seals = DecidedIn(k).seals, m.chain = DecidedIn(k).chain,
           m.audit = DecidedIn(k).audit, m.latest = DecidedIn(k).latest,
           m.v1Balance = k.v1Balance,
           IF k.balance < Threshold
           THEN /\ m.candidate = None
                /\ m.balance = k.balance /\ m.hashes = k.hashes /\ m.formed = k.formed
           ELSE /\ m.candidate = Parcel(DecidedIn(k), k.hashes, k.formed)
                /\ m.balance = k.balance - Threshold
                /\ m.hashes = CarriedForward(k.hashes, k.balance - Threshold)
                /\ m.formed = k.formed + 1
    PROVE  Reserve!VaultAttestation(TRUE)
<1>1. PICK st \in Reserve!Decided(TRUE) :
              /\ st.seals = DecidedIn(k).seals /\ st.chain = DecidedIn(k).chain
              /\ st.audit = DecidedIn(k).audit /\ st.latest = DecidedIn(k).latest
              /\ st.retry = retry
  BY DecisionMaps
<1>2. Reserve!Swept(st, TRUE, {}) = st
  BY <1>1, SameSweep
<1>3. Reserve!SetStore(st)
  BY <1>1 DEF Reserve!SetStore, Surroundings
<1>4. Reserve!FormNext(Reserve!Tip(st.seals, st.latest))
  <2>0. k.balance \in Nat /\ Threshold \in Nat /\ gate = FALSE
    BY ReserveAssumption DEF CopyTyped, Surroundings
  <2>1. CASE k.balance < Threshold
    <3>1. Shut(Seen.candidate)' = None
      BY <2>1 DEF Shut
    <3> QED
      BY <2>0, <2>1, <3>1 DEF Reserve!FormNext
  <2>2. CASE ~(k.balance < Threshold)
    <3>1. Shut(Seen.candidate)' = m.candidate
      BY <2>2, ParcelOpen
    <3>2. m.candidate = Reserve!NewCandidate(Reserve!Tip(st.seals, st.latest), k.hashes)
      BY <1>1, <2>2, SameTip, SameSentinels DEF Reserve!NewCandidate, Parcel, Surroundings
    <3>3. /\ Shut(Seen.candidate)' = Reserve!NewCandidate(Reserve!Tip(st.seals, st.latest), Seen.hashes)
          /\ (Seen.balance)' = Seen.balance - Threshold
          /\ (Seen.hashes)' = Reserve!CarriedForward(Seen.hashes, Seen.balance - Threshold)
          /\ (Seen.formed)' = Seen.formed + 1
      BY <2>2, <3>1, <3>2, SameCarry
    <3>4. ~(gate \/ Seen.balance < Threshold)
      BY <2>0, <2>2
    <3> QED
      BY ONLY <2>0, <3>3, <3>4 DEF Reserve!FormNext
  <2> QED
    BY <2>1, <2>2
<1> QED
  BY <1>1, <1>2, <1>3, <1>4 DEF Reserve!VaultAttestation, Surroundings

LEMMA InitMaps == SInit => Reserve!Init
<1> SUFFICES ASSUME SInit PROVE Reserve!Init
  OBVIOUS
<1>1. InFlight = {}
  BY DEF SInit, InFlight, Idle
<1>2. Seen = KV
  BY <1>1 DEF Seen
<1>3. Shut(None) = None
  BY DEF Shut
<1> QED
  BY <1>2, <1>3 DEF SInit, Init, KV, Reserve!Init

-----------------------------------------------------------------------------
(* A deposit follows its keys up to its last write.                         *)

LEMMA WriteV1Follows ==
    ASSUME FlightTyped, LoneSound, NEW p \in Depositors, NEW k, Tracks(p, run[p], k), WriteV1(p)
    PROVE  InFlight' = {p} /\ Tracks(p, run[p], k)'
<1> DEFINE r == [run[p] EXCEPT !.at = "accrue"]
<1>1. /\ p \in Handlers /\ run[p].at = "v1Write" /\ Goto(p, r) /\ DOMAIN run[p] = DOMAIN Idle
      /\ v1Balance' = run[p].n + run[p].arg.amount
      /\ UNCHANGED <<balance, hashes, candidate, store, formed>>
      /\ p \notin CronRuns /\ p \notin Voters
  BY StepsAssumption DEF WriteV1, At, Move, Handlers, FlightTyped, HandlersTyped
<1>2. r.at = "accrue" /\ r.arg = run[p].arg
  BY <1>1, IdleFields
<1> HIDE DEF r
<1>3. Consistent(p, run[p]) /\ run'[p] = r /\ InFlight' = {p}
  BY <1>1, <1>2, LoneMoves
<1>4. run[p].n = v1Balance
  BY <1>1, <1>3 DEF Consistent, LedgerSeen
<1>5. CopyTyped(k) /\ LedgerTracks(p, run[p], k) /\ CandidateTracks(p, run[p], k) /\ StoreTracks(p, run[p], k)
  BY DEF Tracks
<1>6. LedgerTracks(p, run[p], k)'
  BY <1>1, <1>2, <1>3, <1>4, <1>5 DEF LedgerTracks, Due, Taking, Forming
<1>7. CandidateTracks(p, run[p], k)'
  BY <1>1, <1>2, <1>3, <1>5 DEF CandidateTracks, Taking, Forming, Deciding
<1>8. StoreTracks(p, run[p], k)'
  BY <1>1, <1>2, <1>3, <1>5 DEF StoreTracks, SameStore, store
<1> QED
  BY <1>3, <1>5, <1>6, <1>7, <1>8 DEF Tracks

(* The reads of a deposit and its write of the hashes: what it has listed   *)
(* is written before it goes on.                                            *)
LEMMA AccrualFollows ==
    ASSUME FlightTyped, LoneSound, NEW p \in Depositors, NEW k, Tracks(p, run[p], k),
           ReadAccrual(p) \/ WriteHashes(p) \/ CheckDeposit(p)
    PROVE  InFlight' = {p} /\ Tracks(p, run[p], k)'
<1>1. /\ p \in Handlers /\ DOMAIN run[p] = DOMAIN Idle /\ run[p].at # "idle"
      /\ UNCHANGED <<v1Balance, balance, candidate, store, formed>>
      /\ p \notin CronRuns /\ p \notin Voters
  BY StepsAssumption
     DEF ReadAccrual, WriteHashes, CheckDeposit, At, Handlers, FlightTyped, HandlersTyped,
         vars, ledger
<1>2. /\ CopyTyped(k) /\ LedgerTracks(p, run[p], k) /\ CandidateTracks(p, run[p], k)
      /\ StoreTracks(p, run[p], k) /\ Consistent(p, run[p])
  BY <1>1 DEF Tracks, LoneSound, InFlight
<1>3. ASSUME NEW r, Goto(p, r), r.at \in {"hashWrite", "setNext", "depositCheck", "formAgain"},
             run[p].at \in {"accrue", "hashWrite", "depositCheck"},
             r.arg = run[p].arg, r.n = k.balance + Due(p, run[p]),
             hashes' = IF r.at = "hashWrite" THEN k.hashes ELSE Listed(p, k, run[p]),
             r.at = "hashWrite" => r.hs = Listed(p, k, run[p]),
             r.at = "setNext" => r.n < Threshold \/ candidate # None,
             r.at = "formAgain" => candidate = None
      PROVE  InFlight' = {p} /\ Tracks(p, run[p], k)'
  <2>1. run'[p] = r /\ InFlight' = {p}
    BY <1>1, <1>3, LoneMoves
  <2>2. LedgerTracks(p, run[p], k)'
    BY <1>1, <1>2, <1>3, <2>1 DEF LedgerTracks, Due, Listed, Taking, Forming
  <2>3. CandidateTracks(p, run[p], k)'
    BY <1>1, <1>2, <1>3, <2>1 DEF CandidateTracks, Taking, Forming, Deciding
  <2>4. StoreTracks(p, run[p], k)'
    BY <1>1, <1>2, <1>3, <2>1 DEF StoreTracks, SameStore, store
  <2> QED
    BY <1>2, <2>1, <2>2, <2>3, <2>4 DEF Tracks
<1>4. CASE ReadAccrual(p)
  <2> DEFINE n   == balance + run[p].arg.amount
             all == PushIfMissing(hashes, run[p].arg.sig)
             l   == IF all = hashes THEN AfterHashes(n) ELSE "hashWrite"
             r   == [run[p] EXCEPT !.at = l, !.n = n, !.hs = all]
  <2>1. run[p].at = "accrue" /\ Goto(p, r) /\ hashes' = hashes
    BY <1>4 DEF ReadAccrual, At, vars, ledger
  <2>2. /\ n = k.balance + Due(p, run[p]) /\ all = Listed(p, k, run[p]) /\ hashes = k.hashes
        /\ l \in {"hashWrite", "setNext", "depositCheck"}
        /\ l # "hashWrite" => all = hashes
        /\ l = "setNext" => n < Threshold
    BY <1>2, <2>1 DEF LedgerTracks, Due, Listed, Taking, AfterHashes
  <2> HIDE DEF n, all, l
  <2>3. r.at = l /\ r.arg = run[p].arg /\ r.n = n /\ r.hs = all
    BY <1>1, IdleFields
  <2> HIDE DEF r
  <2> QED
    BY <1>3, <2>1, <2>2, <2>3
<1>5. CASE WriteHashes(p)
  <2> DEFINE l == AfterHashes(run[p].n)
             r == [run[p] EXCEPT !.at = l]
  <2>1. run[p].at = "hashWrite" /\ Goto(p, r) /\ hashes' = run[p].hs
    BY <1>5 DEF WriteHashes, At, Move
  <2>2. run[p].n = k.balance + Due(p, run[p]) /\ run[p].hs = Listed(p, k, run[p])
    BY <1>2, <2>1 DEF LedgerTracks, Taking, Consistent, LedgerSeen
  <2>3. l \in {"setNext", "depositCheck"} /\ (l = "setNext" => run[p].n < Threshold)
    BY DEF AfterHashes
  <2> HIDE DEF l
  <2>4. r.at = l /\ r.arg = run[p].arg /\ r.n = run[p].n /\ r.hs = run[p].hs
    BY <1>1, IdleFields
  <2> HIDE DEF r
  <2> QED
    BY <1>3, <2>1, <2>2, <2>3, <2>4
<1>6. CASE CheckDeposit(p)
  <2> DEFINE l == IF candidate # None \/ gate THEN "setNext" ELSE "formAgain"
             r == [run[p] EXCEPT !.at = l]
  <2>1. run[p].at = "depositCheck" /\ Goto(p, r) /\ hashes' = hashes /\ gate = FALSE
    BY <1>6 DEF CheckDeposit, At, Move, vars, ledger, FlightTyped, KeysTyped
  <2>2. run[p].n = k.balance + Due(p, run[p]) /\ hashes = Listed(p, k, run[p])
    BY <1>2, <2>1 DEF LedgerTracks, Taking, Consistent, LedgerSeen
  <2>3. /\ l \in {"setNext", "formAgain"} /\ (l = "setNext" => candidate # None)
        /\ l = "formAgain" => candidate = None
    BY <2>1
  <2> HIDE DEF l
  <2>4. r.at = l /\ r.arg = run[p].arg /\ r.n = run[p].n /\ r.hs = run[p].hs
    BY <1>1, IdleFields
  <2> HIDE DEF r
  <2> QED
    BY <1>3, <2>1, <2>2, <2>3, <2>4
<1> QED
  BY <1>4, <1>5, <1>6

-----------------------------------------------------------------------------
(* A formation, in either lane.                                             *)

LEMMA TipFollows ==
    ASSUME FlightTyped, LoneSound, NEW p \in Depositors \cup CronRuns, NEW k,
           Tracks(p, run[p], k), CheckAgain(p) \/ ReadTip(p)
    PROVE  InFlight' = {p} /\ Tracks(p, run[p], k)'
<1>1. /\ p \in Handlers /\ p \notin Voters /\ DOMAIN run[p] = DOMAIN Idle
      /\ run[p].at \in {"formAgain", "formTip"}
      /\ UNCHANGED vars
  BY StepsAssumption DEF CheckAgain, ReadTip, At, Handlers, FlightTyped, HandlersTyped
<1>2. /\ CopyTyped(k) /\ LedgerTracks(p, run[p], k) /\ CandidateTracks(p, run[p], k)
      /\ StoreTracks(p, run[p], k) /\ candidate = None
  BY <1>1 DEF Tracks, LoneSound, InFlight, Consistent, CandidateSeen
<1>3. PICK t : Goto(p, [run[p] EXCEPT !.at = IF run[p].at = "formAgain" THEN "formTip" ELSE "formWrite",
                                      !.tip = t])
  <2>1. CASE CheckAgain(p)
    <3>1. Goto(p, [run[p] EXCEPT !.at = "formTip"]) /\ run[p].at = "formAgain"
      BY <1>2, <2>1 DEF CheckAgain, Move, At
    <3>2. Goto(p, [run[p] EXCEPT !.at = "formTip", !.tip = run[p].tip])
      BY <3>1
    <3> QED
      BY <3>1, <3>2
  <2>2. CASE ReadTip(p)
    BY <2>2 DEF ReadTip, At
  <2> QED
    BY <2>1, <2>2
<1> DEFINE l == IF run[p].at = "formAgain" THEN "formTip" ELSE "formWrite"
           r == [run[p] EXCEPT !.at = l, !.tip = t]
<1>4. l \in {"formTip", "formWrite"} /\ Goto(p, r)
  BY <1>1, <1>3
<1> HIDE DEF l
<1>5. r.at = l /\ r.n = run[p].n /\ r.arg = run[p].arg
  BY <1>1, IdleFields
<1> HIDE DEF r
<1>6. run'[p] = r /\ InFlight' = {p}
  BY <1>1, <1>4, <1>5, LoneMoves
<1>7. LedgerTracks(p, run[p], k)'
  BY <1>1, <1>2, <1>4, <1>5, <1>6 DEF LedgerTracks, Listed, Due, Taking, Forming, vars, ledger
<1>8. CandidateTracks(p, run[p], k)'
  BY <1>1, <1>2, <1>4, <1>5, <1>6 DEF CandidateTracks, Taking, Forming, Deciding, vars
<1>9. StoreTracks(p, run[p], k)'
  BY <1>1, <1>2, <1>4, <1>5, <1>6 DEF StoreTracks, SameStore, Forming, vars, store
<1> QED
  BY <1>2, <1>6, <1>7, <1>8, <1>9 DEF Tracks

LEMMA WriteCandidateFollows ==
    ASSUME FlightTyped, LoneSound, NEW p \in Depositors \cup CronRuns, NEW k,
           Tracks(p, run[p], k), WriteCandidate(p)
    PROVE  /\ InFlight' = {p} /\ Tracks(p, run[p], k)'
           /\ candidate'.hash = formed + 1 /\ formed' = formed + 1
<1> DEFINE c == NewCandidate(run[p].tip, run[p].hs)
           r == [run[p] EXCEPT !.at = "formSet", !.tip = None]
<1>1. /\ p \in Handlers /\ p \notin Voters /\ DOMAIN run[p] = DOMAIN Idle
      /\ run[p].at = "formWrite"
      /\ p \in Depositors => p \notin CronRuns
      /\ Goto(p, r) /\ candidate' = c /\ formed' = formed + 1
      /\ UNCHANGED <<v1Balance, balance, hashes, seals, chain, audit, latest>>
  BY StepsAssumption
     DEF WriteCandidate, At, ledger, store, Handlers, FlightTyped, HandlersTyped
<1>2. r.at = "formSet" /\ r.n = run[p].n /\ r.arg = run[p].arg
  BY <1>1, IdleFields
<1> HIDE DEF r
<1>3. Consistent(p, run[p]) /\ run'[p] = r /\ InFlight' = {p}
  BY <1>1, <1>2, LoneMoves
<1>4. /\ CopyTyped(k) /\ LedgerTracks(p, run[p], k) /\ CandidateTracks(p, run[p], k)
      /\ StoreTracks(p, run[p], k)
      /\ run[p].tip = Tip(seals, latest) /\ run[p].hs = hashes /\ cycle = 1
  BY <1>1, <1>3
     DEF Tracks, Consistent, CandidateSeen, LedgerSeen, Forming, FlightTyped, KeysTyped
<1>5. hashes = Listed(p, k, run[p]) /\ formed = k.formed /\ Listed(p, k, r) = Listed(p, k, run[p])
  BY <1>1, <1>2, <1>4 DEF LedgerTracks, Taking, Listed
<1>6. SameStore(Base(p, k))
  BY <1>1, <1>4 DEF StoreTracks, Base, Forming
<1>7. c = Parcel(Base(p, k), Listed(p, k, r), k.formed)
  BY <1>4, <1>5, <1>6 DEF NewCandidate, Parcel, SameStore
<1>8. c.hash = formed + 1
  BY DEF NewCandidate
<1> HIDE DEF c
<1>9. LedgerTracks(p, run[p], k)'
  BY <1>1, <1>2, <1>3, <1>4, <1>5 DEF LedgerTracks, Due, Taking, Forming
<1>10. CandidateTracks(p, run[p], k)'
  BY <1>1, <1>2, <1>3, <1>4, <1>7 DEF CandidateTracks, Taking, Forming, Deciding
<1>11. StoreTracks(p, run[p], k)'
  BY <1>1, <1>2, <1>3, <1>4 DEF StoreTracks, SameStore, Forming
<1> QED
  BY <1>1, <1>3, <1>4, <1>8, <1>9, <1>10, <1>11 DEF Tracks

LEMMA WriteOverflowFollows ==
    ASSUME FlightTyped, LoneSound, NEW p \in Depositors \cup CronRuns, NEW k,
           Tracks(p, run[p], k), WriteOverflow(p)
    PROVE  InFlight' = {p} /\ Tracks(p, run[p], k)'
<1> DEFINE r == [run[p] EXCEPT !.at = "formCarry"]
<1>1. /\ p \in Handlers /\ p \notin Voters /\ DOMAIN run[p] = DOMAIN Idle
      /\ run[p].at = "formSet" /\ Goto(p, r)
      /\ UNCHANGED <<v1Balance, hashes, candidate, store, formed>>
  BY StepsAssumption DEF WriteOverflow, At, Move, Handlers, FlightTyped, HandlersTyped
<1>2. r.at = "formCarry" /\ r.n = run[p].n /\ r.arg = run[p].arg
  BY <1>1, IdleFields
<1> HIDE DEF r
<1>3. run'[p] = r /\ InFlight' = {p}
  BY <1>1, <1>2, LoneMoves
<1>4. /\ CopyTyped(k) /\ LedgerTracks(p, run[p], k) /\ CandidateTracks(p, run[p], k)
      /\ StoreTracks(p, run[p], k)
  BY DEF Tracks
<1>5. LedgerTracks(p, run[p], k)'
  BY <1>1, <1>2, <1>3, <1>4 DEF LedgerTracks, Listed, Due, Taking, Forming
<1>6. CandidateTracks(p, run[p], k)'
  BY <1>1, <1>2, <1>3, <1>4 DEF CandidateTracks, Listed, Taking, Forming, Deciding
<1>7. StoreTracks(p, run[p], k)'
  BY <1>1, <1>2, <1>3, <1>4 DEF StoreTracks, SameStore, Forming, store
<1> QED
  BY <1>3, <1>4, <1>5, <1>6, <1>7 DEF Tracks

LEMMA CronCarriesFollows ==
    ASSUME FlightTyped, LoneSound, NEW p \in CronRuns, NEW k, Tracks(p, run[p], k), WriteCarried(p)
    PROVE  InFlight' = {p} /\ Tracks(p, run[p], k)'
<1> DEFINE r == [run[p] EXCEPT !.at = "sweep", !.n = 0, !.hs = <<>>]
<1>1. /\ p \in Handlers /\ p \notin Voters /\ p \notin Depositors
      /\ DOMAIN run[p] = DOMAIN Idle /\ run[p].at = "formCarry"
      /\ UNCHANGED <<v1Balance, balance, candidate, store, formed>>
  BY StepsAssumption DEF WriteCarried, At, Handlers, FlightTyped, HandlersTyped
<1>2. Goto(p, r) /\ hashes' = CarriedForward(run[p].hs, run[p].n - Threshold)
  BY <1>1 DEF WriteCarried
<1>3. r.at = "sweep" /\ r.arg = run[p].arg
  BY <1>1, IdleFields
<1> HIDE DEF r
<1>4. Consistent(p, run[p]) /\ run'[p] = r /\ InFlight' = {p}
  BY <1>1, <1>2, <1>3, LoneMoves
<1>5. /\ CopyTyped(k) /\ LedgerTracks(p, run[p], k) /\ CandidateTracks(p, run[p], k)
      /\ StoreTracks(p, run[p], k)
  BY DEF Tracks
<1>6. /\ run[p].hs = hashes /\ hashes = k.hashes /\ balance = run[p].n - Threshold
      /\ run[p].n = k.balance + 0 /\ run[p].n >= Threshold /\ formed = k.formed + 1
      /\ k.balance \in Nat /\ Threshold \in Nat /\ run[p].n \in Nat
  BY <1>1, <1>4, <1>5, ReserveAssumption
     DEF LedgerTracks, Consistent, LedgerSeen, Forming, Taking, Listed, Due, CopyTyped,
         FlightTyped, HandlersTyped, CopiesTyped
<1>7. run[p].n = k.balance /\ ~(k.balance < Threshold)
  BY <1>6
<1>8. LedgerTracks(p, run[p], k)'
  BY <1>1, <1>2, <1>3, <1>4, <1>5, <1>6, <1>7 DEF LedgerTracks, Due, Taking, Forming
<1>9. CandidateTracks(p, run[p], k)'
  <2>1. candidate = Parcel(DecidedIn(k), k.hashes, k.formed)
    BY <1>1, <1>5 DEF CandidateTracks, Taking, Base, Listed
  <2> QED
    BY <1>1, <1>3, <1>4, <1>7, <2>1 DEF CandidateTracks, Taking, Forming, Deciding
<1>10. StoreTracks(p, run[p], k)'
  BY <1>1, <1>3, <1>4, <1>5 DEF StoreTracks, SameStore, Forming, store
<1> QED
  BY <1>4, <1>5, <1>8, <1>9, <1>10 DEF Tracks

-----------------------------------------------------------------------------
(* The last write of a deposit: to a reader it is the whole handler.        *)

LEMMA SeenInFlight ==
    ASSUME NEW p \in InFlight, ~disturbed, kills = 0
    PROVE  Seen = before
BY DEF Seen

LEMMA NextParcelOpen ==
    ASSUME NEW k, CopyTyped(k), ClosedUpTo(k.formed)
    PROVE  k.formed + 1 \notin closed
BY DEF CopyTyped, ClosedUpTo

LEMMA DepositCompletes ==
    ASSUME FlightTyped, LoneSound, NEW p \in Depositors, Tracks(p, run[p], before),
           ClosedUpTo(before.formed), ~disturbed, kills = 0, WriteNext(p) \/ WriteCarried(p)
    PROVE  \E amount \in Amounts, sig \in Signatures : Reserve!Deposit(amount, sig)
<1>1. /\ p \in Handlers /\ p \notin CronRuns /\ p \notin Voters
      /\ DOMAIN run[p] = DOMAIN Idle /\ run[p].at \in {"setNext", "formCarry"} /\ End(p)
      /\ UNCHANGED <<v1Balance, candidate, store, gate, cycle, formed, closed>>
  BY StepsAssumption
     DEF WriteNext, WriteCarried, At, Quiet, Handlers, FlightTyped, HandlersTyped
<1>2. Surroundings
  BY <1>1 DEF Surroundings, store, FlightTyped, KeysTyped
<1>3. Consistent(p, run[p]) /\ p \in InFlight /\ InFlight' = {}
  <2>1. Idle.at = "idle" /\ Goto(p, Idle) /\ run[p].at # "idle"
    BY <1>1 DEF Idle, End
  <2> QED
    BY <1>1, <2>1, LoneMoves DEF InFlight
<1>4. PICK k : k = before
  OBVIOUS
<1>5. PICK m : m = KV'
  OBVIOUS
<1>6. Seen = k /\ Seen' = m
  <2>1. Seen' = KV'
    BY <1>3 DEF Seen
  <2> QED
    BY <1>3, <1>4, <1>5, <2>1, SeenInFlight
<1>7. /\ CopyTyped(k) /\ LedgerTracks(p, run[p], k) /\ CandidateTracks(p, run[p], k)
      /\ StoreTracks(p, run[p], k) /\ k.formed + 1 \notin closed
  BY <1>4, NextParcelOpen DEF Tracks
<1> DEFINE a == run[p].arg.amount
           g == run[p].arg.sig
<1>8. a \in Amounts /\ g \in Signatures /\ Due(p, run[p]) = a /\ a \in Nat
  BY <1>1, DueTyped, StepsAssumption DEF FlightTyped, HandlersTyped, Placed
<1>9. /\ m.v1Balance = v1Balance' /\ m.balance = balance' /\ m.hashes = hashes'
      /\ m.candidate = candidate' /\ m.formed = formed'
      /\ m.seals = seals' /\ m.chain = chain' /\ m.audit = audit' /\ m.latest = latest'
  BY <1>5 DEF KV
<1>10. /\ m.seals = k.seals /\ m.chain = k.chain /\ m.audit = k.audit /\ m.latest = k.latest
  BY <1>1, <1>7, <1>9 DEF StoreTracks, SameStore, StoreIn, store
<1>11. k.v1Balance + a <= MaxReserve /\ m.v1Balance = k.v1Balance + a
  BY <1>1, <1>7, <1>8, <1>9 DEF LedgerTracks
<1> HIDE DEF a, g
<1>12. hashes = PushIfMissing(k.hashes, g)
  BY <1>1, <1>7 DEF LedgerTracks, Taking, Listed, g
<1>13. CASE run[p].at = "setNext"
  <2>1. /\ balance' = run[p].n /\ hashes' = hashes
    BY <1>13 DEF WriteNext, WriteCarried, At
  <2>2. /\ run[p].n = k.balance + a /\ (run[p].n < Threshold \/ k.candidate # None)
        /\ candidate = k.candidate /\ formed = k.formed
    BY <1>1, <1>3, <1>7, <1>8, <1>13
       DEF LedgerTracks, CandidateTracks, Taking, Consistent, LedgerSeen
  <2>3. Reserve!Deposit(a, g)
    BY <1>1, <1>2, <1>6, <1>7, <1>8, <1>9, <1>10, <1>11, <1>12, <2>1, <2>2, DepositMaps DEF g
  <2> QED
    BY <1>8, <2>3 DEF g
<1>14. CASE run[p].at = "formCarry"
  <2>1. /\ balance' = balance /\ hashes' = IF run[p].n > Threshold THEN <<g>> ELSE <<>>
    BY <1>14 DEF WriteNext, WriteCarried, At, g
  <2>2. /\ run[p].n = k.balance + a /\ k.candidate = None /\ balance = run[p].n - Threshold
        /\ candidate = Parcel(StoreIn(k), hashes, k.formed) /\ formed = k.formed + 1
    BY <1>1, <1>3, <1>7, <1>8, <1>12, <1>14
       DEF LedgerTracks, CandidateTracks, Taking, Forming, Base, Listed, Consistent, LedgerSeen, g
  <2>3. ~(k.balance + a < Threshold)
    <3>1. run[p].n >= Threshold /\ run[p].n \in Nat /\ Threshold \in Nat
      BY <1>1, <1>14, ReserveAssumption DEF FlightTyped, HandlersTyped, CopiesTyped, Forming
    <3> QED
      BY <2>2, <3>1
  <2>4. /\ m.candidate = Parcel(StoreIn(k), PushIfMissing(k.hashes, g), k.formed)
        /\ m.balance = k.balance + a - Threshold
        /\ m.hashes = IF k.balance + a > Threshold THEN <<g>> ELSE <<>>
        /\ m.formed = k.formed + 1
    <3>1. k.balance \in Nat /\ a \in Nat /\ Threshold \in Nat /\ k.formed \in Nat
      BY <1>7, <1>8, ReserveAssumption DEF CopyTyped
    <3>2. candidate' = candidate /\ formed' = formed
      BY <1>1
    <3>3. run[p].n > Threshold <=> k.balance + a > Threshold
      BY <2>2
    <3>4. m.hashes = IF k.balance + a > Threshold THEN <<g>> ELSE <<>>
      BY <1>9, <2>1, <3>3
    <3> QED
      BY <1>9, <1>12, <2>1, <2>2, <3>1, <3>2, <3>4
  <2>5. ~(k.balance + a < Threshold \/ k.candidate # None) /\ UNCHANGED closed /\ g \in Signatures
    BY <1>1, <1>8, <2>2, <2>3 DEF g
  <2>6. Reserve!Deposit(a, g)
    BY ONLY <1>2, <1>6, <1>7, <1>8, <1>10, <1>11, <2>4, <2>5, DepositMaps
  <2> QED
    BY <1>8, <2>6 DEF g
<1> QED
  BY <1>1, <1>13, <1>14

-----------------------------------------------------------------------------
(* A handler starts: it follows the keys as they are.                       *)

LEMMA StartFollows ==
    ASSUME FlightTyped, UNCHANGED <<vars, closed>>, NEW k, k = KV, NEW p \in Handlers,
           p \in Depositors => /\ run'[p].at = "v1Write"
                               /\ v1Balance + run'[p].arg.amount <= MaxReserve,
           p \in Voters => run'[p].at = "record" /\ Open(candidate),
           p \in CronRuns => run'[p].at = "begin"
    PROVE  Tracks(p, run[p], k)'
<1>1. /\ k.v1Balance = v1Balance /\ k.balance = balance /\ k.hashes = hashes
      /\ k.candidate = candidate /\ k.formed = formed
      /\ k.seals = seals /\ k.chain = chain /\ k.audit = audit /\ k.latest = latest
  BY DEF KV
<1>2. CopyTyped(k)
  BY <1>1 DEF CopyTyped, FlightTyped, KeysTyped
<1>3. run'[p].at \in {"v1Write", "record", "begin"}
      /\ (run'[p].at # "v1Write" => p \notin Depositors)
  BY StepsAssumption DEF Handlers
<1>4. UNCHANGED <<v1Balance, balance, hashes, candidate, formed, seals, chain, audit, latest>>
  BY DEF vars, ledger, store
<1>5. LedgerTracks(p, run[p], k)'
  <2>1. v1Balance + 0 = v1Balance
    BY LedgerTyped
  <2> QED
    BY <1>1, <1>3, <1>4, <2>1 DEF LedgerTracks, Due, Listed, Taking, Forming
<1>6. CandidateTracks(p, run[p], k)'
  BY <1>1, <1>3, <1>4 DEF CandidateTracks, Taking, Forming, Deciding, Open
<1>7. StoreTracks(p, run[p], k)'
  BY <1>1, <1>3, <1>4 DEF StoreTracks, StoreIn, SameStore, Forming
<1> QED
  BY <1>2, <1>5, <1>6, <1>7 DEF Tracks

(* Undisturbed, it starts alone, and a reader goes on to see what it saw.   *)
Starts(p) == p \in Handlers /\ InFlight = {} /\ InFlight' = {p} /\ before' = KV
             /\ UNCHANGED <<vars, closed>>

LEMMA StartDepositFollows ==
    ASSUME FlightTyped, LoneSound, NEW p \in Depositors, NEW amount \in Amounts,
           NEW sig \in Signatures, StartDeposit(p, amount, sig), ~disturbed', kills = 0,
           NEW k, k = KV
    PROVE  Starts(p) /\ Tracks(p, run[p], k)'
<1> DEFINE r == [Idle EXCEPT !.at = "v1Write", !.n = v1Balance,
                             !.arg = [amount |-> amount, sig |-> sig]]
<1>1. /\ p \in Handlers /\ Enter(p, r) /\ r.at = "v1Write" /\ DOMAIN r = DOMAIN Idle
      /\ r.arg.amount = amount /\ v1Balance + amount <= MaxReserve
      /\ p \notin Voters /\ p \notin CronRuns
  BY IdleFields, StepsAssumption DEF Handlers, StartDeposit
<1>2. InFlight = {} /\ InFlight' = {p} /\ run'[p] = [r EXCEPT !.old = FALSE]
  BY <1>1, EntersAlone
<1> HIDE DEF r
<1>3. run'[p].at = "v1Write" /\ run'[p].arg.amount = amount
  BY <1>1, <1>2, IdleFields
<1>4. UNCHANGED <<vars, closed>> /\ before' = KV
  BY <1>1 DEF StartDeposit, Enter, Meet
<1> QED
  BY <1>1, <1>2, <1>3, <1>4, StartFollows DEF Starts

LEMMA StartVoteFollows ==
    ASSUME FlightTyped, LoneSound, NEW p \in Voters, NEW verdict \in CastVerdicts,
           StartVote(p, verdict), ~disturbed', kills = 0, NEW k, k = KV
    PROVE  Starts(p) /\ Tracks(p, run[p], k)'
<1> DEFINE r == [Idle EXCEPT !.at = "record", !.ids = Id(candidate), !.arg = [verdict |-> verdict]]
<1>1. /\ p \in Handlers /\ Enter(p, r) /\ r.at = "record" /\ DOMAIN r = DOMAIN Idle
      /\ Open(candidate) /\ p \notin Depositors /\ p \notin CronRuns
  BY IdleFields, StepsAssumption DEF Handlers, StartVote
<1>2. InFlight = {} /\ InFlight' = {p} /\ run'[p] = [r EXCEPT !.old = FALSE]
  BY <1>1, EntersAlone
<1> HIDE DEF r
<1>3. run'[p].at = "record"
  BY <1>1, <1>2, IdleFields
<1>4. UNCHANGED <<vars, closed>> /\ before' = KV
  BY <1>1 DEF StartVote, Enter, Meet
<1> QED
  BY <1>1, <1>2, <1>3, <1>4, StartFollows DEF Starts

LEMMA TriggerFollows ==
    ASSUME FlightTyped, LoneSound, NEW ps \in (SUBSET CronRuns) \ {{}},
           Trigger(ps), ~disturbed', kills = 0, NEW k, k = KV
    PROVE  \E p \in CronRuns : Starts(p) /\ Tracks(p, run[p], k)'
<1>1. /\ IsFiniteSet(ps) /\ ps # {} /\ ps \cap InFlight = {} /\ ps \subseteq Handlers
      /\ ps \subseteq CronRuns /\ UNCHANGED <<vars, closed>> /\ before' = KV
      /\ run' = [q \in Handlers |-> IF q \in ps THEN [Idle EXCEPT !.at = "begin"]
                                    ELSE [run[q] EXCEPT !.old = q \in InFlight]]
  <2>1. ps \subseteq CronRuns /\ ps # {} /\ IsFiniteSet(CronRuns)
    BY StepsAssumption
  <2>2. IsFiniteSet(ps)
    BY <2>1, FS_Subset
  <2>3. ps \cap InFlight = {}
    BY <2>1 DEF Trigger
  <2> QED
    BY <2>1, <2>2, <2>3 DEF Trigger, Handlers, Meet
<1>2. PICK p \in ps : InFlight = {} /\ ps = {p}
  BY <1>1, StartsAlone DEF Trigger
<1>3. run'[p] = [Idle EXCEPT !.at = "begin"]
  BY <1>1
<1>4. run'[p].at = "begin"
  BY <1>3, IdleFields
<1>5. \A q \in Handlers \ {p} : run'[q].at = "idle"
  <2> TAKE q \in Handlers \ {p}
  <2>1. run'[q] = [run[q] EXCEPT !.old = q \in InFlight]
    BY <1>1, <1>2
  <2>2. run[q].at = "idle" /\ DOMAIN run[q] = DOMAIN Idle
    BY <1>2 DEF InFlight, FlightTyped, HandlersTyped
  <2> QED
    BY <2>1, <2>2, IdleFields
<1>6. InFlight' = {p}
  BY <1>1, <1>4, <1>5 DEF InFlight
<1>7. p \in CronRuns /\ p \in Handlers /\ p \notin Depositors /\ p \notin Voters
  BY <1>1, StepsAssumption
<1> QED
  BY <1>1, <1>2, <1>4, <1>6, <1>7, StartFollows DEF Starts

-----------------------------------------------------------------------------
(* A vote.                                                                  *)

LEMMA ReadRecordFollows ==
    ASSUME FlightTyped, LoneSound, NEW p \in Voters, NEW k, Tracks(p, run[p], k), ReadRecord(p)
    PROVE  InFlight' = {p} /\ Tracks(p, run[p], k)'
<1> DEFINE c == [candidate EXCEPT !.votes[p] = run[p].arg.verdict]
           r == [run[p] EXCEPT !.at = "recordWrite", !.next = c]
<1>1. /\ p \in Handlers /\ p \notin Depositors /\ p \notin CronRuns
      /\ DOMAIN run[p] = DOMAIN Idle
      /\ run[p].at = "record" /\ UNCHANGED <<vars, closed>>
  BY StepsAssumption DEF ReadRecord, At, Quiet, Handlers, FlightTyped, HandlersTyped
<1>2. candidate # None /\ run[p].ids = Id(candidate)
  BY <1>1 DEF LoneSound, InFlight, Consistent, CandidateSeen, VotePlaces
<1>3. Goto(p, r)
  BY <1>2 DEF ReadRecord
<1> HIDE DEF c
<1>4. r.at = "recordWrite" /\ r.arg = run[p].arg
  BY <1>1, IdleFields
<1> HIDE DEF r
<1>5. run'[p] = r /\ InFlight' = {p}
  BY <1>1, <1>3, <1>4, LoneMoves
<1>6. /\ CopyTyped(k) /\ LedgerTracks(p, run[p], k) /\ CandidateTracks(p, run[p], k)
      /\ StoreTracks(p, run[p], k)
  BY DEF Tracks
<1>7. LedgerTracks(p, run[p], k)'
  BY <1>1, <1>4, <1>5, <1>6 DEF LedgerTracks, Listed, Due, Taking, Forming, vars, ledger
<1>8. CandidateTracks(p, run[p], k)'
  BY <1>1, <1>4, <1>5, <1>6 DEF CandidateTracks, Taking, Forming, Deciding, vars, Open
<1>9. StoreTracks(p, run[p], k)'
  BY <1>1, <1>4, <1>5, <1>6 DEF StoreTracks, SameStore, Forming, vars, store
<1> QED
  BY <1>5, <1>6, <1>7, <1>8, <1>9 DEF Tracks

(* The write of a vote: to a reader it is the whole request.                *)
LEMMA VoteCompletes ==
    ASSUME FlightTyped, LoneSound, NEW p \in Voters, Tracks(p, run[p], before),
           ~disturbed', kills = 0, WriteRecord(p)
    PROVE  /\ \E agent \in Sentinels, verdict \in CastVerdicts :
                 Reserve!SubmitAttestation(agent, verdict)
           /\ InFlight' = {} /\ candidate'.hash = candidate.hash /\ candidate # None
<1>1. /\ p \in Handlers /\ p \notin Depositors /\ p \notin CronRuns
      /\ run[p].at = "recordWrite" /\ End(p) /\ candidate' = run[p].next
      /\ UNCHANGED <<ledger, store, gate, cycle, formed, closed>> /\ ~disturbed
  BY StepsAssumption DEF WriteRecord, At, Handlers
<1>2. Surroundings
  BY <1>1 DEF Surroundings, store, FlightTyped, KeysTyped
<1>3. Consistent(p, run[p]) /\ p \in InFlight /\ InFlight' = {}
  <2>1. Idle.at = "idle" /\ Goto(p, Idle) /\ run[p].at # "idle"
    BY <1>1 DEF Idle, End
  <2> QED
    BY <1>1, <2>1, LoneMoves DEF InFlight
<1>4. PICK k : k = before
  OBVIOUS
<1>5. PICK m : m = KV'
  OBVIOUS
<1>6. Seen = k /\ Seen' = m
  <2>1. Seen' = KV'
    BY <1>3 DEF Seen
  <2> QED
    BY <1>1, <1>3, <1>4, <1>5, <2>1, SeenInFlight
<1>7. /\ CopyTyped(k) /\ LedgerTracks(p, run[p], k) /\ CandidateTracks(p, run[p], k)
      /\ StoreTracks(p, run[p], k)
  BY <1>4 DEF Tracks
<1> DEFINE w == run[p].arg.verdict
<1>8. p \in Sentinels /\ w \in CastVerdicts /\ w \in Verdicts
  <2>1. run[p].arg \in [verdict : CastVerdicts]
    BY <1>1, StepsAssumption DEF FlightTyped, HandlersTyped, Placed
  <2> QED
    BY <2>1, StepsAssumption, ReserveAssumption
<1>9. /\ candidate' = [candidate EXCEPT !.votes[p] = w] /\ candidate # None
  BY <1>1, <1>3 DEF Consistent, CandidateSeen, VotePlaces
<1> HIDE DEF w
<1>10. k.candidate = candidate /\ Open(candidate) /\ candidate \in Candidates
  BY <1>1, <1>7, <1>9 DEF CandidateTracks, FlightTyped, KeysTyped
<1>11. /\ k.v1Balance = v1Balance /\ k.balance = balance /\ k.hashes = hashes /\ k.formed = formed
       /\ k.seals = seals /\ k.chain = chain /\ k.audit = audit /\ k.latest = latest
  <2>1. k.v1Balance + 0 = k.v1Balance
    BY <1>7 DEF CopyTyped
  <2> QED
    BY <1>1, <1>7, <2>1
       DEF LedgerTracks, StoreTracks, SameStore, StoreIn, Due, Listed, Taking
<1>12. /\ m.v1Balance = v1Balance /\ m.balance = balance /\ m.hashes = hashes
       /\ m.candidate = candidate' /\ m.formed = formed
       /\ m.seals = seals /\ m.chain = chain /\ m.audit = audit /\ m.latest = latest
  BY <1>1, <1>5 DEF KV, ledger, store
<1>13. Reserve!SubmitAttestation(p, w)
  <2>1. /\ m.v1Balance = k.v1Balance /\ m.balance = k.balance /\ m.hashes = k.hashes
        /\ m.formed = k.formed /\ m.seals = k.seals /\ m.chain = k.chain
        /\ m.audit = k.audit /\ m.latest = k.latest
        /\ m.candidate = [k.candidate EXCEPT !.votes[p] = w]
    BY <1>9, <1>10, <1>11, <1>12
  <2>2. k.candidate \in Candidates /\ Open(k.candidate) /\ UNCHANGED closed
    BY <1>1, <1>10
  <2> QED
    BY <1>2, <1>6, <1>8, <2>1, <2>2, VoteMaps
<1>14. candidate'.hash = candidate.hash
  <2>1. DOMAIN candidate = {"seq", "cycle", "hash", "prev", "sources", "votes", "open"}
    BY <1>10 DEF Candidates
  <2> QED
    BY <1>9, <2>1
<1> QED
  BY <1>3, <1>8, <1>9, <1>13, <1>14

-----------------------------------------------------------------------------
(* A cron run, up to its decision.                                          *)

(* Until it forms a parcel a run leaves the ledger as it found it.          *)
Looking == {"begin", "vote", "voteWrite", "formBalance", "formCheck", "formHashes"} \cup Deciding

LEMMA LookingLedger ==
    ASSUME NEW p \in CronRuns, NEW k, LedgerTracks(p, run[p], k), run[p].at \in Looking,
           run'[p].at \in Looking, UNCHANGED <<v1Balance, balance, hashes, formed>>
    PROVE  LedgerTracks(p, run[p], k)'
<1>1. p \notin Depositors
  BY StepsAssumption
<1> QED
  BY <1>1 DEF LedgerTracks, Looking, Deciding, Due, Listed, Taking, Forming

(* A parcel that got votes differs in its votes only.                       *)
LEMMA VotesOnly ==
    ASSUME NEW c \in Candidates, NEW a
    PROVE  /\ c = [c EXCEPT !.votes = c.votes]
           /\ \A v : [c EXCEPT !.votes[a] = v].hash = c.hash
BY DEF Candidates

(* A pass where there is no vote changes nothing that the run will have     *)
(* filled in.                                                               *)
Revoted(c, o) == c = [o EXCEPT !.votes = c.votes]
Passed(c, a)  == [c EXCEPT !.votes[a] = "pass"]

LEMMA PassFills ==
    ASSUME NEW c \in Candidates, NEW o \in Candidates, Revoted(c, o), NEW a \in Missing(c.votes)
    PROVE  /\ Revoted(Passed(c, a), o)
           /\ FillVotes(Passed(c, a).votes, "pass") = FillVotes(c.votes, "pass")
<1> DEFINE d == Passed(c, a)
<1>1. \A x \in Candidates :
         /\ DOMAIN x = {"seq", "cycle", "hash", "prev", "sources", "votes", "open"}
         /\ DOMAIN x.votes = Sentinels
  BY ONLY DEF Candidates, Votes
<1>2. d.votes = [c.votes EXCEPT ![a] = "pass"]
  BY <1>1 DEF Passed
<1>3. d = [o EXCEPT !.votes = d.votes]
  <2>1. d = [c EXCEPT !.votes = d.votes]
    BY <1>1, <1>2 DEF Passed
  <2> HIDE DEF d
  <2> QED
    BY <1>1, <2>1 DEF Revoted
<1>4. a \in Sentinels /\ c.votes[a] = NoVote /\ "pass" # NoVote
  BY DEF Missing, NoVote
<1> HIDE DEF d
<1>5. FillVotes(d.votes, "pass") = FillVotes(c.votes, "pass")
  BY <1>1, <1>2, <1>4 DEF FillVotes
<1> QED
  BY <1>3, <1>5 DEF d, Revoted

LEMMA VotingFollows ==
    ASSUME FlightTyped, LoneSound, NEW p \in CronRuns, NEW k, Tracks(p, run[p], k),
           ReadCandidate(p) \/ ReadCronVote(p) \/ WriteCronVote(p) \/ Decide(p)
    PROVE  /\ InFlight' = {p} /\ Tracks(p, run[p], k)'
           /\ candidate' = candidate \/ (candidate # None /\ candidate'.hash = candidate.hash)
<1>1. /\ p \in Handlers /\ p \notin Voters /\ p \notin Depositors
      /\ DOMAIN run[p] = DOMAIN Idle /\ run[p].at \in {"begin", "vote", "voteWrite"}
      /\ candidate # None => candidate \in Candidates
      /\ UNCHANGED <<v1Balance, balance, hashes, seals, chain, audit, latest, formed>>
      /\ gate = FALSE
  BY StepsAssumption
     DEF ReadCandidate, ReadCronVote, WriteCronVote, Decide, At, Handlers, FlightTyped,
         HandlersTyped, KeysTyped, vars, ledger, store
<1>2. /\ CopyTyped(k) /\ LedgerTracks(p, run[p], k) /\ CandidateTracks(p, run[p], k)
      /\ StoreTracks(p, run[p], k) /\ Consistent(p, run[p])
  BY <1>1 DEF Tracks, LoneSound, InFlight
<1>3. ASSUME NEW r, Goto(p, r), r.at \in {"vote", "voteWrite", "index", "body"},
             k.candidate # None, candidate' = [k.candidate EXCEPT !.votes = candidate'.votes],
             FillVotes(candidate'.votes, "pass") = FillVotes(k.candidate.votes, "pass")
      PROVE  InFlight' = {p} /\ Tracks(p, run[p], k)'
  <2>1. run'[p] = r /\ InFlight' = {p}
    BY <1>1, <1>3, LoneMoves
  <2>2. LedgerTracks(p, run[p], k)'
    BY <1>1, <1>2, <1>3, <2>1, LookingLedger DEF Looking, Deciding
  <2>3. CandidateTracks(p, run[p], k)'
    BY <1>1, <1>3, <2>1 DEF CandidateTracks, Taking, Forming, Deciding
  <2>4. StoreTracks(p, run[p], k)'
    BY <1>1, <1>2, <1>3, <2>1 DEF StoreTracks, SameStore, Forming
  <2> QED
    BY <1>2, <2>1, <2>2, <2>3, <2>4 DEF Tracks
<1>4. /\ run[p].at \in {"vote", "voteWrite"} =>
            /\ candidate # None /\ k.candidate \in Candidates
            /\ candidate = [k.candidate EXCEPT !.votes = candidate.votes]
            /\ FillVotes(candidate.votes, "pass") = FillVotes(k.candidate.votes, "pass")
      /\ run[p].at = "begin" => candidate = k.candidate
  BY <1>1, <1>2 DEF CandidateTracks, Consistent, CandidateSeen, CopyTyped
<1>5. CASE ReadCandidate(p)
  <2>1. run[p].at = "begin" /\ candidate' = candidate
    BY <1>5 DEF ReadCandidate, At, vars
  <2>2. CASE candidate = None
    <3> DEFINE r == [run[p] EXCEPT !.at = "formBalance"]
    <3>1. Goto(p, r) /\ r.at = "formBalance"
      BY <1>1, <1>5, <2>2, IdleFields DEF ReadCandidate, Move
    <3> HIDE DEF r
    <3>2. run'[p] = r /\ InFlight' = {p}
      BY <1>1, <3>1, LoneMoves
    <3>3. LedgerTracks(p, run[p], k)'
      BY <1>1, <1>2, <2>1, <3>1, <3>2, LookingLedger DEF Looking
    <3>4. CandidateTracks(p, run[p], k)'
      BY <1>1, <3>1, <3>2 DEF CandidateTracks, Taking, Forming, Deciding
    <3>5. SameStore(DecidedIn(k))
      BY <1>2, <1>4, <2>1, <2>2 DEF StoreTracks, DecidedIn
    <3>6. StoreTracks(p, run[p], k)'
      BY <1>1, <3>1, <3>2, <3>5 DEF StoreTracks, SameStore, Forming
    <3> QED
      BY <1>2, <2>1, <3>2, <3>3, <3>4, <3>6 DEF Tracks
  <2>3. CASE candidate # None
    <3> DEFINE r == [run[p] EXCEPT !.at = "vote", !.c = candidate, !.todo = Sentinels]
    <3>1. Goto(p, r) /\ r.at = "vote"
      BY <1>1, <1>5, <2>3, IdleFields DEF ReadCandidate
    <3> HIDE DEF r
    <3>2. candidate' = [k.candidate EXCEPT !.votes = candidate'.votes]
      BY <1>1, <1>4, <2>1, <2>3, VotesOnly
    <3> QED
      BY <1>3, <1>4, <2>1, <2>3, <3>1, <3>2
  <2> QED
    BY <2>2, <2>3
<1>6. CASE ReadCronVote(p)
  <2> DEFINE a == NextSilent(p)
             c == [candidate EXCEPT !.votes[a] = "pass"]
             r == [run[p] EXCEPT !.at = "voteWrite", !.todo = run[p].todo \ {a}, !.next = c]
  <2>1. run[p].at = "vote" /\ candidate' = candidate
    BY <1>6 DEF ReadCronVote, At, vars
  <2>2. candidate # None /\ run[p].c = candidate
    BY <1>2, <2>1 DEF Consistent, CandidateSeen
  <2>3. Goto(p, r)
    BY <1>1, <1>6, <2>2 DEF ReadCronVote
  <2> HIDE DEF c, a
  <2>4. r.at = "voteWrite"
    BY <1>1, IdleFields
  <2> HIDE DEF r
  <2>5. k.candidate # None
    BY <1>4, <2>1, NoneAssumption
  <2> QED
    BY <1>3, <1>4, <2>1, <2>3, <2>4, <2>5
<1>7. CASE WriteCronVote(p)
  <2> DEFINE c == run[p].next
             r == [run[p] EXCEPT !.at = "vote", !.c = c, !.next = None]
  <2>1. run[p].at = "voteWrite" /\ Goto(p, r) /\ candidate' = c
    BY <1>7 DEF WriteCronVote, At
  <2>2. PICK a \in Missing(candidate.votes) : c = [candidate EXCEPT !.votes[a] = "pass"]
    BY <1>2, <2>1 DEF Consistent, CandidateSeen
  <2> HIDE DEF c
  <2>3. r.at = "vote"
    BY <1>1, IdleFields
  <2> HIDE DEF r
  <2>4. candidate \in Candidates /\ k.candidate # None
    BY <1>1, <1>4, <2>1, NoneAssumption
  <2>5. /\ c = [k.candidate EXCEPT !.votes = c.votes]
        /\ FillVotes(c.votes, "pass") = FillVotes(k.candidate.votes, "pass")
    <3>1. /\ k.candidate \in Candidates /\ candidate = [k.candidate EXCEPT !.votes = candidate.votes]
          /\ FillVotes(candidate.votes, "pass") = FillVotes(k.candidate.votes, "pass")
      BY <1>4, <2>1
    <3>2. Revoted(candidate, k.candidate) /\ c = Passed(candidate, a)
      BY <2>2, <3>1 DEF Revoted, Passed
    <3>3. /\ Revoted(c, k.candidate)
          /\ FillVotes(c.votes, "pass") = FillVotes(candidate.votes, "pass")
      BY <2>4, <3>1, <3>2, PassFills
    <3> QED
      BY <3>1, <3>3 DEF Revoted
  <2>6. c.hash = candidate.hash
    BY <2>2, <2>4, VotesOnly
  <2> QED
    BY <1>3, <1>4, <2>1, <2>3, <2>4, <2>5, <2>6
<1>8. CASE Decide(p)
  <2> DEFINE d == EvaluateQuorum(candidate.votes)
             s == Sealed(candidate, d)
             l == IF d = "attested" THEN "index" ELSE "body"
             r == [run[p] EXCEPT !.at = l, !.c = None, !.seal = s]
  <2>1. run[p].at = "vote" /\ Silent(p) = {} /\ candidate' = candidate
    BY <1>8 DEF Decide, At, vars
  <2>2. /\ candidate # None /\ run[p].c = candidate
        /\ Missing(candidate.votes) \subseteq run[p].todo
    BY <1>2, <2>1 DEF Consistent, CandidateSeen
  <2>3. d # "waiting"
    BY <2>1, <2>2 DEF Silent, Missing, EvaluateQuorum
  <2>4. Goto(p, r) /\ l \in {"index", "body"}
    BY <1>8, <2>2, <2>3 DEF Decide
  <2> HIDE DEF s, l
  <2>5. r.at = l
    BY <1>1, IdleFields
  <2> HIDE DEF r
  <2>6. k.candidate # None
    BY <1>4, <2>1, NoneAssumption
  <2> QED
    BY <1>3, <1>4, <2>1, <2>4, <2>5, <2>6
<1> QED
  BY <1>5, <1>6, <1>7, <1>8

-----------------------------------------------------------------------------
(* A cron run from its decision to the clearing of the candidate.           *)

(* The seal it writes is the one a reader expects of the candidate.         *)
LEMMA SealFollows ==
    ASSUME FlightTyped, StoreSound, LoneSound, NEW p \in CronRuns, NEW k, Tracks(p, run[p], k),
           run[p].at \in Deciding
    PROVE  /\ run[p].seal = SealIn(k)
           /\ SealIn(k).status = EvaluateQuorum(candidate.votes)
           /\ DecidedIn(k) = Stored(StoreIn(k), SealIn(k))
<1> DEFINE c == candidate
           o == k.candidate
           d == EvaluateQuorum(c.votes)
<1>1. /\ Consistent(p, run[p]) /\ CandidateTracks(p, run[p], k) /\ CopyTyped(k)
  BY DEF Tracks, LoneSound, InFlight, Handlers, Deciding
<1>2. /\ c # None /\ Missing(c.votes) = {} /\ run[p].seal = Sealed(c, d)
      /\ o # None /\ Revoted(c, o)
      /\ FillVotes(c.votes, "pass") = FillVotes(o.votes, "pass")
  BY <1>1 DEF Consistent, CandidateSeen, SealSeen, CandidateTracks, Revoted
<1>3. c \in Candidates /\ o \in Candidates
  BY <1>1, <1>2 DEF CopyTyped, FlightTyped, KeysTyped
<1> HIDE DEF c, o
<1>4. FillVotes(c.votes, "pass") = c.votes
  <2>1. c.votes = [a \in Sentinels |-> c.votes[a]]
    BY <1>3 DEF Candidates, Votes
  <2> QED
    BY <1>2, <2>1 DEF FillVotes, Missing
<1>5. /\ o.seq = c.seq /\ o.cycle = c.cycle /\ o.hash = c.hash
      /\ o.prev = c.prev /\ o.sources = c.sources
  BY <1>2, <1>3 DEF Revoted, Candidates
<1>6. SealOf(o, c.votes, TRUE) = SealOf(c, c.votes, TRUE)
  BY <1>5 DEF SealOf
<1>7. SealIn(k) = SealOf(c, c.votes, TRUE)
  BY <1>2, <1>4, <1>6 DEF SealIn, o
<1>8. Sealed(c, d) = SealOf(c, c.votes, TRUE)
  <2> DEFINE x == TRUE /\ d = "attested"
             y == d = "attested"
  <2>1. x = y
    OBVIOUS
  <2>2. SealOf(c, c.votes, TRUE) =
          [seq |-> c.seq, cycle |-> c.cycle, hash |-> c.hash, prev |-> c.prev,
           sources |-> c.sources, votes |-> c.votes, status |-> d, pointer |-> x]
    BY DEF SealOf
  <2>3. Sealed(c, d) =
          [[seq |-> c.seq, cycle |-> c.cycle, hash |-> c.hash, prev |-> c.prev,
            sources |-> c.sources, votes |-> c.votes, status |-> d, pointer |-> x]
             EXCEPT !.status = d, !.pointer = y]
    BY DEF Sealed, SealOf
  <2> HIDE DEF d, x, y
  <2> QED
    BY <2>1, <2>2, <2>3
<1>9. SealIn(k).status = d
  BY <1>7 DEF SealOf
<1> QED
  BY <1>2, <1>7, <1>8, <1>9 DEF DecidedIn, o, c

(* The writes of a decided parcel touch the store only.                     *)
LEMMA FinalizeTracks ==
    ASSUME FlightTyped, LoneSound, NEW p \in CronRuns, NEW k, Tracks(p, run[p], k),
           run[p].at \in Deciding, NEW r, Goto(p, r), r.at \in Deciding,
           UNCHANGED <<ledger, candidate, formed>>
    PROVE  /\ InFlight' = {p} /\ run'[p] = r
           /\ StoreTracks(p, run[p], k)' => Tracks(p, run[p], k)'
<1>1. /\ p \in Handlers /\ p \notin Voters /\ p \notin Depositors
      /\ run[p].at # "idle" /\ r.at # "idle"
  BY StepsAssumption DEF Handlers, Deciding
<1>2. run'[p] = r /\ InFlight' = {p}
  BY <1>1, LoneMoves
<1>3. CopyTyped(k) /\ LedgerTracks(p, run[p], k) /\ CandidateTracks(p, run[p], k)
  BY DEF Tracks
<1>4. LedgerTracks(p, run[p], k)'
  BY <1>2, <1>3, LookingLedger DEF Looking, ledger
<1>5. CandidateTracks(p, run[p], k)'
  BY <1>1, <1>2, <1>3 DEF CandidateTracks, Taking, Forming, Deciding
<1> QED
  BY <1>2, <1>3, <1>4, <1>5 DEF Tracks

LEMMA ReadIndexesFollows ==
    ASSUME FlightTyped, LoneSound, NEW p \in CronRuns, NEW k, Tracks(p, run[p], k), ReadIndexes(p)
    PROVE  InFlight' = {p} /\ Tracks(p, run[p], k)'
<1> DEFINE todo == {"chain", "audit", "seal", "latest"}
           r == [run[p] EXCEPT !.at = "append", !.ids = [chain |-> chain, audit |-> audit],
                               !.todo = todo]
<1>1. /\ p \in Handlers /\ p \notin Voters /\ p \notin Depositors
      /\ DOMAIN run[p] = DOMAIN Idle /\ run[p].at = "index" /\ Goto(p, r)
      /\ UNCHANGED <<ledger, candidate, formed, seals, chain, audit, latest>>
  BY StepsAssumption
     DEF ReadIndexes, At, vars, store, Handlers, FlightTyped, HandlersTyped
<1> HIDE DEF todo
<1>2. r.at = "append" /\ r.todo = todo
  BY <1>1, IdleFields
<1> HIDE DEF r
<1>3. /\ InFlight' = {p} /\ run'[p] = r
      /\ StoreTracks(p, run[p], k)' => Tracks(p, run[p], k)'
  BY <1>1, <1>2, FinalizeTracks DEF Deciding
<1>4. seals = k.seals /\ chain = k.chain /\ audit = k.audit /\ latest = k.latest
  BY <1>1 DEF Tracks, StoreTracks, SameStore, StoreIn
<1>5. StoreTracks(p, run[p], k)'
  BY <1>1, <1>2, <1>3, <1>4 DEF StoreTracks, Forming, todo
<1> QED
  BY <1>3, <1>5

LEMMA WriteAppendFollows ==
    ASSUME FlightTyped, StoreSound, LoneSound, NEW p \in CronRuns, NEW k, Tracks(p, run[p], k),
           NEW key \in run[p].todo, WriteAppend(p, key)
    PROVE  InFlight' = {p} /\ Tracks(p, run[p], k)'
<1> DEFINE s    == run[p].seal
           left == run[p].todo \ {key}
           l    == IF left = {} THEN "clear" ELSE "append"
           r    == [run[p] EXCEPT !.at = l, !.todo = left]
           st   == DecidedIn(k)
<1>1. /\ p \in Handlers /\ p \notin Voters /\ p \notin Depositors
      /\ DOMAIN run[p] = DOMAIN Idle /\ run[p].at = "append" /\ Goto(p, r)
      /\ chain'  = IF key = "chain" THEN PushIfMissing(run[p].ids.chain, Id(s)) ELSE chain
      /\ audit'  = IF key = "audit" THEN PushIfMissing(run[p].ids.audit, Id(s)) ELSE audit
      /\ seals'  = IF key = "seal" THEN Put(seals, Id(s), s) ELSE seals
      /\ latest' = IF key = "latest" THEN Id(s) ELSE latest
      /\ UNCHANGED <<ledger, candidate, formed>>
  BY StepsAssumption DEF WriteAppend, At, Handlers, FlightTyped, HandlersTyped
<1>2. l \in {"clear", "append"} /\ (l = "clear" => left = {})
  OBVIOUS
<1>3. run[p].at \in Deciding /\ Consistent(p, run[p]) /\ StoreTracks(p, run[p], k)
  BY <1>1 DEF Deciding, Tracks, LoneSound, InFlight
<1>4. /\ EvaluateQuorum(candidate.votes) = "attested"
      /\ run[p].ids.chain = chain \/ "chain" \notin run[p].todo
      /\ run[p].ids.audit = audit \/ "audit" \notin run[p].todo
  BY <1>1, <1>3 DEF Consistent, SealSeen
<1>5. s = SealIn(k) /\ st = Stored(StoreIn(k), s) /\ s.status = "attested"
  BY <1>3, <1>4, SealFollows
<1> HIDE DEF s
<1>6. /\ st.seals = Put(k.seals, Id(s), s) /\ st.chain = PushIfMissing(k.chain, Id(s))
      /\ st.audit = PushIfMissing(k.audit, Id(s)) /\ st.latest = Id(s)
  BY <1>5 DEF Stored, StoreIn
<1> HIDE DEF st
<1>7. /\ chain  = IF "chain" \in run[p].todo THEN k.chain ELSE st.chain
      /\ audit  = IF "audit" \in run[p].todo THEN k.audit ELSE st.audit
      /\ seals  = IF "seal" \in run[p].todo THEN k.seals ELSE st.seals
      /\ latest = IF "latest" \in run[p].todo THEN k.latest ELSE st.latest
  BY <1>1, <1>3 DEF StoreTracks, st
<1>8. /\ chain'  = IF "chain" \in left THEN k.chain ELSE st.chain
      /\ audit'  = IF "audit" \in left THEN k.audit ELSE st.audit
      /\ seals'  = IF "seal" \in left THEN k.seals ELSE st.seals
      /\ latest' = IF "latest" \in left THEN k.latest ELSE st.latest
  BY <1>1, <1>4, <1>6, <1>7
<1> HIDE DEF l, left
<1>9. r.at = l /\ r.todo = left
  BY <1>1, IdleFields
<1> HIDE DEF r
<1>10. /\ InFlight' = {p} /\ run'[p] = r
       /\ StoreTracks(p, run[p], k)' => Tracks(p, run[p], k)'
  BY <1>1, <1>2, <1>3, <1>9, FinalizeTracks DEF Deciding
<1>11. StoreTracks(p, run[p], k)'
  BY <1>1, <1>2, <1>8, <1>9, <1>10 DEF StoreTracks, SameStore, Forming, st
<1> QED
  BY <1>10, <1>11

LEMMA WriteBodyFollows ==
    ASSUME FlightTyped, StoreSound, LoneSound, NEW p \in CronRuns, NEW k, Tracks(p, run[p], k),
           WriteBody(p) \/ ReadAudit(p) \/ WriteAudit(p)
    PROVE  InFlight' = {p} /\ Tracks(p, run[p], k)'
<1> DEFINE s  == run[p].seal
           st == DecidedIn(k)
<1>1. /\ p \in Handlers /\ p \notin Voters /\ p \notin Depositors
      /\ DOMAIN run[p] = DOMAIN Idle /\ run[p].at \in {"body", "auditRead", "auditWrite"}
      /\ UNCHANGED <<ledger, candidate, formed, chain, latest>>
  BY StepsAssumption
     DEF WriteBody, ReadAudit, WriteAudit, At, vars, store, Handlers, FlightTyped, HandlersTyped
<1>2. run[p].at \in Deciding /\ Consistent(p, run[p]) /\ StoreTracks(p, run[p], k)
  BY <1>1 DEF Deciding, Tracks, LoneSound, InFlight
<1>3. /\ EvaluateQuorum(candidate.votes) # "attested"
      /\ run[p].at = "auditWrite" => run[p].ids.audit = audit
  BY <1>1, <1>2 DEF Consistent, SealSeen
<1>4. s = SealIn(k) /\ st = Stored(StoreIn(k), s) /\ s.status # "attested"
  BY <1>2, <1>3, SealFollows
<1> HIDE DEF s
<1>5. /\ st.seals = Put(k.seals, Id(s), s) /\ st.chain = k.chain
      /\ st.audit = PushIfMissing(k.audit, Id(s)) /\ st.latest = k.latest
  BY <1>4 DEF Stored, StoreIn
<1> HIDE DEF st
<1>6. ASSUME NEW r, Goto(p, r), r.at \in {"auditRead", "auditWrite", "clear"}, r.seal = s,
             seals' = st.seals, chain' = st.chain, latest' = st.latest,
             audit' = IF r.at = "clear" THEN st.audit ELSE k.audit,
             r.at = "auditWrite" => Id(s) \notin Range(k.audit)
      PROVE  InFlight' = {p} /\ Tracks(p, run[p], k)'
  <2>1. /\ InFlight' = {p} /\ run'[p] = r
        /\ StoreTracks(p, run[p], k)' => Tracks(p, run[p], k)'
    BY <1>1, <1>2, <1>6, FinalizeTracks DEF Deciding
  <2>2. StoreTracks(p, run[p], k)'
    BY <1>1, <1>6, <2>1 DEF StoreTracks, SameStore, Forming, st
  <2> QED
    BY <2>1, <2>2
<1>7. /\ run[p].at = "body" =>
            seals = k.seals /\ chain = k.chain /\ latest = k.latest /\ audit = k.audit
      /\ run[p].at \in {"auditRead", "auditWrite"} =>
            seals = st.seals /\ chain = st.chain /\ latest = st.latest /\ audit = k.audit
      /\ run[p].at = "auditWrite" => Id(s) \notin Range(k.audit)
  BY <1>1, <1>2 DEF StoreTracks, SameStore, StoreIn, st, s
<1>8. CASE WriteBody(p)
  <2> DEFINE r == [run[p] EXCEPT !.at = "auditRead"]
  <2>1. Goto(p, r) /\ r.at = "auditRead" /\ r.seal = s
    BY <1>1, <1>8, IdleFields DEF WriteBody, Move, s
  <2>2. run[p].at = "body" /\ seals' = Put(seals, Id(s), s) /\ audit' = audit
    BY <1>8 DEF WriteBody, At, s
  <2> HIDE DEF r
  <2> QED
    BY <1>1, <1>5, <1>6, <1>7, <2>1, <2>2
<1>9. CASE ReadAudit(p)
  <2> DEFINE l == IF Id(s) \in Range(audit) THEN "clear" ELSE "auditWrite"
             r == [run[p] EXCEPT !.at = l, !.ids = [chain |-> <<>>, audit |-> audit]]
  <2>1. Goto(p, r) /\ run[p].at = "auditRead" /\ UNCHANGED <<seals, audit>>
    BY <1>9 DEF ReadAudit, At, s, vars, store
  <2>2. /\ l \in {"clear", "auditWrite"} /\ (l = "clear" <=> Id(s) \in Range(audit))
    OBVIOUS
  <2> HIDE DEF l
  <2>3. r.at = l /\ r.seal = s
    BY <1>1, IdleFields DEF s
  <2> HIDE DEF r
  <2>4. l = "clear" => st.audit = k.audit
    BY <1>5, <1>7, <2>1, <2>2 DEF PushIfMissing
  <2> QED
    BY <1>1, <1>6, <1>7, <2>1, <2>2, <2>3, <2>4
<1>10. CASE WriteAudit(p)
  <2> DEFINE r == [run[p] EXCEPT !.at = "clear"]
  <2>1. /\ Goto(p, r) /\ run[p].at = "auditWrite"
        /\ audit' = Append(run[p].ids.audit, Id(s)) /\ seals' = seals
    BY <1>10 DEF WriteAudit, At, Move, s
  <2>2. r.at = "clear" /\ r.seal = s
    BY <1>1, IdleFields DEF s
  <2> HIDE DEF r
  <2>3. audit' = st.audit
    BY <1>3, <1>5, <1>7, <2>1 DEF PushIfMissing
  <2> QED
    BY <1>1, <1>6, <1>7, <2>1, <2>2, <2>3
<1> QED
  BY <1>8, <1>9, <1>10

LEMMA ClearFollows ==
    ASSUME FlightTyped, LoneSound, NEW p \in CronRuns, NEW k, Tracks(p, run[p], k),
           ClearCandidate(p)
    PROVE  InFlight' = {p} /\ Tracks(p, run[p], k)'
<1> DEFINE r == [run[p] EXCEPT !.at = "formBalance", !.c = None, !.next = None,
                               !.seal = None, !.ids = None]
<1>1. /\ p \in Handlers /\ p \notin Voters /\ p \notin Depositors
      /\ DOMAIN run[p] = DOMAIN Idle /\ run[p].at = "clear" /\ Goto(p, r)
      /\ UNCHANGED <<v1Balance, balance, hashes, formed, seals, chain, audit, latest>>
  BY StepsAssumption
     DEF ClearCandidate, At, ledger, store, Handlers, FlightTyped, HandlersTyped
<1>2. r.at = "formBalance"
  BY <1>1, IdleFields
<1> HIDE DEF r
<1>3. run'[p] = r /\ InFlight' = {p}
  BY <1>1, <1>2, LoneMoves
<1>4. CopyTyped(k) /\ LedgerTracks(p, run[p], k) /\ StoreTracks(p, run[p], k)
  BY DEF Tracks
<1>5. LedgerTracks(p, run[p], k)'
  BY <1>1, <1>2, <1>3, <1>4, LookingLedger DEF Looking, Deciding
<1>6. CandidateTracks(p, run[p], k)'
  BY <1>1, <1>2, <1>3 DEF CandidateTracks, Taking, Forming, Deciding
<1>7. StoreTracks(p, run[p], k)'
  BY <1>1, <1>2, <1>3, <1>4 DEF StoreTracks, SameStore, Forming
<1> QED
  BY <1>3, <1>4, <1>5, <1>6, <1>7 DEF Tracks

-----------------------------------------------------------------------------
(* A cron run from there to its end.                                        *)

LEMMA LooksFollow ==
    ASSUME FlightTyped, LoneSound, NEW p \in CronRuns, NEW k, Tracks(p, run[p], k),
           ReadBalance(p) \/ CheckCandidate(p) \/ ReadHashes(p)
    PROVE  InFlight' = {p} /\ Tracks(p, run[p], k)'
<1>1. /\ p \in Handlers /\ p \notin Voters /\ p \notin Depositors
      /\ DOMAIN run[p] = DOMAIN Idle /\ run[p].at \in {"formBalance", "formCheck", "formHashes"}
      /\ gate = FALSE
      /\ UNCHANGED <<v1Balance, balance, hashes, candidate, formed, seals, chain, audit, latest>>
  BY StepsAssumption
     DEF ReadBalance, CheckCandidate, ReadHashes, At, vars, ledger, store, Handlers,
         FlightTyped, HandlersTyped, KeysTyped
<1>2. /\ CopyTyped(k) /\ LedgerTracks(p, run[p], k) /\ StoreTracks(p, run[p], k)
      /\ Consistent(p, run[p])
  BY <1>1 DEF Tracks, LoneSound, InFlight
<1>3. /\ candidate = None /\ balance = k.balance /\ hashes = k.hashes /\ formed = k.formed
      /\ SameStore(DecidedIn(k)) /\ balance \in Nat
      /\ run[p].at = "formHashes" => run[p].n = balance + 0
  BY <1>1, <1>2
     DEF Consistent, CandidateSeen, LedgerSeen, Due, LedgerTracks, StoreTracks, Taking, Listed,
         FlightTyped, KeysTyped
<1>4. ASSUME NEW r, Goto(p, r), r.at \in {"sweep", "formCheck", "formHashes", "formAgain"},
             r.at = "sweep" => balance < Threshold,
             r.at = "formAgain" => r.n = balance
      PROVE  InFlight' = {p} /\ Tracks(p, run[p], k)'
  <2>1. run'[p] = r /\ InFlight' = {p}
    BY <1>1, <1>4, LoneMoves
  <2>2. LedgerTracks(p, run[p], k)'
    <3>1. balance + 0 = balance
      BY <1>3
    <3> QED
      BY <1>1, <1>2, <1>3, <1>4, <2>1, <3>1 DEF LedgerTracks, Due, Listed, Taking, Forming
  <2>3. CandidateTracks(p, run[p], k)'
    BY <1>1, <1>3, <1>4, <2>1 DEF CandidateTracks, Taking, Forming, Deciding
  <2>4. StoreTracks(p, run[p], k)'
    BY <1>1, <1>3, <1>4, <2>1 DEF StoreTracks, SameStore, Forming
  <2> QED
    BY <1>2, <2>1, <2>2, <2>3, <2>4 DEF Tracks
<1>5. CASE ReadBalance(p) /\ balance < Threshold
  <2> DEFINE r == [run[p] EXCEPT !.at = "sweep"]
  <2>1. Goto(p, r) /\ r.at = "sweep"
    BY <1>1, <1>5, IdleFields DEF ReadBalance, Move
  <2> HIDE DEF r
  <2> QED
    BY <1>4, <1>5, <2>1
<1>6. CASE ReadBalance(p) /\ ~(balance < Threshold)
  <2> DEFINE r == [run[p] EXCEPT !.at = "formCheck", !.n = balance]
  <2>1. Goto(p, r) /\ r.at = "formCheck"
    BY <1>1, <1>6, IdleFields DEF ReadBalance
  <2> HIDE DEF r
  <2> QED
    BY <1>4, <2>1
<1>7. CASE CheckCandidate(p)
  <2> DEFINE r == [run[p] EXCEPT !.at = "formHashes"]
  <2>1. Goto(p, r) /\ r.at = "formHashes"
    BY <1>1, <1>3, <1>7, IdleFields DEF CheckCandidate, Move
  <2> HIDE DEF r
  <2> QED
    BY <1>4, <2>1
<1>8. CASE ReadHashes(p)
  <2> DEFINE r == [run[p] EXCEPT !.at = "formAgain", !.hs = hashes]
  <2>1. Goto(p, r) /\ r.at = "formAgain" /\ r.n = run[p].n /\ run[p].at = "formHashes"
    BY <1>1, <1>8, IdleFields DEF ReadHashes, At
  <2> HIDE DEF r
  <2>2. r.n = balance
    BY <1>3, <2>1
  <2> QED
    BY <1>4, <2>1, <2>2
<1> QED
  BY <1>5, <1>6, <1>7, <1>8

(* The end of a run: to a reader it is the whole attestation.               *)
LEMMA AttestationCompletes ==
    ASSUME FlightTyped, StoreSound, LoneSound, NEW p \in CronRuns, Tracks(p, run[p], before),
           ClosedUpTo(before.formed), ~disturbed, kills = 0, Sweep(p)
    PROVE  Reserve!VaultAttestation(TRUE)
<1>1. /\ p \in Handlers /\ p \notin Depositors /\ p \notin Voters
      /\ run[p].at = "sweep" /\ End(p)
      /\ UNCHANGED <<ledger, candidate, gate, cycle, formed, closed>>
  BY StepsAssumption DEF Sweep, At, Quiet, Handlers
<1>2. UNCHANGED store
  BY SweepAlone
<1>3. Surroundings
  BY <1>1, <1>2 DEF Surroundings, store, FlightTyped, KeysTyped
<1>4. p \in InFlight /\ InFlight' = {}
  <2>1. Idle.at = "idle" /\ Goto(p, Idle) /\ run[p].at # "idle"
    BY <1>1 DEF Idle, End
  <2> QED
    BY <1>1, <2>1, LoneMoves DEF InFlight
<1>5. PICK k : k = before
  OBVIOUS
<1>6. PICK m : m = KV'
  OBVIOUS
<1>7. Seen = k /\ Seen' = m
  <2>1. Seen' = KV'
    BY <1>4 DEF Seen
  <2> QED
    BY <1>4, <1>5, <1>6, <2>1, SeenInFlight
<1>8. /\ CopyTyped(k) /\ LedgerTracks(p, run[p], k) /\ CandidateTracks(p, run[p], k)
      /\ StoreTracks(p, run[p], k) /\ k.formed + 1 \notin closed
  BY <1>5, NextParcelOpen DEF Tracks
<1>9. /\ m.v1Balance = v1Balance /\ m.balance = balance /\ m.hashes = hashes
      /\ m.candidate = candidate /\ m.formed = formed
      /\ m.seals = seals /\ m.chain = chain /\ m.audit = audit /\ m.latest = latest
  BY <1>1, <1>2, <1>6 DEF KV, ledger, store
<1>10. /\ m.seals = DecidedIn(k).seals /\ m.chain = DecidedIn(k).chain
       /\ m.audit = DecidedIn(k).audit /\ m.latest = DecidedIn(k).latest
  BY <1>1, <1>8, <1>9 DEF StoreTracks, SameStore
<1>11. Unvoted(m.seals) = {}
  BY <1>9 DEF StoreSound
<1>12. m.v1Balance = k.v1Balance
  <2>1. k.v1Balance + 0 = k.v1Balance
    BY <1>8 DEF CopyTyped
  <2> QED
    BY <1>1, <1>8, <1>9, <2>1 DEF LedgerTracks, Due
<1>13. IF k.balance < Threshold
       THEN /\ m.candidate = None
            /\ m.balance = k.balance /\ m.hashes = k.hashes /\ m.formed = k.formed
       ELSE /\ m.candidate = Parcel(DecidedIn(k), k.hashes, k.formed)
            /\ m.balance = k.balance - Threshold
            /\ m.hashes = CarriedForward(k.hashes, k.balance - Threshold)
            /\ m.formed = k.formed + 1
  BY <1>1, <1>8, <1>9 DEF LedgerTracks, CandidateTracks
<1>14. UNCHANGED closed
  BY <1>1
<1> QED
  BY ONLY <1>3, <1>7, <1>8, <1>10, <1>11, <1>12, <1>13, <1>14, AttestationMaps

-----------------------------------------------------------------------------
(* Every step of a lone handler.                                            *)

(* A step keeps the numbers of the parcels apart.                           *)
KeepsNumbers ==
    \/ UNCHANGED formed /\ (candidate' # None => candidate # None /\ candidate'.hash = candidate.hash)
    \/ formed' = formed + 1 /\ candidate'.hash = formed + 1

(* It goes on, and has not met a timeout or been killed.                    *)
Goes(p) == InFlight' = {p} /\ KeepsNumbers /\ UNCHANGED <<retry, disturbed, kills, before, closed>>

LEMMA DepositGoes ==
    ASSUME FlightTyped, LoneSound, NEW p \in Depositors, NEW k, Tracks(p, run[p], k),
           DepositStep(p), ~WriteNext(p), ~WriteCarried(p)
    PROVE  Goes(p) /\ Tracks(p, run[p], k)'
<1>1. CASE WriteV1(p)
  BY <1>1, WriteV1Follows DEF Goes, KeepsNumbers, WriteV1, Quiet, history, store
<1>2. CASE ReadAccrual(p) \/ WriteHashes(p) \/ CheckDeposit(p)
  <2>1. Quiet /\ UNCHANGED <<candidate, formed, retry>>
    BY <1>2 DEF ReadAccrual, WriteHashes, CheckDeposit, vars, store
  <2> QED
    BY <1>2, <2>1, AccrualFollows DEF Goes, KeepsNumbers, Quiet, history
<1>3. CASE CheckAgain(p) \/ ReadTip(p)
  <2>1. Quiet /\ UNCHANGED <<candidate, formed, retry>>
    BY <1>3 DEF CheckAgain, ReadTip, vars, store
  <2> QED
    BY <1>3, <2>1, TipFollows DEF Goes, KeepsNumbers, Quiet, history
<1>4. CASE WriteCandidate(p)
  BY <1>4, WriteCandidateFollows DEF Goes, KeepsNumbers, WriteCandidate, Quiet, history, store
<1>5. CASE WriteOverflow(p)
  BY <1>5, WriteOverflowFollows DEF Goes, KeepsNumbers, WriteOverflow, Quiet, history, store
<1> QED
  BY <1>1, <1>2, <1>3, <1>4, <1>5 DEF DepositStep, FormStep

LEMMA CronGoes ==
    ASSUME FlightTyped, StoreSound, LoneSound, NEW p \in CronRuns, NEW k, Tracks(p, run[p], k),
           CronStep(p), ~Sweep(p)
    PROVE  Goes(p) /\ Tracks(p, run[p], k)'
<1>1. CASE ReadCandidate(p) \/ ReadCronVote(p) \/ WriteCronVote(p) \/ Decide(p)
  <2>1. Quiet /\ UNCHANGED <<formed, retry>>
    BY <1>1 DEF ReadCandidate, ReadCronVote, WriteCronVote, Decide, vars, store
  <2> QED
    BY <1>1, <2>1, VotingFollows DEF Goes, KeepsNumbers, Quiet, history
<1>2. CASE ReadInject(p)
  <2>1. p \in InFlight /\ run[p].at = "inject"
    BY <1>2 DEF ReadInject, At, InFlight, Handlers
  <2> QED
    BY <2>1 DEF LoneSound, Consistent, CandidateSeen
<1>3. CASE ReadIndexes(p)
  BY <1>3, ReadIndexesFollows DEF Goes, KeepsNumbers, ReadIndexes, Quiet, history, vars, store
<1>4. CASE \E key \in run[p].todo : WriteAppend(p, key)
  BY <1>4, WriteAppendFollows DEF Goes, KeepsNumbers, WriteAppend, Quiet, history
<1>5. CASE WriteBody(p) \/ ReadAudit(p) \/ WriteAudit(p)
  <2>1. Quiet /\ UNCHANGED <<candidate, formed, retry>>
    BY <1>5 DEF WriteBody, ReadAudit, WriteAudit, vars, store
  <2> QED
    BY <1>5, <2>1, WriteBodyFollows DEF Goes, KeepsNumbers, Quiet, history
<1>6. CASE ClearCandidate(p)
  BY <1>6, ClearFollows DEF Goes, KeepsNumbers, ClearCandidate, store
<1>7. CASE ReadBalance(p) \/ CheckCandidate(p) \/ ReadHashes(p)
  <2>1. Quiet /\ UNCHANGED <<candidate, formed, retry>>
    BY <1>7 DEF ReadBalance, CheckCandidate, ReadHashes, vars, store
  <2> QED
    BY <1>7, <2>1, LooksFollow DEF Goes, KeepsNumbers, Quiet, history
<1>8. CASE CheckAgain(p) \/ ReadTip(p)
  <2>1. Quiet /\ UNCHANGED <<candidate, formed, retry>>
    BY <1>8 DEF CheckAgain, ReadTip, vars, store
  <2> QED
    BY <1>8, <2>1, TipFollows DEF Goes, KeepsNumbers, Quiet, history
<1>9. CASE WriteCandidate(p)
  BY <1>9, WriteCandidateFollows DEF Goes, KeepsNumbers, WriteCandidate, Quiet, history, store
<1>10. CASE WriteOverflow(p)
  BY <1>10, WriteOverflowFollows DEF Goes, KeepsNumbers, WriteOverflow, Quiet, history, store
<1>11. CASE WriteCarried(p)
  BY <1>11, CronCarriesFollows DEF Goes, KeepsNumbers, WriteCarried, Quiet, history, store
<1> QED
  BY <1>1, <1>2, <1>3, <1>4, <1>5, <1>6, <1>7, <1>8, <1>9, <1>10, <1>11 DEF CronStep, FormStep

LEMMA VoteGoes ==
    ASSUME FlightTyped, LoneSound, NEW p \in Voters, NEW k, Tracks(p, run[p], k), ReadRecord(p)
    PROVE  Goes(p) /\ Tracks(p, run[p], k)'
BY ReadRecordFollows DEF Goes, KeepsNumbers, ReadRecord, Quiet, history, vars, store

LEMMA NumbersStay ==
    ASSUME FlightTyped, Numbered, KeepsNumbers, UNCHANGED closed
    PROVE  Numbered'
<1>1. formed \in Nat
  BY DEF FlightTyped, KeysTyped
<1>2. \A h \in closed : h \in Nat /\ h <= formed
  BY DEF Numbered, ClosedUpTo
<1>3. CASE UNCHANGED formed /\ (candidate' # None => candidate # None /\ candidate'.hash = candidate.hash)
  BY <1>3 DEF Numbered, ClosedUpTo
<1>4. CASE formed' = formed + 1 /\ candidate'.hash = formed + 1
  BY <1>1, <1>2, <1>4 DEF Numbered, ClosedUpTo
<1> QED
  BY <1>3, <1>4 DEF KeepsNumbers

(* A step short of the last one: a reader sees no change.                   *)
LEMMA GoesMaps ==
    ASSUME FlightTyped, FlightTyped', ~disturbed, kills = 0, Followed, NEW p \in InFlight,
           Goes(p), NEW k, k = before, Tracks(p, run[p], k)'
    PROVE  Followed' /\ UNCHANGED Reserve!vars
<1>1. Numbered /\ ClosedUpTo(k.formed)
  BY DEF Followed
<1>2. Numbered'
  BY <1>1, NumbersStay DEF Goes
<1>3. before' = k /\ InFlight' = {p} /\ ClosedUpTo(k.formed)'
  BY <1>1 DEF Goes, ClosedUpTo
<1>4. Followed'
  BY <1>2, <1>3 DEF Followed
<1>5. Seen = k /\ Seen' = k
  <2>1. ~disturbed' /\ kills' = 0
    BY DEF Goes
  <2> QED
    BY <1>3, <2>1 DEF Seen
<1>6. Surroundings
  BY DEF Surroundings, FlightTyped, KeysTyped, Goes
<1> QED
  BY <1>4, <1>5, <1>6, StutterMaps DEF Goes

(* A start, alone: a reader goes on to see what it saw.                     *)
LEMMA StartsMaps ==
    ASSUME FlightTyped, FlightTyped', ~disturbed, ~disturbed', kills = 0, kills' = 0, Followed,
           NEW p, Starts(p), NEW k, k = KV, Tracks(p, run[p], k)'
    PROVE  Followed' /\ UNCHANGED Reserve!vars
<1>1. Numbered /\ k.formed = formed
  BY DEF Followed, KV
<1>2. UNCHANGED <<candidate, formed, retry, closed>>
  BY DEF Starts, vars, store
<1>3. Numbered'
  BY <1>1, <1>2 DEF Numbered, ClosedUpTo
<1>4. before' = k /\ InFlight' = {p} /\ ClosedUpTo(k.formed)'
  BY <1>1, <1>2 DEF Starts, Numbered, ClosedUpTo
<1>5. Followed'
  BY <1>3, <1>4 DEF Followed
<1>6. Seen = k /\ Seen' = k
  BY <1>4 DEF Seen, Starts
<1>7. Surroundings
  BY <1>2 DEF Surroundings, FlightTyped, KeysTyped
<1> QED
  BY <1>2, <1>5, <1>6, <1>7, StutterMaps

(* The end of a handler.                                                    *)
LEMMA EndsFollowed ==
    ASSUME FlightTyped, ~disturbed, kills = 0, Followed, KeepsNumbers, UNCHANGED closed,
           InFlight' = {}
    PROVE  Followed'
BY NumbersStay DEF Followed

LEMMA WindowMaps ==
    ASSUME FlightTyped, ~disturbed, ~disturbed', kills = 0, Followed, WindowCloses
    PROVE  Followed' /\ Reserve!CloseWindow
<1>1. /\ InFlight = {} /\ candidate # None /\ Open(candidate)
      /\ closed' = closed \cup {candidate.hash} /\ UNCHANGED <<vars, run>>
  BY DEF WindowCloses
<1>2. InFlight' = {} /\ Seen = KV /\ Seen' = KV'
  <2>1. InFlight' = {}
    BY <1>1 DEF InFlight
  <2> QED
    BY <1>1, <2>1 DEF Seen
<1>3. KV' = KV /\ UNCHANGED <<candidate, formed>>
  BY <1>1 DEF KV, vars, ledger, store
<1>4. candidate \in Candidates /\ candidate.hash \in Nat
  BY <1>1 DEF FlightTyped, KeysTyped, Candidates
<1>5. Numbered'
  BY <1>1, <1>3, <1>4 DEF Followed, Numbered, ClosedUpTo
<1>6. Followed'
  BY <1>2, <1>5 DEF Followed
<1>7. Surroundings
  BY <1>1 DEF Surroundings, vars, store, FlightTyped, KeysTyped
<1>8. Reserve!CloseWindow
  BY <1>1, <1>2, <1>3, <1>4, <1>7, CloseMaps DEF KV
<1> QED
  BY <1>6, <1>8

-----------------------------------------------------------------------------
(* The refinement.                                                          *)

(* Handlers that have met stay so, and one that was killed too.             *)
LEMMA BeforeTheStep ==
    ASSUME FlightTyped, [SNext]_svars, ~disturbed', kills' = 0
    PROVE  ~disturbed /\ kills = 0
<1>0. kills \in Nat
  BY DEF FlightTyped, HistoryTyped
<1>1. CASE UNCHANGED svars
  BY <1>1 DEF svars, history
<1>2. CASE SNext
  <2>1. \A p, r : Enter(p, r) => ~disturbed /\ kills = 0
    BY DEF Enter, Meet
  <2>2. ASSUME NEW p, DepositStep(p) \/ CronStep(p) \/ VoteStep(p)
        PROVE  ~disturbed /\ kills = 0
    <3>1. Quiet => ~disturbed /\ kills = 0
      BY DEF Quiet, history
    <3>2. ClearCandidate(p) => ~disturbed /\ kills = 0
      BY DEF ClearCandidate
    <3>3. WriteRecord(p) => ~disturbed /\ kills = 0
      BY DEF WriteRecord
    <3>4. Quiet \/ ClearCandidate(p) \/ WriteRecord(p)
      BY <2>2
         DEF DepositStep, CronStep, VoteStep, FormStep, WriteV1, ReadAccrual, WriteHashes,
             CheckDeposit, WriteNext, CheckAgain, ReadTip, WriteCandidate, WriteOverflow,
             WriteCarried, ReadCandidate, ReadCronVote, WriteCronVote, Decide, ReadInject,
             ReadIndexes, WriteAppend, WriteBody, ReadAudit, WriteAudit, ReadBalance,
             CheckCandidate, ReadHashes, Sweep, ReadRecord
    <3> QED
      BY <3>1, <3>2, <3>3, <3>4
  <2>3. \A p : Kill(p) => ~disturbed /\ kills = 0
    BY <1>0 DEF Kill
  <2>4. \A ps : Trigger(ps) => ~disturbed /\ kills = 0
    BY DEF Trigger, Meet
  <2>5. WindowCloses => ~disturbed /\ kills = 0
    BY DEF WindowCloses
  <2> QED
    BY <1>2, <2>1, <2>2, <2>3, <2>4, <2>5 DEF SNext, StartDeposit, StartVote
<1> QED
  BY <1>1, <1>2

(* Every step, while no handler has met another and none was killed, is a   *)
(* whole handler or nothing to a reader.                                    *)
LEMMA StepMaps ==
    ASSUME FlightTyped, FlightTyped', Undisturbed, Followed, [SNext]_svars,
           ~disturbed', kills' = 0
    PROVE  Followed' /\ (Reserve!Next \/ UNCHANGED Reserve!vars)
<1>1. ~disturbed /\ kills = 0
  BY BeforeTheStep
<1>2. /\ StoreSound /\ LoneSound /\ Numbered
      /\ \A p \in InFlight : Tracks(p, run[p], before) /\ ClosedUpTo(before.formed)
  BY <1>1 DEF Undisturbed, Followed
<1>3. CASE UNCHANGED svars
  <2>1. UNCHANGED <<vars, run, kills, disturbed, before, closed>>
    BY <1>3 DEF svars, history
  <2>2. UNCHANGED <<InFlight, KV, retry, gate, cycle>>
    BY <2>1 DEF InFlight, KV, vars, ledger, store
  <2>3. UNCHANGED Seen
    BY <2>1, <2>2 DEF Seen
  <2>4. Followed'
    BY <1>1, <1>3, <2>2
       DEF Followed, Numbered, ClosedUpTo, Tracks, LedgerTracks, CandidateTracks, StoreTracks,
           SameStore, Open, svars, history, vars, ledger, store
  <2> QED
    BY <2>1, <2>2, <2>3, <2>4, StutterMaps DEF Surroundings, FlightTyped, KeysTyped
<1>4. ASSUME NEW p \in Handlers, run[p].at # "idle"
      PROVE  p \in InFlight /\ Tracks(p, run[p], before) /\ ClosedUpTo(before.formed)
  BY <1>2, <1>4 DEF InFlight
<1>5. ASSUME NEW p \in Depositors, DepositStep(p)
      PROVE  Followed' /\ (Reserve!Next \/ UNCHANGED Reserve!vars)
  <2>1. p \in Handlers /\ run[p].at # "idle"
    BY <1>5 DEF Handlers, DepositStep, FormStep, WriteV1, ReadAccrual, WriteHashes, CheckDeposit,
             WriteNext, CheckAgain, ReadTip, WriteCandidate, WriteOverflow, WriteCarried, At
  <2>2. p \in InFlight /\ Tracks(p, run[p], before) /\ ClosedUpTo(before.formed)
    BY <1>4, <2>1
  <2>3. CASE WriteNext(p) \/ WriteCarried(p)
    <3>1. \E amount \in Amounts, sig \in Signatures : Reserve!Deposit(amount, sig)
      BY <1>1, <1>2, <2>2, <2>3, DepositCompletes
    <3>2. /\ End(p) /\ KeepsNumbers /\ UNCHANGED closed
      BY <1>5, <2>3, StepsAssumption DEF WriteNext, WriteCarried, Quiet, KeepsNumbers
    <3>3. InFlight' = {}
      BY <1>2, <2>1, <3>2, LoneMoves DEF End, Idle
    <3> QED
      BY <1>1, <3>1, <3>2, <3>3, EndsFollowed DEF Reserve!Next
  <2>4. CASE ~WriteNext(p) /\ ~WriteCarried(p)
    <3>1. PICK k : k = before
      OBVIOUS
    <3>2. Goes(p) /\ Tracks(p, run[p], k)'
      BY <1>2, <1>5, <2>2, <2>4, <3>1, DepositGoes
    <3> QED
      BY <1>1, <2>2, <3>1, <3>2, GoesMaps
  <2> QED
    BY <2>3, <2>4
<1>6. ASSUME NEW p \in CronRuns, CronStep(p)
      PROVE  Followed' /\ (Reserve!Next \/ UNCHANGED Reserve!vars)
  <2>1. p \in Handlers /\ run[p].at # "idle"
    BY <1>6 DEF Handlers, CronStep, FormStep, ReadCandidate, ReadCronVote, WriteCronVote, Decide,
             ReadInject, ReadIndexes, WriteAppend, WriteBody, ReadAudit, WriteAudit,
             ClearCandidate, ReadBalance, CheckCandidate, ReadHashes, Sweep,
             CheckAgain, ReadTip, WriteCandidate, WriteOverflow, WriteCarried, At
  <2>2. p \in InFlight /\ Tracks(p, run[p], before) /\ ClosedUpTo(before.formed)
    BY <1>4, <2>1
  <2>3. CASE Sweep(p)
    <3>1. Reserve!VaultAttestation(TRUE)
      BY <1>1, <1>2, <2>2, <2>3, AttestationCompletes
    <3>2. /\ End(p) /\ KeepsNumbers /\ UNCHANGED closed
      BY <2>3 DEF Sweep, Quiet, KeepsNumbers
    <3>3. InFlight' = {}
      BY <1>2, <2>1, <3>2, LoneMoves DEF End, Idle
    <3> QED
      BY <1>1, <3>1, <3>2, <3>3, EndsFollowed, StepsAssumption DEF Reserve!Next
  <2>4. CASE ~Sweep(p)
    <3>1. PICK k : k = before
      OBVIOUS
    <3>2. Goes(p) /\ Tracks(p, run[p], k)'
      BY <1>2, <1>6, <2>2, <2>4, <3>1, CronGoes
    <3> QED
      BY <1>1, <2>2, <3>1, <3>2, GoesMaps
  <2> QED
    BY <2>3, <2>4
<1>7. ASSUME NEW p \in Voters, VoteStep(p)
      PROVE  Followed' /\ (Reserve!Next \/ UNCHANGED Reserve!vars)
  <2>1. p \in Handlers /\ run[p].at # "idle"
    BY <1>7 DEF Handlers, VoteStep, ReadRecord, WriteRecord, At
  <2>2. p \in InFlight /\ Tracks(p, run[p], before) /\ ClosedUpTo(before.formed)
    BY <1>4, <2>1
  <2>3. CASE WriteRecord(p)
    <3>1. /\ \E agent \in Sentinels, verdict \in CastVerdicts :
                 Reserve!SubmitAttestation(agent, verdict)
          /\ InFlight' = {} /\ candidate'.hash = candidate.hash /\ candidate # None
      BY <1>1, <1>2, <2>2, <2>3, VoteCompletes
    <3>2. KeepsNumbers /\ UNCHANGED closed
      BY <2>3, <3>1 DEF WriteRecord, KeepsNumbers
    <3>3. Reserve!Sentinels = Sentinels
      BY SameSentinels
    <3> QED
      BY <1>1, <3>1, <3>2, <3>3, EndsFollowed DEF Reserve!Next
  <2>4. CASE ReadRecord(p)
    <3>1. PICK k : k = before
      OBVIOUS
    <3>2. Goes(p) /\ Tracks(p, run[p], k)'
      BY <1>2, <2>2, <2>4, <3>1, VoteGoes
    <3> QED
      BY <1>1, <2>2, <3>1, <3>2, GoesMaps
  <2> QED
    BY <1>7, <2>3, <2>4 DEF VoteStep
<1>8. ASSUME \/ \E p \in Depositors, amount \in Amounts, sig \in Signatures :
                   StartDeposit(p, amount, sig)
             \/ \E p \in Voters, verdict \in CastVerdicts : StartVote(p, verdict)
             \/ \E ps \in (SUBSET CronRuns) \ {{}} : Trigger(ps)
      PROVE  Followed' /\ UNCHANGED Reserve!vars
  <2>1. PICK k : k = KV
    OBVIOUS
  <2>2. \E p : Starts(p) /\ Tracks(p, run[p], k)'
    BY <1>1, <1>2, <1>8, <2>1, StartDepositFollows, StartVoteFollows, TriggerFollows
  <2> QED
    BY <1>1, <2>1, <2>2, StartsMaps
<1>9. ASSUME NEW p \in Handlers, Kill(p) PROVE FALSE
  BY <1>1, <1>9 DEF Kill
<1>10. WindowCloses => Followed' /\ Reserve!Next
  BY <1>1, WindowMaps DEF Reserve!Next
<1>11. CASE SNext
  BY <1>5, <1>6, <1>7, <1>8, <1>9, <1>10, <1>11 DEF SNext
<1> QED
  BY <1>3, <1>11

LEMMA InitFollowed == SInit => Followed
BY DEF SInit, Init, Followed, Numbered, ClosedUpTo, InFlight, Idle

LEMMA AlwaysFollowed == SSpec => []Followed
<1>1. FlightTyped /\ FlightTyped' /\ Undisturbed /\ Followed /\ [SNext]_svars => Followed'
  <2> SUFFICES ASSUME FlightTyped, FlightTyped', Undisturbed, Followed, [SNext]_svars
               PROVE  ~disturbed' /\ kills' = 0 => Followed'
    BY DEF Followed
  <2> QED
    BY StepMaps
<1> QED
  BY <1>1, InitFollowed, TypesHold, AlwaysUndisturbed, PTL DEF SSpec

(* As long as no handler meets another or a timeout and none is killed, the *)
(* accesses of each deposit, vote and cron run amount, to a reader between  *)
(* requests, to one whole handler of SealedReserve.                         *)
THEOREM StepsImplementReserve == SSpec => ImplementsReserve
<1>1. FlightTyped /\ FlightTyped' /\ Undisturbed /\ Followed /\ [SNext]_svars =>
        [~disturbed' /\ kills' = 0 => (Reserve!Next \/ UNCHANGED Reserve!vars)]_svars
  BY StepMaps
<1> QED
  BY <1>1, InitMaps, TypesHold, AlwaysUndisturbed, AlwaysFollowed, PTL DEF SSpec, ImplementsReserve
=============================================================================
