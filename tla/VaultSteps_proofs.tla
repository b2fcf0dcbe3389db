--------------------------- MODULE VaultSteps_proofs ---------------------------
(***************************************************************************)
(* Proofs about VaultSteps, for every council, threshold, set of handlers   *)
(* and bound: types and confirmed votes however handlers overlap and die;   *)
(* the chain, the reserve and its provenance through every kill.            *)
(***************************************************************************)
EXTENDS VaultSteps, SealedReserve_proofs, WellFoundedInduction

-----------------------------------------------------------------------------
(* What every handler holds, overlapping or not.                            *)

Deciding == {"index", "append", "body", "auditRead", "auditWrite", "clear"}
Forming  == {"formAgain", "formTip", "formWrite", "formSet", "formCarry"}

DepositPlaces == {"v1Write", "accrue", "hashWrite", "setNext", "depositCheck"} \cup Forming
VotePlaces    == {"record", "recordWrite"}
CronPlaces    == {"begin", "vote", "voteWrite", "inject", "formBalance", "formCheck",
                  "formHashes", "sweep"} \cup Deciding \cup Forming

(* A handler is at a place of its own with the arguments of its request.    *)
Placed(p, r) ==
    \/ r.at = "idle"
    \/ /\ p \in Depositors /\ r.at \in DepositPlaces
       /\ r.arg \in [amount : Amounts, sig : Signatures]
    \/ /\ p \in Voters /\ r.at \in VotePlaces
       /\ r.arg \in [verdict : CastVerdicts]
    \/ p \in CronRuns /\ r.at \in CronPlaces

(* The copies it goes on to use are what it may write back.                 *)
CopiesTyped(p, r) ==
    /\ r.n \in Nat /\ r.hs \in Seq(Signatures)
    /\ r.at \in {"depositCheck", "formCheck", "formHashes"} \cup Forming => r.n >= Threshold
    /\ r.at = "formWrite" => r.tip \in [seq : Nat, hash : Nat]
    /\ r.at \in {"vote", "voteWrite", "inject"} => r.c \in Candidates /\ r.todo \subseteq Sentinels
    /\ r.at \in {"recordWrite", "voteWrite"} => r.next \in Candidates
    /\ r.at = "recordWrite" => r.next.votes[p] = r.arg.verdict
    /\ IF r.at \in Deciding THEN r.seal \in Seals ELSE r.seal = None

HandlersTyped ==
    /\ DOMAIN run = Handlers
    /\ \A p \in Handlers :
          DOMAIN run[p] = DOMAIN Idle /\ Placed(p, run[p]) /\ CopiesTyped(p, run[p])

KeysTyped ==
    /\ v1Balance \in Nat /\ balance \in Nat /\ formed \in Nat
    /\ hashes \in Seq(Signatures)
    /\ candidate \in Candidates \cup {None}
    /\ DOMAIN seals \subseteq SealIds
    /\ \A id \in DOMAIN seals : seals[id] \in Seals /\ Id(seals[id]) = id
    /\ gate = FALSE /\ cycle = 1

HistoryTyped ==
    /\ kills \in Nat /\ interrupted \in Nat /\ disturbed \in BOOLEAN
    /\ acked \subseteq [hash : Nat, agent : Voters, verdict : CastVerdicts]

FlightTyped == HandlersTyped /\ KeysTyped /\ HistoryTyped

-----------------------------------------------------------------------------
(* Types.                                                                   *)

(* The copies every handler has.                                            *)
LEMMA IdleFields ==
    DOMAIN Idle = {"at", "c", "next", "seal", "n", "hs", "tip", "ids", "todo", "arg", "old"}
BY DEF Idle

(* An idle handler is well-formed.                                          *)
LEMMA IdleTyped ==
    ASSUME NEW p \in Handlers
    PROVE  Placed(p, Idle) /\ CopiesTyped(p, Idle)
<1>1. <<>> \in Seq(Signatures)
  OBVIOUS
<1> QED
  BY <1>1 DEF Idle, Placed, CopiesTyped, Forming, Deciding

(* The other handlers stay as they are when p goes on.                      *)
LEMMA HandlerMoves ==
    ASSUME HandlersTyped, NEW p \in Handlers, NEW r, Goto(p, r)
    PROVE  /\ run'[p] = r
           /\ \A q \in Handlers \ {p} : run'[q] = run[q]
           /\ DOMAIN run' = Handlers
BY DEF HandlersTyped, Goto

LEMMA HandlerStaysTyped ==
    ASSUME HandlersTyped, NEW p \in Handlers, NEW r, Goto(p, r),
           DOMAIN r = DOMAIN Idle, Placed(p, r), CopiesTyped(p, r)
    PROVE  HandlersTyped'
<1>1. ASSUME NEW q \in Handlers
      PROVE  DOMAIN run'[q] = DOMAIN Idle /\ Placed(q, run'[q]) /\ CopiesTyped(q, run'[q])
  BY HandlerMoves DEF HandlersTyped
<1>2. DOMAIN run' = Handlers
  BY HandlerMoves
<1> QED
  BY <1>1, <1>2 DEF HandlersTyped

LEMMA EndTyped ==
    ASSUME HandlersTyped, NEW p \in Handlers, End(p)
    PROVE  HandlersTyped'
BY IdleTyped, HandlerStaysTyped DEF End

(* The keys stay typed when none is written.                                *)
LEMMA KeysQuiet == KeysTyped /\ UNCHANGED vars => KeysTyped'
BY DEF KeysTyped, vars, ledger, store

LEMMA HistoryQuiet == HistoryTyped /\ Quiet => HistoryTyped'
BY DEF HistoryTyped, Quiet, history

-----------------------------------------------------------------------------
LEMMA StartDepositTyped ==
    ASSUME FlightTyped, NEW p \in Depositors, NEW amount \in Amounts, NEW sig \in Signatures,
           StartDeposit(p, amount, sig)
    PROVE  FlightTyped'
<1> DEFINE r == [[Idle EXCEPT !.at = "v1Write", !.n = v1Balance,
                              !.arg = [amount |-> amount, sig |-> sig]]
                    EXCEPT !.old = InFlight \cap CronRuns # {}]
<1>1. p \in Handlers /\ Goto(p, r)
  BY DEF Handlers, StartDeposit, Enter
<1>2. DOMAIN r = DOMAIN Idle /\ Placed(p, r) /\ CopiesTyped(p, r)
  BY IdleTyped, <1>1, IdleFields
     DEF FlightTyped, KeysTyped, Placed, CopiesTyped, Idle, DepositPlaces, Forming, Deciding
<1>3. HandlersTyped'
  BY <1>1, <1>2, HandlerStaysTyped DEF FlightTyped
<1>4. HistoryTyped'
  BY DEF FlightTyped, HistoryTyped, StartDeposit, Enter, Meet
<1> QED
  BY <1>3, <1>4, KeysQuiet DEF FlightTyped, StartDeposit

LEMMA DepositStepTyped ==
    ASSUME FlightTyped, NEW p \in Depositors,
           WriteV1(p) \/ ReadAccrual(p) \/ WriteHashes(p) \/ CheckDeposit(p) \/ WriteNext(p)
    PROVE  FlightTyped'
<1>1. p \in Handlers /\ HandlersTyped /\ KeysTyped /\ HistoryTyped
  BY DEF Handlers, FlightTyped
<1>2. HistoryTyped'
  BY <1>1, HistoryQuiet DEF WriteV1, ReadAccrual, WriteHashes, CheckDeposit, WriteNext
<1>3. /\ DOMAIN run[p] = DOMAIN Idle /\ CopiesTyped(p, run[p])
      /\ run[p].at # "idle" => run[p].arg \in [amount : Amounts, sig : Signatures]
  BY <1>1, StepsAssumption DEF HandlersTyped, Placed
<1>4. /\ Amounts \subseteq Nat \ {0} /\ Threshold \in Nat \ {0}
      /\ run[p].at # "idle" => run[p].arg.amount \in Nat /\ run[p].arg.sig \in Signatures
  <2>1. Amounts \subseteq Nat \ {0} /\ Threshold \in Nat \ {0}
    BY ReserveAssumption
  <2> QED
    BY <1>3, <2>1
<1>5. CASE WriteV1(p)
  <2> DEFINE r == [run[p] EXCEPT !.at = "accrue"]
  <2>1. DOMAIN r = DOMAIN Idle /\ Placed(p, r) /\ CopiesTyped(p, r)
    BY <1>3, <1>5, IdleFields
       DEF WriteV1, At, Placed, CopiesTyped, DepositPlaces, Forming, Deciding
  <2>2. HandlersTyped'
    BY <1>1, <1>5, <2>1, HandlerStaysTyped DEF WriteV1, Move
  <2>3. run[p].n \in Nat /\ run[p].arg.amount \in Nat
    BY <1>3, <1>4, <1>5 DEF WriteV1, At, CopiesTyped
  <2>4. KeysTyped'
    BY <1>1, <1>5, <2>3 DEF WriteV1, KeysTyped, store
  <2> QED
    BY <1>2, <2>2, <2>4 DEF FlightTyped
<1>6. CASE ReadAccrual(p)
  <2> DEFINE n   == balance + run[p].arg.amount
             all == PushIfMissing(hashes, run[p].arg.sig)
             l   == IF all = hashes THEN AfterHashes(n) ELSE "hashWrite"
             r   == [run[p] EXCEPT !.at = l, !.n = n, !.hs = all]
  <2>1. n \in Nat /\ all \in Seq(Signatures)
    <3>1. run[p].arg.amount \in Nat /\ run[p].arg.sig \in Signatures
      BY <1>4, <1>6 DEF ReadAccrual, At
    <3>2. balance \in Nat /\ hashes \in Seq(Signatures)
      BY <1>1 DEF KeysTyped
    <3> QED
      BY <3>1, <3>2, PushIfMissingTyped
  <2>2. /\ l \in {"hashWrite", "setNext", "depositCheck"}
        /\ l = "depositCheck" => n >= Threshold
    BY <1>4, <2>1 DEF AfterHashes
  <2>3. Goto(p, r) /\ At(p, "accrue")
    BY <1>6 DEF ReadAccrual
  <2> HIDE DEF n, all, l
  <2>4. DOMAIN r = DOMAIN Idle /\ Placed(p, r) /\ CopiesTyped(p, r)
    BY <1>3, <2>1, <2>2, <2>3, IdleFields
       DEF At, Placed, CopiesTyped, DepositPlaces, Forming, Deciding
  <2>5. HandlersTyped'
    BY <1>1, <2>3, <2>4, HandlerStaysTyped
  <2> QED
    BY <1>1, <1>2, <1>6, <2>5, KeysQuiet DEF FlightTyped, ReadAccrual
<1>7. CASE WriteHashes(p)
  <2> DEFINE l == AfterHashes(run[p].n)
             r == [run[p] EXCEPT !.at = l]
  <2>1. l \in {"setNext", "depositCheck"} /\ (l = "depositCheck" => run[p].n >= Threshold)
    BY <1>3, <1>4 DEF AfterHashes, CopiesTyped
  <2>2. Goto(p, r) /\ At(p, "hashWrite")
    BY <1>7 DEF WriteHashes, Move
  <2> HIDE DEF l
  <2>3. DOMAIN r = DOMAIN Idle /\ Placed(p, r) /\ CopiesTyped(p, r)
    BY <1>3, <2>1, <2>2, IdleFields
       DEF At, Placed, CopiesTyped, DepositPlaces, Forming, Deciding
  <2>4. HandlersTyped'
    BY <1>1, <2>2, <2>3, HandlerStaysTyped
  <2>5. KeysTyped'
    BY <1>1, <1>3, <1>7 DEF WriteHashes, KeysTyped, CopiesTyped, store
  <2> QED
    BY <1>2, <2>4, <2>5 DEF FlightTyped
<1>8. CASE CheckDeposit(p)
  <2> DEFINE l == IF candidate # None \/ gate THEN "setNext" ELSE "formAgain"
             r == [run[p] EXCEPT !.at = l]
  <2>1. l \in {"setNext", "formAgain"}
    OBVIOUS
  <2>2. Goto(p, r) /\ At(p, "depositCheck")
    BY <1>8 DEF CheckDeposit, Move
  <2> HIDE DEF l
  <2>3. DOMAIN r = DOMAIN Idle /\ Placed(p, r) /\ CopiesTyped(p, r)
    BY <1>3, <2>1, <2>2, IdleFields
       DEF At, Placed, CopiesTyped, DepositPlaces, Forming, Deciding
  <2>4. HandlersTyped'
    BY <1>1, <2>2, <2>3, HandlerStaysTyped
  <2> QED
    BY <1>1, <1>2, <1>8, <2>4, KeysQuiet DEF FlightTyped, CheckDeposit
<1>9. CASE WriteNext(p)
  <2>1. HandlersTyped'
    BY <1>1, <1>9, EndTyped DEF WriteNext
  <2>2. KeysTyped'
    BY <1>1, <1>3, <1>9 DEF WriteNext, KeysTyped, CopiesTyped, store
  <2> QED
    BY <1>2, <2>1, <2>2 DEF FlightTyped
<1> QED
  BY <1>5, <1>6, <1>7, <1>8, <1>9

LEMMA FormStepTyped ==
    ASSUME FlightTyped, NEW p \in Depositors \cup CronRuns, FormStep(p)
    PROVE  FlightTyped'
<1>1. p \in Handlers /\ HandlersTyped /\ KeysTyped /\ HistoryTyped
  BY DEF Handlers, FlightTyped
<1>2. HistoryTyped'
  BY <1>1, HistoryQuiet
     DEF FormStep, CheckAgain, ReadTip, WriteCandidate, WriteOverflow, WriteCarried
<1>3. DOMAIN run[p] = DOMAIN Idle /\ Placed(p, run[p]) /\ CopiesTyped(p, run[p])
  BY <1>1 DEF HandlersTyped
<1>4. Threshold \in Nat \ {0} /\ p \notin Voters /\ ~(p \in Depositors /\ p \in CronRuns)
  BY ReserveAssumption, StepsAssumption
<1>5. CASE CheckAgain(p)
  <2> DEFINE l == IF candidate = None THEN "formTip"
                  ELSE IF p \in Depositors THEN "setNext" ELSE "sweep"
             r == [run[p] EXCEPT !.at = l]
  <2>1. \/ l = "formTip"
        \/ l = "setNext" /\ p \in Depositors
        \/ l = "sweep" /\ p \in CronRuns
    OBVIOUS
  <2>2. Goto(p, r) /\ At(p, "formAgain")
    BY <1>5 DEF CheckAgain, Move
  <2> HIDE DEF l
  <2>3. DOMAIN r = DOMAIN Idle /\ Placed(p, r) /\ CopiesTyped(p, r)
    BY <1>3, <1>4, <2>1, <2>2, IdleFields
       DEF At, Placed, CopiesTyped, DepositPlaces, CronPlaces, Forming, Deciding
  <2>4. HandlersTyped'
    BY <1>1, <2>2, <2>3, HandlerStaysTyped
  <2> QED
    BY <1>1, <1>2, <1>5, <2>4, KeysQuiet DEF FlightTyped, CheckAgain
<1>6. CASE ReadTip(p)
  <2> DEFINE r == [run[p] EXCEPT !.at = "formWrite", !.tip = Tip(seals, latest)]
  <2>1. Tip(seals, latest) \in [seq : Nat, hash : Nat]
    <3>1. latest \in DOMAIN seals => seals[latest].seq \in Nat /\ seals[latest].hash \in Nat
      BY <1>1 DEF KeysTyped, Seals
    <3> QED
      BY <3>1 DEF Tip
  <2>2. Goto(p, r) /\ At(p, "formTip")
    BY <1>6 DEF ReadTip
  <2>3. DOMAIN r = DOMAIN Idle /\ Placed(p, r) /\ CopiesTyped(p, r)
    BY <1>3, <1>4, <2>1, <2>2, IdleFields
       DEF At, Placed, CopiesTyped, DepositPlaces, CronPlaces, Forming, Deciding
  <2>4. HandlersTyped'
    BY <1>1, <2>2, <2>3, HandlerStaysTyped
  <2> QED
    BY <1>1, <1>2, <1>6, <2>4, KeysQuiet DEF FlightTyped, ReadTip
<1>7. CASE WriteCandidate(p)
  <2> DEFINE r == [run[p] EXCEPT !.at = "formSet", !.tip = None]
  <2>1. Goto(p, r) /\ At(p, "formWrite")
    BY <1>7 DEF WriteCandidate
  <2>2. DOMAIN r = DOMAIN Idle /\ Placed(p, r) /\ CopiesTyped(p, r)
    BY <1>3, <1>4, <2>1, IdleFields
       DEF At, Placed, CopiesTyped, DepositPlaces, CronPlaces, Forming, Deciding
  <2>3. HandlersTyped'
    BY <1>1, <2>1, <2>2, HandlerStaysTyped
  <2>4. candidate' \in Candidates
    <3>1. run[p].tip \in [seq : Nat, hash : Nat] /\ run[p].hs \in Seq(Signatures)
      BY <1>3, <2>1 DEF At, CopiesTyped
    <3>2. cycle \in Cycles /\ formed \in Nat
      BY <1>1, ReserveAssumption DEF KeysTyped, Cycles
    <3> QED
      BY <1>7, <3>1, <3>2, NewCandidateTyped DEF WriteCandidate
  <2>5. KeysTyped'
    BY <1>1, <1>7, <2>4 DEF WriteCandidate, KeysTyped, ledger, store
  <2> QED
    BY <1>2, <2>3, <2>5 DEF FlightTyped
<1>8. CASE WriteOverflow(p)
  <2> DEFINE r == [run[p] EXCEPT !.at = "formCarry"]
  <2>1. Goto(p, r) /\ At(p, "formSet")
    BY <1>8 DEF WriteOverflow, Move
  <2>2. DOMAIN r = DOMAIN Idle /\ Placed(p, r) /\ CopiesTyped(p, r)
    BY <1>3, <1>4, <2>1, IdleFields
       DEF At, Placed, CopiesTyped, DepositPlaces, CronPlaces, Forming, Deciding
  <2>3. HandlersTyped'
    BY <1>1, <2>1, <2>2, HandlerStaysTyped
  <2>4. run[p].n \in Nat /\ run[p].n >= Threshold
    BY <1>3, <2>1 DEF At, CopiesTyped, Forming
  <2>5. KeysTyped'
    BY <1>1, <1>4, <1>8, <2>4 DEF WriteOverflow, KeysTyped, store
  <2> QED
    BY <1>2, <2>3, <2>5 DEF FlightTyped
<1>9. CASE WriteCarried(p)
  <2>1. At(p, "formCarry") /\ run[p].n \in Nat /\ run[p].hs \in Seq(Signatures)
    BY <1>3, <1>9 DEF WriteCarried, CopiesTyped
  <2>2. CASE p \in Depositors
    <3>1. HandlersTyped'
      BY <1>1, <1>9, <2>2, EndTyped DEF WriteCarried
    <3>2. run[p].arg.sig \in Signatures
      BY <1>3, <1>4, <2>1, <2>2 DEF At, Placed
    <3>3. hashes' \in Seq(Signatures)
      <4>1. <<run[p].arg.sig>> \in Seq(Signatures) /\ <<>> \in Seq(Signatures)
        BY <3>2
      <4>2. hashes' \in {<<run[p].arg.sig>>, <<>>}
        BY <1>9, <2>2 DEF WriteCarried
      <4> QED
        BY <4>1, <4>2
    <3> QED
      BY <1>1, <1>2, <1>9, <3>1, <3>3 DEF FlightTyped, WriteCarried, KeysTyped, store
  <2>3. CASE p \notin Depositors
    <3> DEFINE r == [run[p] EXCEPT !.at = "sweep", !.n = 0, !.hs = <<>>]
    <3>1. Goto(p, r)
      BY <1>9, <2>3 DEF WriteCarried
    <3>2. <<>> \in Seq(Signatures)
      OBVIOUS
    <3>3. DOMAIN r = DOMAIN Idle /\ Placed(p, r) /\ CopiesTyped(p, r)
      BY <1>3, <1>4, <2>1, <2>3, <3>2, IdleFields
         DEF At, Placed, CopiesTyped, CronPlaces, Forming, Deciding
    <3>4. HandlersTyped'
      BY <1>1, <3>1, <3>3, HandlerStaysTyped
    <3>5. hashes' \in Seq(Signatures)
      BY <1>4, <1>9, <2>1, <2>3, CarriedForwardTyped DEF WriteCarried
    <3> QED
      BY <1>1, <1>2, <1>9, <3>4, <3>5 DEF FlightTyped, WriteCarried, KeysTyped, store
  <2> QED
    BY <2>2, <2>3
<1> QED
  BY <1>5, <1>6, <1>7, <1>8, <1>9 DEF FormStep

(* A vote on a candidate leaves a candidate.                                *)
LEMMA VoteTyped ==
    ASSUME NEW c \in Candidates, NEW a \in Sentinels, NEW w \in Verdicts
    PROVE  /\ [c EXCEPT !.votes[a] = w] \in Candidates
           /\ [c EXCEPT !.votes[a] = w].votes = [c.votes EXCEPT ![a] = w]
BY DEF Candidates, Votes

LEMMA StartVoteTyped ==
    ASSUME FlightTyped, NEW p \in Voters, NEW verdict \in CastVerdicts, StartVote(p, verdict)
    PROVE  FlightTyped'
<1> DEFINE r == [[Idle EXCEPT !.at = "record", !.ids = Id(candidate),
                              !.arg = [verdict |-> verdict]]
                    EXCEPT !.old = InFlight \cap CronRuns # {}]
<1>1. p \in Handlers /\ Goto(p, r)
  BY DEF Handlers, StartVote, Enter
<1>2. DOMAIN r = DOMAIN Idle /\ Placed(p, r) /\ CopiesTyped(p, r)
  BY IdleTyped, <1>1, IdleFields DEF Placed, CopiesTyped, Idle, VotePlaces, Forming, Deciding
<1>3. HandlersTyped'
  BY <1>1, <1>2, HandlerStaysTyped DEF FlightTyped
<1>4. HistoryTyped'
  BY DEF FlightTyped, HistoryTyped, StartVote, Enter, Meet
<1> QED
  BY <1>3, <1>4, KeysQuiet DEF FlightTyped, StartVote

LEMMA VoteStepTyped ==
    ASSUME FlightTyped, NEW p \in Voters, VoteStep(p)
    PROVE  FlightTyped'
<1>1. p \in Handlers /\ HandlersTyped /\ KeysTyped /\ HistoryTyped
  BY DEF Handlers, FlightTyped
<1>2. DOMAIN run[p] = DOMAIN Idle /\ Placed(p, run[p]) /\ CopiesTyped(p, run[p])
  BY <1>1 DEF HandlersTyped
<1>3. /\ p \in Sentinels /\ p \notin Depositors /\ p \notin CronRuns
      /\ run[p].at # "idle" => run[p].arg.verdict \in CastVerdicts
      /\ CastVerdicts \subseteq Verdicts
  BY <1>2, ReserveAssumption, StepsAssumption DEF Placed
<1>4. CASE ReadRecord(p)
  <2>1. At(p, "record") /\ HistoryTyped'
    BY <1>1, <1>4, HistoryQuiet DEF ReadRecord
  <2>2. CASE End(p)
    BY <1>1, <1>4, <2>1, <2>2, EndTyped, KeysQuiet DEF FlightTyped, ReadRecord
  <2>3. CASE ~End(p)
    <3> DEFINE c == [candidate EXCEPT !.votes[p] = run[p].arg.verdict]
               r == [run[p] EXCEPT !.at = "recordWrite", !.next = c]
    <3>1. candidate \in Candidates /\ Goto(p, r)
      BY <1>1, <1>4, <2>3 DEF ReadRecord, KeysTyped
    <3>2. c \in Candidates /\ c.votes = [candidate.votes EXCEPT ![p] = run[p].arg.verdict]
      BY <1>3, <2>1, <3>1, VoteTyped DEF At
    <3>3. candidate.votes \in Votes
      BY <3>1 DEF Candidates
    <3>4. c.votes[p] = run[p].arg.verdict
      BY <1>3, <3>2, <3>3 DEF Votes
    <3> HIDE DEF c
    <3>5. DOMAIN r = DOMAIN Idle /\ Placed(p, r) /\ CopiesTyped(p, r)
      BY <1>2, <1>3, <2>1, <3>2, <3>4, IdleFields
         DEF At, Placed, CopiesTyped, VotePlaces, Forming, Deciding
    <3>6. HandlersTyped'
      BY <1>1, <3>1, <3>5, HandlerStaysTyped
    <3> QED
      BY <1>1, <1>4, <2>1, <3>6, KeysQuiet DEF FlightTyped, ReadRecord
  <2> QED
    BY <2>2, <2>3
<1>5. CASE WriteRecord(p)
  <2>1. At(p, "recordWrite") /\ run[p].next \in Candidates
    BY <1>2, <1>5 DEF WriteRecord, At, CopiesTyped
  <2>2. HandlersTyped'
    BY <1>1, <1>5, EndTyped DEF WriteRecord
  <2>3. KeysTyped'
    BY <1>1, <1>5, <2>1 DEF WriteRecord, KeysTyped, ledger, store
  <2>4. run[p].next.hash \in Nat /\ run[p].arg.verdict \in CastVerdicts
    BY <1>3, <2>1 DEF At, Candidates
  <2>5. HistoryTyped'
    BY <1>1, <1>5, <2>4 DEF WriteRecord, Confirm, HistoryTyped
  <2> QED
    BY <2>2, <2>3, <2>5 DEF FlightTyped
<1> QED
  BY <1>4, <1>5 DEF VoteStep

(* The next silent sentinel is a silent sentinel.                           *)
LEMMA NextSilentIsSilent ==
    ASSUME NEW p \in CronRuns, Silent(p) # {}, Silent(p) \subseteq Sentinels
    PROVE  NextSilent(p) \in Silent(p)
<1> DEFINE S == {i \in DOMAIN Council : Council[i] \in Silent(p)}
<1>1. S # {} /\ S \subseteq Nat
  <2>1. PICK a \in Silent(p) : a \in Sentinels
    OBVIOUS
  <2>2. PICK i \in DOMAIN Council : Council[i] = a
    BY <2>1 DEF Sentinels, Range
  <2>3. DOMAIN Council \subseteq Nat
    BY CouncilAssumption
  <2> QED
    BY <2>1, <2>2, <2>3
<1>2. \E x \in S : \A y \in S : x =< y
  <2>1. PICK x \in S : \A y \in S : ~(<<y, x>> \in OpToRel(<, Nat))
    BY <1>1, NatLessThanWellFounded, WFMin
  <2>2. ASSUME NEW y \in S PROVE x =< y
    <3> HIDE DEF S
    <3>1. x \in Nat /\ y \in Nat
      BY <1>1
    <3>2. y < x => <<y, x>> \in OpToRel(<, Nat)
      BY <3>1 DEF OpToRel
    <3>3. ~(<<y, x>> \in OpToRel(<, Nat))
      BY <2>1
    <3>4. ~(y < x)
      BY <3>2, <3>3, Zenon
    <3> QED
      BY <3>1, <3>4
  <2> QED
    BY <2>2
<1>3. Min(S) \in S
  BY <1>2 DEF Min
<1> QED
  BY <1>3 DEF NextSilent

(* A decided candidate makes a seal.                                        *)
LEMMA SealedTyped ==
    ASSUME NEW c \in Candidates, NEW d \in Statuses
    PROVE  /\ Sealed(c, d) \in Seals /\ Id(Sealed(c, d)) = Id(c)
           /\ Sealed(c, d) =
                [seq |-> c.seq, cycle |-> c.cycle, hash |-> c.hash, prev |-> c.prev,
                 sources |-> c.sources, votes |-> c.votes, status |-> d,
                 pointer |-> d = "attested"]
<1> DEFINE e == EvaluateQuorum(c.votes)
           x == TRUE /\ e = "attested"
           y == d = "attested"
<1>1. Sealed(c, d) =
        [seq |-> c.seq, cycle |-> c.cycle, hash |-> c.hash, prev |-> c.prev,
         sources |-> c.sources, votes |-> c.votes, status |-> d, pointer |-> y]
  <2>1. Sealed(c, d) =
          [[seq |-> c.seq, cycle |-> c.cycle, hash |-> c.hash, prev |-> c.prev,
            sources |-> c.sources, votes |-> c.votes, status |-> e, pointer |-> x]
             EXCEPT !.status = d, !.pointer = y]
    BY DEF Sealed, SealOf
  <2> HIDE DEF e, x, y
  <2> QED
    BY <2>1
<1>2. (d = "attested") \in BOOLEAN
  OBVIOUS
<1> QED
  BY <1>1, <1>2 DEF Candidates, Seals, Id

(* A decision that does not wait is a status.                               *)
LEMMA DecisionIsStatus ==
    ASSUME NEW v, EvaluateQuorum(v) # "waiting"
    PROVE  EvaluateQuorum(v) \in Statuses
BY DEF EvaluateQuorum, Statuses

(* Seals stay well-formed when one is written.                              *)
LEMMA PutTyped ==
    ASSUME KeysTyped, NEW s \in Seals
    PROVE  /\ DOMAIN Put(seals, Id(s), s) \subseteq SealIds
           /\ \A id \in DOMAIN Put(seals, Id(s), s) :
                 /\ Put(seals, Id(s), s)[id] \in Seals
                 /\ Id(Put(seals, Id(s), s)[id]) = id
<1>1. Id(s) \in SealIds
  BY SealIdTyped
<1> HIDE DEF Id
<1> QED
  BY <1>1 DEF KeysTyped, Put

(* So they do when they are swept.                                          *)
LEMMA SweptTyped ==
    ASSUME KeysTyped, NEW st, st.seals = seals
    PROVE  /\ DOMAIN Swept(st, TRUE, {}).seals \subseteq SealIds
           /\ \A id \in DOMAIN Swept(st, TRUE, {}).seals :
                 /\ Swept(st, TRUE, {}).seals[id] \in Seals
                 /\ Id(Swept(st, TRUE, {}).seals[id]) = id
<1> DEFINE todo == Unvoted(st.seals) \ {}
           won  == {id \in todo : QuorumMet(SweptVotes(st.seals[id].votes))}
           swept(id) == [st.seals[id] EXCEPT
                            !.votes   = SweptVotes(@),
                            !.status  = IF id \in won THEN "attested" ELSE @,
                            !.pointer = IF id \in won THEN TRUE ELSE @]
<1>1. CASE todo = {}
  BY <1>1 DEF Swept, KeysTyped
<1>2. CASE todo # {}
  <2>1. Swept(st, TRUE, {}).seals =
          [id \in DOMAIN seals |-> IF id \in todo THEN swept(id) ELSE seals[id]]
    BY <1>2 DEF Swept
  <2>2. ASSUME NEW id \in DOMAIN seals
        PROVE  swept(id) \in Seals /\ Id(swept(id)) = id
    <3>1. seals[id] \in Seals /\ Id(seals[id]) = id
      BY DEF KeysTyped
    <3>2. SweptVotes(seals[id].votes) \in Votes
      <4>1. seals[id].votes \in Votes
        BY <3>1 DEF Seals
      <4> QED
        BY <4>1 DEF SweptVotes, PassUpTo, Votes, Verdicts
    <3> DEFINE w == SweptVotes(seals[id].votes)
               x == IF id \in won THEN "attested" ELSE seals[id].status
               y == IF id \in won THEN TRUE ELSE seals[id].pointer
    <3>3. x \in Statuses /\ y \in BOOLEAN
      BY <3>1 DEF Seals, Statuses
    <3>4. swept(id) = [seals[id] EXCEPT !.votes = w, !.status = x, !.pointer = y]
      BY <3>1 DEF Seals
    <3> HIDE DEF w, x, y, swept
    <3>5. swept(id) \in Seals /\ swept(id).cycle = seals[id].cycle /\ swept(id).seq = seals[id].seq
      BY <3>1, <3>2, <3>3, <3>4 DEF Seals, w
    <3> QED
      BY <3>1, <3>5 DEF Id
  <2> HIDE DEF swept, todo
  <2>3. DOMAIN seals \subseteq SealIds
        /\ \A id \in DOMAIN seals : seals[id] \in Seals /\ Id(seals[id]) = id
    BY DEF KeysTyped
  <2> QED
    BY <2>1, <2>2, <2>3
<1> QED
  BY <1>1, <1>2

LEMMA TriggerTyped ==
    ASSUME FlightTyped, NEW ps \in SUBSET CronRuns, Trigger(ps)
    PROVE  FlightTyped'
<1>1. ASSUME NEW q \in Handlers
      PROVE  DOMAIN run'[q] = DOMAIN Idle /\ Placed(q, run'[q]) /\ CopiesTyped(q, run'[q])
  <2>1. /\ DOMAIN run[q] = DOMAIN Idle /\ Placed(q, run[q]) /\ CopiesTyped(q, run[q])
        /\ run' = [x \in Handlers |-> IF x \in ps THEN [Idle EXCEPT !.at = "begin"]
                                      ELSE [run[x] EXCEPT !.old = x \in InFlight]]
    BY DEF FlightTyped, HandlersTyped, Trigger
  <2>2. CASE q \in ps
    <3>1. run'[q] = [Idle EXCEPT !.at = "begin"]
      BY <2>1, <2>2
    <3> QED
      BY <2>2, <3>1, IdleTyped, IdleFields
         DEF Placed, CopiesTyped, Idle, CronPlaces, Forming, Deciding
  <2>3. CASE q \notin ps
    <3>1. run'[q] = [run[q] EXCEPT !.old = q \in InFlight]
      BY <2>1, <2>3
    <3> QED
      BY <2>1, <3>1, IdleFields DEF Placed, CopiesTyped
  <2> QED
    BY <2>2, <2>3
<1>2. DOMAIN run' = Handlers
  BY DEF Trigger
<1>3. HistoryTyped'
  BY DEF FlightTyped, HistoryTyped, Trigger, Meet
<1> QED
  BY <1>1, <1>2, <1>3, KeysQuiet DEF FlightTyped, HandlersTyped, Trigger

LEMMA CronVotingTyped ==
    ASSUME FlightTyped, NEW p \in CronRuns,
           ReadCandidate(p) \/ ReadCronVote(p) \/ WriteCronVote(p) \/ Decide(p) \/ ReadInject(p)
    PROVE  FlightTyped'
<1>1. p \in Handlers /\ HandlersTyped /\ KeysTyped /\ HistoryTyped
  BY DEF Handlers, FlightTyped
<1>2. HistoryTyped'
  BY <1>1, HistoryQuiet DEF ReadCandidate, ReadCronVote, WriteCronVote, Decide, ReadInject
<1>3. DOMAIN run[p] = DOMAIN Idle /\ Placed(p, run[p]) /\ CopiesTyped(p, run[p])
  BY <1>1 DEF HandlersTyped
<1>4. candidate # None => candidate \in Candidates
  BY <1>1 DEF KeysTyped
<1>5. CASE ReadCandidate(p)
  <2>1. At(p, "begin")
    BY <1>5 DEF ReadCandidate
  <2>2. CASE candidate = None
    <3> DEFINE r == [run[p] EXCEPT !.at = "formBalance"]
    <3>1. Goto(p, r)
      BY <1>5, <2>2 DEF ReadCandidate, Move
    <3>2. DOMAIN r = DOMAIN Idle /\ Placed(p, r) /\ CopiesTyped(p, r)
      BY <1>3, <2>1, IdleFields DEF At, Placed, CopiesTyped, CronPlaces, Forming, Deciding
    <3>3. HandlersTyped'
      BY <1>1, <3>1, <3>2, HandlerStaysTyped
    <3> QED
      BY <1>1, <1>2, <1>5, <3>3, KeysQuiet DEF FlightTyped, ReadCandidate
  <2>3. CASE candidate # None
    <3> DEFINE r == [run[p] EXCEPT !.at = "vote", !.c = candidate, !.todo = Sentinels]
    <3>1. Goto(p, r)
      BY <1>5, <2>3 DEF ReadCandidate
    <3>2. DOMAIN r = DOMAIN Idle /\ Placed(p, r) /\ CopiesTyped(p, r)
      BY <1>3, <1>4, <2>1, <2>3, IdleFields
         DEF At, Placed, CopiesTyped, CronPlaces, Forming, Deciding
    <3>3. HandlersTyped'
      BY <1>1, <3>1, <3>2, HandlerStaysTyped
    <3> QED
      BY <1>1, <1>2, <1>5, <3>3, KeysQuiet DEF FlightTyped, ReadCandidate
  <2> QED
    BY <2>2, <2>3
<1>6. CASE ReadCronVote(p)
  <2> DEFINE a == NextSilent(p)
             w == IF gate THEN "flag" ELSE "pass"
             c == [candidate EXCEPT !.votes[a] = w]
             gone == IF candidate = None THEN TRUE ELSE Id(candidate) # Id(run[p].c)
  <2>1. At(p, "vote") /\ run[p].c \in Candidates /\ run[p].todo \subseteq Sentinels
    BY <1>3, <1>6 DEF ReadCronVote, At, CopiesTyped
  <2>2. a \in Sentinels /\ w \in Verdicts
    <3>1. Silent(p) # {} /\ Silent(p) \subseteq Sentinels
      BY <1>6, <2>1 DEF ReadCronVote, Silent
    <3>2. a \in Silent(p)
      BY <3>1, NextSilentIsSilent
    <3> QED
      BY <3>1, <3>2 DEF Verdicts
  <2>3. /\ gone => Goto(p, [run[p] EXCEPT !.at = "vote", !.todo = run[p].todo \ {a}])
        /\ ~gone => Goto(p, [run[p] EXCEPT !.at = "voteWrite", !.todo = run[p].todo \ {a},
                                           !.next = c])
    BY <1>6 DEF ReadCronVote
  <2>4. ~gone => candidate \in Candidates
    BY <1>4
  <2>5. ~gone => c \in Candidates
    BY <2>2, <2>4, VoteTyped
  <2> HIDE DEF a, c, w, gone
  <2>6. CASE gone
    <3> DEFINE r == [run[p] EXCEPT !.at = "vote", !.todo = run[p].todo \ {a}]
    <3>1. DOMAIN r = DOMAIN Idle /\ Placed(p, r) /\ CopiesTyped(p, r)
      BY <1>3, <2>1, IdleFields DEF At, Placed, CopiesTyped, CronPlaces, Forming, Deciding
    <3>2. HandlersTyped'
      BY <1>1, <2>3, <2>6, <3>1, HandlerStaysTyped
    <3> QED
      BY <1>1, <1>2, <1>6, <3>2, KeysQuiet DEF FlightTyped, ReadCronVote
  <2>7. CASE ~gone
    <3> DEFINE r == [run[p] EXCEPT !.at = "voteWrite", !.todo = run[p].todo \ {a}, !.next = c]
    <3>1. DOMAIN r = DOMAIN Idle /\ Placed(p, r) /\ CopiesTyped(p, r)
      BY <1>3, <2>1, <2>5, <2>7, IdleFields
         DEF At, Placed, CopiesTyped, CronPlaces, Forming, Deciding
    <3>2. HandlersTyped'
      BY <1>1, <2>3, <2>7, <3>1, HandlerStaysTyped
    <3> QED
      BY <1>1, <1>2, <1>6, <3>2, KeysQuiet DEF FlightTyped, ReadCronVote
  <2> QED
    BY <2>6, <2>7
<1>7. CASE WriteCronVote(p)
  <2> DEFINE r == [run[p] EXCEPT !.at = "vote", !.c = run[p].next, !.next = None]
  <2>1. Goto(p, r) /\ At(p, "voteWrite") /\ run[p].next \in Candidates
    BY <1>3, <1>7 DEF WriteCronVote, At, CopiesTyped
  <2>2. DOMAIN r = DOMAIN Idle /\ Placed(p, r) /\ CopiesTyped(p, r)
    BY <1>3, <2>1, IdleFields DEF At, Placed, CopiesTyped, CronPlaces, Forming, Deciding
  <2>3. HandlersTyped'
    BY <1>1, <2>1, <2>2, HandlerStaysTyped
  <2>4. KeysTyped'
    BY <1>1, <1>7, <2>1 DEF WriteCronVote, KeysTyped, ledger, store
  <2> QED
    BY <1>2, <2>3, <2>4 DEF FlightTyped
<1>8. CASE Decide(p)
  <2> DEFINE d == EvaluateQuorum(run[p].c.votes)
             s == Sealed(candidate, d)
  <2>1. /\ At(p, "vote")
        /\ \/ End(p)
           \/ Move(p, "inject")
           \/ Goto(p, [run[p] EXCEPT !.at = "formBalance", !.c = None])
           \/ /\ d # "waiting" /\ candidate # None
              /\ Goto(p, [run[p] EXCEPT !.at = IF d = "attested" THEN "index" ELSE "body",
                                        !.c = None, !.seal = s])
    BY <1>8 DEF Decide
  <2>2. CASE End(p)
    BY <1>1, <1>2, <1>8, <2>2, EndTyped, KeysQuiet DEF FlightTyped, Decide
  <2>3. CASE Move(p, "inject")
    <3> DEFINE r == [run[p] EXCEPT !.at = "inject"]
    <3>1. DOMAIN r = DOMAIN Idle /\ Placed(p, r) /\ CopiesTyped(p, r)
      BY <1>3, <2>1, IdleFields DEF At, Placed, CopiesTyped, CronPlaces, Forming, Deciding
    <3>2. HandlersTyped'
      BY <1>1, <2>3, <3>1, HandlerStaysTyped DEF Move
    <3> QED
      BY <1>1, <1>2, <1>8, <3>2, KeysQuiet DEF FlightTyped, Decide
  <2>4. CASE Goto(p, [run[p] EXCEPT !.at = "formBalance", !.c = None])
    <3> DEFINE r == [run[p] EXCEPT !.at = "formBalance", !.c = None]
    <3>1. DOMAIN r = DOMAIN Idle /\ Placed(p, r) /\ CopiesTyped(p, r)
      BY <1>3, <2>1, IdleFields DEF At, Placed, CopiesTyped, CronPlaces, Forming, Deciding
    <3>2. HandlersTyped'
      BY <1>1, <2>4, <3>1, HandlerStaysTyped
    <3> QED
      BY <1>1, <1>2, <1>8, <3>2, KeysQuiet DEF FlightTyped, Decide
  <2>5. CASE /\ d # "waiting" /\ candidate # None
             /\ Goto(p, [run[p] EXCEPT !.at = IF d = "attested" THEN "index" ELSE "body",
                                       !.c = None, !.seal = s])
    <3> DEFINE l == IF d = "attested" THEN "index" ELSE "body"
               r == [run[p] EXCEPT !.at = l, !.c = None, !.seal = s]
    <3>1. d \in Statuses
      BY <2>5, DecisionIsStatus
    <3>2. s \in Seals
      BY <1>4, <2>5, <3>1, SealedTyped
    <3>3. l \in {"index", "body"} /\ Goto(p, r)
      BY <2>5
    <3> HIDE DEF s, l, d
    <3>4. DOMAIN r = DOMAIN Idle /\ Placed(p, r) /\ CopiesTyped(p, r)
      BY <1>3, <2>1, <3>2, <3>3, IdleFields
         DEF At, Placed, CopiesTyped, CronPlaces, Forming, Deciding
    <3>5. HandlersTyped'
      BY <1>1, <3>3, <3>4, HandlerStaysTyped
    <3> QED
      BY <1>1, <1>2, <1>8, <3>5, KeysQuiet DEF FlightTyped, Decide
  <2> QED
    BY <2>1, <2>2, <2>3, <2>4, <2>5
<1>9. CASE ReadInject(p)
  <2> DEFINE c == [candidate EXCEPT !.votes = FillVotes(candidate.votes, "flag")]
  <2>1. /\ At(p, "inject")
        /\ \/ Goto(p, [run[p] EXCEPT !.at = "formBalance", !.c = None])
           \/ /\ candidate # None
              /\ Goto(p, [run[p] EXCEPT !.at = "voteWrite", !.todo = {}, !.next = c])
    BY <1>9 DEF ReadInject
  <2>2. CASE Goto(p, [run[p] EXCEPT !.at = "formBalance", !.c = None])
    <3> DEFINE r == [run[p] EXCEPT !.at = "formBalance", !.c = None]
    <3>1. DOMAIN r = DOMAIN Idle /\ Placed(p, r) /\ CopiesTyped(p, r)
      BY <1>3, <2>1, IdleFields DEF At, Placed, CopiesTyped, CronPlaces, Forming, Deciding
    <3>2. HandlersTyped'
      BY <1>1, <2>2, <3>1, HandlerStaysTyped
    <3> QED
      BY <1>1, <1>2, <1>9, <3>2, KeysQuiet DEF FlightTyped, ReadInject
  <2>3. CASE /\ candidate # None
             /\ Goto(p, [run[p] EXCEPT !.at = "voteWrite", !.todo = {}, !.next = c])
    <3> DEFINE r == [run[p] EXCEPT !.at = "voteWrite", !.todo = {}, !.next = c]
    <3>1. c \in Candidates
      <4>1. candidate \in Candidates /\ candidate.votes \in Votes /\ "flag" \in Verdicts
        BY <1>4, <2>3 DEF Candidates, Verdicts
      <4>2. FillVotes(candidate.votes, "flag") \in Votes
        BY <4>1, FillVotesCompletes
      <4> QED
        BY <4>1, <4>2 DEF Candidates
    <3> HIDE DEF c
    <3>2. DOMAIN r = DOMAIN Idle /\ Placed(p, r) /\ CopiesTyped(p, r)
      BY <1>3, <2>1, <3>1, IdleFields
         DEF At, Placed, CopiesTyped, CronPlaces, Forming, Deciding
    <3>3. HandlersTyped'
      BY <1>1, <2>3, <3>2, HandlerStaysTyped
    <3> QED
      BY <1>1, <1>2, <1>9, <3>3, KeysQuiet DEF FlightTyped, ReadInject
  <2> QED
    BY <2>1, <2>2, <2>3
<1> QED
  BY <1>5, <1>6, <1>7, <1>8, <1>9

LEMMA FinalizeTyped ==
    ASSUME FlightTyped, NEW p \in CronRuns,
           \/ ReadIndexes(p) \/ \E key \in run[p].todo : WriteAppend(p, key)
           \/ WriteBody(p) \/ ReadAudit(p) \/ WriteAudit(p) \/ ClearCandidate(p)
    PROVE  FlightTyped'
<1>1. p \in Handlers /\ HandlersTyped /\ KeysTyped /\ HistoryTyped
  BY DEF Handlers, FlightTyped
<1>2. ClearCandidate(p) \/ HistoryTyped'
  BY <1>1, HistoryQuiet DEF ReadIndexes, WriteAppend, WriteBody, ReadAudit, WriteAudit
<1>3. DOMAIN run[p] = DOMAIN Idle /\ Placed(p, run[p]) /\ CopiesTyped(p, run[p])
  BY <1>1 DEF HandlersTyped
<1>4. CASE ReadIndexes(p)
  <2> DEFINE ids == [chain |-> chain, audit |-> audit]
             todo == {"chain", "audit", "seal", "latest"}
             r == [run[p] EXCEPT !.at = "append", !.ids = ids, !.todo = todo]
  <2>1. Goto(p, r) /\ At(p, "index")
    BY <1>4 DEF ReadIndexes
  <2> HIDE DEF ids, todo
  <2>2. DOMAIN r = DOMAIN Idle /\ Placed(p, r) /\ CopiesTyped(p, r)
    BY <1>3, <2>1, IdleFields DEF At, Placed, CopiesTyped, CronPlaces, Forming, Deciding
  <2>3. HandlersTyped'
    BY <1>1, <2>1, <2>2, HandlerStaysTyped
  <2> QED
    BY <1>1, <1>2, <1>4, <2>3, KeysQuiet DEF FlightTyped, ReadIndexes, ClearCandidate, At
<1>5. ASSUME NEW key \in run[p].todo, WriteAppend(p, key)
      PROVE  FlightTyped'
  <2> DEFINE left == run[p].todo \ {key}
             l == IF left = {} THEN "clear" ELSE "append"
             r == [run[p] EXCEPT !.at = l, !.todo = left]
  <2>1. Goto(p, r) /\ At(p, "append") /\ l \in {"clear", "append"}
    BY <1>5 DEF WriteAppend
  <2>2. run[p].seal \in Seals
    BY <1>3, <2>1 DEF At, CopiesTyped, Deciding
  <2> HIDE DEF left, l
  <2>3. DOMAIN r = DOMAIN Idle /\ Placed(p, r) /\ CopiesTyped(p, r)
    BY <1>3, <2>1, IdleFields DEF At, Placed, CopiesTyped, CronPlaces, Forming, Deciding
  <2>4. HandlersTyped'
    BY <1>1, <2>1, <2>3, HandlerStaysTyped
  <2>5. seals' \in {seals, Put(seals, Id(run[p].seal), run[p].seal)}
    BY <1>5 DEF WriteAppend
  <2>6. KeysTyped'
    BY <1>1, <1>5, <2>2, <2>5, PutTyped DEF WriteAppend, KeysTyped, ledger
  <2>7. HistoryTyped'
    BY <1>1, <1>5, HistoryQuiet DEF WriteAppend
  <2> QED
    BY <2>4, <2>6, <2>7 DEF FlightTyped
<1>6. CASE WriteBody(p)
  <2> DEFINE r == [run[p] EXCEPT !.at = "auditRead"]
  <2>1. Goto(p, r) /\ At(p, "body")
    BY <1>6 DEF WriteBody, Move
  <2>2. DOMAIN r = DOMAIN Idle /\ Placed(p, r) /\ CopiesTyped(p, r) /\ run[p].seal \in Seals
    BY <1>3, <2>1, IdleFields DEF At, Placed, CopiesTyped, CronPlaces, Forming, Deciding
  <2>3. HandlersTyped'
    BY <1>1, <2>1, <2>2, HandlerStaysTyped
  <2>4. KeysTyped'
    BY <1>1, <1>6, <2>2, PutTyped DEF WriteBody, KeysTyped, ledger
  <2> QED
    BY <1>1, <1>6, <2>3, <2>4, HistoryQuiet DEF FlightTyped, WriteBody
<1>7. CASE ReadAudit(p)
  <2> DEFINE l == IF Id(run[p].seal) \in Range(audit) THEN "clear" ELSE "auditWrite"
             ids == [chain |-> <<>>, audit |-> audit]
             r == [run[p] EXCEPT !.at = l, !.ids = ids]
  <2>1. Goto(p, r) /\ At(p, "auditRead") /\ l \in {"clear", "auditWrite"}
    BY <1>7 DEF ReadAudit
  <2> HIDE DEF l, ids
  <2>2. DOMAIN r = DOMAIN Idle /\ Placed(p, r) /\ CopiesTyped(p, r)
    BY <1>3, <2>1, IdleFields DEF At, Placed, CopiesTyped, CronPlaces, Forming, Deciding
  <2>3. HandlersTyped'
    BY <1>1, <2>1, <2>2, HandlerStaysTyped
  <2> QED
    BY <1>1, <1>7, <2>3, KeysQuiet, HistoryQuiet DEF FlightTyped, ReadAudit
<1>8. CASE WriteAudit(p)
  <2> DEFINE r == [run[p] EXCEPT !.at = "clear"]
  <2>1. Goto(p, r) /\ At(p, "auditWrite")
    BY <1>8 DEF WriteAudit, Move
  <2>2. DOMAIN r = DOMAIN Idle /\ Placed(p, r) /\ CopiesTyped(p, r)
    BY <1>3, <2>1, IdleFields DEF At, Placed, CopiesTyped, CronPlaces, Forming, Deciding
  <2>3. HandlersTyped'
    BY <1>1, <2>1, <2>2, HandlerStaysTyped
  <2>4. KeysTyped'
    BY <1>1, <1>8 DEF WriteAudit, KeysTyped, ledger
  <2> QED
    BY <1>1, <1>8, <2>3, <2>4, HistoryQuiet DEF FlightTyped, WriteAudit
<1>9. CASE ClearCandidate(p)
  <2> DEFINE r == [run[p] EXCEPT !.at = "formBalance", !.c = None, !.next = None,
                                 !.seal = None, !.ids = None]
  <2>1. Goto(p, r) /\ At(p, "clear")
    BY <1>9 DEF ClearCandidate
  <2>2. DOMAIN r = DOMAIN Idle /\ Placed(p, r) /\ CopiesTyped(p, r)
    BY <1>3, <2>1, IdleFields DEF At, Placed, CopiesTyped, CronPlaces, Forming, Deciding
  <2>3. HandlersTyped'
    BY <1>1, <2>1, <2>2, HandlerStaysTyped
  <2>4. KeysTyped' /\ HistoryTyped'
    BY <1>1, <1>9 DEF ClearCandidate, KeysTyped, HistoryTyped, ledger, store
  <2> QED
    BY <2>3, <2>4 DEF FlightTyped
<1> QED
  BY <1>4, <1>5, <1>6, <1>7, <1>8, <1>9

LEMMA CronFormingTyped ==
    ASSUME FlightTyped, NEW p \in CronRuns,
           ReadBalance(p) \/ CheckCandidate(p) \/ ReadHashes(p) \/ Sweep(p)
    PROVE  FlightTyped'
<1>1. p \in Handlers /\ HandlersTyped /\ KeysTyped /\ HistoryTyped
  BY DEF Handlers, FlightTyped
<1>2. HistoryTyped'
  BY <1>1, HistoryQuiet DEF ReadBalance, CheckCandidate, ReadHashes, Sweep
<1>3. DOMAIN run[p] = DOMAIN Idle /\ Placed(p, run[p]) /\ CopiesTyped(p, run[p])
  BY <1>1 DEF HandlersTyped
<1>4. ASSUME Move(p, "sweep"), run[p].at \in {"formBalance", "formCheck"}
      PROVE  HandlersTyped'
  <2> DEFINE r == [run[p] EXCEPT !.at = "sweep"]
  <2>1. DOMAIN r = DOMAIN Idle /\ Placed(p, r) /\ CopiesTyped(p, r)
    BY <1>3, <1>4, IdleFields DEF Placed, CopiesTyped, CronPlaces, Forming, Deciding
  <2> QED
    BY <1>1, <1>4, <2>1, HandlerStaysTyped DEF Move
<1>5. CASE ReadBalance(p)
  <2> DEFINE r == [run[p] EXCEPT !.at = "formCheck", !.n = balance]
  <2>1. /\ At(p, "formBalance")
        /\ Move(p, "sweep") \/ (Goto(p, r) /\ ~(balance < Threshold))
    BY <1>5 DEF ReadBalance
  <2>2. ASSUME Goto(p, r), ~(balance < Threshold)
        PROVE  HandlersTyped'
    <3>1. balance \in Nat /\ Threshold \in Nat
      BY <1>1, ReserveAssumption DEF KeysTyped
    <3>2. balance >= Threshold
      BY <2>2, <3>1
    <3>3. DOMAIN r = DOMAIN Idle /\ Placed(p, r) /\ CopiesTyped(p, r)
      BY <1>3, <2>1, <3>1, <3>2, IdleFields
         DEF At, Placed, CopiesTyped, CronPlaces, Forming, Deciding
    <3> QED
      BY <1>1, <2>2, <3>3, HandlerStaysTyped
  <2>3. HandlersTyped'
    BY <1>4, <2>1, <2>2 DEF At
  <2> QED
    BY <1>1, <1>2, <1>5, <2>3, KeysQuiet DEF FlightTyped, ReadBalance
<1>6. CASE CheckCandidate(p)
  <2> DEFINE r == [run[p] EXCEPT !.at = "formHashes"]
  <2>1. At(p, "formCheck") /\ (Move(p, "sweep") \/ Goto(p, r))
    BY <1>6 DEF CheckCandidate, Move
  <2>2. DOMAIN r = DOMAIN Idle /\ Placed(p, r) /\ CopiesTyped(p, r)
    BY <1>3, <2>1, IdleFields DEF At, Placed, CopiesTyped, CronPlaces, Forming, Deciding
  <2>3. HandlersTyped'
    BY <1>1, <1>4, <2>1, <2>2, HandlerStaysTyped DEF At
  <2> QED
    BY <1>1, <1>2, <1>6, <2>3, KeysQuiet DEF FlightTyped, CheckCandidate
<1>7. CASE ReadHashes(p)
  <2> DEFINE r == [run[p] EXCEPT !.at = "formAgain", !.hs = hashes]
  <2>1. Goto(p, r) /\ At(p, "formHashes") /\ hashes \in Seq(Signatures)
    BY <1>1, <1>7 DEF ReadHashes, KeysTyped
  <2>2. DOMAIN r = DOMAIN Idle /\ Placed(p, r) /\ CopiesTyped(p, r)
    BY <1>3, <2>1, IdleFields DEF At, Placed, CopiesTyped, CronPlaces, Forming, Deciding
  <2>3. HandlersTyped'
    BY <1>1, <2>1, <2>2, HandlerStaysTyped
  <2> QED
    BY <1>1, <1>2, <1>7, <2>3, KeysQuiet DEF FlightTyped, ReadHashes
<1>8. CASE Sweep(p)
  <2>1. HandlersTyped'
    BY <1>1, <1>8, EndTyped DEF Sweep
  <2>2. seals' = Swept(Store, TRUE, {}).seals
    BY <1>1, <1>8 DEF Sweep, SetStore, KeysTyped
  <2>3. Store.seals = seals
    BY DEF Store
  <2>4. KeysTyped'
    BY <1>1, <1>8, <2>2, <2>3, SweptTyped DEF Sweep, KeysTyped, ledger
  <2> QED
    BY <1>2, <2>1, <2>4 DEF FlightTyped
<1> QED
  BY <1>5, <1>6, <1>7, <1>8

LEMMA KillTyped ==
    ASSUME FlightTyped, NEW p \in Handlers, Kill(p)
    PROVE  FlightTyped'
<1>1. HandlersTyped'
  BY EndTyped DEF FlightTyped, Kill
<1>2. IF p \in Depositors THEN run[p].arg.amount \in Nat ELSE TRUE
  <2>1. Placed(p, run[p]) /\ run[p].at # "idle"
    BY DEF FlightTyped, HandlersTyped, Kill, InFlight
  <2>2. p \in Depositors => run[p].arg \in [amount : Amounts, sig : Signatures]
    BY <2>1, StepsAssumption DEF Placed
  <2> QED
    BY <2>2, ReserveAssumption
<1>3. HistoryTyped'
  BY <1>2 DEF FlightTyped, HistoryTyped, Kill
<1> QED
  BY <1>1, <1>3, KeysQuiet DEF FlightTyped, Kill

LEMMA WindowClosesTyped ==
    ASSUME FlightTyped, WindowCloses
    PROVE  FlightTyped'
<1>1. HandlersTyped'
  BY DEF FlightTyped, HandlersTyped, WindowCloses
<1>2. HistoryTyped'
  BY DEF FlightTyped, HistoryTyped, WindowCloses
<1> QED
  BY <1>1, <1>2, KeysQuiet DEF FlightTyped, WindowCloses

LEMMA InitTyped == SInit => FlightTyped
<1> SUFFICES ASSUME SInit PROVE FlightTyped
  OBVIOUS
<1>1. HandlersTyped
  BY IdleTyped DEF SInit, HandlersTyped
<1>2. KeysTyped
  <2>1. <<>> \in Seq(Signatures) /\ DOMAIN [id \in {} |-> None] = {}
    OBVIOUS
  <2> QED
    BY <2>1 DEF SInit, Init, KeysTyped
<1>3. HistoryTyped
  BY DEF SInit, HistoryTyped
<1> QED
  BY <1>1, <1>2, <1>3 DEF FlightTyped

(* Every step keeps the types.                                              *)
LEMMA StepTyped == FlightTyped /\ [SNext]_svars => FlightTyped'
<1> SUFFICES ASSUME FlightTyped, [SNext]_svars PROVE FlightTyped'
  OBVIOUS
<1>1. CASE SNext
  <2>1. ASSUME NEW p \in Depositors,
               \/ \E amount \in Amounts, sig \in Signatures : StartDeposit(p, amount, sig)
               \/ DepositStep(p)
        PROVE  FlightTyped'
    BY <2>1, StartDepositTyped, DepositStepTyped, FormStepTyped DEF DepositStep
  <2>2. ASSUME NEW p \in Voters,
               \/ \E verdict \in CastVerdicts : StartVote(p, verdict)
               \/ VoteStep(p)
        PROVE  FlightTyped'
    BY <2>2, StartVoteTyped, VoteStepTyped
  <2>3. ASSUME NEW p \in CronRuns, CronStep(p)
        PROVE  FlightTyped'
    BY <2>3, CronVotingTyped, FinalizeTyped, CronFormingTyped, FormStepTyped DEF CronStep
  <2> QED
    BY <1>1, <2>1, <2>2, <2>3, TriggerTyped, KillTyped, WindowClosesTyped DEF SNext
<1>2. CASE UNCHANGED svars
  <2>1. UNCHANGED <<vars, run, kills, interrupted, disturbed, acked>>
    BY <1>2 DEF svars, history
  <2> QED
    BY <2>1, KeysQuiet DEF FlightTyped, HandlersTyped, HistoryTyped
<1> QED
  BY <1>1, <1>2

LEMMA TypesHold == SSpec => []FlightTyped
BY InitTyped, StepTyped, PTL DEF SSpec

(* Each key holds what the code may write to it, and each handler is at a   *)
(* place of its own with a candidate to write, also when it was overtaken.  *)
THEOREM StepsTypeCorrect == SSpec => []STypeOK
<1>1. FlightTyped => STypeOK
  <2> SUFFICES ASSUME FlightTyped PROVE STypeOK
    OBVIOUS
  <2>1. ASSUME NEW p \in Handlers
        PROVE  /\ run[p].at \in Places /\ run[p].n \in Nat
               /\ run[p].at \in {"recordWrite", "voteWrite"} => run[p].next \in Candidates
    BY DEF FlightTyped, HandlersTyped, Placed, CopiesTyped, Places, DepositPlaces, VotePlaces,
           CronPlaces, Forming, Deciding
  <2> QED
    BY <2>1 DEF FlightTyped, KeysTyped, STypeOK
<1> QED
  BY <1>1, TypesHold, PTL

-----------------------------------------------------------------------------
(* Confirmed votes.                                                         *)

Holds(c, v) == c.hash = v.hash /\ c.votes[v.agent] = v.verdict

(* What handler p holds of the candidate has confirmed vote v in it, unless *)
(* it is a new vote of the same sentinel; and p has not seen it gone.       *)
CopiesHold(p, r, v) ==
    /\ r.at \in {"vote", "voteWrite", "inject"} => Holds(r.c, v)
    /\ r.at = "voteWrite" => Holds(r.next, v)
    /\ r.at = "recordWrite" => r.next.hash = v.hash /\ (p # v.agent => Holds(r.next, v))
    /\ r.at \in Deciding => Holds(r.seal, v)
    /\ r.at \notin {"formTip", "formWrite"}

AcksHeld ==
    \A v \in acked :
        /\ candidate # None /\ Holds(candidate, v)
        /\ \A p \in Handlers : CopiesHold(p, run[p], v)

(* At these places a handler has no copy of the candidate to write.         *)
Bare == {"idle", "v1Write", "accrue", "hashWrite", "setNext", "depositCheck", "record", "begin",
         "formBalance", "formCheck", "formHashes", "formAgain", "formSet", "formCarry", "sweep"}

(* Handler p goes on as r, which still holds the confirmed votes.           *)
LEMMA OneMoves ==
    ASSUME HandlersTyped, AcksHeld, NEW p \in Handlers, NEW r, Goto(p, r), acked' \subseteq acked,
           \A v \in acked' : candidate' # None /\ Holds(candidate', v) /\ CopiesHold(p, r, v)
    PROVE  AcksHeld'
<1> SUFFICES ASSUME NEW v \in acked', NEW q \in Handlers
             PROVE  /\ candidate' # None /\ Holds(candidate', v)
                    /\ CopiesHold(q, run'[q], v)
  BY DEF AcksHeld
<1> QED
  BY HandlerMoves DEF AcksHeld

(* The same with the candidate and the votes as they were.                  *)
LEMMA OneReads ==
    ASSUME HandlersTyped, AcksHeld, NEW p \in Handlers, NEW r, Goto(p, r),
           UNCHANGED <<candidate, acked>>,
           \A v \in acked : CopiesHold(p, r, v)
    PROVE  AcksHeld'
BY OneMoves DEF AcksHeld

LEMMA BareHolds ==
    ASSUME NEW p, NEW r, NEW v, r.at \in Bare
    PROVE  CopiesHold(p, r, v)
BY DEF CopiesHold, Bare, Deciding

LEMMA OneIsBare ==
    ASSUME HandlersTyped, AcksHeld, NEW p \in Handlers, NEW r, Goto(p, r), r.at \in Bare,
           UNCHANGED <<candidate, acked>>
    PROVE  AcksHeld'
BY OneReads, BareHolds

LEMMA EndIsBare ==
    ASSUME HandlersTyped, AcksHeld, NEW p \in Handlers, End(p), UNCHANGED <<candidate, acked>>
    PROVE  AcksHeld'
BY OneIsBare DEF End, Idle, Bare

(* A vote of another sentinel, added to a copy, leaves the confirmed ones.  *)
LEMMA OtherVoteHolds ==
    ASSUME NEW c \in Candidates, NEW v, Holds(c, v), NEW a \in Sentinels, NEW w,
           v.agent \in Sentinels, v.agent # a
    PROVE  Holds([c EXCEPT !.votes[a] = w], v)
BY DEF Holds, Candidates, Votes

(* The confirmed votes are on the stored candidate, and cast.               *)
LEMMA AckFacts ==
    ASSUME FlightTyped, AcksHeld, NEW v \in acked
    PROVE  /\ candidate \in Candidates /\ Holds(candidate, v)
           /\ v.agent \in Sentinels /\ v.verdict \in Verdicts /\ v.verdict # NoVote
<1>1. v \in [hash : Nat, agent : Voters, verdict : CastVerdicts]
  BY DEF FlightTyped, HistoryTyped
<1>2. candidate # None /\ Holds(candidate, v)
  BY DEF AcksHeld
<1> QED
  BY <1>1, <1>2, ReserveAssumption, StepsAssumption
     DEF FlightTyped, KeysTyped, Verdicts, NoVote

LEMMA DepositKeepsAcks ==
    ASSUME FlightTyped, AcksHeld, NEW p \in Depositors,
           \/ \E amount \in Amounts, sig \in Signatures : StartDeposit(p, amount, sig)
           \/ WriteV1(p) \/ ReadAccrual(p) \/ WriteHashes(p) \/ CheckDeposit(p) \/ WriteNext(p)
    PROVE  AcksHeld'
<1>1. p \in Handlers /\ HandlersTyped /\ DOMAIN run[p] = DOMAIN Idle
  BY DEF Handlers, FlightTyped, HandlersTyped
<1>2. UNCHANGED <<candidate, acked>>
  BY DEF StartDeposit, Enter, WriteV1, ReadAccrual, WriteHashes, CheckDeposit, WriteNext, Quiet,
         history, vars
<1>3. ASSUME NEW amount \in Amounts, NEW sig \in Signatures, StartDeposit(p, amount, sig)
      PROVE  AcksHeld'
  <2> DEFINE r == [[Idle EXCEPT !.at = "v1Write", !.n = v1Balance,
                                !.arg = [amount |-> amount, sig |-> sig]]
                      EXCEPT !.old = InFlight \cap CronRuns # {}]
  <2>1. Goto(p, r) /\ r.at \in Bare
    BY <1>3 DEF StartDeposit, Enter, Idle, Bare
  <2> QED
    BY <1>1, <1>2, <2>1, OneIsBare
<1>4. ASSUME NEW l \in Bare, Move(p, l)
      PROVE  AcksHeld'
  BY <1>1, <1>2, <1>4, OneIsBare, IdleFields DEF Move
<1>5. CASE ReadAccrual(p)
  <2> DEFINE n   == balance + run[p].arg.amount
             all == PushIfMissing(hashes, run[p].arg.sig)
             l   == IF all = hashes THEN AfterHashes(n) ELSE "hashWrite"
             r   == [run[p] EXCEPT !.at = l, !.n = n, !.hs = all]
  <2>1. Goto(p, r) /\ l \in Bare
    BY <1>5 DEF ReadAccrual, AfterHashes, Bare
  <2> HIDE DEF n, all, l
  <2> QED
    BY <1>1, <1>2, <2>1, OneIsBare, IdleFields
<1>6. AfterHashes(run[p].n) \in Bare /\ {"accrue", "setNext", "formAgain"} \subseteq Bare
  BY DEF AfterHashes, Bare
<1> QED
  BY <1>1, <1>2, <1>3, <1>4, <1>5, <1>6, EndIsBare DEF WriteV1, WriteHashes, CheckDeposit, WriteNext

(* With a confirmed vote there is a candidate, so none is formed.           *)
LEMMA FormingKeepsAcks ==
    ASSUME FlightTyped, AcksHeld, NEW p \in Depositors \cup CronRuns, FormStep(p)
    PROVE  AcksHeld'
<1>1. p \in Handlers /\ HandlersTyped /\ DOMAIN run[p] = DOMAIN Idle
  BY DEF Handlers, FlightTyped, HandlersTyped
<1>2. WriteCandidate(p) \/ UNCHANGED candidate
  BY DEF FormStep, CheckAgain, ReadTip, WriteOverflow, WriteCarried, vars
<1>3. UNCHANGED acked
  BY DEF FormStep, CheckAgain, ReadTip, WriteCandidate, WriteOverflow, WriteCarried, Quiet, history
<1>4. ASSUME NEW l \in Bare, Move(p, l), UNCHANGED candidate
      PROVE  AcksHeld'
  BY <1>1, <1>3, <1>4, OneIsBare, IdleFields DEF Move
<1>5. CASE ReadTip(p) \/ WriteCandidate(p)
  <2>1. run[p].at \in {"formTip", "formWrite"}
    BY <1>5 DEF ReadTip, WriteCandidate, At
  <2>2. acked = {}
    BY <1>1, <2>1 DEF AcksHeld, CopiesHold
  <2> QED
    BY <1>3, <2>2 DEF AcksHeld
<1>6. CASE CheckAgain(p)
  <2>1. CASE acked = {}
    BY <1>3, <2>1 DEF AcksHeld
  <2>2. CASE acked # {}
    <3>1. candidate # None
      BY <2>2 DEF AcksHeld
    <3>2. \E l \in Bare : Move(p, l)
      BY <1>6, <3>1 DEF CheckAgain, Bare
    <3> QED
      BY <1>2, <1>4, <1>6, <3>2 DEF CheckAgain, vars
  <2> QED
    BY <2>1, <2>2
<1>7. CASE WriteOverflow(p)
  BY <1>4, <1>7 DEF WriteOverflow, Bare
<1>8. CASE WriteCarried(p)
  <2>1. UNCHANGED candidate
    BY <1>8 DEF WriteCarried
  <2>2. CASE p \in Depositors
    BY <1>1, <1>3, <1>8, <2>1, <2>2, EndIsBare DEF WriteCarried
  <2>3. CASE p \notin Depositors
    <3> DEFINE r == [run[p] EXCEPT !.at = "sweep", !.n = 0, !.hs = <<>>]
    <3>1. Goto(p, r) /\ r.at \in Bare
      BY <1>1, <1>8, <2>3, IdleFields DEF WriteCarried, Bare
    <3> QED
      BY <1>1, <1>3, <2>1, <3>1, OneIsBare
  <2> QED
    BY <2>2, <2>3
<1> QED
  BY <1>5, <1>6, <1>7, <1>8 DEF FormStep

(* A vote replaces only confirmed votes of its own sentinel.                *)
LEMMA VoteKeepsAcks ==
    ASSUME FlightTyped, AcksHeld, NEW p \in Voters,
           (\E verdict \in CastVerdicts : StartVote(p, verdict)) \/ VoteStep(p)
    PROVE  AcksHeld'
<1>1. p \in Handlers /\ HandlersTyped /\ DOMAIN run[p] = DOMAIN Idle /\ CopiesTyped(p, run[p])
  BY DEF Handlers, FlightTyped, HandlersTyped
<1>2. p \in Sentinels
  BY StepsAssumption
<1>3. ASSUME NEW verdict \in CastVerdicts, StartVote(p, verdict)
      PROVE  AcksHeld'
  <2> DEFINE r == [[Idle EXCEPT !.at = "record", !.ids = Id(candidate),
                                !.arg = [verdict |-> verdict]]
                      EXCEPT !.old = InFlight \cap CronRuns # {}]
  <2>1. Goto(p, r) /\ r.at \in Bare /\ UNCHANGED <<candidate, acked>>
    BY <1>3 DEF StartVote, Enter, Idle, Bare, vars
  <2> QED
    BY <1>1, <2>1, OneIsBare
<1>4. CASE ReadRecord(p)
  <2>1. At(p, "record") /\ UNCHANGED <<candidate, acked>>
    BY <1>4 DEF ReadRecord, vars, Quiet, history
  <2>2. CASE End(p)
    BY <1>1, <2>1, <2>2, EndIsBare
  <2>3. CASE ~End(p)
    <3> DEFINE w == run[p].arg.verdict
               c == [candidate EXCEPT !.votes[p] = w]
               r == [run[p] EXCEPT !.at = "recordWrite", !.next = c]
    <3>1. Goto(p, r)
      BY <1>4, <2>3 DEF ReadRecord
    <3>2. ASSUME NEW v \in acked
          PROVE  CopiesHold(p, r, v)
      <4>1. candidate \in Candidates /\ Holds(candidate, v) /\ v.agent \in Sentinels
        BY <3>2, AckFacts
      <4>2. c.hash = v.hash
        BY <4>1 DEF Candidates, Holds
      <4>3. p # v.agent => Holds(c, v)
        BY <1>2, <4>1, OtherVoteHolds
      <4> HIDE DEF c, w
      <4> QED
        BY <1>1, <4>2, <4>3, IdleFields DEF CopiesHold, Deciding
    <3> QED
      BY <1>1, <2>1, <3>1, <3>2, OneReads
  <2> QED
    BY <2>2, <2>3
<1>5. CASE WriteRecord(p)
  <2> DEFINE c == run[p].next
             w == run[p].arg.verdict
  <2>1. /\ At(p, "recordWrite") /\ End(p) /\ candidate' = c
        /\ acked' = Confirm(c.hash, p, w, InFlight = {p})
    BY <1>5 DEF WriteRecord
  <2>2. c \in Candidates /\ c.votes[p] = w /\ candidate' # None
    BY <1>1, <2>1, NoneAssumption DEF At, CopiesTyped
  <2>3. run'[p] = Idle /\ \A q \in Handlers \ {p} : run'[q] = run[q]
    BY <1>1, <2>1, HandlerMoves DEF End
  <2>4. ASSUME NEW v \in acked'
        PROVE  /\ Holds(c, v)
               /\ \A q \in Handlers : CopiesHold(q, run'[q], v)
    <3>1. CASE v \in acked /\ (v.hash # c.hash \/ v.agent # p)
      <4>1. CopiesHold(p, run[p], v) /\ \A q \in Handlers : CopiesHold(q, run[q], v)
        BY <1>1, <3>1 DEF AcksHeld
      <4>2. Holds(c, v)
        BY <2>1, <3>1, <4>1 DEF CopiesHold, At
      <4>3. CopiesHold(p, Idle, v)
        BY BareHolds DEF Idle, Bare
      <4> QED
        BY <2>3, <4>1, <4>2, <4>3
    <3>2. CASE InFlight = {p} /\ v = [hash |-> c.hash, agent |-> p, verdict |-> w]
      <4>1. Holds(c, v)
        BY <2>2, <3>2 DEF Holds
      <4>2. \A q \in Handlers : run'[q].at = "idle"
        BY <2>3, <3>2 DEF InFlight, Idle
      <4>3. \A q \in Handlers : CopiesHold(q, run'[q], v)
        BY <4>2, BareHolds DEF Bare
      <4> QED
        BY <4>1, <4>3
    <3> QED
      BY <2>1, <2>4, <3>1, <3>2 DEF Confirm
  <2> QED
    BY <2>1, <2>2, <2>4 DEF AcksHeld
<1> QED
  BY <1>3, <1>4, <1>5 DEF VoteStep

LEMMA TriggerKeepsAcks ==
    ASSUME FlightTyped, AcksHeld, NEW ps \in (SUBSET CronRuns) \ {{}}, Trigger(ps)
    PROVE  AcksHeld'
<1>1. UNCHANGED <<candidate, acked>>
  BY DEF Trigger, vars
<1>2. ASSUME NEW v \in acked, NEW q \in Handlers
      PROVE  CopiesHold(q, run'[q], v)
  <2>1. CopiesHold(q, run[q], v) /\ DOMAIN run[q] = DOMAIN Idle
    BY DEF AcksHeld, FlightTyped, HandlersTyped
  <2>2. CASE q \in ps
    <3>1. run'[q] = [Idle EXCEPT !.at = "begin"]
      BY <2>2 DEF Trigger
    <3> QED
      BY <3>1, BareHolds DEF Idle, Bare
  <2>3. CASE q \notin ps
    <3>1. run'[q] = [run[q] EXCEPT !.old = q \in InFlight]
      BY <2>3 DEF Trigger
    <3> QED
      BY <2>1, <3>1, IdleFields DEF CopiesHold
  <2> QED
    BY <2>2, <2>3
<1> QED
  BY <1>1, <1>2 DEF AcksHeld

(* The cron votes for the silent, never for a sentinel with a vote.         *)
LEMMA CronVotingKeepsAcks ==
    ASSUME FlightTyped, AcksHeld, NEW p \in CronRuns,
           ReadCandidate(p) \/ ReadCronVote(p) \/ WriteCronVote(p) \/ Decide(p) \/ ReadInject(p)
    PROVE  AcksHeld'
<1>1. p \in Handlers /\ HandlersTyped /\ DOMAIN run[p] = DOMAIN Idle /\ CopiesTyped(p, run[p])
  BY DEF Handlers, FlightTyped, HandlersTyped
<1>2. UNCHANGED acked /\ (WriteCronVote(p) \/ UNCHANGED candidate)
  BY DEF ReadCandidate, ReadCronVote, WriteCronVote, Decide, ReadInject, Quiet, history, vars
<1>3. \A v \in acked : CopiesHold(p, run[p], v)
  BY <1>1 DEF AcksHeld
<1>4. ASSUME UNCHANGED candidate, Goto(p, [run[p] EXCEPT !.at = "formBalance", !.c = None])
      PROVE  AcksHeld'
  BY <1>1, <1>2, <1>4, OneIsBare, IdleFields DEF Bare
<1>5. CASE ReadCandidate(p)
  <2>1. UNCHANGED candidate
    BY <1>5 DEF ReadCandidate, vars
  <2>2. CASE candidate = None
    BY <1>1, <1>2, <1>5, <2>1, <2>2, OneIsBare, IdleFields DEF ReadCandidate, Move, Bare
  <2>3. CASE candidate # None
    <3> DEFINE r == [run[p] EXCEPT !.at = "vote", !.c = candidate, !.todo = Sentinels]
    <3>1. Goto(p, r)
      BY <1>5, <2>3 DEF ReadCandidate
    <3>2. \A v \in acked : CopiesHold(p, r, v)
      BY <1>1, AckFacts, IdleFields DEF CopiesHold, Deciding
    <3> QED
      BY <1>1, <1>2, <2>1, <3>1, <3>2, OneReads
  <2> QED
    BY <2>2, <2>3
<1>6. CASE ReadCronVote(p)
  <2> DEFINE a == NextSilent(p)
             w == IF gate THEN "flag" ELSE "pass"
             c == [candidate EXCEPT !.votes[a] = w]
             gone == IF candidate = None THEN TRUE ELSE Id(candidate) # Id(run[p].c)
             left == run[p].todo \ {a}
  <2>1. /\ At(p, "vote") /\ run[p].todo \subseteq Sentinels /\ UNCHANGED candidate
    BY <1>1, <1>6 DEF ReadCronVote, At, CopiesTyped, vars
  <2>2. a \in Sentinels /\ run[p].c.votes[a] = NoVote
    <3>1. Silent(p) # {} /\ Silent(p) \subseteq Sentinels
      BY <1>6, <2>1 DEF ReadCronVote, Silent
    <3>2. a \in Silent(p)
      BY <3>1, NextSilentIsSilent
    <3> QED
      BY <3>1, <3>2 DEF Silent
  <2>3. /\ gone => Goto(p, [run[p] EXCEPT !.at = "vote", !.todo = left])
        /\ ~gone => Goto(p, [run[p] EXCEPT !.at = "voteWrite", !.todo = left, !.next = c])
    BY <1>6 DEF ReadCronVote
  <2>4. ASSUME NEW v \in acked
        PROVE  Holds(run[p].c, v) /\ Holds(c, v)
    <3>1. Holds(run[p].c, v)
      BY <1>3, <2>1, <2>4 DEF CopiesHold, At
    <3>2. candidate \in Candidates /\ Holds(candidate, v) /\ v.agent \in Sentinels /\ v.verdict # NoVote
      BY <2>4, AckFacts
    <3>3. v.agent # a
      BY <2>2, <3>1, <3>2 DEF Holds
    <3> QED
      BY <2>2, <3>1, <3>2, <3>3, OtherVoteHolds
  <2> HIDE DEF a, w, c, gone, left
  <2>5. CASE gone
    <3> DEFINE r == [run[p] EXCEPT !.at = "vote", !.todo = left]
    <3>1. \A v \in acked : CopiesHold(p, r, v)
      BY <1>1, <2>4, IdleFields DEF CopiesHold, Deciding
    <3> QED
      BY <1>1, <1>2, <2>1, <2>3, <2>5, <3>1, OneReads
  <2>6. CASE ~gone
    <3> DEFINE r == [run[p] EXCEPT !.at = "voteWrite", !.todo = left, !.next = c]
    <3>1. \A v \in acked : CopiesHold(p, r, v)
      BY <1>1, <2>4, IdleFields DEF CopiesHold, Deciding
    <3> QED
      BY <1>1, <1>2, <2>1, <2>3, <2>6, <3>1, OneReads
  <2> QED
    BY <2>5, <2>6
<1>7. CASE WriteCronVote(p)
  <2> DEFINE r == [run[p] EXCEPT !.at = "vote", !.c = run[p].next, !.next = None]
  <2>1. Goto(p, r) /\ At(p, "voteWrite") /\ candidate' = run[p].next /\ candidate' # None
    BY <1>1, <1>7, NoneAssumption DEF WriteCronVote, At, CopiesTyped
  <2>2. \A v \in acked : Holds(run[p].next, v)
    BY <1>3, <2>1 DEF CopiesHold, At
  <2>3. \A v \in acked : CopiesHold(p, r, v)
    BY <1>1, <2>2, IdleFields DEF CopiesHold, Deciding
  <2> QED
    BY <1>1, <1>2, <2>1, <2>2, <2>3, OneMoves
<1>8. CASE Decide(p)
  <2> DEFINE d == EvaluateQuorum(run[p].c.votes)
             s == Sealed(candidate, d)
  <2>1. /\ At(p, "vote") /\ UNCHANGED candidate
        /\ \/ End(p)
           \/ Move(p, "inject")
           \/ Goto(p, [run[p] EXCEPT !.at = "formBalance", !.c = None])
           \/ Goto(p, [run[p] EXCEPT !.at = IF d = "attested" THEN "index" ELSE "body",
                                     !.c = None, !.seal = s])
    BY <1>8 DEF Decide, vars
  <2>2. CASE Move(p, "inject")
    <3> DEFINE r == [run[p] EXCEPT !.at = "inject"]
    <3>1. \A v \in acked : CopiesHold(p, r, v)
      BY <1>1, <1>3, <2>1, IdleFields DEF CopiesHold, At, Deciding
    <3> QED
      BY <1>1, <1>2, <2>1, <2>2, <3>1, OneReads DEF Move
  <2>3. CASE Goto(p, [run[p] EXCEPT !.at = IF d = "attested" THEN "index" ELSE "body",
                                    !.c = None, !.seal = s])
    <3> DEFINE l == IF d = "attested" THEN "index" ELSE "body"
               r == [run[p] EXCEPT !.at = l, !.c = None, !.seal = s]
    <3>1. l \in {"index", "body"} /\ Goto(p, r)
      BY <2>3
    <3>2. \A v \in acked : Holds(s, v)
      <4>1. s.hash = candidate.hash /\ s.votes = candidate.votes
        BY DEF Sealed, SealOf
      <4> QED
        BY <4>1, AckFacts DEF Holds
    <3> HIDE DEF l, s, d
    <3>3. \A v \in acked : CopiesHold(p, r, v)
      BY <1>1, <3>1, <3>2, IdleFields DEF CopiesHold, Deciding
    <3> QED
      BY <1>1, <1>2, <2>1, <3>1, <3>3, OneReads
  <2> QED
    BY <1>1, <1>2, <1>4, <2>1, <2>2, <2>3, EndIsBare
<1>9. CASE ReadInject(p)
  <2> DEFINE c == [candidate EXCEPT !.votes = FillVotes(candidate.votes, "flag")]
             r == [run[p] EXCEPT !.at = "voteWrite", !.todo = {}, !.next = c]
  <2>1. /\ At(p, "inject") /\ UNCHANGED candidate
        /\ \/ Goto(p, [run[p] EXCEPT !.at = "formBalance", !.c = None])
           \/ Goto(p, r)
    BY <1>9 DEF ReadInject, vars
  <2>2. ASSUME NEW v \in acked
        PROVE  CopiesHold(p, r, v)
    <3>1. /\ candidate \in Candidates /\ Holds(candidate, v)
          /\ v.agent \in Sentinels /\ v.verdict # NoVote
      BY <2>2, AckFacts
    <3>2. Holds(c, v)
      BY <3>1 DEF Holds, Candidates, FillVotes
    <3>3. Holds(run[p].c, v)
      BY <1>3, <2>1, <2>2 DEF CopiesHold, At
    <3> HIDE DEF c
    <3> QED
      BY <1>1, <3>2, <3>3, IdleFields DEF CopiesHold, Deciding
  <2> QED
    BY <1>1, <1>2, <1>4, <2>1, <2>2, OneReads
<1> QED
  BY <1>5, <1>6, <1>7, <1>8, <1>9

LEMMA FinalizeKeepsAcks ==
    ASSUME FlightTyped, AcksHeld, NEW p \in CronRuns,
           \/ ReadIndexes(p) \/ \E key \in run[p].todo : WriteAppend(p, key)
           \/ WriteBody(p) \/ ReadAudit(p) \/ WriteAudit(p)
    PROVE  AcksHeld'
<1>1. p \in Handlers /\ HandlersTyped /\ DOMAIN run[p] = DOMAIN Idle
  BY DEF Handlers, FlightTyped, HandlersTyped
<1>2. UNCHANGED <<candidate, acked>>
  BY DEF ReadIndexes, WriteAppend, WriteBody, ReadAudit, WriteAudit, Quiet, history, vars
<1>3. run[p].at \in Deciding
  BY DEF ReadIndexes, WriteAppend, WriteBody, ReadAudit, WriteAudit, At, Deciding
<1>4. \A v \in acked : Holds(run[p].seal, v)
  BY <1>1, <1>3 DEF AcksHeld, CopiesHold
<1>5. ASSUME NEW l \in Deciding, NEW ids, NEW todo,
             Goto(p, [run[p] EXCEPT !.at = l, !.ids = ids, !.todo = todo])
      PROVE  AcksHeld'
  <2> DEFINE r == [run[p] EXCEPT !.at = l, !.ids = ids, !.todo = todo]
  <2>1. r.at = l /\ r.seal = run[p].seal
    BY <1>1, IdleFields
  <2>2. l \notin {"vote", "voteWrite", "inject", "recordWrite", "formTip", "formWrite"}
    BY DEF Deciding
  <2>3. \A v \in acked : CopiesHold(p, r, v)
    BY <1>4, <2>1, <2>2 DEF CopiesHold
  <2> QED
    BY <1>1, <1>2, <1>5, <2>3, OneReads
<1>6. ASSUME NEW l \in Deciding, Move(p, l)
      PROVE  Goto(p, [run[p] EXCEPT !.at = l, !.ids = run[p].ids, !.todo = run[p].todo])
  BY <1>6 DEF Move
<1>7. CASE ReadIndexes(p)
  BY <1>5, <1>7 DEF ReadIndexes, Deciding
<1>8. ASSUME NEW key \in run[p].todo, WriteAppend(p, key)
      PROVE  AcksHeld'
  <2> DEFINE left == run[p].todo \ {key}
             l == IF left = {} THEN "clear" ELSE "append"
  <2>1. Goto(p, [run[p] EXCEPT !.at = l, !.todo = left]) /\ l \in Deciding
    BY <1>8 DEF WriteAppend, Deciding
  <2> HIDE DEF left, l
  <2>2. Goto(p, [run[p] EXCEPT !.at = l, !.ids = run[p].ids, !.todo = left])
    BY <2>1
  <2> QED
    BY <1>5, <2>1, <2>2
<1>9. CASE WriteBody(p) \/ WriteAudit(p)
  BY <1>5, <1>6, <1>9 DEF WriteBody, WriteAudit, Deciding
<1>10. CASE ReadAudit(p)
  <2> DEFINE l == IF Id(run[p].seal) \in Range(audit) THEN "clear" ELSE "auditWrite"
             ids == [chain |-> <<>>, audit |-> audit]
  <2>1. Goto(p, [run[p] EXCEPT !.at = l, !.ids = ids]) /\ l \in Deciding
    BY <1>10 DEF ReadAudit, Deciding
  <2> HIDE DEF l, ids
  <2>2. Goto(p, [run[p] EXCEPT !.at = l, !.ids = ids, !.todo = run[p].todo])
    BY <2>1
  <2> QED
    BY <1>5, <2>1, <2>2
<1> QED
  BY <1>7, <1>8, <1>9, <1>10

LEMMA CronEndKeepsAcks ==
    ASSUME FlightTyped, AcksHeld, NEW p \in CronRuns,
           \/ ClearCandidate(p) \/ ReadBalance(p) \/ CheckCandidate(p) \/ ReadHashes(p) \/ Sweep(p)
    PROVE  AcksHeld'
<1>1. p \in Handlers /\ HandlersTyped /\ DOMAIN run[p] = DOMAIN Idle
  BY DEF Handlers, FlightTyped, HandlersTyped
<1>2. CASE ClearCandidate(p)
  <2>1. \A v \in acked : v.hash = run[p].seal.hash
    BY <1>1, <1>2 DEF AcksHeld, CopiesHold, ClearCandidate, At, Deciding, Holds
  <2>2. acked' = {}
    BY <1>2, <2>1 DEF ClearCandidate
  <2> QED
    BY <2>2 DEF AcksHeld
<1>3. CASE ReadBalance(p) \/ CheckCandidate(p) \/ ReadHashes(p) \/ Sweep(p)
  <2>1. UNCHANGED <<candidate, acked>>
    BY <1>3 DEF ReadBalance, CheckCandidate, ReadHashes, Sweep, Quiet, history, vars
  <2>2. ASSUME NEW l \in Bare, NEW n, NEW hs,
               Goto(p, [run[p] EXCEPT !.at = l, !.n = n, !.hs = hs])
        PROVE  AcksHeld'
    BY <1>1, <2>1, <2>2, OneIsBare, IdleFields
  <2>3. ASSUME NEW l \in Bare, Move(p, l)
        PROVE  AcksHeld'
    BY <1>1, <2>1, <2>3, OneIsBare, IdleFields DEF Move
  <2>4. /\ Goto(p, [run[p] EXCEPT !.at = "formCheck", !.n = balance])
             => Goto(p, [run[p] EXCEPT !.at = "formCheck", !.n = balance, !.hs = run[p].hs])
        /\ Goto(p, [run[p] EXCEPT !.at = "formAgain", !.hs = hashes])
             => Goto(p, [run[p] EXCEPT !.at = "formAgain", !.n = run[p].n, !.hs = hashes])
    OBVIOUS
  <2>5. {"sweep", "formCheck", "formHashes", "formAgain"} \subseteq Bare
    BY DEF Bare
  <2> QED
    BY <1>1, <1>3, <2>1, <2>2, <2>3, <2>4, <2>5, EndIsBare
       DEF ReadBalance, CheckCandidate, ReadHashes, Sweep
<1> QED
  BY <1>2, <1>3

LEMMA KillKeepsAcks ==
    ASSUME FlightTyped, AcksHeld, NEW p \in Handlers, Kill(p)
    PROVE  AcksHeld'
BY EndIsBare DEF FlightTyped, Kill, vars

(* Every step keeps the confirmed votes.                                    *)
LEMMA StepKeepsAcks == FlightTyped /\ AcksHeld /\ [SNext]_svars => AcksHeld'
<1> SUFFICES ASSUME FlightTyped, AcksHeld, [SNext]_svars PROVE AcksHeld'
  OBVIOUS
<1>1. CASE SNext
  <2>1. ASSUME NEW p \in Depositors,
               \/ \E amount \in Amounts, sig \in Signatures : StartDeposit(p, amount, sig)
               \/ DepositStep(p)
        PROVE  AcksHeld'
    BY <2>1, DepositKeepsAcks, FormingKeepsAcks DEF DepositStep
  <2>2. ASSUME NEW p \in CronRuns, CronStep(p)
        PROVE  AcksHeld'
    BY <2>2, CronVotingKeepsAcks, FinalizeKeepsAcks, CronEndKeepsAcks, FormingKeepsAcks
       DEF CronStep
  <2>3. WindowCloses => AcksHeld'
    BY DEF WindowCloses, AcksHeld, vars
  <2> QED
    BY <1>1, <2>1, <2>2, <2>3, VoteKeepsAcks, TriggerKeepsAcks, KillKeepsAcks DEF SNext
<1>2. CASE UNCHANGED svars
  BY <1>2 DEF svars, vars, history, AcksHeld
<1> QED
  BY <1>1, <1>2

LEMMA AcksAlwaysHeld == SSpec => []AcksHeld
<1>1. SInit => AcksHeld
  BY DEF SInit, AcksHeld
<1> QED
  BY <1>1, TypesHold, StepKeepsAcks, PTL DEF SSpec

(* A vote confirmed by a lone handler is in every later candidate of its    *)
(* parcel and in its seal, however the handlers overlap from then on.       *)
THEOREM ConfirmedVotesStay == SSpec => []ConfirmedVoteCounts
<1>1. FlightTyped /\ AcksHeld => ConfirmedVoteCounts
  <2> SUFFICES ASSUME FlightTyped, AcksHeld, NEW v \in acked
               PROVE  /\ candidate # None /\ candidate.hash = v.hash
                            => candidate.votes[v.agent] = v.verdict
                      /\ \A p \in CronRuns :
                            run[p].seal # None /\ run[p].seal.hash = v.hash
                              => run[p].seal.votes[v.agent] = v.verdict
    BY DEF ConfirmedVoteCounts
  <2>1. Holds(candidate, v) /\ \A p \in Handlers : CopiesHold(p, run[p], v) /\ CopiesTyped(p, run[p])
    BY DEF AcksHeld, FlightTyped, HandlersTyped
  <2>2. \A p \in CronRuns : run[p].seal # None => Holds(run[p].seal, v)
    BY <2>1 DEF Handlers, CopiesHold, CopiesTyped
  <2> QED
    BY <2>1, <2>2 DEF Holds
<1> QED
  BY <1>1, TypesHold, AcksAlwaysHeld, PTL
-----------------------------------------------------------------------------
(* While no handler has met another.                                        *)

Due(p, r) == IF p \in Depositors THEN r.arg.amount ELSE 0

(* By how much the v1 balance is ahead of the reserve while p is in flight. *)
Ahead(p, r) ==
    IF r.at \in {"accrue", "hashWrite", "setNext", "depositCheck",
                 "formAgain", "formTip", "formWrite"} THEN Due(p, r)
    ELSE IF r.at = "formSet" THEN Due(p, r) - Threshold
    ELSE 0

Balanced(ahead) ==
    LET lead == v1Balance - (balance + Threshold * formed) - ahead
    IN  lead <= interrupted /\ 0 <= lead + Threshold * kills

LedgerSeen(p, r) ==
    /\ r.at = "v1Write" => r.n = v1Balance
    /\ r.at \in {"hashWrite", "setNext", "depositCheck", "formCheck", "formHashes",
                 "formAgain", "formTip", "formWrite", "formSet"} => r.n = balance + Due(p, r)
    /\ r.at = "hashWrite" => r.hs # <<>>
    /\ r.at = "setNext" => hashes # <<>>
    /\ r.at \in {"depositCheck"} \cup Forming => r.hs = hashes /\ hashes # <<>>
    /\ r.at = "formCarry" => balance = r.n - Threshold

HeadName(ch) == IF ch = <<>> THEN None ELSE ch[Len(ch)]

(* The chain up to the parcel in flight is b; the parcel extends it, and is *)
(* written to the index or the pointer only when it is to be attested.      *)
ExtendsBase(b) ==
    /\ Linked(seals, b, HeadName(b))
    /\ candidate = None => chain = b /\ latest = HeadName(b)
    /\ candidate # None =>
          /\ chain \in {b, Append(b, Id(candidate))}
          /\ latest \in {HeadName(b), Id(candidate)}
          /\ candidate.seq = Len(b) + 1
          /\ candidate.prev = HeadHash(seals, b)
          /\ chain # b \/ latest = Id(candidate) =>
                Missing(candidate.votes) = {} /\ EvaluateQuorum(candidate.votes) = "attested"

InFlightName == IF candidate = None THEN {} ELSE {Id(candidate)}

StoreSound ==
    /\ ReserveHasSources
    /\ \E b \in Seq(SealIds) : ExtendsBase(b)
    /\ audit \in Seq(SealIds)
    /\ Range(audit) \ InFlightName = DOMAIN seals \ InFlightName
    /\ Unvoted(seals) = {}

SealStored(s) == Id(s) \in DOMAIN seals /\ seals[Id(s)] = s

CandidateSeen(p, r) ==
    /\ r.at \in {"formBalance", "formCheck", "formHashes", "formAgain", "formTip", "formWrite"} =>
          candidate = None
    /\ r.at = "formWrite" => r.tip = Tip(seals, latest)
    /\ r.at \in VotePlaces \cup {"vote", "voteWrite"} \cup Deciding => candidate # None
    /\ r.at = "record" => r.ids = Id(candidate)
    /\ r.at = "recordWrite" => r.next = [candidate EXCEPT !.votes[p] = r.arg.verdict]
    /\ r.at = "vote" => r.c = candidate /\ Missing(candidate.votes) \subseteq r.todo
    /\ r.at = "voteWrite" =>
          \E a \in Missing(candidate.votes) :
             /\ r.next = [candidate EXCEPT !.votes[a] = "pass"]
             /\ Missing(candidate.votes) \ {a} \subseteq r.todo
    /\ r.at # "inject"

SealSeen(p, r) ==
    LET d == EvaluateQuorum(candidate.votes)
        s == r.seal
    IN  r.at \in Deciding =>
          /\ Missing(candidate.votes) = {} /\ s = Sealed(candidate, d)
          /\ r.at \in {"index", "append"} => d = "attested"
          /\ r.at \in {"body", "auditRead", "auditWrite"} => d # "attested"
          /\ r.at = "append" =>
                /\ r.ids.chain = chain \/ "chain" \notin r.todo
                /\ r.ids.audit = audit \/ "audit" \notin r.todo
                /\ "chain" \in r.todo \/ Id(s) \in Range(chain)
                /\ "audit" \in r.todo \/ Id(s) \in Range(audit)
                /\ "seal" \in r.todo \/ SealStored(s)
                /\ "latest" \in r.todo \/ latest = Id(s)
          /\ r.at \in {"auditRead", "auditWrite", "clear"} => SealStored(s)
          /\ r.at = "auditWrite" => r.ids.audit = audit
          /\ r.at = "clear" =>
                /\ Id(s) \in Range(audit)
                /\ d = "attested" => Id(s) \in Range(chain) /\ latest = Id(s)

Consistent(p, r) ==
    /\ Balanced(Ahead(p, r)) /\ LedgerSeen(p, r)
    /\ CandidateSeen(p, r) /\ SealSeen(p, r)

LoneSound ==
    /\ \A p, q \in InFlight : p = q
    /\ InFlight = {} => Balanced(0)
    /\ \A p \in InFlight : Consistent(p, run[p])

Undisturbed == ~disturbed => StoreSound /\ LoneSound

(* One handler is in flight, or none.                                       *)
LEMMA AtMostOne ==
    ASSUME NEW S, IsFiniteSet(S), ~(Cardinality(S) > 1), NEW q \in S
    PROVE  S = {q}
<1>1. Cardinality(S) \in Nat /\ Cardinality(S \ {q}) = Cardinality(S) - 1 /\ IsFiniteSet(S \ {q})
  BY FS_CardinalityType, FS_RemoveElement
<1>2. Cardinality(S \ {q}) \in Nat
  BY <1>1, FS_CardinalityType
<1>3. Cardinality(S \ {q}) = 0
  BY <1>1, <1>2
<1> QED
  BY <1>1, <1>3, FS_EmptySet

(* A handler that starts undisturbed starts alone.                          *)
LEMMA StartsAlone ==
    ASSUME FlightTyped, LoneSound, NEW ps, IsFiniteSet(ps), ps # {}, ps \cap InFlight = {},
           Meet(InFlight \cup ps), ~disturbed'
    PROVE  InFlight = {} /\ \E p \in ps : ps = {p}
<1>1. IsFiniteSet(InFlight)
  <2>1. CASE InFlight = {}
    BY <2>1, FS_EmptySet
  <2>2. CASE InFlight # {}
    <3>1. PICK q \in InFlight : InFlight = {q}
      BY <2>2 DEF LoneSound
    <3> QED
      BY <3>1, FS_Singleton
  <2> QED
    BY <2>1, <2>2
<1>2. IsFiniteSet(InFlight \cup ps) /\ ~(Cardinality(InFlight \cup ps) > 1)
  BY <1>1, FS_Union DEF Meet
<1>3. PICK p \in ps : TRUE
  OBVIOUS
<1>4. InFlight \cup ps = {p}
  BY <1>2, <1>3, AtMostOne
<1> QED
  BY <1>3, <1>4

LEMMA EntersAlone ==
    ASSUME FlightTyped, LoneSound, NEW p \in Handlers, NEW r, Enter(p, r), ~disturbed',
           r.at # "idle", DOMAIN r = DOMAIN Idle
    PROVE  InFlight = {} /\ InFlight' = {p} /\ run'[p] = [r EXCEPT !.old = FALSE]
<1>1. IsFiniteSet({p}) /\ {p} # {} /\ {p} \cap InFlight = {}
  BY FS_Singleton DEF Enter, At, InFlight
<1>2. InFlight = {}
  BY <1>1, StartsAlone DEF Enter
<1>3. Goto(p, [r EXCEPT !.old = FALSE])
  <2>1. (InFlight \cap CronRuns # {}) = FALSE
    BY <1>2
  <2> QED
    BY <2>1 DEF Enter
<1>4. run'[p] = [r EXCEPT !.old = FALSE] /\ \A q \in Handlers \ {p} : run'[q] = run[q]
  BY <1>3, HandlerMoves DEF FlightTyped
<1>5. run'[p].at = r.at
  BY <1>4, IdleFields
<1>6. \A q \in Handlers \ {p} : run'[q].at = "idle"
  BY <1>2, <1>4 DEF InFlight
<1>7. InFlight' = {p}
  BY <1>5, <1>6 DEF InFlight
<1> QED
  BY <1>2, <1>4, <1>7

(* The lone handler goes on, or ends.                                       *)
LEMMA LoneMoves ==
    ASSUME FlightTyped, LoneSound, NEW p \in Handlers, run[p].at # "idle", NEW r, Goto(p, r)
    PROVE  /\ Consistent(p, run[p])
           /\ run'[p] = r
           /\ InFlight' = IF r.at = "idle" THEN {} ELSE {p}
<1>1. p \in InFlight /\ \A q \in Handlers : q # p => run[q].at = "idle"
  BY DEF LoneSound, InFlight
<1>2. run'[p] = r /\ \A q \in Handlers \ {p} : run'[q] = run[q]
  BY HandlerMoves DEF FlightTyped
<1> QED
  BY <1>1, <1>2 DEF InFlight, LoneSound

LEMMA LoneEnds ==
    ASSUME FlightTyped, LoneSound, NEW p \in Handlers, run[p].at # "idle", End(p)
    PROVE  Consistent(p, run[p]) /\ (Balanced(0)' => LoneSound')
<1>1. Idle.at = "idle" /\ Goto(p, Idle)
  BY DEF Idle, End
<1>2. Consistent(p, run[p]) /\ InFlight' = {}
  BY <1>1, LoneMoves
<1> QED
  BY <1>2 DEF LoneSound

LEMMA LoneStays ==
    ASSUME NEW p \in Handlers, InFlight' = {p}, Consistent(p, run[p])'
    PROVE  LoneSound'
BY DEF LoneSound

(* What the store holds is sound as long as nothing but the ledger changes, *)
(* and the ledger keeps its provenance.                                     *)
LEMMA StoreQuiet ==
    ASSUME StoreSound, UNCHANGED <<candidate, seals, chain, audit, latest>>,
           balance' > 0 => hashes' # <<>>
    PROVE  StoreSound'
BY DEF StoreSound, ReserveHasSources, ExtendsBase, InFlightName

LEMMA StoreUnread ==
    ASSUME StoreSound, UNCHANGED vars
    PROVE  StoreSound'
BY StoreQuiet DEF vars, ledger, store, StoreSound, ReserveHasSources

(* The places at which a handler owes the ledger nothing.                   *)
Calm == {"v1Write", "begin", "vote", "voteWrite", "inject", "record", "recordWrite",
         "formBalance", "sweep"} \cup Deciding

LEMMA CalmAhead ==
    ASSUME NEW p, NEW r, r.at \in Calm
    PROVE  Ahead(p, r) = 0
BY DEF Ahead, Calm, Deciding

LEMMA BalancedQuiet ==
    ASSUME NEW n, Balanced(n), UNCHANGED <<v1Balance, balance, formed, interrupted, kills>>
    PROVE  Balanced(n)'
BY DEF Balanced

(* A handler that has no business with the ledger goes on.                  *)
LEMMA CalmMoves ==
    ASSUME FlightTyped, LoneSound, NEW p \in Handlers, run[p].at \in Calm, NEW r, Goto(p, r),
           r.at \in Calm \ {"v1Write"},
           UNCHANGED <<v1Balance, balance, formed, interrupted, kills>>
    PROVE  /\ Consistent(p, run[p])
           /\ run'[p] = r
           /\ CandidateSeen(p, run[p])' /\ SealSeen(p, run[p])' => LoneSound'
<1>1. /\ run[p].at # "idle" /\ r.at # "idle"
      /\ r.at \notin {"hashWrite", "setNext", "depositCheck", "formCheck", "formHashes"} \cup Forming
  BY DEF Calm, Deciding, Forming
<1>2. Consistent(p, run[p]) /\ run'[p] = r /\ InFlight' = {p}
  BY <1>1, LoneMoves
<1>3. Balanced(0)
  BY <1>2, CalmAhead DEF Consistent
<1>4. Balanced(0)'
  BY <1>3, BalancedQuiet
<1>5. Ahead(p, run[p])' = 0
  BY <1>2, CalmAhead
<1>6. LedgerSeen(p, run[p])'
  BY <1>1, <1>2 DEF LedgerSeen, Forming
<1>7. Balanced(Ahead(p, run[p]))'
  BY <1>4, <1>5 DEF Balanced
<1> QED
  BY <1>2, <1>6, <1>7, LoneStays DEF Consistent

LEMMA InitUndisturbed == SInit => Undisturbed
<1> SUFFICES ASSUME SInit PROVE StoreSound /\ LoneSound
  BY DEF Undisturbed
<1>1. /\ v1Balance = 0 /\ balance = 0 /\ hashes = <<>> /\ candidate = None
      /\ seals = [id \in {} |-> None] /\ chain = <<>> /\ audit = <<>>
      /\ latest = None /\ formed = 0 /\ kills = 0 /\ interrupted = 0 /\ InFlight = {}
  BY DEF SInit, Init, InFlight, Idle
<1>2. DOMAIN seals = {} /\ Range(audit) = {} /\ <<>> \in Seq(SealIds) /\ DOMAIN <<>> = {}
  BY <1>1 DEF Range
<1>3. ExtendsBase(<<>>)
  BY <1>1, <1>2 DEF ExtendsBase, Linked, HeadName
<1>4. StoreSound
  <2>1. Unvoted(seals) = {}
    BY <1>2 DEF Unvoted
  <2>2. ReserveHasSources
    BY <1>1, <1>2 DEF ReserveHasSources
  <2>3. InFlightName = {} /\ audit \in Seq(SealIds) /\ Range(audit) \ {} = DOMAIN seals \ {}
    BY <1>1, <1>2 DEF InFlightName
  <2> QED
    BY <1>2, <1>3, <2>1, <2>2, <2>3 DEF StoreSound
<1>5. Balanced(0)
  BY <1>1, ReserveAssumption DEF Balanced
<1> QED
  BY <1>1, <1>4, <1>5 DEF LoneSound

-----------------------------------------------------------------------------
(* A lone deposit.                                                          *)

LEMMA StartDepositAlone ==
    ASSUME FlightTyped, StoreSound, LoneSound, NEW p \in Depositors,
           NEW amount \in Amounts, NEW sig \in Signatures,
           StartDeposit(p, amount, sig), ~disturbed'
    PROVE  StoreSound' /\ LoneSound'
<1> DEFINE r == [Idle EXCEPT !.at = "v1Write", !.n = v1Balance,
                             !.arg = [amount |-> amount, sig |-> sig]]
<1>1. p \in Handlers /\ Enter(p, r) /\ r.at = "v1Write" /\ r.n = v1Balance /\ DOMAIN r = DOMAIN Idle
  BY IdleFields DEF Handlers, StartDeposit
<1>2. InFlight = {} /\ InFlight' = {p} /\ run'[p] = [r EXCEPT !.old = FALSE]
  BY <1>1, EntersAlone
<1>3. run'[p].at = "v1Write" /\ run'[p].n = v1Balance
  BY <1>1, <1>2, IdleFields
<1>4. UNCHANGED <<vars, interrupted, kills>>
  BY <1>1 DEF StartDeposit, Enter
<1>5. Balanced(0)'
  BY <1>2, <1>4, BalancedQuiet DEF LoneSound, vars, ledger
<1>6. Consistent(p, run[p])'
  BY <1>3, <1>4, <1>5
     DEF Consistent, Ahead, LedgerSeen, CandidateSeen, SealSeen, Forming, Deciding, VotePlaces,
         vars, ledger, Balanced
<1> QED
  BY <1>1, <1>2, <1>4, <1>6, StoreUnread, LoneStays

(* What a deposit in flight owes the ledger.                                *)
LEMMA DueTyped ==
    ASSUME FlightTyped, NEW p \in Depositors \cup CronRuns, run[p].at # "idle"
    PROVE  /\ Due(p, run[p]) \in Nat
           /\ p \in Depositors => /\ Due(p, run[p]) = run[p].arg.amount
                                  /\ run[p].arg.amount \in Nat /\ run[p].arg.sig \in Signatures
           /\ p \notin Depositors => Due(p, run[p]) = 0
<1>1. Placed(p, run[p])
  BY DEF FlightTyped, HandlersTyped, Handlers
<1>2. p \in Depositors => run[p].arg \in [amount : Amounts, sig : Signatures]
  BY <1>1, StepsAssumption DEF Placed
<1> QED
  BY <1>2, ReserveAssumption DEF Due

(* The numbers of the ledger.                                               *)
LEMMA LedgerTyped ==
    ASSUME FlightTyped
    PROVE  /\ v1Balance \in Nat /\ balance \in Nat /\ formed \in Nat /\ kills \in Nat
           /\ interrupted \in Nat /\ Threshold \in Nat \ {0}
           /\ Threshold * formed \in Nat /\ Threshold * kills \in Nat
           /\ Threshold * (formed + 1) = Threshold * formed + Threshold
           /\ Threshold * (kills + 1) = Threshold * kills + Threshold
<1>1. /\ v1Balance \in Nat /\ balance \in Nat /\ formed \in Nat /\ kills \in Nat
      /\ interrupted \in Nat /\ Threshold \in Nat /\ Threshold # 0
  BY ReserveAssumption DEF FlightTyped, KeysTyped, HistoryTyped
<1> QED
  BY <1>1, OneMoreParcel

LEMMA WriteV1Alone ==
    ASSUME FlightTyped, StoreSound, LoneSound, NEW p \in Depositors, WriteV1(p)
    PROVE  StoreSound' /\ LoneSound'
<1> DEFINE r == [run[p] EXCEPT !.at = "accrue"]
<1>1. /\ p \in Handlers /\ run[p].at = "v1Write" /\ Goto(p, r) /\ DOMAIN run[p] = DOMAIN Idle
      /\ v1Balance' = run[p].n + run[p].arg.amount
      /\ UNCHANGED <<balance, hashes, candidate, store, formed, kills, interrupted>>
  BY DEF WriteV1, At, Move, Quiet, history, Handlers, FlightTyped, HandlersTyped
<1>2. Consistent(p, run[p]) /\ run'[p] = r /\ r.at = "accrue" /\ r.arg = run[p].arg /\ InFlight' = {p}
  BY <1>1, LoneMoves, IdleFields
<1>3. run[p].n = v1Balance /\ Balanced(0)
  BY <1>1, <1>2 DEF Consistent, LedgerSeen, Ahead
<1>4. Ahead(p, run[p])' = run[p].arg.amount
  BY <1>2 DEF Ahead, Due
<1>5. Balanced(Ahead(p, run[p]))'
  <2> DEFINE a == run[p].arg.amount
             sealed == Threshold * formed
             cost == Threshold * kills
  <2>1. a \in Nat
    BY <1>1, DueTyped
  <2>2. /\ v1Balance' = v1Balance + a /\ UNCHANGED <<balance, formed, kills, interrupted>>
    BY <1>1, <1>3
  <2>3. v1Balance \in Nat /\ balance \in Nat /\ interrupted \in Nat /\ sealed \in Nat /\ cost \in Nat
    BY LedgerTyped
  <2>4. /\ v1Balance - (balance + sealed) - 0 <= interrupted
        /\ 0 <= v1Balance - (balance + sealed) - 0 + cost
    BY <1>3 DEF Balanced
  <2> HIDE DEF a, sealed, cost
  <2>5. /\ v1Balance' - (balance + sealed) - a <= interrupted
        /\ 0 <= v1Balance' - (balance + sealed) - a + cost
    BY <2>1, <2>2, <2>3, <2>4
  <2> QED
    BY <1>4, <2>2, <2>5 DEF Balanced, a, sealed, cost
<1>6. LedgerSeen(p, run[p])' /\ CandidateSeen(p, run[p])' /\ SealSeen(p, run[p])'
  BY <1>2 DEF LedgerSeen, CandidateSeen, SealSeen, Forming, Deciding, VotePlaces
<1>7. StoreSound'
  BY <1>1, StoreQuiet DEF store, StoreSound, ReserveHasSources
<1> QED
  BY <1>1, <1>2, <1>5, <1>6, <1>7, LoneStays DEF Consistent

(* The ledger moves with what the handler in flight still owes it.          *)
LEMMA BalancedMoves ==
    ASSUME NEW n, NEW m, Balanced(n), UNCHANGED <<interrupted, kills>>,
           v1Balance' - (balance' + Threshold * formed') - m
              = v1Balance - (balance + Threshold * formed) - n
    PROVE  Balanced(m)'
BY DEF Balanced

(* The places at which a deposit has been counted in v1 alone; a cron run   *)
(* owes nothing there.                                                      *)
Owing == {"accrue", "hashWrite", "setNext", "depositCheck", "formCheck", "formHashes",
          "formAgain", "formTip", "formWrite"}

LEMMA OwingAhead ==
    ASSUME NEW p, NEW r, r.at \in Owing, r.at \in {"formCheck", "formHashes"} => p \notin Depositors
    PROVE  Ahead(p, r) = Due(p, r)
BY DEF Ahead, Due, Owing

(* A handler goes on without a write to the ledger.                         *)
LEMMA OwingMoves ==
    ASSUME FlightTyped, LoneSound, NEW p \in Depositors \cup CronRuns,
           run[p].at \in Owing \cup {"formBalance"}, NEW r, Goto(p, r), r.at \in Owing,
           run[p].at = "formBalance" \/ r.at \in {"formCheck", "formHashes"} => p \in CronRuns,
           r.arg = run[p].arg,
           UNCHANGED <<v1Balance, balance, formed, interrupted, kills>>
    PROVE  /\ Consistent(p, run[p]) /\ run'[p] = r /\ InFlight' = {p}
           /\ Balanced(Ahead(p, run[p]))'
           /\ Due(p, run[p])' = Due(p, run[p])
<1>1. /\ p \in Handlers /\ Placed(p, run[p])
      /\ p \in Depositors => p \notin CronRuns
  BY StepsAssumption DEF Handlers, FlightTyped, HandlersTyped
<1>2. Consistent(p, run[p]) /\ run'[p] = r /\ InFlight' = {p}
  <2>1. run[p].at # "idle" /\ r.at # "idle"
    BY DEF Owing
  <2> QED
    BY <1>1, <2>1, LoneMoves
<1>3. Due(p, run[p])' = Due(p, run[p])
  BY <1>2 DEF Due
<1>4. Ahead(p, run[p]) = Due(p, run[p])
  <2>1. CASE run[p].at = "formBalance"
    BY <1>1, <2>1 DEF Ahead, Due
  <2>2. CASE run[p].at \in Owing
    <3>1. run[p].at \in {"formCheck", "formHashes"} => p \notin Depositors
      BY <1>1 DEF Placed, DepositPlaces, VotePlaces, Forming
    <3> QED
      BY <2>2, <3>1, OwingAhead
  <2> QED
    BY <2>1, <2>2
<1>5. Ahead(p, run[p])' = Due(p, run[p])
  <2>1. Ahead(p, r) = Due(p, r)
    BY <1>1, OwingAhead
  <2> QED
    BY <1>2, <2>1 DEF Ahead, Due
<1>6. Balanced(Ahead(p, run[p]))'
  BY <1>2, <1>4, <1>5, BalancedQuiet DEF Consistent, Balanced
<1> QED
  BY <1>2, <1>3, <1>6

LEMMA ReadAccrualAlone ==
    ASSUME FlightTyped, StoreSound, LoneSound, NEW p \in Depositors, ReadAccrual(p)
    PROVE  StoreSound' /\ LoneSound'
<1> DEFINE n   == balance + run[p].arg.amount
           all == PushIfMissing(hashes, run[p].arg.sig)
           l   == IF all = hashes THEN AfterHashes(n) ELSE "hashWrite"
           r   == [run[p] EXCEPT !.at = l, !.n = n, !.hs = all]
<1>1. /\ p \in Handlers /\ run[p].at = "accrue" /\ Goto(p, r) /\ DOMAIN run[p] = DOMAIN Idle
      /\ UNCHANGED <<vars, kills, interrupted>>
  BY DEF ReadAccrual, At, Quiet, history, Handlers, FlightTyped, HandlersTyped
<1>2. all # <<>> /\ all \in Seq(Signatures)
  <2>1. hashes \in Seq(Signatures) /\ run[p].arg.sig \in Signatures
    BY <1>1, DueTyped DEF FlightTyped, KeysTyped
  <2>2. CASE run[p].arg.sig \in Range(hashes)
    <3>1. Range(hashes) # {} /\ all = hashes
      BY <2>2 DEF PushIfMissing
    <3>2. hashes # <<>>
      BY <3>1 DEF Range
    <3> QED
      BY <2>1, <3>1, <3>2
  <2>3. CASE run[p].arg.sig \notin Range(hashes)
    <3>1. all = Append(hashes, run[p].arg.sig)
      BY <2>3 DEF PushIfMissing
    <3> QED
      BY <2>1, <3>1, AppendProperties
  <2> QED
    BY <2>2, <2>3
<1>3. /\ l \in {"hashWrite", "setNext", "depositCheck"}
      /\ l # "hashWrite" => all = hashes
      /\ n = balance + Due(p, run[p])
  BY <1>1, DueTyped DEF AfterHashes
<1> HIDE DEF n, all, l
<1>4. r.at = l /\ r.arg = run[p].arg /\ r.n = n /\ r.hs = all
  BY <1>1, IdleFields
<1>5. /\ Consistent(p, run[p]) /\ run'[p] = r /\ InFlight' = {p}
      /\ Balanced(Ahead(p, run[p]))' /\ Due(p, run[p])' = Due(p, run[p])
  BY <1>1, <1>3, <1>4, OwingMoves DEF Owing, vars, ledger
<1>6. LedgerSeen(p, run[p])' /\ CandidateSeen(p, run[p])' /\ SealSeen(p, run[p])'
  BY <1>1, <1>2, <1>3, <1>4, <1>5
     DEF LedgerSeen, CandidateSeen, SealSeen, Forming, Deciding, VotePlaces, vars, ledger
<1> QED
  BY <1>1, <1>5, <1>6, StoreUnread, LoneStays DEF Consistent

LEMMA WriteHashesAlone ==
    ASSUME FlightTyped, StoreSound, LoneSound, NEW p \in Depositors, WriteHashes(p)
    PROVE  StoreSound' /\ LoneSound'
<1> DEFINE l == AfterHashes(run[p].n)
           r == [run[p] EXCEPT !.at = l]
<1>1. /\ p \in Handlers /\ run[p].at = "hashWrite" /\ Goto(p, r) /\ DOMAIN run[p] = DOMAIN Idle
      /\ hashes' = run[p].hs
      /\ UNCHANGED <<v1Balance, balance, candidate, store, formed, kills, interrupted>>
  BY DEF WriteHashes, At, Move, Quiet, history, Handlers, FlightTyped, HandlersTyped
<1>2. l \in {"setNext", "depositCheck"}
  BY DEF AfterHashes
<1> HIDE DEF l
<1>3. r.at = l /\ r.arg = run[p].arg /\ r.n = run[p].n /\ r.hs = run[p].hs
  BY <1>1, IdleFields
<1>4. /\ Consistent(p, run[p]) /\ run'[p] = r /\ InFlight' = {p}
      /\ Balanced(Ahead(p, run[p]))' /\ Due(p, run[p])' = Due(p, run[p])
  BY <1>1, <1>2, <1>3, OwingMoves DEF Owing
<1>5. run[p].n = balance + Due(p, run[p]) /\ hashes' # <<>>
  BY <1>1, <1>4 DEF Consistent, LedgerSeen
<1>6. LedgerSeen(p, run[p])' /\ CandidateSeen(p, run[p])' /\ SealSeen(p, run[p])'
  BY <1>1, <1>2, <1>3, <1>4, <1>5
     DEF LedgerSeen, CandidateSeen, SealSeen, Forming, Deciding, VotePlaces
<1>7. StoreSound'
  BY <1>1, <1>5, StoreQuiet DEF store
<1> QED
  BY <1>1, <1>4, <1>6, <1>7, LoneStays DEF Consistent

LEMMA CheckDepositAlone ==
    ASSUME FlightTyped, StoreSound, LoneSound, NEW p \in Depositors, CheckDeposit(p)
    PROVE  StoreSound' /\ LoneSound'
<1> DEFINE l == IF candidate # None \/ gate THEN "setNext" ELSE "formAgain"
           r == [run[p] EXCEPT !.at = l]
<1>1. /\ p \in Handlers /\ run[p].at = "depositCheck" /\ Goto(p, r) /\ DOMAIN run[p] = DOMAIN Idle
      /\ UNCHANGED <<vars, kills, interrupted>>
  BY DEF CheckDeposit, At, Move, Quiet, history, Handlers, FlightTyped, HandlersTyped
<1>2. l \in {"setNext", "formAgain"} /\ (l = "formAgain" => candidate = None)
  OBVIOUS
<1> HIDE DEF l
<1>3. r.at = l /\ r.arg = run[p].arg /\ r.n = run[p].n /\ r.hs = run[p].hs
  BY <1>1, IdleFields
<1>4. /\ Consistent(p, run[p]) /\ run'[p] = r /\ InFlight' = {p}
      /\ Balanced(Ahead(p, run[p]))' /\ Due(p, run[p])' = Due(p, run[p])
  BY <1>1, <1>2, <1>3, OwingMoves DEF Owing, vars, ledger
<1>5. run[p].n = balance + Due(p, run[p]) /\ hashes # <<>> /\ run[p].hs = hashes
  BY <1>1, <1>4 DEF Consistent, LedgerSeen
<1>6. LedgerSeen(p, run[p])' /\ CandidateSeen(p, run[p])' /\ SealSeen(p, run[p])'
  BY <1>1, <1>2, <1>3, <1>4, <1>5
     DEF LedgerSeen, CandidateSeen, SealSeen, Forming, Deciding, VotePlaces, vars, ledger
<1> QED
  BY <1>1, <1>4, <1>6, StoreUnread, LoneStays DEF Consistent

LEMMA WriteNextAlone ==
    ASSUME FlightTyped, StoreSound, LoneSound, NEW p \in Depositors, WriteNext(p)
    PROVE  StoreSound' /\ LoneSound'
<1>1. /\ p \in Handlers /\ run[p].at = "setNext" /\ End(p) /\ balance' = run[p].n
      /\ UNCHANGED <<v1Balance, hashes, candidate, store, formed, kills, interrupted>>
  BY DEF WriteNext, At, Quiet, history, Handlers
<1>2. Consistent(p, run[p]) /\ (Balanced(0)' => LoneSound')
  BY <1>1, LoneEnds
<1>3. balance' = balance + Due(p, run[p]) /\ hashes # <<>> /\ Balanced(Due(p, run[p]))
  BY <1>1, <1>2 DEF Consistent, LedgerSeen, Ahead
<1>4. Balanced(0)'
  <2> DEFINE a == Due(p, run[p])
             sealed == Threshold * formed
  <2>1. a \in Nat /\ v1Balance \in Nat /\ balance \in Nat /\ sealed \in Nat
    BY <1>1, DueTyped, LedgerTyped
  <2> HIDE DEF a, sealed
  <2>2. v1Balance - ((balance + a) + sealed) - 0 = v1Balance - (balance + sealed) - a
    BY <2>1
  <2> QED
    BY <1>1, <1>3, <2>2, BalancedMoves DEF a, sealed
<1>5. StoreSound'
  BY <1>1, <1>3, StoreQuiet DEF store
<1> QED
  BY <1>2, <1>4, <1>5

-----------------------------------------------------------------------------
(* A formation by a lone handler.                                           *)

(* With no candidate the chain is whole, and its names are taken.           *)
LEMMA WholeChain ==
    ASSUME FlightTyped, StoreSound, candidate = None
    PROVE  /\ Linked(seals, chain, latest) /\ StoreTyped(seals, chain)
           /\ Tip(seals, latest) \in [seq : Nat, hash : Nat]
           /\ Tip(seals, latest).seq = Len(chain)
           /\ Tip(seals, latest).hash = HeadHash(seals, chain)
<1>1. PICK b \in Seq(SealIds) : ExtendsBase(b)
  BY DEF StoreSound
<1>2. chain = b /\ latest = HeadName(b) /\ Linked(seals, b, HeadName(b))
  BY <1>1 DEF ExtendsBase
<1>3. StoreTyped(seals, chain)
  BY <1>2 DEF StoreTyped, FlightTyped, KeysTyped
<1> QED
  BY <1>2, <1>3, TipIsHead

(* The cron's read of the balance, and what both lanes look at then.        *)
LEMMA LookAlone ==
    ASSUME FlightTyped, StoreSound, LoneSound, NEW p \in CronRuns,
           ReadBalance(p) \/ CheckCandidate(p) \/ ReadHashes(p)
    PROVE  StoreSound' /\ LoneSound'
<1>1. /\ p \in Handlers /\ DOMAIN run[p] = DOMAIN Idle /\ run[p].at # "idle"
      /\ UNCHANGED <<vars, kills, interrupted>>
      /\ Due(p, run[p]) = 0
  BY StepsAssumption
     DEF ReadBalance, CheckCandidate, ReadHashes, At, Quiet, history, Handlers, FlightTyped,
         HandlersTyped, Due
<1>2. candidate = None /\ Consistent(p, run[p]) /\ run'[p] \in {run'[p]}
  <2>1. run[p].at \in {"formBalance", "formCheck", "formHashes"}
    BY DEF ReadBalance, CheckCandidate, ReadHashes, At
  <2>2. Consistent(p, run[p])
    BY <1>1 DEF LoneSound, InFlight
  <2> QED
    BY <2>1, <2>2 DEF Consistent, CandidateSeen
<1>3. CASE Move(p, "sweep") /\ run[p].at = "formBalance"
  <2> DEFINE r == [run[p] EXCEPT !.at = "sweep"]
  <2>1. Goto(p, r) /\ r.at = "sweep"
    BY <1>1, <1>3, IdleFields DEF Move
  <2>2. run'[p] = r /\ (CandidateSeen(p, run[p])' /\ SealSeen(p, run[p])' => LoneSound')
    BY <1>1, <1>3, <2>1, CalmMoves DEF Calm, Deciding, vars, ledger
  <2>3. CandidateSeen(p, run[p])' /\ SealSeen(p, run[p])'
    BY <2>1, <2>2 DEF CandidateSeen, SealSeen, Deciding, VotePlaces
  <2> QED
    BY <1>1, <2>2, <2>3, StoreUnread
<1>4. ASSUME NEW r, Goto(p, r), r.at \in {"formCheck", "formHashes", "formAgain"},
             r.n = balance, r.arg = run[p].arg,
             r.at = "formAgain" => r.hs = hashes /\ hashes # <<>>,
             run[p].at \in {"formBalance", "formCheck", "formHashes"}
      PROVE  StoreSound' /\ LoneSound'
  <2>1. /\ run'[p] = r /\ InFlight' = {p}
        /\ Balanced(Ahead(p, run[p]))' /\ Due(p, run[p])' = Due(p, run[p])
    BY <1>1, <1>4, OwingMoves DEF Owing, vars, ledger
  <2>2. balance \in Nat
    BY LedgerTyped
  <2>3. LedgerSeen(p, run[p])' /\ CandidateSeen(p, run[p])' /\ SealSeen(p, run[p])'
    BY <1>1, <1>2, <1>4, <2>1, <2>2
       DEF LedgerSeen, CandidateSeen, SealSeen, Forming, Deciding, VotePlaces, vars, ledger
  <2> QED
    BY <1>1, <2>1, <2>3, StoreUnread, LoneStays DEF Consistent
<1>5. CASE ReadBalance(p)
  <2> DEFINE r == [run[p] EXCEPT !.at = "formCheck", !.n = balance]
  <2>1. run[p].at = "formBalance" /\ (Move(p, "sweep") \/ Goto(p, r))
    BY <1>5 DEF ReadBalance, At
  <2>2. r.at = "formCheck" /\ r.n = balance /\ r.arg = run[p].arg
    BY <1>1, IdleFields
  <2> HIDE DEF r
  <2> QED
    BY <1>3, <1>4, <2>1, <2>2
<1>6. CASE CheckCandidate(p)
  <2> DEFINE r == [run[p] EXCEPT !.at = "formHashes"]
  <2>1. run[p].at = "formCheck" /\ Goto(p, r)
    BY <1>2, <1>6 DEF CheckCandidate, At, Move
  <2>2. run[p].n = balance
    BY <1>1, <1>2, <2>1, LedgerTyped DEF Consistent, LedgerSeen
  <2>3. r.at = "formHashes" /\ r.n = balance /\ r.arg = run[p].arg
    BY <1>1, <2>2, IdleFields
  <2> HIDE DEF r
  <2> QED
    BY <1>4, <2>1, <2>3
<1>7. CASE ReadHashes(p)
  <2> DEFINE r == [run[p] EXCEPT !.at = "formAgain", !.hs = hashes]
  <2>1. run[p].at = "formHashes" /\ Goto(p, r)
    BY <1>7 DEF ReadHashes, At
  <2>2. run[p].n = balance /\ run[p].n >= Threshold
    <3>1. run[p].n = balance
      BY <1>1, <1>2, <2>1, LedgerTyped DEF Consistent, LedgerSeen
    <3>2. run[p].n >= Threshold
      BY <1>1, <2>1 DEF FlightTyped, HandlersTyped, CopiesTyped
    <3> QED
      BY <3>1, <3>2
  <2>3. hashes # <<>>
    <3>1. balance > 0
      BY <2>2, LedgerTyped
    <3> QED
      BY <3>1 DEF StoreSound, ReserveHasSources
  <2>4. r.at = "formAgain" /\ r.n = balance /\ r.arg = run[p].arg /\ r.hs = hashes
    BY <1>1, <2>2, IdleFields
  <2> HIDE DEF r
  <2> QED
    BY <1>4, <2>1, <2>3, <2>4
<1> QED
  BY <1>5, <1>6, <1>7

(* formCandidate up to its first write.                                     *)
LEMMA ReadTipAlone ==
    ASSUME FlightTyped, StoreSound, LoneSound, NEW p \in Depositors \cup CronRuns,
           CheckAgain(p) \/ ReadTip(p)
    PROVE  StoreSound' /\ LoneSound'
<1>1. /\ p \in Handlers /\ DOMAIN run[p] = DOMAIN Idle
      /\ run[p].at \in {"formAgain", "formTip"}
      /\ UNCHANGED <<vars, kills, interrupted>>
  BY DEF CheckAgain, ReadTip, At, Quiet, history, Handlers, FlightTyped, HandlersTyped
<1>2. /\ Consistent(p, run[p]) /\ candidate = None
      /\ run[p].n = balance + Due(p, run[p]) /\ run[p].hs = hashes /\ hashes # <<>>
  <2>1. Consistent(p, run[p])
    BY <1>1 DEF LoneSound, InFlight
  <2> QED
    BY <1>1, <2>1 DEF Consistent, CandidateSeen, LedgerSeen, Forming
<1>3. PICK t : Goto(p, [run[p] EXCEPT !.at = IF run[p].at = "formAgain" THEN "formTip" ELSE "formWrite",
                                      !.tip = t])
               /\ (run[p].at = "formTip" => t = Tip(seals, latest))
  <2>1. CASE CheckAgain(p)
    <3>1. Goto(p, [run[p] EXCEPT !.at = "formTip"]) /\ run[p].at = "formAgain"
      BY <1>2, <2>1 DEF CheckAgain, Move, At
    <3>2. Goto(p, [run[p] EXCEPT !.at = "formTip", !.tip = run[p].tip])
      BY <3>1
    <3> QED
      BY <3>1, <3>2
  <2>2. CASE ReadTip(p)
    BY <2>2 DEF ReadTip, At
  <2> QED
    BY <2>1, <2>2
<1> DEFINE l == IF run[p].at = "formAgain" THEN "formTip" ELSE "formWrite"
           r == [run[p] EXCEPT !.at = l, !.tip = t]
<1>4. l \in {"formTip", "formWrite"} /\ (l = "formWrite" => t = Tip(seals, latest)) /\ Goto(p, r)
  BY <1>1, <1>3
<1> HIDE DEF l
<1>5. r.at = l /\ r.tip = t /\ r.n = run[p].n /\ r.hs = run[p].hs /\ r.arg = run[p].arg
  BY <1>1, IdleFields
<1>6. /\ run'[p] = r /\ InFlight' = {p}
      /\ Balanced(Ahead(p, run[p]))' /\ Due(p, run[p])' = Due(p, run[p])
  BY <1>1, <1>4, <1>5, OwingMoves DEF Owing, vars, ledger
<1>7. LedgerSeen(p, run[p])'
  BY <1>1, <1>2, <1>4, <1>5, <1>6 DEF LedgerSeen, vars, ledger
<1>8. CandidateSeen(p, run[p])' /\ SealSeen(p, run[p])'
  BY <1>1, <1>2, <1>4, <1>5, <1>6 DEF CandidateSeen, SealSeen, Deciding, VotePlaces, vars, store
<1> QED
  BY <1>1, <1>6, <1>7, <1>8, StoreUnread, LoneStays DEF Consistent

LEMMA WriteCandidateAlone ==
    ASSUME FlightTyped, StoreSound, LoneSound, NEW p \in Depositors \cup CronRuns,
           WriteCandidate(p)
    PROVE  StoreSound' /\ LoneSound'
<1> DEFINE c == NewCandidate(run[p].tip, run[p].hs)
           r == [run[p] EXCEPT !.at = "formSet", !.tip = None]
<1>1. /\ p \in Handlers /\ DOMAIN run[p] = DOMAIN Idle /\ run[p].at = "formWrite"
      /\ Goto(p, r) /\ candidate' = c /\ formed' = formed + 1
      /\ UNCHANGED <<v1Balance, balance, hashes, store, kills, interrupted>>
  BY DEF WriteCandidate, At, Quiet, history, ledger, Handlers, FlightTyped, HandlersTyped
<1>2. r.at = "formSet" /\ r.n = run[p].n /\ r.hs = run[p].hs /\ r.arg = run[p].arg
  BY <1>1, IdleFields
<1>3. Consistent(p, run[p]) /\ run'[p] = r /\ InFlight' = {p}
  BY <1>1, <1>2, LoneMoves
<1>4. /\ candidate = None /\ run[p].tip = Tip(seals, latest)
      /\ run[p].n = balance + Due(p, run[p]) /\ run[p].hs = hashes /\ hashes # <<>>
      /\ Balanced(Due(p, run[p]))
  BY <1>1, <1>3 DEF Consistent, CandidateSeen, LedgerSeen, Ahead, Forming
<1>5. Due(p, run[p])' = Due(p, run[p]) /\ Ahead(p, run[p])' = Due(p, run[p]) - Threshold
  BY <1>2, <1>3 DEF Due, Ahead
<1>6. Balanced(Ahead(p, run[p]))'
  <2> DEFINE a == Due(p, run[p])
             sealed == Threshold * formed
  <2>1. a \in Nat /\ v1Balance \in Nat /\ balance \in Nat /\ sealed \in Nat /\ Threshold \in Nat
    BY <1>1, DueTyped, LedgerTyped
  <2>2. Threshold * (formed + 1) = sealed + Threshold
    BY LedgerTyped
  <2> HIDE DEF a, sealed
  <2>3. v1Balance - (balance + (sealed + Threshold)) - (a - Threshold)
          = v1Balance - (balance + sealed) - a
    BY <2>1
  <2>4. v1Balance' - (balance' + Threshold * formed') - (a - Threshold)
          = v1Balance - (balance + Threshold * formed) - a
    BY <1>1, <2>2, <2>3 DEF sealed
  <2>5. Balanced(a) /\ UNCHANGED <<interrupted, kills>>
    BY <1>1, <1>4 DEF a
  <2> DEFINE m == a - Threshold
  <2>6. v1Balance' - (balance' + Threshold * formed') - m
          = v1Balance - (balance + Threshold * formed) - a
    BY <2>4
  <2>7. Ahead(p, run[p])' = m
    BY <1>5 DEF a
  <2> HIDE DEF m
  <2>8. /\ v1Balance' - (balance' + Threshold * formed') - m <= interrupted'
        /\ 0 <= v1Balance' - (balance' + Threshold * formed') - m + Threshold * kills'
    BY <2>5, <2>6 DEF Balanced
  <2> QED
    BY <2>7, <2>8 DEF Balanced
<1>7. LedgerSeen(p, run[p])' /\ CandidateSeen(p, run[p])' /\ SealSeen(p, run[p])'
  BY <1>1, <1>2, <1>3, <1>4, <1>5 DEF LedgerSeen, CandidateSeen, SealSeen, Forming, Deciding, VotePlaces
<1>8. /\ c \in Candidates /\ c # None /\ c.seq = Len(chain) + 1 /\ c.prev = HeadHash(seals, chain)
      /\ c.sources = hashes
  <2>1. Tip(seals, latest) \in [seq : Nat, hash : Nat] /\ hashes \in Seq(Signatures)
        /\ cycle \in Cycles /\ formed \in Nat
    <3>1. Tip(seals, latest) \in [seq : Nat, hash : Nat]
      BY <1>4, WholeChain
    <3>2. cycle = 1 /\ hashes \in Seq(Signatures) /\ formed \in Nat
      BY DEF FlightTyped, KeysTyped
    <3>3. cycle \in Cycles
      BY <3>2, ReserveAssumption DEF Cycles
    <3> QED
      BY <3>1, <3>2, <3>3
  <2> QED
    BY <1>4, <2>1, WholeChain, NewCandidateTyped DEF NewCandidate
<1> HIDE DEF c
<1>9. Id(c) \notin Range(chain)
  BY <1>4, <1>8, WholeChain, NextNameIsFree
<1>10. ExtendsBase(chain)' /\ chain' \in Seq(SealIds)
  <2>1. Linked(seals, chain, latest) /\ chain \in Seq(SealIds)
    BY <1>4, WholeChain DEF StoreTyped
  <2>2. latest = HeadName(chain)
    BY <2>1 DEF Linked, HeadName
  <2>3. latest # Id(c)
    <3>1. CASE chain = <<>>
      <4>1. Id(c) \in SealIds
        BY <1>8 DEF Candidates, Id, SealIds
      <4> QED
        BY <2>2, <3>1, <4>1, NoneAssumption DEF HeadName
    <3>2. CASE chain # <<>>
      <4>1. Len(chain) \in DOMAIN chain
        BY <2>1, <3>2
      <4> QED
        BY <1>9, <2>2, <3>2, <4>1 DEF HeadName, Range
    <3> QED
      BY <3>1, <3>2
  <2>4. UNCHANGED <<seals, chain, latest>>
    BY <1>1 DEF store
  <2>5. Linked(seals, chain, HeadName(chain))
    BY <2>1, <2>2
  <2> QED
    BY <1>1, <1>8, <2>1, <2>2, <2>3, <2>4, <2>5 DEF ExtendsBase
<1>11. StoreSound'
  <2>1. UNCHANGED <<seals, chain, latest, audit, balance, hashes>>
    BY <1>1 DEF store
  <2>2. ReserveHasSources'
    BY <1>1, <1>4, <1>8, <2>1 DEF StoreSound, ReserveHasSources
  <2>3. (Range(audit) \ InFlightName = DOMAIN seals \ InFlightName)'
    BY <1>1, <1>4, <2>1 DEF StoreSound, InFlightName
  <2> QED
    BY <1>10, <2>1, <2>2, <2>3 DEF StoreSound
<1> QED
  BY <1>1, <1>3, <1>6, <1>7, <1>11, LoneStays DEF Consistent

LEMMA WriteOverflowAlone ==
    ASSUME FlightTyped, StoreSound, LoneSound, NEW p \in Depositors \cup CronRuns,
           WriteOverflow(p)
    PROVE  StoreSound' /\ LoneSound'
<1> DEFINE r == [run[p] EXCEPT !.at = "formCarry"]
<1>1. /\ p \in Handlers /\ DOMAIN run[p] = DOMAIN Idle /\ run[p].at = "formSet"
      /\ Goto(p, r) /\ balance' = run[p].n - Threshold
      /\ UNCHANGED <<v1Balance, hashes, candidate, store, formed, kills, interrupted>>
  BY DEF WriteOverflow, Move, At, Quiet, history, Handlers, FlightTyped, HandlersTyped
<1>2. r.at = "formCarry" /\ r.n = run[p].n /\ r.hs = run[p].hs /\ r.arg = run[p].arg
  BY <1>1, IdleFields
<1>3. Consistent(p, run[p]) /\ run'[p] = r /\ InFlight' = {p}
  BY <1>1, <1>2, LoneMoves
<1>4. /\ run[p].n = balance + Due(p, run[p]) /\ run[p].hs = hashes /\ hashes # <<>>
      /\ Balanced(Due(p, run[p]) - Threshold)
  BY <1>1, <1>3 DEF Consistent, LedgerSeen, Ahead, Forming
<1>5. Ahead(p, run[p])' = 0
  BY <1>2, <1>3 DEF Ahead
<1>6. Balanced(Ahead(p, run[p]))'
  <2> DEFINE a == Due(p, run[p])
             sealed == Threshold * formed
  <2>1. a \in Nat /\ v1Balance \in Nat /\ balance \in Nat /\ sealed \in Nat /\ Threshold \in Nat
    BY <1>1, DueTyped, LedgerTyped
  <2> HIDE DEF a, sealed
  <2>2. v1Balance - (((balance + a) - Threshold) + sealed) - 0
          = v1Balance - (balance + sealed) - (a - Threshold)
    BY <2>1
  <2>3. Balanced(0)'
    BY <1>1, <1>4, <2>2, BalancedMoves DEF a, sealed
  <2> QED
    BY <1>5, <2>3 DEF Balanced
<1>7. LedgerSeen(p, run[p])' /\ CandidateSeen(p, run[p])' /\ SealSeen(p, run[p])'
  BY <1>1, <1>2, <1>3, <1>4, <1>5 DEF LedgerSeen, CandidateSeen, SealSeen, Forming, Deciding, VotePlaces
<1>8. StoreSound'
  BY <1>1, <1>4, StoreQuiet DEF store
<1> QED
  BY <1>1, <1>3, <1>6, <1>7, <1>8, LoneStays DEF Consistent

LEMMA WriteCarriedAlone ==
    ASSUME FlightTyped, StoreSound, LoneSound, NEW p \in Depositors \cup CronRuns,
           WriteCarried(p)
    PROVE  StoreSound' /\ LoneSound'
<1>1. /\ p \in Handlers /\ DOMAIN run[p] = DOMAIN Idle /\ run[p].at = "formCarry"
      /\ UNCHANGED <<v1Balance, balance, candidate, store, formed, kills, interrupted>>
  BY DEF WriteCarried, At, Quiet, history, Handlers, FlightTyped, HandlersTyped
<1>2. Consistent(p, run[p])
  BY <1>1 DEF LoneSound, InFlight
<1>3. balance = run[p].n - Threshold /\ Balanced(0) /\ run[p].hs = hashes /\ hashes # <<>>
  BY <1>1, <1>2 DEF Consistent, LedgerSeen, Ahead, Forming
<1>4. Balanced(0)'
  BY <1>1, <1>3, BalancedQuiet
<1>5. run[p].n \in Nat /\ Threshold \in Nat /\ hashes \in Seq(Signatures)
  BY <1>1, LedgerTyped DEF FlightTyped, HandlersTyped, CopiesTyped, KeysTyped
<1>6. balance' > 0 => hashes' # <<>>
  <2>1. CASE p \in Depositors
    <3>1. hashes' = IF run[p].n > Threshold THEN <<run[p].arg.sig>> ELSE <<>>
      BY <2>1 DEF WriteCarried
    <3> QED
      BY <1>1, <1>3, <1>5, <3>1
  <2>2. CASE p \notin Depositors
    <3>1. hashes' = CarriedForward(hashes, balance)
      BY <1>3, <2>2 DEF WriteCarried
    <3> QED
      BY <1>1, <1>3, <3>1 DEF CarriedForward
  <2> QED
    BY <2>1, <2>2
<1>7. StoreSound'
  BY <1>1, <1>6, StoreQuiet DEF store
<1>8. CASE End(p)
  BY <1>1, <1>4, <1>7, <1>8, LoneEnds
<1>9. CASE ~End(p)
  <2> DEFINE r == [run[p] EXCEPT !.at = "sweep", !.n = 0, !.hs = <<>>]
  <2>1. Goto(p, r)
    BY <1>9 DEF WriteCarried
  <2>2. r.at = "sweep"
    BY <1>1, IdleFields
  <2>3. run'[p] = r /\ InFlight' = {p}
    BY <1>1, <2>1, <2>2, LoneMoves
  <2>4. Consistent(p, run[p])'
    BY <1>4, <2>2, <2>3
       DEF Consistent, Balanced, Ahead, LedgerSeen, CandidateSeen, SealSeen, Forming, Deciding, VotePlaces
  <2> QED
    BY <1>1, <1>7, <2>3, <2>4, LoneStays
<1> QED
  BY <1>8, <1>9

-----------------------------------------------------------------------------
(* Votes, and the cron up to its decision, by a lone handler.               *)

(* A vote changes nothing of the candidate but its votes.                   *)
LEMMA VoteKeepsStore ==
    ASSUME StoreSound, candidate # None, candidate' # None,
           Id(candidate') = Id(candidate), candidate'.seq = candidate.seq,
           candidate'.prev = candidate.prev, candidate'.sources = candidate.sources,
           UNCHANGED <<balance, hashes, store>>,
           Missing(candidate.votes) # {} \/ Id(candidate) \notin Range(chain) \cup {latest}
    PROVE  StoreSound'
<1>1. PICK b \in Seq(SealIds) : ExtendsBase(b)
  BY DEF StoreSound
<1>2. /\ Linked(seals, b, HeadName(b))
      /\ chain \in {b, Append(b, Id(candidate))}
      /\ latest \in {HeadName(b), Id(candidate)}
      /\ candidate.seq = Len(b) + 1 /\ candidate.prev = HeadHash(seals, b)
  BY <1>1 DEF ExtendsBase
<1>3. chain = b /\ latest # Id(candidate)
  <2>1. CASE Missing(candidate.votes) # {}
    BY <1>1, <2>1 DEF ExtendsBase
  <2>2. CASE Id(candidate) \notin Range(chain) \cup {latest}
    <3>1. SUFFICES ASSUME chain = Append(b, Id(candidate)) PROVE FALSE
      BY <1>2, <2>2
    <3>2. Len(b) + 1 \in DOMAIN chain /\ chain[Len(b) + 1] = Id(candidate)
      BY <3>1
    <3> QED
      BY <2>2, <3>2 DEF Range
  <2> QED
    BY <2>1, <2>2
<1>4. UNCHANGED <<seals, chain, audit, latest>>
  BY DEF store
<1>5. ExtendsBase(b)'
  BY <1>2, <1>3, <1>4 DEF ExtendsBase
<1>6. ReserveHasSources'
  BY <1>4 DEF StoreSound, ReserveHasSources
<1>7. (Range(audit) \ InFlightName = DOMAIN seals \ InFlightName)'
  BY <1>4 DEF StoreSound, InFlightName
<1> QED
  BY <1>4, <1>5, <1>6, <1>7 DEF StoreSound

(* A vote, counted.                                                         *)
Counted(c, a, w) == [c EXCEPT !.votes[a] = w]

LEMMA VoteCounted ==
    ASSUME NEW c \in Candidates, NEW a \in Sentinels, NEW w \in Verdicts
    PROVE  LET d == Counted(c, a, w)
           IN  /\ d \in Candidates /\ d # None
               /\ Id(d) = Id(c) /\ d.seq = c.seq /\ d.prev = c.prev /\ d.sources = c.sources
               /\ Missing(d.votes) = Missing(c.votes) \ {a}
<1> DEFINE d == Counted(c, a, w)
<1>1. d \in Candidates /\ d.votes = [c.votes EXCEPT ![a] = w]
  BY VoteTyped DEF Counted
<1>2. c.votes \in Votes /\ w # NoVote
  BY DEF Candidates, Verdicts, NoVote
<1>3. d.seq = c.seq /\ d.cycle = c.cycle /\ d.prev = c.prev /\ d.sources = c.sources
  BY DEF Candidates, Counted
<1>4. Missing(d.votes) = Missing(c.votes) \ {a}
  <2> DEFINE v == [c.votes EXCEPT ![a] = w]
  <2>1. \A x \in Sentinels : v[x] = IF x = a THEN w ELSE c.votes[x]
    BY <1>2 DEF Votes
  <2> HIDE DEF v
  <2>2. Missing(v) = Missing(c.votes) \ {a}
    BY <1>2, <2>1 DEF Missing
  <2> QED
    BY <1>1, <2>2 DEF v
<1> HIDE DEF d
<1>5. Id(d) = Id(c)
  BY <1>3 DEF Id
<1>6. d # None
  BY <1>1, NoneAssumption
<1> QED
  BY <1>1, <1>3, <1>4, <1>5, <1>6 DEF d

LEMMA StartVoteAlone ==
    ASSUME FlightTyped, StoreSound, LoneSound, NEW p \in Voters, NEW verdict \in CastVerdicts,
           StartVote(p, verdict), ~disturbed'
    PROVE  StoreSound' /\ LoneSound'
<1> DEFINE r == [Idle EXCEPT !.at = "record", !.ids = Id(candidate), !.arg = [verdict |-> verdict]]
<1>1. /\ p \in Handlers /\ Enter(p, r) /\ r.at = "record" /\ r.ids = Id(candidate)
      /\ DOMAIN r = DOMAIN Idle /\ candidate # None
  BY IdleFields DEF Handlers, StartVote
<1>2. InFlight = {} /\ InFlight' = {p} /\ run'[p] = [r EXCEPT !.old = FALSE]
  BY <1>1, EntersAlone
<1>3. run'[p].at = "record" /\ run'[p].ids = Id(candidate)
  BY <1>1, <1>2, IdleFields
<1>4. UNCHANGED <<vars, interrupted, kills>>
  BY <1>1 DEF StartVote, Enter
<1>5. Balanced(0)'
  BY <1>2, <1>4, BalancedQuiet DEF LoneSound, vars, ledger
<1>6. Consistent(p, run[p])'
  BY <1>1, <1>3, <1>4, <1>5
     DEF Consistent, Ahead, LedgerSeen, CandidateSeen, SealSeen, Forming, Deciding, VotePlaces,
         vars, ledger, Balanced
<1> QED
  BY <1>1, <1>2, <1>4, <1>6, StoreUnread, LoneStays

LEMMA VoteStepAlone ==
    ASSUME FlightTyped, StoreSound, LoneSound, NEW p \in Voters, VoteStep(p), ~disturbed'
    PROVE  StoreSound' /\ LoneSound'
<1>1. /\ p \in Handlers /\ DOMAIN run[p] = DOMAIN Idle /\ CopiesTyped(p, run[p])
      /\ candidate # None => candidate \in Candidates
  BY DEF Handlers, FlightTyped, HandlersTyped, KeysTyped
<1>2. p \in Sentinels /\ (run[p].at # "idle" => run[p].arg.verdict \in Verdicts)
  <2>1. Placed(p, run[p])
    BY <1>1 DEF FlightTyped, HandlersTyped
  <2>2. run[p].at # "idle" => run[p].arg \in [verdict : CastVerdicts]
    BY <2>1, StepsAssumption DEF Placed
  <2> QED
    BY <2>2, StepsAssumption, ReserveAssumption
<1>3. run[p].at \in {"record", "recordWrite"} => Consistent(p, run[p])
  BY <1>1 DEF LoneSound, InFlight
<1>4. CASE ReadRecord(p)
  <2> DEFINE c == [candidate EXCEPT !.votes[p] = run[p].arg.verdict]
             r == [run[p] EXCEPT !.at = "recordWrite", !.next = c]
  <2>1. run[p].at = "record" /\ UNCHANGED <<vars, kills, interrupted>>
    BY <1>4 DEF ReadRecord, At, Quiet, history
  <2>2. candidate # None /\ run[p].ids = Id(candidate)
    BY <1>3, <2>1 DEF Consistent, CandidateSeen, VotePlaces
  <2>3. Goto(p, r)
    BY <1>4, <2>2 DEF ReadRecord
  <2> HIDE DEF c
  <2>4. r.at = "recordWrite" /\ r.next = c /\ r.arg = run[p].arg
    BY <1>1, IdleFields
  <2>5. run'[p] = r /\ (CandidateSeen(p, run[p])' /\ SealSeen(p, run[p])' => LoneSound')
    BY <1>1, <2>1, <2>3, <2>4, CalmMoves DEF Calm, Deciding, vars, ledger
  <2>6. CandidateSeen(p, run[p])'
    <3>1. candidate' = candidate
      BY <2>1 DEF vars
    <3>2. run'[p].next = [candidate' EXCEPT !.votes[p] = run'[p].arg.verdict]
      BY <2>4, <2>5, <3>1 DEF c
    <3> QED
      BY <2>2, <2>4, <2>5, <3>1, <3>2 DEF CandidateSeen, VotePlaces, Deciding
  <2>7. SealSeen(p, run[p])'
    BY <2>4, <2>5 DEF SealSeen, Deciding
  <2> QED
    BY <2>1, <2>5, <2>6, <2>7, StoreUnread
<1>5. CASE WriteRecord(p)
  <2> DEFINE c == run[p].next
  <2>1. /\ run[p].at = "recordWrite" /\ End(p) /\ candidate' = c
        /\ Id(c) \notin Range(chain) \cup {latest}
        /\ UNCHANGED <<ledger, store, formed, kills, interrupted>>
    BY <1>5 DEF WriteRecord, At
  <2>2. candidate # None /\ c = [candidate EXCEPT !.votes[p] = run[p].arg.verdict] /\ Balanced(0)
    BY <1>3, <2>1 DEF Consistent, CandidateSeen, Ahead, VotePlaces
  <2>3. /\ c # None /\ Id(c) = Id(candidate) /\ c.seq = candidate.seq /\ c.prev = candidate.prev
        /\ c.sources = candidate.sources
    <3> DEFINE w == run[p].arg.verdict
    <3>1. candidate \in Candidates /\ p \in Sentinels /\ w \in Verdicts
      BY <1>1, <1>2, <2>1, <2>2
    <3>2. c = Counted(candidate, p, w)
      BY <2>2 DEF Counted
    <3> HIDE DEF c, w
    <3> QED
      BY <3>1, <3>2, VoteCounted
  <2> HIDE DEF c
  <2>4. StoreSound'
    BY <2>1, <2>2, <2>3, VoteKeepsStore DEF ledger
  <2>5. LoneSound'
    BY <1>1, <2>1, <2>2, BalancedQuiet, LoneEnds DEF ledger
  <2> QED
    BY <2>4, <2>5
<1> QED
  BY <1>4, <1>5 DEF VoteStep

LEMMA TriggerAlone ==
    ASSUME FlightTyped, StoreSound, LoneSound, NEW ps \in (SUBSET CronRuns) \ {{}},
           Trigger(ps), ~disturbed'
    PROVE  StoreSound' /\ LoneSound'
<1>1. /\ IsFiniteSet(ps) /\ ps # {} /\ ps \cap InFlight = {} /\ ps \subseteq Handlers
      /\ UNCHANGED <<vars, kills, interrupted>>
      /\ run' = [q \in Handlers |-> IF q \in ps THEN [Idle EXCEPT !.at = "begin"]
                                    ELSE [run[q] EXCEPT !.old = q \in InFlight]]
  <2>1. ps \subseteq CronRuns /\ ps # {} /\ IsFiniteSet(CronRuns)
    BY StepsAssumption
  <2>2. IsFiniteSet(ps)
    BY <2>1, FS_Subset
  <2>3. ps \cap InFlight = {}
    BY <2>1 DEF Trigger
  <2> QED
    BY <2>1, <2>2, <2>3 DEF Trigger, Handlers
<1>2. PICK p \in ps : InFlight = {} /\ ps = {p}
  BY <1>1, StartsAlone DEF Trigger
<1>3. run'[p] = [Idle EXCEPT !.at = "begin"]
  BY <1>1
<1>4. run'[p].at = "begin"
  BY <1>3, IdleFields
<1>5. \A q \in Handlers \ {p} : run'[q].at = "idle"
  <2> TAKE q \in Handlers \ {p}
  <2>1. run'[q] = [run[q] EXCEPT !.old = q \in InFlight]
    BY <1>1, <1>2
  <2>2. run[q].at = "idle" /\ DOMAIN run[q] = DOMAIN Idle
    BY <1>2 DEF InFlight, FlightTyped, HandlersTyped
  <2> QED
    BY <2>1, <2>2, IdleFields
<1>6. InFlight' = {p}
  BY <1>1, <1>4, <1>5 DEF InFlight
<1>7. Balanced(0)'
  BY <1>1, <1>2, BalancedQuiet DEF LoneSound, vars, ledger
<1>8. Consistent(p, run[p])'
  BY <1>4, <1>7
     DEF Consistent, Ahead, LedgerSeen, CandidateSeen, SealSeen, Forming, Deciding, VotePlaces, Balanced
<1> QED
  BY <1>1, <1>6, <1>8, StoreUnread, LoneStays

LEMMA CronVotingAlone ==
    ASSUME FlightTyped, StoreSound, LoneSound, NEW p \in CronRuns,
           ReadCandidate(p) \/ ReadCronVote(p) \/ WriteCronVote(p) \/ Decide(p) \/ ReadInject(p)
    PROVE  StoreSound' /\ LoneSound'
<1>1. /\ p \in Handlers /\ DOMAIN run[p] = DOMAIN Idle /\ CopiesTyped(p, run[p])
      /\ candidate # None => candidate \in Candidates
      /\ gate = FALSE
  BY DEF Handlers, FlightTyped, HandlersTyped, KeysTyped
<1>2. /\ run[p].at \in Calm \ {"v1Write"} /\ Consistent(p, run[p])
      /\ UNCHANGED <<v1Balance, balance, formed, interrupted, kills>>
  <2>1. run[p].at \in {"begin", "vote", "voteWrite", "inject"}
    BY DEF ReadCandidate, ReadCronVote, WriteCronVote, Decide, ReadInject, At
  <2>2. Consistent(p, run[p])
    BY <1>1, <2>1 DEF LoneSound, InFlight
  <2> QED
    BY <2>1, <2>2 DEF Calm, ReadCandidate, ReadCronVote, WriteCronVote, Decide, ReadInject, Quiet,
                      history, vars, ledger
<1>3. CASE ReadCandidate(p)
  <2>1. UNCHANGED vars
    BY <1>3 DEF ReadCandidate
  <2>2. CASE candidate = None
    <3> DEFINE r == [run[p] EXCEPT !.at = "formBalance"]
    <3>1. Goto(p, r) /\ r.at = "formBalance"
      BY <1>1, <1>3, <2>2, IdleFields DEF ReadCandidate, Move
    <3>2. run'[p] = r /\ (CandidateSeen(p, run[p])' /\ SealSeen(p, run[p])' => LoneSound')
      BY <1>1, <1>2, <3>1, CalmMoves DEF Calm
    <3>3. CandidateSeen(p, run[p])' /\ SealSeen(p, run[p])'
      BY <2>1, <2>2, <3>1, <3>2 DEF CandidateSeen, SealSeen, Deciding, VotePlaces, vars
    <3> QED
      BY <2>1, <3>2, <3>3, StoreUnread
  <2>3. CASE candidate # None
    <3> DEFINE r == [run[p] EXCEPT !.at = "vote", !.c = candidate, !.todo = Sentinels]
    <3>1. Goto(p, r)
      BY <1>3, <2>3 DEF ReadCandidate
    <3>2. r.at = "vote" /\ r.c = candidate /\ r.todo = Sentinels
      BY <1>1, IdleFields
    <3>3. run'[p] = r /\ (CandidateSeen(p, run[p])' /\ SealSeen(p, run[p])' => LoneSound')
      BY <1>1, <1>2, <3>1, <3>2, CalmMoves DEF Calm
    <3>4. CandidateSeen(p, run[p])' /\ SealSeen(p, run[p])'
      BY <2>1, <2>3, <3>2, <3>3 DEF CandidateSeen, SealSeen, Deciding, VotePlaces, vars, Missing
    <3> QED
      BY <2>1, <3>3, <3>4, StoreUnread
  <2> QED
    BY <2>2, <2>3
<1>4. CASE ReadCronVote(p)
  <2> DEFINE a == NextSilent(p)
             c == [candidate EXCEPT !.votes[a] = "pass"]
             left == run[p].todo \ {a}
             r == [run[p] EXCEPT !.at = "voteWrite", !.todo = left, !.next = c]
  <2>1. run[p].at = "vote" /\ run[p].todo \subseteq Sentinels /\ UNCHANGED vars
    BY <1>1, <1>4 DEF ReadCronVote, At, CopiesTyped
  <2>2. /\ candidate # None /\ run[p].c = candidate
        /\ Missing(candidate.votes) \subseteq run[p].todo
    BY <1>2, <2>1 DEF Consistent, CandidateSeen
  <2>3. a \in Missing(candidate.votes)
    <3>1. Silent(p) # {} /\ Silent(p) \subseteq Sentinels
      BY <1>4, <2>1 DEF ReadCronVote, Silent
    <3>2. a \in Silent(p)
      BY <3>1, NextSilentIsSilent
    <3> QED
      BY <2>2, <3>1, <3>2 DEF Silent, Missing
  <2>4. Goto(p, r)
    BY <1>1, <1>4, <2>2 DEF ReadCronVote
  <2> HIDE DEF c, left
  <2>5. r.at = "voteWrite" /\ r.next = c /\ r.todo = left
    BY <1>1, IdleFields
  <2>6. run'[p] = r /\ (CandidateSeen(p, run[p])' /\ SealSeen(p, run[p])' => LoneSound')
    BY <1>1, <1>2, <2>4, <2>5, CalmMoves DEF Calm
  <2>7. CandidateSeen(p, run[p])'
    <3>1. candidate' = candidate
      BY <2>1 DEF vars
    <3>2. c = [candidate EXCEPT !.votes[a] = "pass"] /\ Missing(candidate.votes) \ {a} \subseteq left
      BY <2>2 DEF c, left
    <3> HIDE DEF a, r
    <3>3. \E x \in Missing(candidate.votes) :
             /\ run'[p].next = [candidate EXCEPT !.votes[x] = "pass"]
             /\ Missing(candidate.votes) \ {x} \subseteq run'[p].todo
      BY <2>3, <2>5, <2>6, <3>2
    <3> QED
      BY <2>2, <2>5, <2>6, <3>1, <3>3 DEF CandidateSeen, VotePlaces, Deciding
  <2>8. SealSeen(p, run[p])'
    BY <2>5, <2>6 DEF SealSeen, Deciding
  <2> QED
    BY <2>1, <2>6, <2>7, <2>8, StoreUnread
<1>5. CASE WriteCronVote(p)
  <2> DEFINE c == run[p].next
             r == [run[p] EXCEPT !.at = "vote", !.c = c, !.next = None]
  <2>1. /\ run[p].at = "voteWrite" /\ Goto(p, r) /\ candidate' = c
        /\ UNCHANGED <<ledger, store, formed>>
    BY <1>5 DEF WriteCronVote, At
  <2>2. PICK a \in Missing(candidate.votes) :
             /\ c = [candidate EXCEPT !.votes[a] = "pass"]
             /\ Missing(candidate.votes) \ {a} \subseteq run[p].todo
    BY <1>2, <2>1 DEF Consistent, CandidateSeen
  <2>3. candidate # None
    BY <1>2, <2>1 DEF Consistent, CandidateSeen
  <2>4. /\ c # None /\ Id(c) = Id(candidate) /\ c.seq = candidate.seq /\ c.prev = candidate.prev
        /\ c.sources = candidate.sources /\ Missing(c.votes) = Missing(candidate.votes) \ {a}
    <3>1. a \in Sentinels /\ "pass" \in Verdicts /\ candidate \in Candidates
      BY <1>1, <2>3 DEF Missing, Verdicts
    <3>2. c = Counted(candidate, a, "pass")
      BY <2>2 DEF Counted
    <3> HIDE DEF c
    <3> QED
      BY <3>1, <3>2, VoteCounted
  <2> HIDE DEF c
  <2>5. r.at = "vote" /\ r.c = c /\ r.todo = run[p].todo
    BY <1>1, IdleFields
  <2>6. run'[p] = r /\ (CandidateSeen(p, run[p])' /\ SealSeen(p, run[p])' => LoneSound')
    BY <1>1, <1>2, <2>1, <2>5, CalmMoves DEF Calm
  <2>7. CandidateSeen(p, run[p])'
    BY <2>1, <2>2, <2>4, <2>5, <2>6 DEF CandidateSeen, VotePlaces, Deciding
  <2>8. SealSeen(p, run[p])'
    BY <2>5, <2>6 DEF SealSeen, Deciding
  <2>9. StoreSound'
    BY <2>1, <2>2, <2>3, <2>4, VoteKeepsStore DEF ledger
  <2> QED
    BY <2>6, <2>7, <2>8, <2>9
<1>6. CASE Decide(p)
  <2> DEFINE d == EvaluateQuorum(candidate.votes)
             s == Sealed(candidate, d)
             l == IF d = "attested" THEN "index" ELSE "body"
             r == [run[p] EXCEPT !.at = l, !.c = None, !.seal = s]
  <2>1. run[p].at = "vote" /\ Silent(p) = {} /\ UNCHANGED vars
    BY <1>6 DEF Decide, At
  <2>2. /\ candidate # None /\ run[p].c = candidate
        /\ Missing(candidate.votes) \subseteq run[p].todo
    BY <1>2, <2>1 DEF Consistent, CandidateSeen
  <2>3. Missing(candidate.votes) = {}
    BY <2>1, <2>2 DEF Silent, Missing
  <2>4. d # "waiting"
    BY <2>3 DEF EvaluateQuorum
  <2>5. Goto(p, r)
    BY <1>6, <2>2, <2>4 DEF Decide
  <2>6. l \in {"index", "body"} /\ (l = "index" <=> d = "attested")
    OBVIOUS
  <2> HIDE DEF s, l
  <2>7. r.at = l /\ r.seal = s
    BY <1>1, IdleFields
  <2>8. run'[p] = r /\ (CandidateSeen(p, run[p])' /\ SealSeen(p, run[p])' => LoneSound')
    BY <1>1, <1>2, <2>5, <2>6, <2>7, CalmMoves DEF Calm, Deciding
  <2>9. candidate' = candidate
    BY <2>1 DEF vars
  <2>10. CandidateSeen(p, run[p])'
    BY <2>2, <2>6, <2>7, <2>8, <2>9 DEF CandidateSeen, VotePlaces, Deciding
  <2>11. SealSeen(p, run[p])'
    <3>1. run'[p].seal = Sealed(candidate', EvaluateQuorum(candidate'.votes))
      BY <2>7, <2>8, <2>9 DEF s
    <3>2. run'[p].at \in {"index", "body"}
          /\ (run'[p].at = "index" <=> EvaluateQuorum(candidate'.votes) = "attested")
      BY <2>6, <2>7, <2>8, <2>9
    <3> QED
      BY <2>3, <2>9, <3>1, <3>2 DEF SealSeen
  <2> QED
    BY <2>1, <2>8, <2>10, <2>11, StoreUnread
<1>7. CASE ReadInject(p)
  <2>1. run[p].at = "inject"
    BY <1>7 DEF ReadInject, At
  <2> QED
    BY <1>2, <2>1 DEF Consistent, CandidateSeen
<1> QED
  BY <1>3, <1>4, <1>5, <1>6, <1>7

-----------------------------------------------------------------------------
(* A parcel decided by a lone handler.                                      *)

(* The seal a lone run writes is that of the stored candidate.              *)
LEMMA SealOfCandidate ==
    ASSUME FlightTyped, StoreSound, LoneSound, NEW p \in CronRuns, run[p].at \in Deciding
    PROVE  LET s == run[p].seal
               d == EvaluateQuorum(candidate.votes)
           IN  /\ candidate \in Candidates /\ s \in Seals /\ Id(s) = Id(candidate)
               /\ s.seq = candidate.seq /\ s.prev = candidate.prev /\ s.sources = candidate.sources
               /\ s.status = d /\ s.votes = candidate.votes
               /\ Missing(candidate.votes) = {} /\ d \in Statuses
<1> DEFINE s == run[p].seal
           d == EvaluateQuorum(candidate.votes)
<1>1. p \in Handlers /\ run[p].at # "idle"
  BY DEF Handlers, Deciding
<1>2. Consistent(p, run[p])
  BY <1>1 DEF LoneSound, InFlight
<1>3. candidate # None /\ Missing(candidate.votes) = {} /\ s = Sealed(candidate, d)
  BY <1>2 DEF Consistent, CandidateSeen, SealSeen
<1>4. candidate \in Candidates
  BY <1>3 DEF FlightTyped, KeysTyped
<1>5. d \in Statuses
  BY <1>3, DecisionIsStatus DEF EvaluateQuorum
<1> HIDE DEF d
<1>6. /\ s \in Seals /\ Id(s) = Id(candidate)
      /\ s = [seq |-> candidate.seq, cycle |-> candidate.cycle, hash |-> candidate.hash,
              prev |-> candidate.prev, sources |-> candidate.sources, votes |-> candidate.votes,
              status |-> d, pointer |-> d = "attested"]
  BY <1>3, <1>4, <1>5, SealedTyped
<1> DEFINE atts == d = "attested"
<1> HIDE DEF atts
<1>7. s = [seq |-> candidate.seq, cycle |-> candidate.cycle, hash |-> candidate.hash,
           prev |-> candidate.prev, sources |-> candidate.sources, votes |-> candidate.votes,
           status |-> d, pointer |-> atts]
  BY <1>6 DEF atts
<1>8. /\ s.seq = candidate.seq /\ s.prev = candidate.prev /\ s.sources = candidate.sources
      /\ s.status = d /\ s.votes = candidate.votes
  BY <1>7
<1> QED
  BY <1>3, <1>4, <1>5, <1>6, <1>8 DEF d

(* The base of the chain, and that the parcel in flight has a name of its   *)
(* own on it.                                                               *)
LEMMA BaseOfChain ==
    ASSUME FlightTyped, StoreSound, candidate # None
    PROVE  \E b \in Seq(SealIds) :
              /\ ExtendsBase(b) /\ StoreTyped(seals, b)
              /\ Id(candidate) \notin Range(b) /\ Id(candidate) \in SealIds
<1>1. PICK b \in Seq(SealIds) : ExtendsBase(b)
  BY DEF StoreSound
<1>2. Linked(seals, b, HeadName(b)) /\ candidate.seq = Len(b) + 1 /\ StoreTyped(seals, b)
  BY <1>1 DEF ExtendsBase, StoreTyped, FlightTyped, KeysTyped
<1>3. Id(candidate) \in SealIds
  BY DEF FlightTyped, KeysTyped, Candidates, Id, SealIds
<1> QED
  BY <1>1, <1>2, <1>3, NextNameIsFree

(* Writing the seal of the candidate keeps the base of the chain.           *)
LEMMA PutKeepsStore ==
    ASSUME FlightTyped, StoreSound, LoneSound, NEW p \in CronRuns, run[p].at \in Deciding,
           seals' = Put(seals, Id(run[p].seal), run[p].seal),
           UNCHANGED <<balance, hashes, candidate, chain, audit, latest>>
    PROVE  StoreSound' /\ Id(run[p].seal) \in DOMAIN seals' /\ seals'[Id(run[p].seal)] = run[p].seal
<1> DEFINE s == run[p].seal
<1>1. /\ candidate \in Candidates /\ candidate # None /\ s \in Seals /\ Id(s) = Id(candidate)
      /\ s.sources = candidate.sources /\ Missing(s.votes) = {}
  <2>1. candidate # None
    BY SealOfCandidate, NoneAssumption
  <2> QED
    BY <2>1, SealOfCandidate
<1> HIDE DEF s
<1>2. PICK b \in Seq(SealIds) : /\ ExtendsBase(b) /\ StoreTyped(seals, b)
                                /\ Id(candidate) \notin Range(b)
  BY <1>1, BaseOfChain
<1>3. /\ seals' = Put(seals, Id(s), s)
      /\ DOMAIN seals' = DOMAIN seals \cup {Id(s)}
      /\ \A id \in DOMAIN seals' : seals'[id] = IF id = Id(s) THEN s ELSE seals[id]
  BY DEF s, Put
<1>4. /\ Linked(seals', b, HeadName(b))
      /\ \A i \in DOMAIN b : seals'[b[i]] = seals[b[i]]
  <2>1. Linked(seals, b, HeadName(b)) /\ Id(s) \notin Range(b)
    BY <1>1, <1>2 DEF ExtendsBase
  <2> QED
    BY <1>1, <1>2, <1>3, <2>1, PutKeepsChain
<1>5. HeadHash(seals', b) = HeadHash(seals, b)
  <2>1. b # <<>> => Len(b) \in DOMAIN b
    OBVIOUS
  <2> QED
    BY <1>4, <2>1 DEF HeadHash
<1>6. ExtendsBase(b)'
  BY <1>1, <1>2, <1>4, <1>5 DEF ExtendsBase
<1>7. ReserveHasSources'
  BY <1>1, <1>3 DEF StoreSound, ReserveHasSources
<1>8. (Range(audit) \ InFlightName = DOMAIN seals \ InFlightName)'
  BY <1>1, <1>3 DEF StoreSound, InFlightName
<1>9. Unvoted(seals') = {}
  BY <1>1, <1>3 DEF StoreSound, Unvoted
<1>10. Id(s) \in DOMAIN seals' /\ seals'[Id(s)] = s
  BY <1>3
<1> QED
  BY <1>6, <1>7, <1>8, <1>9, <1>10 DEF StoreSound, s

(* Listing the name of the parcel in flight.                                *)
LEMMA RangeOfPush ==
    ASSUME NEW S, NEW s \in Seq(S), NEW x \in S
    PROVE  /\ PushIfMissing(s, x) \in Seq(S) /\ Append(s, x) \in Seq(S)
           /\ Range(PushIfMissing(s, x)) = Range(s) \cup {x}
           /\ Range(Append(s, x)) = Range(s) \cup {x}
<1>1. PushIfMissing(s, x) \in Seq(S) /\ Append(s, x) \in Seq(S)
  BY PushIfMissingTyped
<1>2. Range(Append(s, x)) = Range(s) \cup {x}
  <2>1. /\ DOMAIN Append(s, x) = DOMAIN s \cup {Len(s) + 1}
        /\ \A i \in DOMAIN s : Append(s, x)[i] = s[i]
        /\ Append(s, x)[Len(s) + 1] = x
    BY AppendProperties
  <2> QED
    BY <2>1 DEF Range
<1> QED
  BY <1>1, <1>2 DEF PushIfMissing

LEMMA AuditKeepsStore ==
    ASSUME StoreSound, candidate # None, audit' \in Seq(SealIds),
           Range(audit') = Range(audit) \cup {Id(candidate)},
           UNCHANGED <<balance, hashes, candidate, seals, chain, latest>>
    PROVE  StoreSound'
<1>1. (\E b \in Seq(SealIds) : ExtendsBase(b))'
  BY DEF StoreSound, ExtendsBase
<1>2. ReserveHasSources' /\ Unvoted(seals') = {}
  BY DEF StoreSound, ReserveHasSources
<1>3. (Range(audit) \ InFlightName = DOMAIN seals \ InFlightName)'
  BY DEF StoreSound, InFlightName
<1> QED
  BY <1>1, <1>2, <1>3 DEF StoreSound

(* The index and the pointer are written for a parcel that is attested.     *)
LEMMA ChainKeepsStore ==
    ASSUME FlightTyped, StoreSound, candidate # None, Missing(candidate.votes) = {},
           EvaluateQuorum(candidate.votes) = "attested",
           \/ chain' = PushIfMissing(chain, Id(candidate)) /\ latest' = latest
           \/ latest' = Id(candidate) /\ chain' = chain,
           UNCHANGED <<balance, hashes, candidate, seals, audit>>
    PROVE  StoreSound'
<1>1. PICK b \in Seq(SealIds) : /\ ExtendsBase(b)
                                /\ Id(candidate) \notin Range(b) /\ Id(candidate) \in SealIds
  BY BaseOfChain
<1>2. chain' \in {b, Append(b, Id(candidate))} /\ latest' \in {HeadName(b), Id(candidate)}
  <2>1. chain \in {b, Append(b, Id(candidate))} /\ latest \in {HeadName(b), Id(candidate)}
    BY <1>1 DEF ExtendsBase
  <2>2. Id(candidate) \in Range(Append(b, Id(candidate)))
    BY <1>1, RangeOfPush
  <2>3. PushIfMissing(chain, Id(candidate)) \in {b, Append(b, Id(candidate))}
    BY <2>1, <2>2 DEF PushIfMissing
  <2> QED
    BY <2>1, <2>3
<1>3. ExtendsBase(b)'
  BY <1>1, <1>2 DEF ExtendsBase
<1>4. ReserveHasSources' /\ Unvoted(seals') = {}
  BY DEF StoreSound, ReserveHasSources
<1>5. (Range(audit) \ InFlightName = DOMAIN seals \ InFlightName)' /\ audit' \in Seq(SealIds)
  BY DEF StoreSound, InFlightName
<1> QED
  BY <1>3, <1>4, <1>5 DEF StoreSound

LEMMA ReadIndexesAlone ==
    ASSUME FlightTyped, StoreSound, LoneSound, NEW p \in CronRuns, ReadIndexes(p)
    PROVE  StoreSound' /\ LoneSound'
<1> DEFINE ids  == [chain |-> chain, audit |-> audit]
           todo == {"chain", "audit", "seal", "latest"}
           r    == [run[p] EXCEPT !.at = "append", !.ids = ids, !.todo = todo]
<1>1. /\ p \in Handlers /\ DOMAIN run[p] = DOMAIN Idle /\ run[p].at = "index" /\ Goto(p, r)
      /\ UNCHANGED <<vars, kills, interrupted>>
  BY DEF ReadIndexes, At, Quiet, history, Handlers, FlightTyped, HandlersTyped
<1>2. ids.chain = chain /\ ids.audit = audit
  OBVIOUS
<1> HIDE DEF ids, todo
<1>3. r.at = "append" /\ r.ids = ids /\ r.todo = todo /\ r.seal = run[p].seal
  BY <1>1, IdleFields
<1>4. /\ Consistent(p, run[p]) /\ run'[p] = r
      /\ CandidateSeen(p, run[p])' /\ SealSeen(p, run[p])' => LoneSound'
  BY <1>1, <1>3, CalmMoves DEF Calm, Deciding, vars, ledger
<1>5. /\ candidate # None /\ Missing(candidate.votes) = {}
      /\ run[p].seal = Sealed(candidate, EvaluateQuorum(candidate.votes))
      /\ EvaluateQuorum(candidate.votes) = "attested"
  BY <1>1, <1>4 DEF Consistent, CandidateSeen, SealSeen, Deciding
<1>6. UNCHANGED <<candidate, chain, audit, latest, seals>>
  BY <1>1 DEF vars, store
<1>7. CandidateSeen(p, run[p])'
  BY <1>3, <1>4, <1>5, <1>6 DEF CandidateSeen, VotePlaces, Deciding
<1>8. SealSeen(p, run[p])'
  BY <1>2, <1>3, <1>4, <1>5, <1>6 DEF SealSeen, Deciding, todo
<1> QED
  BY <1>1, <1>4, <1>7, <1>8, StoreUnread

(* The four keys an attested seal is written to, in any order.              *)
LEMMA WriteAppendAlone ==
    ASSUME FlightTyped, StoreSound, LoneSound, NEW p \in CronRuns, NEW key \in run[p].todo,
           WriteAppend(p, key)
    PROVE  StoreSound' /\ LoneSound'
<1> DEFINE s    == run[p].seal
           left == run[p].todo \ {key}
           l    == IF left = {} THEN "clear" ELSE "append"
           r    == [run[p] EXCEPT !.at = l, !.todo = left]
           d    == EvaluateQuorum(candidate.votes)
<1>1. /\ p \in Handlers /\ DOMAIN run[p] = DOMAIN Idle /\ run[p].at = "append" /\ Goto(p, r)
      /\ chain'  = IF key = "chain" THEN PushIfMissing(run[p].ids.chain, Id(s)) ELSE chain
      /\ audit'  = IF key = "audit" THEN PushIfMissing(run[p].ids.audit, Id(s)) ELSE audit
      /\ seals'  = IF key = "seal" THEN Put(seals, Id(s), s) ELSE seals
      /\ latest' = IF key = "latest" THEN Id(s) ELSE latest
      /\ UNCHANGED <<v1Balance, balance, hashes, candidate, formed, kills, interrupted>>
  BY DEF WriteAppend, At, Quiet, history, ledger, Handlers, FlightTyped, HandlersTyped
<1>2. l \in {"clear", "append"} /\ (l = "clear" <=> left = {})
  OBVIOUS
<1>3. r.at = l /\ r.ids = run[p].ids /\ r.todo = left /\ r.seal = s
  BY <1>1, IdleFields
<1>4. /\ Consistent(p, run[p]) /\ run'[p] = r
      /\ CandidateSeen(p, run[p])' /\ SealSeen(p, run[p])' => LoneSound'
  <2> HIDE DEF l, left
  <2> QED
    BY <1>1, <1>2, <1>3, CalmMoves DEF Calm, Deciding
<1>5. /\ candidate # None /\ Missing(candidate.votes) = {} /\ s = Sealed(candidate, d)
      /\ d = "attested"
      /\ run[p].ids.chain = chain \/ "chain" \notin run[p].todo
      /\ run[p].ids.audit = audit \/ "audit" \notin run[p].todo
      /\ "chain" \in run[p].todo \/ Id(s) \in Range(chain)
      /\ "audit" \in run[p].todo \/ Id(s) \in Range(audit)
      /\ "seal" \in run[p].todo \/ SealStored(s)
      /\ "latest" \in run[p].todo \/ latest = Id(s)
  BY <1>1, <1>4 DEF Consistent, CandidateSeen, SealSeen, Deciding
<1>6. Id(s) = Id(candidate) /\ s \in Seals /\ Id(s) \in SealIds
  BY <1>1, SealOfCandidate, SealIdTyped DEF Deciding
<1>7. chain \in Seq(SealIds) /\ audit \in Seq(SealIds)
  <2>1. PICK b \in Seq(SealIds) : chain \in {b, Append(b, Id(candidate))}
    BY <1>5 DEF StoreSound, ExtendsBase
  <2>2. Append(b, Id(candidate)) \in Seq(SealIds)
    BY <1>6, RangeOfPush
  <2> QED
    BY <2>1, <2>2 DEF StoreSound
<1> HIDE DEF s, d
<1>8. key = "chain" => chain' = PushIfMissing(chain, Id(s))
  BY <1>1, <1>5
<1>9. key = "audit" => audit' = PushIfMissing(audit, Id(s))
  BY <1>1, <1>5
<1>10. /\ key # "chain" => chain' = chain
       /\ key # "audit" => audit' = audit
       /\ key # "seal" => seals' = seals
       /\ key # "latest" => latest' = latest
  BY <1>1
<1>11. /\ Id(s) \in Range(chain') \/ ("chain" \in left /\ chain' = chain)
       /\ Id(s) \in Range(audit') \/ ("audit" \in left /\ audit' = audit)
       /\ latest' = Id(s) \/ "latest" \in left
  BY <1>1, <1>5, <1>6, <1>7, <1>8, <1>9, <1>10, RangeOfPush
<1>12. (Id(s) \in DOMAIN seals' /\ seals'[Id(s)] = s) \/ "seal" \in left
  <2>1. CASE key = "seal"
    <3>1. seals' = Put(seals, Id(s), s)
      BY <1>1, <2>1
    <3> QED
      BY <3>1 DEF Put
  <2>2. CASE key # "seal"
    BY <1>5, <1>10, <2>2 DEF SealStored
  <2> QED
    BY <2>1, <2>2
<1>13. StoreSound'
  <2>1. CASE key = "chain" \/ key = "latest"
    <3>1. \/ chain' = PushIfMissing(chain, Id(candidate)) /\ latest' = latest
          \/ latest' = Id(candidate) /\ chain' = chain
      BY <1>1, <1>6, <1>8, <1>10, <2>1
    <3>2. UNCHANGED <<balance, hashes, candidate, seals, audit>>
      BY <1>1, <1>10, <2>1
    <3> QED
      BY <1>5, <3>1, <3>2, ChainKeepsStore DEF d
  <2>2. CASE key = "audit"
    <3>1. audit' \in Seq(SealIds) /\ Range(audit') = Range(audit) \cup {Id(candidate)}
      BY <1>6, <1>7, <1>9, <2>2, RangeOfPush
    <3>2. UNCHANGED <<balance, hashes, candidate, seals, chain, latest>>
      BY <1>1, <1>10, <2>2
    <3> QED
      BY <1>5, <3>1, <3>2, AuditKeepsStore
  <2>3. CASE key = "seal"
    <3>1. seals' = Put(seals, Id(run[p].seal), run[p].seal) /\ run[p].at \in Deciding
      BY <1>1, <2>3 DEF s, Deciding
    <3>2. UNCHANGED <<balance, hashes, candidate, chain, audit, latest>>
      BY <1>1, <1>10, <2>3
    <3> QED
      BY <3>1, <3>2, PutKeepsStore
  <2>4. CASE key \notin {"chain", "audit", "seal", "latest"}
    BY <1>1, <1>10, <2>4, StoreQuiet DEF StoreSound, ReserveHasSources
  <2> QED
    BY <2>1, <2>2, <2>3, <2>4
<1> HIDE DEF l, left
<1>14. CandidateSeen(p, run[p])'
  BY <1>1, <1>2, <1>3, <1>4, <1>5 DEF CandidateSeen, VotePlaces, Deciding
<1>15. SealSeen(p, run[p])'
  <2>1. /\ run'[p].seal = s /\ run'[p].todo = left /\ run'[p].ids = run[p].ids
        /\ run'[p].at = l /\ candidate' = candidate
    BY <1>1, <1>3, <1>4
  <2>2. /\ Missing(candidate.votes) = {} /\ s = Sealed(candidate, EvaluateQuorum(candidate.votes))
        /\ EvaluateQuorum(candidate.votes) = "attested"
    BY <1>5 DEF d
  <2>3. /\ run[p].ids.chain = chain' \/ "chain" \notin left
        /\ run[p].ids.audit = audit' \/ "audit" \notin left
    BY <1>5, <1>10 DEF left
  <2>4. CASE l = "append"
    BY <1>11, <1>12, <2>1, <2>2, <2>3, <2>4 DEF SealSeen, SealStored
  <2>5. CASE l = "clear"
    <3>1. left = {}
      BY <1>2, <2>5
    <3>2. Id(s) \in Range(chain') /\ Id(s) \in Range(audit') /\ latest' = Id(s)
          /\ Id(s) \in DOMAIN seals' /\ seals'[Id(s)] = s
      BY <1>11, <1>12, <3>1
    <3> QED
      BY <2>1, <2>2, <2>5, <3>2 DEF SealSeen, SealStored
  <2> QED
    BY <1>2, <2>4, <2>5
<1> QED
  BY <1>4, <1>13, <1>14, <1>15

(* Any other outcome: the body, then the audit index.                       *)
LEMMA WriteBodyAlone ==
    ASSUME FlightTyped, StoreSound, LoneSound, NEW p \in CronRuns,
           WriteBody(p) \/ ReadAudit(p) \/ WriteAudit(p)
    PROVE  StoreSound' /\ LoneSound'
<1> DEFINE s == run[p].seal
           d == EvaluateQuorum(candidate.votes)
<1>1. /\ p \in Handlers /\ DOMAIN run[p] = DOMAIN Idle
      /\ run[p].at \in {"body", "auditRead", "auditWrite"} /\ run[p].at \in Deciding
      /\ UNCHANGED <<v1Balance, balance, hashes, candidate, chain, latest, formed, kills, interrupted>>
  BY DEF WriteBody, ReadAudit, WriteAudit, At, Quiet, history, ledger, vars, store, Deciding,
         Handlers, FlightTyped, HandlersTyped
<1>2. Consistent(p, run[p])
  BY <1>1 DEF LoneSound, InFlight, Deciding
<1>3. /\ candidate # None /\ Missing(candidate.votes) = {} /\ s = Sealed(candidate, d)
      /\ d # "attested"
      /\ run[p].at # "body" => SealStored(s)
      /\ run[p].at = "auditWrite" => run[p].ids.audit = audit
  BY <1>1, <1>2 DEF Consistent, CandidateSeen, SealSeen
<1>4. Id(s) = Id(candidate) /\ Id(s) \in SealIds /\ audit \in Seq(SealIds)
  BY <1>1, SealOfCandidate, SealIdTyped DEF StoreSound
<1> HIDE DEF s, d
<1>5. ASSUME NEW r, Goto(p, r), r.seal = s, r.at \in {"auditRead", "auditWrite", "clear"},
             Id(s) \in DOMAIN seals', seals'[Id(s)] = s,
             r.at = "auditWrite" => r.ids.audit = audit',
             r.at = "clear" => Id(s) \in Range(audit'),
             StoreSound'
      PROVE  StoreSound' /\ LoneSound'
  <2>1. r.at \in Calm \ {"v1Write"} /\ run[p].at \in Calm
    BY <1>1, <1>5 DEF Calm, Deciding
  <2>2. run'[p] = r /\ (CandidateSeen(p, run[p])' /\ SealSeen(p, run[p])' => LoneSound')
    BY <1>1, <1>5, <2>1, CalmMoves
  <2>3. CandidateSeen(p, run[p])'
    BY <1>1, <1>3, <1>5, <2>2 DEF CandidateSeen, VotePlaces, Deciding
  <2>4. SealSeen(p, run[p])'
    BY <1>1, <1>3, <1>5, <2>2 DEF SealSeen, SealStored, Deciding, d
  <2> QED
    BY <1>5, <2>2, <2>3, <2>4
<1>6. CASE WriteBody(p)
  <2>1. seals' = Put(seals, Id(s), s) /\ audit' = audit
    BY <1>6 DEF WriteBody, s
  <2> DEFINE r == [run[p] EXCEPT !.at = "auditRead"]
  <2>2. Goto(p, r) /\ r.at = "auditRead" /\ r.seal = s
    BY <1>1, <1>6, IdleFields DEF WriteBody, Move, s
  <2>3. StoreSound' /\ Id(s) \in DOMAIN seals' /\ seals'[Id(s)] = s
    BY <1>1, <2>1, PutKeepsStore DEF s
  <2> HIDE DEF r
  <2> QED
    BY <1>5, <2>2, <2>3
<1>7. CASE ReadAudit(p)
  <2> DEFINE l == IF Id(s) \in Range(audit) THEN "clear" ELSE "auditWrite"
             ids == [chain |-> <<>>, audit |-> audit]
             r == [run[p] EXCEPT !.at = l, !.ids = ids]
  <2>1. Goto(p, r) /\ run[p].at = "auditRead" /\ UNCHANGED vars
    BY <1>7 DEF ReadAudit, At, s
  <2>2. /\ l \in {"clear", "auditWrite"} /\ (l = "clear" => Id(s) \in Range(audit))
        /\ ids.audit = audit
    OBVIOUS
  <2>3. SealStored(s) /\ StoreSound' /\ audit' = audit /\ seals' = seals
    BY <1>3, <2>1, StoreUnread DEF vars, store
  <2> HIDE DEF l, ids
  <2>4. r.at = l /\ r.ids = ids /\ r.seal = s
    BY <1>1, IdleFields DEF s
  <2>5. Id(s) \in DOMAIN seals' /\ seals'[Id(s)] = s
    BY <2>3 DEF SealStored
  <2> HIDE DEF r
  <2> QED
    BY <1>5, <2>1, <2>2, <2>3, <2>4, <2>5
<1>8. CASE WriteAudit(p)
  <2> DEFINE r == [run[p] EXCEPT !.at = "clear"]
  <2>1. /\ Goto(p, r) /\ run[p].at = "auditWrite"
        /\ audit' = Append(run[p].ids.audit, Id(s)) /\ seals' = seals
    BY <1>8 DEF WriteAudit, At, Move, s
  <2>2. r.at = "clear" /\ r.seal = s
    BY <1>1, IdleFields DEF s
  <2>3. SealStored(s) /\ audit' = Append(audit, Id(s))
    BY <1>3, <2>1
  <2> HIDE DEF r
  <2>4. audit' \in Seq(SealIds) /\ Range(audit') = Range(audit) \cup {Id(s)}
    BY <1>4, <2>3, RangeOfPush
  <2>5. StoreSound'
    BY <1>1, <1>3, <1>4, <2>1, <2>4, AuditKeepsStore
  <2>6. Id(s) \in DOMAIN seals' /\ seals'[Id(s)] = s
    BY <2>1, <2>3 DEF SealStored
  <2> QED
    BY <1>5, <2>1, <2>2, <2>4, <2>5, <2>6
<1> QED
  BY <1>6, <1>7, <1>8

(* The candidate is cleared: its seal is in the store, and on the chain if  *)
(* it is attested.                                                          *)
LEMMA ClearCandidateAlone ==
    ASSUME FlightTyped, StoreSound, LoneSound, NEW p \in CronRuns, ClearCandidate(p)
    PROVE  StoreSound' /\ LoneSound'
<1> DEFINE s == run[p].seal
           d == EvaluateQuorum(candidate.votes)
           r == [run[p] EXCEPT !.at = "formBalance", !.c = None, !.next = None,
                               !.seal = None, !.ids = None]
<1>1. /\ p \in Handlers /\ DOMAIN run[p] = DOMAIN Idle
      /\ run[p].at = "clear" /\ run[p].at \in Deciding /\ Goto(p, r) /\ candidate' = None
      /\ UNCHANGED <<v1Balance, balance, hashes, seals, chain, audit, latest, formed, kills, interrupted>>
  BY DEF ClearCandidate, At, ledger, store, Deciding, Handlers, FlightTyped, HandlersTyped
<1>2. r.at = "formBalance"
  BY <1>1, IdleFields
<1>3. /\ Consistent(p, run[p]) /\ run'[p] = r
      /\ CandidateSeen(p, run[p])' /\ SealSeen(p, run[p])' => LoneSound'
  BY <1>1, <1>2, CalmMoves DEF Calm
<1>4. CandidateSeen(p, run[p])' /\ SealSeen(p, run[p])'
  BY <1>1, <1>2, <1>3 DEF CandidateSeen, SealSeen, VotePlaces, Deciding
<1>5. /\ candidate # None /\ SealStored(s) /\ Id(s) \in Range(audit)
      /\ d = "attested" => Id(s) \in Range(chain) /\ latest = Id(s)
  BY <1>1, <1>3 DEF Consistent, CandidateSeen, SealSeen
<1>6. /\ Id(s) = Id(candidate) /\ s.seq = candidate.seq /\ s.prev = candidate.prev /\ s.status = d
  BY <1>1, SealOfCandidate
<1> HIDE DEF s
<1>7. PICK b \in Seq(SealIds) : /\ ExtendsBase(b) /\ StoreTyped(seals, b)
                                /\ Id(candidate) \notin Range(b) /\ Id(candidate) \in SealIds
  BY <1>5, BaseOfChain
<1>8. /\ Linked(seals, b, HeadName(b))
      /\ chain \in {b, Append(b, Id(candidate))} /\ latest \in {HeadName(b), Id(candidate)}
      /\ candidate.seq = Len(b) + 1 /\ candidate.prev = HeadHash(seals, b)
      /\ chain # b \/ latest = Id(candidate) => d = "attested"
  BY <1>5, <1>7 DEF ExtendsBase
<1> HIDE DEF d
<1>9. chain \in Seq(SealIds) /\ Linked(seals, chain, HeadName(chain)) /\ latest = HeadName(chain)
  <2>1. CASE d = "attested"
    <3>1. chain = Append(b, Id(s)) /\ latest = Id(s)
      BY <1>5, <1>6, <1>7, <1>8, <2>1
    <3>2. Id(s) \in DOMAIN seals /\ seals[Id(s)] = s
      BY <1>5 DEF SealStored
    <3>3. /\ seals[Id(s)].status = "attested" /\ seals[Id(s)].seq = Len(b) + 1
          /\ seals[Id(s)].prev = HeadHash(seals, b)
      BY <1>6, <1>8, <2>1, <3>2
    <3>4. StoreTyped(seals, chain) /\ Linked(seals, chain, Id(s))
      BY <1>7, <1>8, <3>1, <3>2, <3>3, AppendExtendsChain
    <3>5. HeadName(chain) = Id(s)
      BY <1>6, <1>7, <3>1 DEF HeadName
    <3> QED
      BY <3>1, <3>4, <3>5 DEF StoreTyped
  <2>2. CASE d # "attested"
    BY <1>7, <1>8, <2>2
  <2> QED
    BY <2>1, <2>2
<1>10. ExtendsBase(chain)'
  BY <1>1, <1>9 DEF ExtendsBase
<1>11. (Range(audit) \ InFlightName = DOMAIN seals \ InFlightName)'
  BY <1>1, <1>5, <1>6 DEF StoreSound, InFlightName, SealStored
<1>12. ReserveHasSources'
  BY <1>1 DEF StoreSound, ReserveHasSources
<1>13. StoreSound'
  BY <1>1, <1>9, <1>10, <1>11, <1>12 DEF StoreSound
<1> QED
  BY <1>3, <1>4, <1>13

(* The sweep finds nothing to do: no stored seal has a vote missing.        *)
LEMMA SweepAlone ==
    ASSUME FlightTyped, StoreSound, LoneSound, NEW p \in CronRuns, Sweep(p)
    PROVE  UNCHANGED store /\ StoreSound' /\ LoneSound'
<1>1. /\ p \in Handlers /\ run[p].at = "sweep" /\ End(p) /\ gate = FALSE
      /\ UNCHANGED <<ledger, candidate, formed, kills, interrupted>>
  BY DEF Sweep, At, Quiet, history, Handlers, FlightTyped, KeysTyped
<1>2. UNCHANGED store
  <2>1. Swept(Store, TRUE, {}) = Store
    BY DEF Swept, Store, StoreSound
  <2>2. SetStore(Store)
    BY <1>1, <2>1 DEF Sweep
  <2> QED
    BY <2>2 DEF SetStore, Store, store
<1>3. StoreSound'
  BY <1>1, <1>2, StoreQuiet DEF store, ledger, StoreSound, ReserveHasSources
<1>4. Consistent(p, run[p]) /\ (Balanced(0)' => LoneSound')
  BY <1>1, LoneEnds
<1>5. Balanced(0)
  BY <1>1, <1>4 DEF Consistent, Ahead
<1> QED
  BY <1>1, <1>2, <1>3, <1>4, <1>5, BalancedQuiet DEF ledger

-----------------------------------------------------------------------------
(* Kills, and all steps.                                                    *)

(* A kill leaves a deposit on one side of the ledger only, or a threshold   *)
(* on both.                                                                 *)
LEMMA KillAlone ==
    ASSUME FlightTyped, StoreSound, LoneSound, NEW p \in Handlers, Kill(p)
    PROVE  StoreSound' /\ LoneSound'
<1> DEFINE due == IF p \in Depositors THEN run[p].arg.amount ELSE 0
           ahead == Ahead(p, run[p])
           sealed == Threshold * formed
           cost == Threshold * kills
<1>1. /\ run[p].at # "idle" /\ End(p) /\ kills' = kills + 1 /\ interrupted' = interrupted + due
      /\ UNCHANGED vars
  BY DEF Kill, InFlight
<1>2. Consistent(p, run[p]) /\ (Balanced(0)' => LoneSound')
  BY <1>1, LoneEnds
<1>3. due \in Nat /\ due = Due(p, run[p])
  <2>1. CASE p \in Depositors
    BY <1>1, <2>1, DueTyped
  <2>2. CASE p \notin Depositors
    BY <2>2 DEF Due
  <2> QED
    BY <2>1, <2>2
<1> HIDE DEF due
<1>4. ahead \in {due, due - Threshold, 0}
  BY <1>3 DEF Ahead
<1>5. /\ v1Balance \in Nat /\ balance \in Nat /\ interrupted \in Nat /\ sealed \in Nat /\ cost \in Nat
      /\ Threshold \in Nat /\ Threshold * (kills + 1) = cost + Threshold
  BY LedgerTyped
<1>6. /\ v1Balance - (balance + sealed) - ahead <= interrupted
      /\ 0 <= v1Balance - (balance + sealed) - ahead + cost
  BY <1>2 DEF Consistent, Balanced
<1> HIDE DEF ahead, sealed, cost
<1>7. /\ v1Balance - (balance + sealed) - 0 <= interrupted + due
      /\ 0 <= v1Balance - (balance + sealed) - 0 + (cost + Threshold)
  BY <1>3, <1>4, <1>5, <1>6
<1>8. /\ UNCHANGED <<v1Balance, balance, formed>>
      /\ Threshold * kills' = cost + Threshold
  BY <1>1, <1>5 DEF vars, ledger
<1>9. Balanced(0)'
  BY <1>1, <1>7, <1>8 DEF Balanced, sealed
<1> QED
  BY <1>1, <1>2, <1>9, StoreUnread

(* Every step that lets no handlers meet keeps the store sound.             *)
LEMMA StepUndisturbed == FlightTyped /\ Undisturbed /\ [SNext]_svars => Undisturbed'
<1> SUFFICES ASSUME FlightTyped, Undisturbed, [SNext]_svars, ~disturbed'
             PROVE  StoreSound' /\ LoneSound'
  BY DEF Undisturbed
<1>1. ~disturbed
  <2>1. CASE UNCHANGED svars
    BY <2>1 DEF svars, history
  <2>2. CASE SNext
    <3>1. \A p, r : Enter(p, r) => ~disturbed
      BY DEF Enter, Meet
    <3>2. \A p : DepositStep(p) \/ CronStep(p) => ~disturbed
      <4> SUFFICES ASSUME NEW p, DepositStep(p) \/ CronStep(p)
                   PROVE  ~disturbed
        OBVIOUS
      <4>1. CASE WriteV1(p) \/ ReadAccrual(p) \/ WriteHashes(p) \/ CheckDeposit(p) \/ WriteNext(p)
        BY <4>1 DEF WriteV1, ReadAccrual, WriteHashes, CheckDeposit, WriteNext, Quiet, history
      <4>2. CASE FormStep(p)
        BY <4>2 DEF FormStep, CheckAgain, ReadTip, WriteCandidate, WriteOverflow, WriteCarried,
               Quiet, history
      <4>3. CASE ReadCandidate(p) \/ ReadCronVote(p) \/ WriteCronVote(p) \/ Decide(p)
                 \/ ReadInject(p)
        BY <4>3 DEF ReadCandidate, ReadCronVote, WriteCronVote, Decide, ReadInject, Quiet, history
      <4>4. CASE ReadIndexes(p) \/ (\E key \in run[p].todo : WriteAppend(p, key)) \/ WriteBody(p)
        BY <4>4 DEF ReadIndexes, WriteAppend, WriteBody, Quiet, history
      <4>5. CASE ReadAudit(p) \/ WriteAudit(p) \/ ClearCandidate(p) \/ ReadBalance(p)
        BY <4>5 DEF ReadAudit, WriteAudit, ClearCandidate, ReadBalance, Quiet, history
      <4>6. CASE CheckCandidate(p) \/ ReadHashes(p) \/ Sweep(p)
        BY <4>6 DEF CheckCandidate, ReadHashes, Sweep, Quiet, history
      <4> QED
        BY <4>1, <4>2, <4>3, <4>4, <4>5, <4>6 DEF DepositStep, CronStep
    <3>3. \A p : VoteStep(p) \/ Kill(p) => ~disturbed
      BY DEF VoteStep, ReadRecord, WriteRecord, Kill, Quiet, history
    <3>4. \A ps : Trigger(ps) => ~disturbed
      BY DEF Trigger, Meet
    <3>5. WindowCloses => ~disturbed
      BY DEF WindowCloses
    <3> QED
      BY <2>2, <3>1, <3>2, <3>3, <3>4, <3>5 DEF SNext, StartDeposit, StartVote
  <2> QED
    BY <2>1, <2>2
<1>2. StoreSound /\ LoneSound
  BY <1>1 DEF Undisturbed
<1>3. CASE UNCHANGED svars
  <2>1. UNCHANGED <<vars, run, kills, interrupted>>
    BY <1>3 DEF svars, history
  <2>2. StoreSound'
    BY <1>2, <2>1, StoreUnread
  <2>3. /\ InFlight' = InFlight
        /\ UNCHANGED <<v1Balance, balance, hashes, candidate, seals, chain, audit, latest, formed>>
    BY <2>1 DEF InFlight, vars, ledger, store
  <2>4. ASSUME NEW p \in InFlight
        PROVE  Consistent(p, run[p])'
    <3>1. Consistent(p, run[p])
      BY <1>2 DEF LoneSound
    <3>2. (Balanced(Ahead(p, run[p])) /\ LedgerSeen(p, run[p]))'
      BY <2>1, <2>3, <3>1 DEF Consistent, Balanced, Ahead, Due, LedgerSeen
    <3>3. CandidateSeen(p, run[p])' /\ SealSeen(p, run[p])'
      <4>1. run' = run
        BY <2>1
      <4>2. CandidateSeen(p, run[p]) /\ SealSeen(p, run[p])
        BY <3>1 DEF Consistent
      <4>3. CandidateSeen(p, run[p])'
        BY <2>3, <4>1, <4>2 DEF CandidateSeen
      <4>4. SealSeen(p, run[p])'
        BY <2>3, <4>1, <4>2 DEF SealSeen, SealStored
      <4> QED
        BY <4>3, <4>4
    <3> QED
      BY <3>2, <3>3 DEF Consistent
  <2>5. InFlight = {} => Balanced(0)'
    BY <1>2, <2>1, <2>3, BalancedQuiet DEF LoneSound
  <2> QED
    BY <1>2, <2>2, <2>3, <2>4, <2>5 DEF LoneSound
<1>4. CASE SNext
  <2>1. ASSUME NEW p \in Depositors,
               \/ \E amount \in Amounts, sig \in Signatures : StartDeposit(p, amount, sig)
               \/ DepositStep(p)
        PROVE  StoreSound' /\ LoneSound'
    BY <1>2, <2>1, StartDepositAlone, WriteV1Alone, ReadAccrualAlone, WriteHashesAlone,
       CheckDepositAlone, WriteNextAlone, ReadTipAlone, WriteCandidateAlone, WriteOverflowAlone,
       WriteCarriedAlone DEF DepositStep, FormStep
  <2>2. ASSUME NEW p \in Voters,
               \/ \E verdict \in CastVerdicts : StartVote(p, verdict)
               \/ VoteStep(p)
        PROVE  StoreSound' /\ LoneSound'
    BY <1>2, <2>2, StartVoteAlone, VoteStepAlone
  <2>3. ASSUME NEW p \in CronRuns, CronStep(p)
        PROVE  StoreSound' /\ LoneSound'
    BY <1>2, <2>3, CronVotingAlone, ReadIndexesAlone, WriteAppendAlone, WriteBodyAlone,
       ClearCandidateAlone, LookAlone, ReadTipAlone, WriteCandidateAlone, WriteOverflowAlone,
       WriteCarriedAlone, SweepAlone DEF CronStep, FormStep
  <2>4. ASSUME WindowCloses
        PROVE  StoreSound' /\ LoneSound'
    <3>1. UNCHANGED <<vars, run, kills, interrupted>> /\ InFlight = {}
      BY <2>4 DEF WindowCloses
    <3>2. InFlight' = {} /\ Balanced(0)
      BY <1>2, <3>1 DEF InFlight, LoneSound
    <3>3. LoneSound'
      BY <3>1, <3>2, BalancedQuiet DEF LoneSound, vars, ledger
    <3> QED
      BY <1>2, <3>1, <3>3, StoreUnread
  <2> QED
    BY <1>2, <1>4, <2>1, <2>2, <2>3, <2>4, TriggerAlone, KillAlone DEF SNext
<1> QED
  BY <1>3, <1>4

LEMMA AlwaysUndisturbed == SSpec => []Undisturbed
BY InitUndisturbed, StepUndisturbed, TypesHold, PTL DEF SSpec

(* Killed at any access, a handler leaves a linked chain with its head and  *)
(* a complete audit index, once no parcel is in flight.                     *)
THEOREM ChainSurvivesKills == SSpec => []KillsLeaveChainLinked
<1>1. Undisturbed => KillsLeaveChainLinked
  <2> SUFFICES ASSUME Undisturbed, Alone, candidate = None PROVE
        /\ \A i \in DOMAIN chain :
              /\ chain[i] \in DOMAIN seals
              /\ seals[chain[i]].seq = i
              /\ seals[chain[i]].prev = IF i = 1 THEN 0 ELSE seals[chain[i - 1]].hash
        /\ latest = IF chain = <<>> THEN None ELSE chain[Len(chain)]
        /\ Range(audit) = DOMAIN seals
    BY DEF KillsLeaveChainLinked
  <2>1. StoreSound
    BY DEF Undisturbed, Alone
  <2>2. PICK b \in Seq(SealIds) : ExtendsBase(b)
    BY <2>1 DEF StoreSound
  <2>3. chain = b /\ latest = HeadName(b) /\ Linked(seals, b, HeadName(b))
    BY <2>2 DEF ExtendsBase
  <2>4. InFlightName = {}
    BY DEF InFlightName
  <2> QED
    BY <2>1, <2>3, <2>4 DEF StoreSound, Linked, HeadName
<1> QED
  BY <1>1, AlwaysUndisturbed, PTL

(* A kill costs at most the deposit it interrupts, and duplicates at most   *)
(* one threshold, however many there are and wherever they strike.          *)
THEOREM KillsCostBounded == SSpec => []KillCostBounded
<1>1. FlightTyped /\ Undisturbed => KillCostBounded
  <2> SUFFICES ASSUME FlightTyped, Undisturbed, Alone PROVE
        /\ v1Balance - interrupted <= balance + Threshold * formed
        /\ balance + Threshold * formed <= v1Balance + Threshold * kills
    BY DEF KillCostBounded
  <2> DEFINE sealed == Threshold * formed
             cost == Threshold * kills
  <2>1. /\ v1Balance - (balance + sealed) - 0 <= interrupted
        /\ 0 <= v1Balance - (balance + sealed) - 0 + cost
    BY DEF Undisturbed, Alone, LoneSound, Balanced
  <2>2. /\ v1Balance \in Nat /\ balance \in Nat /\ interrupted \in Nat /\ sealed \in Nat
        /\ cost \in Nat
    BY LedgerTyped
  <2> HIDE DEF sealed, cost
  <2>3. v1Balance - interrupted <= balance + sealed /\ balance + sealed <= v1Balance + cost
    BY <2>1, <2>2
  <2> QED
    BY <2>3 DEF sealed, cost
<1> QED
  BY <1>1, TypesHold, AlwaysUndisturbed, PTL

(* No kill parts units from the hashes of their deposits.                   *)
THEOREM SourcesSurviveKills == SSpec => []KillsKeepSources
<1>1. Undisturbed => KillsKeepSources
  BY DEF Undisturbed, KillsKeepSources, StoreSound
<1> QED
  BY <1>1, AlwaysUndisturbed, PTL
=============================================================================
