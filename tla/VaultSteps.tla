------------------------------ MODULE VaultSteps ------------------------------
(***************************************************************************)
(* The handlers of the sealed reserve split at their awaits: each action is *)
(* one access to the KV store by one handler in flight, so that deposits,   *)
(* sentinel votes and attestation cron runs interleave, and any of them may *)
(* be killed between two accesses, as a serverless function is when it      *)
(* reaches its time limit.                                                  *)
(*                                                                         *)
(* A handler in flight is a record: the place it has reached and the copies *)
(* of keys it goes on to use.  Accesses the code issues together and awaits *)
(* together are one step when they read, and land in any order when they    *)
(* write.  The substrate answers; the sweep at the end of a cron run, which *)
(* has work only after an overlap, is one step.                             *)
(***************************************************************************)
EXTENDS SealedReserve

CONSTANTS
    Depositors, CronRuns,           \* the handlers that may be in flight, with
    Voters,                         \*   one request at a time of each of these
    MaxInFlight,                    \* bound: how many are in flight at once
    MaxMeetings,                    \* bound: how often a handler starts beside another
    MaxKills                        \* bound: how many are killed

ASSUME StepsAssumption ==
    /\ Depositors \cap Voters = {} /\ Depositors \cap CronRuns = {} /\ Voters \cap CronRuns = {}
    /\ Voters \subseteq Sentinels
    /\ IsFiniteSet(Depositors) /\ IsFiniteSet(CronRuns)
    /\ MaxInFlight \in Nat /\ MaxMeetings \in Nat /\ MaxKills \in Nat
    /\ TRUE \in SubstrateOutcomes
    /\ None \notin Seals

Handlers == Depositors \cup Voters \cup CronRuns

VARIABLES
    run,          \* the handlers
    closed,       \* the parcels whose timeout_at has passed
    meetings,     \* how often a handler has started beside another
    kills,        \* history: how many handlers were killed
    disturbed,    \* history: two handlers, or a handler and a timeout, met, or
                  \*   a vote landed on a parcel that is already in the chain
    before,       \* history: the store when the lone handler in flight started
    acked,        \* history: votes on undecided parcels, confirmed by a lone handler
    interrupted   \* history: the units of the deposits that were killed

history == <<disturbed, before, acked, interrupted>>
svars   == <<vars, run, closed, meetings, kills, history>>

Idle == [at |-> "idle", c |-> None, next |-> None, seal |-> None, n |-> 0,
         hs |-> <<>>, tip |-> None, ids |-> None, todo |-> {}, arg |-> None, old |-> FALSE]

InFlight == {p \in Handlers : run[p].at # "idle"}

KV == [v1Balance |-> v1Balance, balance |-> balance, hashes |-> hashes,
       candidate |-> candidate, seals |-> seals, chain |-> chain,
       audit |-> audit, latest |-> latest, formed |-> formed]

SInit ==
    /\ Init
    /\ run = [p \in Handlers |-> Idle]
    /\ closed = {} /\ meetings = 0 /\ kills = 0 /\ disturbed = FALSE /\ before = None
    /\ acked = {} /\ interrupted = 0

(* Handler p goes on as r: to place l with the copies it has, or to its end. *)
Goto(p, r) == run' = [run EXCEPT ![p] = r]
Move(p, l) == Goto(p, [run[p] EXCEPT !.at = l])
End(p)     == Goto(p, Idle)
At(p, l)   == run[p].at = l

(* The handlers ps are about to be in flight.  Where handlers meet none is  *)
(* killed, and where one is killed none meet.                               *)
Meet(ps) ==
    LET met == Cardinality(ps) > 1
    IN  /\ met => Cardinality(ps) <= MaxInFlight /\ meetings < MaxMeetings /\ kills = 0
        /\ meetings' = meetings + IF met THEN 1 ELSE 0
        /\ disturbed' = (disturbed \/ met)
        /\ before' = IF disturbed' \/ kills > 0 THEN None ELSE KV

(* Handler p starts as r.                                                   *)
Enter(p, r) ==
    /\ At(p, "idle")
    /\ Meet(InFlight \cup {p})
    /\ Goto(p, [r EXCEPT !.old = InFlight \cap CronRuns # {}])
    /\ UNCHANGED <<acked, interrupted, kills, closed>>

Quiet == UNCHANGED <<history, meetings, kills, closed>>

(* The attestation window of c, which is a time in the candidate.           *)
Open(c) == c.hash \notin closed

-----------------------------------------------------------------------------
(* writeVaultDeposit, then accrueDepositV2.                                 *)

StartDeposit(p, amount, sig) ==
    /\ v1Balance + amount <= MaxReserve
    /\ Enter(p, [Idle EXCEPT !.at = "v1Write", !.n = v1Balance,
                           !.arg = [amount |-> amount, sig |-> sig]])
    /\ UNCHANGED vars

WriteV1(p) ==
    /\ At(p, "v1Write")
    /\ v1Balance' = run[p].n + run[p].arg.amount
    /\ Move(p, "accrue")
    /\ Quiet /\ UNCHANGED <<balance, hashes, candidate, store, gate, cycle, formed>>

(* Where a deposit goes once it holds the balance it makes.                 *)
AfterHashes(n) == IF n < Threshold THEN "setNext" ELSE "depositCheck"

ReadAccrual(p) ==
    /\ At(p, "accrue")
    /\ LET n   == balance + run[p].arg.amount
           all == PushIfMissing(hashes, run[p].arg.sig)
           l   == IF all = hashes THEN AfterHashes(n) ELSE "hashWrite"
       IN  Goto(p, [run[p] EXCEPT !.at = l, !.n = n, !.hs = all])
    /\ Quiet /\ UNCHANGED vars

WriteHashes(p) ==
    /\ At(p, "hashWrite")
    /\ hashes' = run[p].hs
    /\ Move(p, AfterHashes(run[p].n))
    /\ Quiet /\ UNCHANGED <<v1Balance, balance, candidate, store, gate, cycle, formed>>

CheckDeposit(p) ==
    /\ At(p, "depositCheck")
    /\ Move(p, IF candidate # None \/ gate THEN "setNext" ELSE "formAgain")
    /\ Quiet /\ UNCHANGED vars

WriteNext(p) ==
    /\ At(p, "setNext")
    /\ balance' = run[p].n
    /\ End(p)
    /\ Quiet /\ UNCHANGED <<v1Balance, hashes, candidate, store, gate, cycle, formed>>

-----------------------------------------------------------------------------
(* Formation: tryFormNextCandidate of the cron up to formCandidate, and     *)
(* from there the steps the cron and the deposits share.                    *)

ReadBalance(p) ==
    /\ At(p, "formBalance")
    /\ IF gate \/ balance < Threshold THEN Move(p, "sweep")
       ELSE Goto(p, [run[p] EXCEPT !.at = "formCheck", !.n = balance])
    /\ Quiet /\ UNCHANGED vars

CheckCandidate(p) ==
    /\ At(p, "formCheck")
    /\ Move(p, IF candidate # None THEN "sweep" ELSE "formHashes")
    /\ Quiet /\ UNCHANGED vars

ReadHashes(p) ==
    /\ At(p, "formHashes")
    /\ Goto(p, [run[p] EXCEPT !.at = "formAgain", !.hs = hashes])
    /\ Quiet /\ UNCHANGED vars

(* formCandidate looks for a candidate again before it goes on.             *)
CheckAgain(p) ==
    /\ At(p, "formAgain")
    /\ Move(p, IF candidate = None THEN "formTip"
               ELSE IF p \in Depositors THEN "setNext" ELSE "sweep")
    /\ Quiet /\ UNCHANGED vars

(* Fault: the units are taken out of the balance before the candidate is    *)
(* written.                                                                 *)
ReadTip_TakesUnits(p) ==
    /\ At(p, "formTip")
    /\ balance' = run[p].n - Threshold
    /\ Goto(p, [run[p] EXCEPT !.at = "formWrite", !.tip = Tip(seals, latest)])
    /\ Quiet /\ UNCHANGED <<v1Balance, hashes, candidate, store, gate, cycle, formed>>

ReadTip(p) ==
    /\ At(p, "formTip")
    /\ Goto(p, [run[p] EXCEPT !.at = "formWrite", !.tip = Tip(seals, latest)])
    /\ Quiet /\ UNCHANGED vars

(* Fault: the hashes are cleared with the candidate, before the balance.    *)
WriteCandidate_ClearsHashes(p) ==
    /\ At(p, "formWrite")
    /\ candidate' = NewCandidate(run[p].tip, run[p].hs)
    /\ formed' = formed + 1 /\ hashes' = <<>>
    /\ Goto(p, [run[p] EXCEPT !.at = "formSet", !.tip = None])
    /\ Quiet /\ UNCHANGED <<v1Balance, balance, store, gate, cycle>>

WriteCandidate(p) ==
    /\ At(p, "formWrite")
    /\ candidate' = NewCandidate(run[p].tip, run[p].hs)
    /\ formed' = formed + 1
    /\ Goto(p, [run[p] EXCEPT !.at = "formSet", !.tip = None])
    /\ Quiet /\ UNCHANGED <<ledger, store, gate, cycle>>

WriteOverflow(p) ==
    /\ At(p, "formSet")
    /\ balance' = run[p].n - Threshold
    /\ Move(p, "formCarry")
    /\ Quiet /\ UNCHANGED <<v1Balance, hashes, candidate, store, gate, cycle, formed>>

(* Fault: nothing is carried forward.                                       *)
WriteCarried_Nothing(p) ==
    /\ At(p, "formCarry")
    /\ hashes' = <<>>
    /\ IF p \in Depositors THEN End(p)
       ELSE Goto(p, [run[p] EXCEPT !.at = "sweep", !.n = 0, !.hs = <<>>])
    /\ Quiet /\ UNCHANGED <<v1Balance, balance, candidate, store, gate, cycle, formed>>

(* A deposit carries its own signature forward, the cron the last hash.     *)
WriteCarried(p) ==
    /\ At(p, "formCarry")
    /\ IF p \in Depositors
       THEN /\ hashes' = IF run[p].n > Threshold THEN <<run[p].arg.sig>> ELSE <<>>
            /\ End(p)
       ELSE /\ hashes' = CarriedForward(run[p].hs, run[p].n - Threshold)
            /\ Goto(p, [run[p] EXCEPT !.at = "sweep", !.n = 0, !.hs = <<>>])
    /\ Quiet /\ UNCHANGED <<v1Balance, balance, candidate, store, gate, cycle, formed>>

-----------------------------------------------------------------------------
(* POST /api/vault/seal/attest.  The route verifies the submission against  *)
(* the candidate it reads; recordAttestation reads the candidate again and  *)
(* compares names only.                                                     *)

StartVote(p, verdict) ==
    /\ candidate # None /\ Open(candidate)
    /\ ~(gate /\ verdict = "pass")
    /\ Enter(p, [Idle EXCEPT !.at = "record", !.ids = Id(candidate),
                           !.arg = [verdict |-> verdict]])
    /\ UNCHANGED vars

(* Fault: the attestations are replaced by the one recorded.                *)
ReadRecord_Replaces(p) ==
    /\ At(p, "record")
    /\ IF candidate = None THEN End(p)
       ELSE IF Id(candidate) # run[p].ids THEN End(p)
       ELSE Goto(p, [run[p] EXCEPT !.at = "recordWrite",
               !.next = [candidate EXCEPT !.votes = [NoVotes EXCEPT ![p] = run[p].arg.verdict]]])
    /\ Quiet /\ UNCHANGED vars

ReadRecord(p) ==
    /\ At(p, "record")
    /\ IF candidate = None THEN End(p)
       ELSE IF Id(candidate) # run[p].ids THEN End(p)
       ELSE Goto(p, [run[p] EXCEPT !.at = "recordWrite",
                                   !.next = [candidate EXCEPT !.votes[p] = run[p].arg.verdict]])
    /\ Quiet /\ UNCHANGED vars

(* The vote is confirmed: any earlier confirmed vote of the same sentinel   *)
(* on the same parcel is replaced.                                          *)
Confirm(hash, agent, verdict, alone) ==
    {v \in acked : v.hash # hash \/ v.agent # agent}
        \cup IF alone THEN {[hash |-> hash, agent |-> agent, verdict |-> verdict]} ELSE {}

WriteRecord(p) ==
    /\ At(p, "recordWrite")
    /\ candidate' = run[p].next
    /\ acked' = Confirm(run[p].next.hash, p, run[p].arg.verdict, InFlight = {p})
    /\ disturbed' = (disturbed \/ Id(run[p].next) \in Range(chain) \cup {latest})
    /\ End(p)
    /\ UNCHANGED <<ledger, store, gate, cycle, formed, closed, meetings, kills, before, interrupted>>

-----------------------------------------------------------------------------
(* GET /api/cron/vault-attestation.                                         *)

(* A trigger, or several in the same moment: the guard reads and writes its *)
(* key in two steps, so they all pass it.  Later triggers are four minutes  *)
(* away: whatever met the runs of one trigger has ended by the next.        *)
Trigger(ps) ==
    /\ \A q \in InFlight : q \notin CronRuns /\ ~run[q].old
    /\ Meet(InFlight \cup ps)
    /\ run' = [q \in Handlers |->
                 IF q \in ps THEN [Idle EXCEPT !.at = "begin"]
                 ELSE [run[q] EXCEPT !.old = q \in InFlight]]
    /\ UNCHANGED <<vars, closed, kills, acked, interrupted>>

ReadCandidate(p) ==
    /\ At(p, "begin")
    /\ IF candidate = None THEN Move(p, "formBalance")
       ELSE Goto(p, [run[p] EXCEPT !.at = "vote", !.c = candidate, !.todo = Sentinels])
    /\ Quiet /\ UNCHANGED vars

(* The sentinels the run still has to vote for, going by its own copy.      *)
Silent(p) == {a \in run[p].todo : run[p].c.votes[a] = NoVote}

NextSilent(p) == Council[Min({i \in DOMAIN Council : Council[i] \in Silent(p)})]

(* recordAttestation for the next silent sentinel: nothing is recorded when *)
(* the stored candidate is gone or has another name.                        *)
ReadCronVote(p) ==
    /\ At(p, "vote") /\ Silent(p) # {}
    /\ LET a == NextSilent(p)
           w == IF gate THEN "flag" ELSE "pass"
           gone == IF candidate = None THEN TRUE ELSE Id(candidate) # Id(run[p].c)
       IN  IF gone THEN Goto(p, [run[p] EXCEPT !.at = "vote", !.todo = run[p].todo \ {a}])
           ELSE Goto(p, [run[p] EXCEPT !.at = "voteWrite", !.todo = run[p].todo \ {a},
                                      !.next = [candidate EXCEPT !.votes[a] = w]])
    /\ Quiet /\ UNCHANGED vars

WriteCronVote(p) ==
    /\ At(p, "voteWrite")
    /\ candidate' = run[p].next
    /\ Goto(p, [run[p] EXCEPT !.at = "vote", !.c = run[p].next, !.next = None])
    /\ Quiet /\ UNCHANGED <<ledger, store, gate, cycle, formed>>

(* finalizeSeal reads the candidate again and gives the decision to         *)
(* whatever candidate is there.                                             *)
Sealed(c, decision) ==
    [SealOf(c, c.votes, TRUE) EXCEPT !.status = decision, !.pointer = decision = "attested"]

(* Fault: the candidate is cleared before its seal is stored.               *)
Decide_ClearsFirst(p) ==
    /\ At(p, "vote") /\ Silent(p) = {}
    /\ LET d == EvaluateQuorum(run[p].c.votes)
       IN  IF d = "waiting"
           THEN IF Open(run[p].c) THEN End(p) ELSE Move(p, "inject")
           ELSE IF candidate = None
                THEN Goto(p, [run[p] EXCEPT !.at = "formBalance", !.c = None])
           ELSE Goto(p, [run[p] EXCEPT !.at = IF d = "attested" THEN "index" ELSE "body",
                                       !.c = None, !.seal = Sealed(candidate, d)])
    /\ candidate' = IF EvaluateQuorum(run[p].c.votes) = "waiting" THEN candidate ELSE None
    /\ Quiet /\ UNCHANGED <<ledger, store, gate, cycle, formed>>

(* The run decides on its own copy.  With votes still missing it waits, or, *)
(* the window closed, goes on to inject the flags of the silent ones.       *)
Decide(p) ==
    /\ At(p, "vote") /\ Silent(p) = {}
    /\ LET d == EvaluateQuorum(run[p].c.votes)
       IN  IF d = "waiting"
           THEN IF Open(run[p].c) THEN End(p) ELSE Move(p, "inject")
           ELSE IF candidate = None
                THEN Goto(p, [run[p] EXCEPT !.at = "formBalance", !.c = None])
           ELSE Goto(p, [run[p] EXCEPT !.at = IF d = "attested" THEN "index" ELSE "body",
                                       !.c = None, !.seal = Sealed(candidate, d)])
    /\ Quiet /\ UNCHANGED vars

(* injectTimeouts: read the candidate, fill it with flags, write it.        *)
ReadInject(p) ==
    /\ At(p, "inject")
    /\ IF candidate = None \/ Open(candidate)
       THEN Goto(p, [run[p] EXCEPT !.at = "formBalance", !.c = None])
       ELSE Goto(p, [run[p] EXCEPT !.at = "voteWrite", !.todo = {},
                       !.next = [candidate EXCEPT !.votes = FillVotes(candidate.votes, "flag")]])
    /\ Quiet /\ UNCHANGED vars

(* appendSealToChain: the indexes are read, then four keys are written.     *)
ReadIndexes(p) ==
    /\ At(p, "index")
    /\ Goto(p, [run[p] EXCEPT !.at = "append", !.ids = [chain |-> chain, audit |-> audit],
                              !.todo = {"chain", "audit", "seal", "latest"}])
    /\ Quiet /\ UNCHANGED vars

WriteAppend(p, key) ==
    /\ At(p, "append") /\ key \in run[p].todo
    /\ LET s    == run[p].seal
           left == run[p].todo \ {key}
       IN  /\ chain'  = IF key = "chain" THEN PushIfMissing(run[p].ids.chain, Id(s)) ELSE chain
           /\ audit'  = IF key = "audit" THEN PushIfMissing(run[p].ids.audit, Id(s)) ELSE audit
           /\ seals'  = IF key = "seal" THEN Put(seals, Id(s), s) ELSE seals
           /\ latest' = IF key = "latest" THEN Id(s) ELSE latest
           /\ Goto(p, [run[p] EXCEPT !.at = IF left = {} THEN "clear" ELSE "append",
                                     !.todo = left])
    /\ Quiet /\ UNCHANGED <<ledger, candidate, retry, gate, cycle, formed>>

(* writeSeal and appendSealToAuditChain, for any other outcome.             *)
WriteBody(p) ==
    /\ At(p, "body")
    /\ seals' = Put(seals, Id(run[p].seal), run[p].seal)
    /\ Move(p, "auditRead")
    /\ Quiet /\ UNCHANGED <<ledger, candidate, chain, audit, latest, retry, gate, cycle, formed>>

ReadAudit(p) ==
    /\ At(p, "auditRead")
    /\ Goto(p, [run[p] EXCEPT
                   !.at = IF Id(run[p].seal) \in Range(audit) THEN "clear" ELSE "auditWrite",
                   !.ids = [chain |-> <<>>, audit |-> audit]])
    /\ Quiet /\ UNCHANGED vars

WriteAudit(p) ==
    /\ At(p, "auditWrite")
    /\ audit' = Append(run[p].ids.audit, Id(run[p].seal))
    /\ Move(p, "clear")
    /\ Quiet /\ UNCHANGED <<ledger, candidate, seals, chain, latest, retry, gate, cycle, formed>>

(* Fault: the candidate stays after its seal is stored.                     *)
ClearCandidate_Forgets(p) ==
    /\ At(p, "clear")
    /\ Goto(p, [run[p] EXCEPT !.at = "formBalance", !.c = None, !.next = None,
                              !.seal = None, !.ids = None])
    /\ Quiet /\ UNCHANGED vars

ClearCandidate(p) ==
    /\ At(p, "clear")
    /\ candidate' = None
    /\ acked' = {v \in acked : v.hash # run[p].seal.hash}
    /\ Goto(p, [run[p] EXCEPT !.at = "formBalance", !.c = None, !.next = None,
                              !.seal = None, !.ids = None])
    /\ UNCHANGED <<ledger, store, gate, cycle, formed, closed, meetings, kills,
                   disturbed, before, interrupted>>

Sweep(p) ==
    /\ At(p, "sweep")
    /\ \E st \in {IF gate THEN Store ELSE Swept(Store, TRUE, {})} : SetStore(st)
    /\ End(p)
    /\ Quiet /\ UNCHANGED <<ledger, candidate, gate, cycle, formed>>

-----------------------------------------------------------------------------
(* A handler in flight dies: what it read is gone, what it wrote stays.     *)
Kill(p) ==
    /\ p \in InFlight /\ kills < MaxKills /\ ~disturbed
    /\ kills' = kills + 1
    /\ interrupted' = interrupted + IF p \in Depositors THEN run[p].arg.amount ELSE 0
    /\ before' = None
    /\ End(p)
    /\ UNCHANGED <<vars, closed, meetings, disturbed, acked>>

WindowCloses ==
    /\ candidate # None /\ Open(candidate)
    /\ InFlight # {} => kills = 0
    /\ closed' = closed \cup {candidate.hash}
    /\ disturbed' = (disturbed \/ InFlight # {})
    /\ before' = IF disturbed' THEN None ELSE before
    /\ UNCHANGED <<vars, run, meetings, kills, acked, interrupted>>

FormStep(p) ==
    \/ CheckAgain(p) \/ ReadTip(p) \/ WriteCandidate(p)
    \/ WriteOverflow(p) \/ WriteCarried(p)

DepositStep(p) ==
    \/ WriteV1(p) \/ ReadAccrual(p) \/ WriteHashes(p)
    \/ CheckDeposit(p) \/ WriteNext(p) \/ FormStep(p)

VoteStep(p) == ReadRecord(p) \/ WriteRecord(p)

CronStep(p) ==
    \/ ReadCandidate(p) \/ ReadCronVote(p) \/ WriteCronVote(p)
    \/ Decide(p) \/ ReadInject(p)
    \/ ReadIndexes(p) \/ \E key \in run[p].todo : WriteAppend(p, key)
    \/ WriteBody(p) \/ ReadAudit(p) \/ WriteAudit(p) \/ ClearCandidate(p)
    \/ ReadBalance(p) \/ CheckCandidate(p) \/ ReadHashes(p) \/ FormStep(p)
    \/ Sweep(p)

SNext ==
    \/ \E p \in Depositors :
          \/ \E amount \in Amounts, sig \in Signatures : StartDeposit(p, amount, sig)
          \/ DepositStep(p)
    \/ \E p \in Voters :
          \/ \E verdict \in CastVerdicts : StartVote(p, verdict)
          \/ VoteStep(p)
    \/ \E ps \in (SUBSET CronRuns) \ {{}} : Trigger(ps)
    \/ \E p \in CronRuns : CronStep(p)
    \/ \E p \in Handlers : Kill(p)
    \/ WindowCloses

SFairness ==
    /\ \A p \in Depositors : WF_svars(DepositStep(p))
    /\ \A p \in Voters : WF_svars(VoteStep(p))
    /\ \A p \in CronRuns : WF_svars(CronStep(p))
    /\ SF_svars(\E ps \in (SUBSET CronRuns) \ {{}} : Trigger(ps))

SSpec == SInit /\ [][SNext]_svars /\ SFairness

-----------------------------------------------------------------------------
(* Properties.                                                              *)

Places ==
    {"idle", "v1Write", "accrue", "hashWrite", "setNext", "depositCheck",
     "record", "recordWrite", "begin", "vote", "voteWrite", "inject", "index", "append",
     "body", "auditRead", "auditWrite", "clear", "formBalance", "formCheck",
     "formHashes", "formAgain", "formTip", "formWrite", "formSet", "formCarry", "sweep"}

STypeOK ==
    /\ v1Balance \in Nat /\ balance \in Nat /\ formed \in Nat
    /\ candidate \in Candidates \cup {None}
    /\ DOMAIN seals \subseteq SealIds
    /\ \A id \in DOMAIN seals : seals[id] \in Seals /\ Id(seals[id]) = id
    /\ \A p \in Handlers :
          /\ run[p].at \in Places
          /\ run[p].n \in Nat
          /\ run[p].at \in {"recordWrite", "voteWrite"} => run[p].next \in Candidates

(* A vote that was confirmed while nothing else was in flight is not lost,  *)
(* whatever overlaps afterwards, until its parcel is decided: every later   *)
(* write of the candidate holds it, and so does the seal made from it.      *)
(* Each write starts from a copy that some handler read earlier.            *)
ConfirmedVoteCounts ==
    \A v \in acked :
        /\ candidate # None /\ candidate.hash = v.hash => candidate.votes[v.agent] = v.verdict
        /\ \A p \in CronRuns :
              run[p].seal # None /\ run[p].seal.hash = v.hash
                => run[p].seal.votes[v.agent] = v.verdict

Alone == ~disturbed /\ InFlight = {}

(* Killed at any access, a handler leaves nothing the next runs do not      *)
(* repair: with no candidate left, the attested index is a linked chain     *)
(* that ends at the head, and the audit index lists every stored seal.      *)
KillsLeaveChainLinked ==
    Alone /\ candidate = None =>
        /\ \A i \in DOMAIN chain :
              /\ chain[i] \in DOMAIN seals
              /\ seals[chain[i]].seq = i
              /\ seals[chain[i]].prev = IF i = 1 THEN 0 ELSE seals[chain[i - 1]].hash
        /\ latest = IF chain = <<>> THEN None ELSE chain[Len(chain)]
        /\ Range(audit) = DOMAIN seals

(* A kill costs at most the deposit it interrupts, and puts at most one     *)
(* threshold both into a parcel and back into the balance.                  *)
KillCostBounded ==
    Alone =>
        /\ v1Balance - interrupted <= balance + Threshold * formed
        /\ balance + Threshold * formed <= v1Balance + Threshold * kills

(* The order of the writes keeps the provenance through every kill: a hash  *)
(* is written before the units it stands for, and the units are taken out   *)
(* before their hashes.                                                     *)
KillsKeepSources == ~disturbed => ReserveHasSources

(* Every parcel is decided, however handlers overlap and die: the candidate *)
(* does not stay for ever.                                                  *)
ParcelDecided ==
    \A n \in 1..(MaxReserve \div Threshold) :
        (candidate # None /\ candidate.hash = n)
            ~> (candidate = None \/ candidate.hash # n)

(* What a reader between requests sees: the store as it was when the lone   *)
(* handler in flight started.                                               *)
Seen == IF InFlight # {} /\ ~disturbed /\ kills = 0 THEN before ELSE KV

Shut(c) == IF c = None THEN None ELSE [c EXCEPT !.open = Open(c)]

Reserve == INSTANCE SealedReserve WITH
    v1Balance <- Seen.v1Balance, balance <- Seen.balance, hashes <- Seen.hashes,
    candidate <- Shut(Seen.candidate), seals <- Seen.seals, chain <- Seen.chain,
    audit <- Seen.audit, latest <- Seen.latest, formed <- Seen.formed

(* As long as handlers do not overlap and none is killed, their steps       *)
(* amount to the whole-handler actions of SealedReserve.                    *)
ImplementsReserve ==
    /\ Reserve!Init
    /\ [][~disturbed' /\ kills' = 0 => (Reserve!Next \/ UNCHANGED Reserve!vars)]_svars
=============================================================================
