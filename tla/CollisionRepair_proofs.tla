----------------------- MODULE CollisionRepair_proofs -----------------------
(***************************************************************************)
(* Proofs about the repair of colliding block numbers, for every inherited *)
(* chain, any number of scripts and all bounds.                            *)
(***************************************************************************)
EXTENDS CollisionRepair, FiniteSetTheorems, TLAPS

(* The choice of the newest canonical seal.                                *)

LEMMA NewestExists ==
    ASSUME NEW n \in Nat, NEW T \in SUBSET (1..n), T # {}
    PROVE  \E x \in T : \A y \in T : x >= y
<1> DEFINE Above(s) == {k \in 1..n : k >= s}
           R == StrictSubsetOrdering(1..n)
           U == {Above(s) : s \in T}
<1>1. IsWellFoundedOn(R, SUBSET (1..n))
  <2>1. IsFiniteSet(1..n)
    BY FS_Interval
  <2>2. FiniteSubsetsOf(1..n) = SUBSET (1..n)
    BY <2>1, FS_FiniteSubsetsOfFinite
  <2>3. IsWellFoundedOn(StrictSubsetOrdering(1..n), FiniteSubsetsOf(1..n))
    BY FS_StrictSubsetOrderingWellFounded
  <2> QED BY <2>2, <2>3
<1>2. U \subseteq SUBSET (1..n) /\ U # {}
  OBVIOUS
<1>3. \E X \in U : \A Y \in U : <<Y, X>> \notin R
  <2> HIDE DEF R, U
  <2> QED BY <1>1, <1>2, WFMin
<1>4. PICK x \in T : \A y \in T : <<Above(y), Above(x)>> \notin R
  BY <1>3
<1>5. ASSUME NEW y \in T, y > x PROVE FALSE
  <2>1. Above(y) \subseteq Above(x) /\ x \in Above(x) /\ x \notin Above(y)
    BY <1>5
  <2>2. <<Above(y), Above(x)>> \in R
    BY <2>1 DEF StrictSubsetOrdering
  <2> QED BY <2>2, <1>4
<1> QED BY <1>5

LEMMA NewestIsMember ==
    ASSUME NEW n \in Nat, NEW c, NEW T, T # {}, \A s \in T : c[s] \in 1..n
    PROVE  Newest(c, T) \in T
<1> DEFINE V == {c[s] : s \in T}
<1>1. V \in SUBSET (1..n) /\ V # {}
  OBVIOUS
<1>2. PICK x \in V : \A y \in V : x >= y
  <2> HIDE DEF V
  <2> QED BY <1>1, NewestExists
<1>3. PICK s \in T : x = c[s]
  OBVIOUS
<1>4. \A u \in T : c[s] >= c[u]
  BY <1>2, <1>3
<1> QED BY <1>4 DEF Newest

LEMMA CanonicalIsUsable ==
    ASSUME NEW c, NEW q, NEW f
    PROVE  CanonicalSeals(c, q, f) \subseteq Attested(c) \ q
BY DEF CanonicalSeals, Usable, AttestedAt

(* A pointer target is a seal of the list and not quarantined, and there   *)
(* is one only if every block is resolved.                                 *)
LEMMA NewestIsUsable ==
    ASSUME NEW c \in [Names -> Times], NEW q, NEW f, NewestCanonical(c, q, f) # NoSeal
    PROVE  /\ NewestCanonical(c, q, f) \in Attested(c) \ q
           /\ UnresolvedBlocks(c, q, f) = {}
<1> DEFINE T == CanonicalSeals(c, q, f)
<1>1. T # {} /\ UnresolvedBlocks(c, q, f) = {} /\ NewestCanonical(c, q, f) = Newest(c, T)
  BY DEF NewestCanonical
<1>2. T \subseteq Attested(c) \ q
  BY CanonicalIsUsable
<1>3. \A s \in T : c[s] \in 1..MaxSeals
  BY <1>2, BoundsAssumption DEF Attested, Times
<1>4. Newest(c, T) \in T
  <2> HIDE DEF T
  <2> QED BY <1>1, <1>3, BoundsAssumption, NewestIsMember
<1> QED BY <1>1, <1>2, <1>4

(* Only the index of the colliding blocks matters.                         *)
LEMMA NewestOfCollisions ==
    ASSUME NEW c, NEW q, NEW f, NEW g, \A b \in Collisions(c) : f[b] = g[b]
    PROVE  /\ UnresolvedBlocks(c, q, f) = UnresolvedBlocks(c, q, g)
           /\ NewestCanonical(c, q, f) = NewestCanonical(c, q, g)
<1>1. UnresolvedBlocks(c, q, f) = UnresolvedBlocks(c, q, g)
  BY DEF UnresolvedBlocks
<1>2. CanonicalSeals(c, q, f) = CanonicalSeals(c, q, g)
  BY DEF CanonicalSeals
<1> QED BY <1>1, <1>2 DEF NewestCanonical

-----------------------------------------------------------------------------
(* The inductive invariant, in parts.                                      *)

Reading == {"canonical", "quarantined", "latest", "others", "commit"}

(* The chain is numbered as histories are, and there is room for the       *)
(* candidate.                                                              *)
Numbered ==
    /\ \A s \in Attested(chain) : s.block <= chain[s] /\ chain[s] <= clock
    /\ latest.block <= clock
    /\ candidate # NoSeal => clock < MaxSeals /\ candidate.block <= clock + 1

(* A running script holds an approved receipt and a list of seals; a plan  *)
(* has a target on that list.                                              *)
ScriptsHold ==
    \A o \in Scripts :
       /\ script[o].at \in Reading =>
            /\ script[o].receipt \in receipts
            /\ \A s \in Attested(script[o].seals) : s.block <= clock
       /\ script[o].at \in {"journal", "write"} => /\ script[o].receipt \in receipts
                                                  /\ script[o].outcome \in Outcomes
       /\ script[o].at = "commit" => script[o].target \in Attested(script[o].seals)

TInv == RTypeOK /\ Numbered /\ ScriptsHold

LEMMA NoSealIsNoName == NoSeal \notin Names
BY BoundsAssumption DEF NoSeal, Names, Blocks

LEMMA NameHasBlock ==
    ASSUME NEW s \in Names
    PROVE  s.block \in Blocks /\ s.block \in Nat
BY BoundsAssumption DEF Names, Blocks

LEMMA AttestedHasBlock ==
    ASSUME NEW c \in [Names -> Times], NEW s \in Attested(c)
    PROVE  s \in Names /\ s.block \in Blocks /\ s.block \in Nat /\ c[s] \in Nat
<1>1. s \in Names
  BY DEF Attested
<1> QED BY <1>1, NameHasBlock, BoundsAssumption DEF Times

LEMMA IdleIsRun == Idle \in Run
BY BoundsAssumption DEF Idle, Run, NoSeals, Times, NamesOrNone

LEMMA TInvInit == RInit => TInv
<1> SUFFICES ASSUME RInit PROVE TInv
  OBVIOUS
<1>1. /\ chain \in [Names -> Times] /\ Attested(chain) # {}
      /\ \A s \in Attested(chain) : s.block <= chain[s]
  BY HistoriesAssumption DEF RInit
<1>2. Idle \in Run
  BY IdleIsRun
<1>3. /\ latest \in Attested(chain) /\ candidate = NoSeal
      /\ canonical = [b \in Blocks |-> NoSeal] /\ quarantined = {} /\ receipts = {}
      /\ journal = {} /\ kills = 0 /\ committed = {} /\ overlapped = FALSE /\ reused = {}
      /\ script = [o \in Scripts |-> Idle] /\ clock = Max({chain[s] : s \in Names})
  BY DEF RInit
<1>4. Attested(chain) \subseteq Names
  BY <1>1 DEF Attested
<1>5. clock \in Times /\ \A s \in Names : chain[s] <= clock
  <2> DEFINE V == {chain[s] + 1 : s \in Names}
             W == {chain[s] : s \in Names}
  <2>1. V \in SUBSET (1..(MaxSeals + 1)) /\ V # {} /\ MaxSeals + 1 \in Nat
    BY <1>1, <1>4, BoundsAssumption DEF Times
  <2>2. PICK v \in V : \A y \in V : v >= y
    <3> HIDE DEF V
    <3> QED BY <2>1, NewestExists
  <2>3. PICK s \in Names : v = chain[s] + 1
    OBVIOUS
  <2>4. chain[s] \in W /\ \A y \in W : chain[s] >= y
    BY <2>2, <2>3, <1>1, BoundsAssumption DEF Times
  <2>5. Max(W) \in W /\ \A y \in W : Max(W) >= y
    <3> HIDE DEF W
    <3> QED BY <2>4 DEF Max
  <2> QED BY <2>5, <1>1, <1>3, BoundsAssumption DEF Times
<1>6. RTypeOK
  <2>1. latest \in Names /\ candidate \in NamesOrNone /\ kills \in 0..MaxKills
    BY <1>3, <1>4, BoundsAssumption DEF NamesOrNone
  <2>2. canonical \in [Blocks -> NamesOrNone] /\ script \in [Scripts -> Run]
    BY <1>2, <1>3 DEF NamesOrNone
  <2> QED BY <1>1, <1>3, <1>5, <2>1, <2>2 DEF RTypeOK
<1>7. Numbered
  <2>1. \A s \in Attested(chain) : s.block \in Nat /\ chain[s] \in Nat
    BY <1>1, AttestedHasBlock
  <2>2. latest.block <= chain[latest] /\ chain[latest] <= clock /\ clock \in Nat
    BY <1>1, <1>3, <1>4, <1>5, BoundsAssumption DEF Times
  <2> QED BY <1>1, <1>3, <1>4, <1>5, <2>1, <2>2 DEF Numbered
<1>8. ScriptsHold
  BY <1>3 DEF ScriptsHold, Idle, Reading
<1> QED BY <1>6, <1>7, <1>8 DEF TInv

(* The next number fits, and so does the next sealed_at.                   *)
LEMMA GrowthFacts ==
    ASSUME TInv
    PROVE  /\ clock \in Nat /\ latest \in Names /\ latest.block \in Nat /\ latest.block >= 1
           /\ latest.block <= clock
           /\ candidate # NoSeal => /\ candidate \in Names /\ clock < MaxSeals
                                    /\ candidate.block \in Nat /\ candidate.block <= clock + 1
           /\ chain \in [Names -> Times]
BY BoundsAssumption DEF TInv, RTypeOK, Numbered, Names, Blocks, Times, NamesOrNone

LEMMA TInvGrowth ==
    ASSUME TInv, FormCandidate \/ AttestSeal \/ RejectSeal \/ ApproveReceipt
    PROVE  TInv'
<1> USE BoundsAssumption
<1>f. /\ clock \in Nat /\ latest \in Names /\ latest.block \in Nat /\ latest.block >= 1
      /\ latest.block <= clock
      /\ candidate # NoSeal => /\ candidate \in Names /\ clock < MaxSeals
                               /\ candidate.block \in Nat /\ candidate.block <= clock + 1
      /\ chain \in [Names -> Times]
  BY GrowthFacts
<1> USE DEF TInv
<1>1. CASE FormCandidate
  <2>1. PICK c \in Cycles : candidate' = [block |-> latest.block + 1, cycle |-> c]
    BY <1>1 DEF FormCandidate
  <2>2. /\ clock < MaxSeals
        /\ UNCHANGED <<chain, clock, latest, canonical, quarantined, receipts, journal, script,
                       kills, committed, overlapped, reused>>
    BY <1>1 DEF FormCandidate, Ungrown
  <2>3. candidate' \in Names /\ candidate'.block = latest.block + 1
    BY <2>1, <2>2, <1>f DEF Names, Blocks
  <2>4. RTypeOK'
    BY <2>2, <2>3 DEF RTypeOK, NamesOrNone
  <2>5. Numbered'
    BY <2>2, <2>3, <1>f DEF Numbered, Attested
  <2> QED BY <2>2, <2>4, <2>5 DEF ScriptsHold
<1>2. CASE AttestSeal
  <2>1. /\ candidate # NoSeal /\ chain' = [chain EXCEPT ![candidate] = clock + 1]
        /\ clock' = clock + 1 /\ latest' = candidate /\ candidate' = NoSeal
        /\ reused' = reused \cup Overwritten
        /\ UNCHANGED <<canonical, quarantined, receipts, journal, script, kills, committed,
                       overlapped>>
    BY <1>2 DEF AttestSeal, Ungrown
  <2>2. clock' \in Times /\ chain' \in [Names -> Times]
    BY <2>1, <1>f DEF Times
  <2>3. reused' \in SUBSET Names
    BY <2>1, <1>f DEF Overwritten, RTypeOK
  <2>4. RTypeOK'
    BY <2>1, <2>2, <2>3, <1>f DEF RTypeOK, NamesOrNone
  <2>5. ASSUME NEW s \in Attested(chain') PROVE s.block <= chain'[s] /\ chain'[s] <= clock'
    <3>1. s \in Names
      BY <2>2, <2>5 DEF Attested
    <3>2. CASE s = candidate
      BY <3>2, <2>1, <1>f
    <3>3. CASE s # candidate
      <4>1. chain'[s] = chain[s] /\ s \in Attested(chain)
        BY <3>1, <3>3, <2>1, <2>5, <1>f DEF Attested
      <4>2. chain[s] \in Nat
        BY <3>1, <1>f DEF Times
      <4> QED BY <4>1, <4>2, <2>1, <1>f DEF Numbered
    <3> QED BY <3>2, <3>3
  <2>6. Numbered'
    BY <2>1, <2>5, <1>f DEF Numbered
  <2>7. ScriptsHold'
    <3>1. \A o \in Scripts : script[o].seals \in [Names -> Times]
      BY DEF RTypeOK, Run
    <3>2. \A o \in Scripts : \A s \in Attested(script[o].seals) :
            s.block \in Nat /\ (s.block <= clock => s.block <= clock')
      BY <3>1, <2>1, <1>f, AttestedHasBlock
    <3> QED BY <2>1, <3>2 DEF ScriptsHold
  <2> QED BY <2>4, <2>6, <2>7
<1>3. CASE RejectSeal
  <2>1. /\ candidate # NoSeal /\ chain' = [chain EXCEPT ![candidate] = 0]
        /\ candidate' = NoSeal /\ reused' = reused \cup Overwritten
        /\ UNCHANGED <<clock, latest, canonical, quarantined, receipts, journal, script, kills,
                       committed, overlapped>>
    BY <1>3 DEF RejectSeal, Ungrown
  <2>2. chain' \in [Names -> Times] /\ reused' \in SUBSET Names
    BY <2>1, <1>f DEF Overwritten, RTypeOK, Times
  <2>3. RTypeOK'
    BY <2>1, <2>2 DEF RTypeOK, NamesOrNone
  <2>4. \A s \in Attested(chain') : s \in Attested(chain) /\ chain'[s] = chain[s]
    BY <2>1, <1>f DEF Attested
  <2>5. Numbered'
    BY <2>1, <2>4, <1>f DEF Numbered
  <2> QED BY <2>1, <2>3, <2>5 DEF ScriptsHold
<1>4. CASE ApproveReceipt
  <2>1. receipts' \in SUBSET Receipt /\ receipts \subseteq receipts'
    <3>0. PICK b \in Collisions(chain) : \E s \in AttestedAt(chain, b) :
            receipts' = receipts \cup {[block |-> b, canonical |-> s,
                                        conflicting |-> AttestedAt(chain, b) \ {s},
                                        hashes |-> Audit(b)]}
      BY <1>4 DEF ApproveReceipt
    <3>1. PICK s \in AttestedAt(chain, b) :
            receipts' = receipts \cup {[block |-> b, canonical |-> s,
                                        conflicting |-> AttestedAt(chain, b) \ {s},
                                        hashes |-> Audit(b)]}
      BY <3>0
    <3>2. Attested(chain) \subseteq Names
      BY <1>f DEF Attested
    <3>3. b \in Blocks /\ AttestedAt(chain, b) \subseteq Names
      BY <3>2 DEF Collisions, BlocksOf, AttestedAt, Names
    <3>4. Audit(b) \in SUBSET (Names \X Times)
      BY <1>f, <3>3 DEF Audit, Times
    <3> QED BY <3>1, <3>3, <3>4 DEF RTypeOK, Receipt
  <2> QED BY <1>4, <2>1 DEF ApproveReceipt, keys, growth, RTypeOK, Numbered, ScriptsHold
<1> QED BY <1>1, <1>2, <1>3, <1>4

(* A script's step changes its own entry only; what the step must keep of  *)
(* the invariant follows from what holds of that entry.                    *)
LEMMA TInvEntry ==
    ASSUME TInv, NEW o \in Scripts, NEW next \in Run, Goto(o, next),
           UNCHANGED <<chain, clock, candidate, reused, receipts>>,
           latest' \in Names, latest'.block <= clock, canonical' \in [Blocks -> NamesOrNone],
           quarantined' \in SUBSET Names, committed' \subseteq receipts,
           journal' \in SUBSET (Receipt \X Outcomes), kills' \in 0..MaxKills,
           overlapped' \in BOOLEAN,
           next.at \in Reading => /\ next.receipt \in receipts
                                  /\ \A s \in Attested(next.seals) : s.block <= clock,
           next.at \in {"journal", "write"} => next.receipt \in receipts /\ next.outcome \in Outcomes,
           next.at = "commit" => next.target \in Attested(next.seals)
    PROVE  TInv'
<1>1. script' \in [Scripts -> Run] /\ script'[o] = next
      /\ \A p \in Scripts \ {o} : script'[p] = script[p]
  BY DEF Goto, TInv, RTypeOK
<1>2. RTypeOK'
  BY <1>1 DEF TInv, RTypeOK
<1>3. Numbered'
  BY DEF TInv, Numbered
<1>4. ScriptsHold'
  BY <1>1 DEF TInv, ScriptsHold
<1> QED BY <1>2, <1>3, <1>4 DEF TInv

LEMMA EndKeepsTInv ==
    ASSUME TInv, NEW o \in Scripts, End(o),
           UNCHANGED <<keys, receipts, committed>>,
           journal' \in SUBSET (Receipt \X Outcomes), kills' \in 0..MaxKills,
           overlapped' \in BOOLEAN
    PROVE  TInv'
<1> DEFINE next == [Idle EXCEPT !.at = "done"]
<1>1. next \in Run /\ next.at = "done"
  BY IdleIsRun DEF Run
<1>2. Goto(o, next)
  BY DEF End
<1>3. \A v : v = "done" => v \notin Reading /\ v \notin {"journal", "write"} /\ v # "commit"
  BY DEF Reading
<1> HIDE DEF next
<1>4. /\ latest' \in Names /\ latest'.block <= clock /\ canonical' \in [Blocks -> NamesOrNone]
      /\ quarantined' \in SUBSET Names /\ committed' \subseteq receipts
      /\ UNCHANGED <<chain, clock, candidate, reused, receipts>>
  BY DEF keys, growth, TInv, RTypeOK, Numbered
<1> QED BY <1>1, <1>2, <1>3, <1>4, TInvEntry

LEMMA TInvScript ==
    ASSUME TInv, NEW o \in Scripts, ScriptStep(o) \/ KillScript(o)
    PROVE  TInv'
<1>t. /\ script[o] \in Run /\ chain \in [Names -> Times] /\ clock \in Nat
      /\ latest \in Names /\ latest.block <= clock /\ canonical \in [Blocks -> NamesOrNone]
      /\ quarantined \in SUBSET Names /\ committed \subseteq receipts
      /\ receipts \in SUBSET Receipt
      /\ journal \in SUBSET (Receipt \X Outcomes) /\ kills \in 0..MaxKills
      /\ overlapped \in BOOLEAN
  BY BoundsAssumption DEF TInv, RTypeOK, Numbered, Times
<1>h. /\ script[o].at \in Reading => /\ script[o].receipt \in receipts
                                      /\ \A s \in Attested(script[o].seals) : s.block <= clock
      /\ script[o].at \in {"journal", "write"} => /\ script[o].receipt \in receipts
                                                  /\ script[o].outcome \in Outcomes
      /\ script[o].at = "commit" => script[o].target \in Attested(script[o].seals)
  BY DEF TInv, ScriptsHold
<1> USE BoundsAssumption
<1>1. CASE ListSeals(o)
  <2>1. PICK r \in receipts :
          Goto(o, [Idle EXCEPT !.at = "canonical", !.receipt = r, !.seals = chain])
    BY <1>1 DEF ListSeals
  <2> DEFINE next == [Idle EXCEPT !.at = "canonical", !.receipt = r, !.seals = chain]
  <2>2. next \in Run /\ next.at = "canonical" /\ next.receipt = r /\ next.seals = chain
    <3>1. r \in Receipt
      BY <1>t
    <3> QED BY <3>1, <1>t, IdleIsRun DEF Run
  <2> HIDE DEF next
  <2>3. \A s \in Attested(chain) : s.block <= clock
    <3>1. \A s \in Attested(chain) : s.block \in Nat /\ chain[s] \in Nat
      BY <1>t, AttestedHasBlock
    <3> QED BY <3>1, <1>t DEF TInv, Numbered
  <2> QED BY <1>1, <1>t, <2>1, <2>2, <2>3, TInvEntry DEF ListSeals, keys, growth, next
<1>2. CASE ReadCanonical(o)
  <2> DEFINE next == [script[o] EXCEPT !.at = "quarantined",
                                      !.before = canonical[script[o].receipt.block]]
  <2>1. canonical[script[o].receipt.block] \in NamesOrNone
    BY <1>2, <1>t, <1>h DEF ReadCanonical, Reading, Receipt
  <2>2. next \in Run /\ next.at = "quarantined" /\ next.receipt = script[o].receipt
        /\ next.seals = script[o].seals
    BY <2>1, <1>t DEF Run
  <2>3. Goto(o, next)
    BY <1>2 DEF ReadCanonical
  <2> HIDE DEF next
  <2> QED BY <1>2, <1>t, <1>h, <2>2, <2>3, TInvEntry DEF ReadCanonical, keys, growth, Reading
<1>3. CASE ReadQuarantined(o)
  <2> DEFINE next == [script[o] EXCEPT !.at = "latest", !.quarantined = quarantined]
  <2>2. next \in Run /\ next.at = "latest" /\ next.receipt = script[o].receipt
        /\ next.seals = script[o].seals
    BY <1>t DEF Run
  <2>3. Goto(o, next)
    BY <1>3 DEF ReadQuarantined
  <2> HIDE DEF next
  <2> QED BY <1>3, <1>t, <1>h, <2>2, <2>3, TInvEntry DEF ReadQuarantined, keys, growth, Reading
<1>4. CASE ReadLatest(o)
  <2> DEFINE next == [script[o] EXCEPT !.at = "others", !.latest = latest]
  <2>2. next \in Run /\ next.at = "others" /\ next.receipt = script[o].receipt
        /\ next.seals = script[o].seals
    <3>1. latest \in NamesOrNone
      BY <1>t DEF NamesOrNone
    <3> QED BY <3>1, <1>t DEF Run
  <2>3. Goto(o, next)
    BY <1>4 DEF ReadLatest
  <2> HIDE DEF next
  <2> QED BY <1>4, <1>t, <1>h, <2>2, <2>3, TInvEntry DEF ReadLatest, keys, growth, Reading
<1>5. CASE ReadOthers(o)
  <2> DEFINE r == script[o].receipt
             index == [canonical EXCEPT ![r.block] = r.canonical]
             target == NewestCanonical(script[o].seals, NextQuarantined(o), index)
             next == [script[o] EXCEPT !.at = "commit", !.target = target]
  <2>1. script[o].at = "others" /\ UNCHANGED <<keys, receipts, journal, kills, committed, overlapped>>
    BY <1>5 DEF ReadOthers
  <2>2. CASE End(o)
    BY <2>1, <2>2, <1>t, EndKeepsTInv DEF keys
  <2>3. CASE target # NoSeal /\ Goto(o, next)
    <3>1. script[o].seals \in [Names -> Times]
      BY <1>t DEF Run
    <3> HIDE DEF index
    <3>2. target \in Attested(script[o].seals)
      BY <2>3, <3>1, NewestIsUsable
    <3> HIDE DEF target
    <3>4. target \in NamesOrNone
      BY <3>1, <3>2 DEF Attested, NamesOrNone
    <3>5. next \in Run /\ next.at = "commit" /\ next.receipt = script[o].receipt
          /\ next.seals = script[o].seals /\ next.target = target
      BY <3>4, <1>t DEF Run
    <3>6. Goto(o, next)
      BY <2>3
    <3> HIDE DEF next
    <3> QED BY <2>1, <1>t, <1>h, <3>2, <3>5, <3>6, TInvEntry DEF keys, growth, Reading
  <2> QED BY <1>5, <2>2, <2>3 DEF ReadOthers
<1>6. ASSUME NEW out \in Outcomes, Report(o, out), script[o].at = "commit",
             latest' \in Names, latest'.block <= clock, canonical' \in [Blocks -> NamesOrNone],
             quarantined' \in SUBSET Names, committed' \subseteq receipts,
             UNCHANGED <<chain, clock, candidate, reused, receipts, journal, kills, overlapped>>
      PROVE  TInv'
  <2> DEFINE next == [Idle EXCEPT !.at = "journal", !.receipt = script[o].receipt, !.outcome = out]
  <2>1. script[o].receipt \in receipts
    BY <1>6, <1>h DEF Reading
  <2>2. next \in Run /\ next.at = "journal" /\ next.receipt = script[o].receipt
        /\ next.outcome = out
    BY <2>1, <1>t, <1>6, IdleIsRun DEF Run
  <2>3. Goto(o, next)
    BY <1>6 DEF Report
  <2> HIDE DEF next
  <2> QED BY <1>6, <1>t, <2>1, <2>2, <2>3, TInvEntry DEF Reading
<1>7. CASE Commit(o)
  <2>1. /\ script[o].at = "commit" /\ Report(o, "committed")
        /\ quarantined = script[o].quarantined
        /\ canonical' = [canonical EXCEPT ![script[o].receipt.block] = script[o].receipt.canonical]
        /\ quarantined' = NextQuarantined(o) /\ latest' = script[o].target
        /\ committed' = committed \cup {script[o].receipt}
        /\ UNCHANGED <<chain, clock, candidate, reused, receipts, journal, kills, overlapped>>
    BY <1>7 DEF Commit, KeysAsRead
  <2>2. script[o].receipt \in receipts /\ script[o].receipt \in Receipt
        /\ script[o].target \in Attested(script[o].seals)
        /\ \A s \in Attested(script[o].seals) : s.block <= clock
    BY <2>1, <1>h, <1>t DEF Reading
  <2>3. script[o].receipt.canonical \in NamesOrNone
        /\ script[o].receipt.conflicting \in SUBSET Names
    BY <2>2 DEF Receipt, NamesOrNone
  <2>4. latest' \in Names /\ latest'.block <= clock
    BY <2>1, <2>2, <1>t DEF Run, Attested
  <2>5. canonical' \in [Blocks -> NamesOrNone] /\ quarantined' \in SUBSET Names
        /\ committed' \subseteq receipts
    BY <2>1, <2>2, <2>3, <1>t DEF NextQuarantined
  <2> QED BY <2>1, <2>4, <2>5, <1>6 DEF Outcomes
<1>8. CASE CommitNothing(o)
  BY <1>8, <1>t, <1>6 DEF CommitNothing, keys, growth, Outcomes
<1>9. CASE ReadJournal(o)
  <2> DEFINE next == [script[o] EXCEPT !.at = "write", !.journal = journal]
  <2>1. next \in Run /\ next.at = "write" /\ next.receipt = script[o].receipt
        /\ next.outcome = script[o].outcome
    BY <1>t DEF Run
  <2>2. Goto(o, next)
    BY <1>9 DEF ReadJournal
  <2>3. overlapped' \in BOOLEAN
    BY <1>9, <1>t DEF ReadJournal
  <2> HIDE DEF next
  <2> QED BY <1>9, <1>t, <1>h, <2>1, <2>2, <2>3, TInvEntry DEF ReadJournal, keys, growth, Reading
<1>10. CASE WriteJournal(o)
  <2>1. script[o].receipt \in Receipt /\ script[o].outcome \in Outcomes
        /\ script[o].journal \in SUBSET (Receipt \X Outcomes)
    BY <1>10, <1>t, <1>h DEF WriteJournal, Run
  <2>2. journal' \in SUBSET (Receipt \X Outcomes)
    BY <1>10, <2>1 DEF WriteJournal
  <2> QED BY <1>10, <1>t, <2>2, EndKeepsTInv DEF WriteJournal
<1>11. CASE KillScript(o)
  <2>1. kills' \in 0..MaxKills
    BY <1>11, <1>t DEF KillScript
  <2> QED BY <1>11, <1>t, <2>1, EndKeepsTInv DEF KillScript
<1> QED BY <1>1, <1>2, <1>3, <1>4, <1>5, <1>7, <1>8, <1>9, <1>10, <1>11 DEF ScriptStep

LEMMA TInvKept == TInv /\ [RNext]_repairVars => TInv'
<1> SUFFICES ASSUME TInv, [RNext]_repairVars PROVE TInv'
  OBVIOUS
<1>1. CASE UNCHANGED repairVars
  BY <1>1 DEF repairVars, keys, growth, TInv, RTypeOK, Numbered, ScriptsHold
<1> QED BY <1>1, TInvGrowth, TInvScript DEF RNext

(* Type correctness for every inherited chain, any scripts and all bounds. *)
THEOREM RepairTypeCorrect == RSpec => []RTypeOK
<1>1. TInv => RTypeOK
  BY DEF TInv
<1> QED BY <1>1, TInvInit, TInvKept, PTL DEF RSpec

-----------------------------------------------------------------------------
(* What the keys hold is what the committed receipts say.                  *)

Eligible(b) == {r.canonical : r \in {t \in committed : t.block = b}}

(* A receipt is about seals of its block, each of them stored or its name  *)
(* given again; of two receipts of a block that choose differently one     *)
(* rules out the other's choice, or the name of a choice was given again.  *)
ReceiptsMatch ==
    /\ \A r \in receipts :
         /\ \A s \in r.conflicting \cup {r.canonical} :
              s.block = r.block /\ (chain[s] # 0 \/ s \in reused)
         /\ r.canonical \notin r.conflicting
    /\ \A r, t \in receipts :
         r.block = t.block => \/ r.canonical = t.canonical
                              \/ r.canonical \in t.conflicting
                              \/ t.canonical \in r.conflicting
                              \/ {r.canonical, t.canonical} \cap reused # {}

KeysFollowRepairs ==
    /\ quarantined = UNION {r.conflicting : r \in committed}
    /\ \A b \in Blocks : \/ canonical[b] = NoSeal /\ Eligible(b) = {}
                         \/ canonical[b] \in Eligible(b)

(* A plan comes from an index that committed receipts had written.         *)
PlanOf(o, index) ==
    /\ \A b \in Blocks : index[b] \in Eligible(b) \cup {NoSeal}
    /\ script[o].target = NewestCanonical(script[o].seals, NextQuarantined(o),
                             [index EXCEPT ![script[o].receipt.block] = script[o].receipt.canonical])

PlansFollowRepairs ==
    \A o \in Scripts :
       script[o].at = "commit" => \E index \in [Blocks -> NamesOrNone] : PlanOf(o, index)

RInv ==
    /\ TInv
    /\ ReceiptsMatch
    /\ KeysFollowRepairs
    /\ PlansFollowRepairs
    /\ PointerNotQuarantined

LEMMA RInvInit == RInit => RInv
<1> SUFFICES ASSUME RInit PROVE RInv
  OBVIOUS
<1>1. /\ receipts = {} /\ committed = {} /\ quarantined = {}
      /\ canonical = [b \in Blocks |-> NoSeal] /\ script = [o \in Scripts |-> Idle]
  BY DEF RInit
<1>2. KeysFollowRepairs
  BY <1>1 DEF KeysFollowRepairs, Eligible
<1>3. PlansFollowRepairs
  BY <1>1 DEF PlansFollowRepairs, Idle
<1> QED BY <1>1, <1>2, <1>3, TInvInit DEF RInv, ReceiptsMatch, PointerNotQuarantined

(* A seal that was ruled out is stored, or its name was given again.       *)
LEMMA QuarantinedStored ==
    ASSUME TInv, ReceiptsMatch, KeysFollowRepairs, NEW s \in quarantined
    PROVE  chain[s] # 0 \/ s \in reused
<1>1. PICK r \in committed : s \in r.conflicting
  BY DEF KeysFollowRepairs
<1>2. r \in receipts
  BY DEF TInv, RTypeOK
<1> QED BY <1>1, <1>2 DEF ReceiptsMatch

LEMMA RInvGrowth ==
    ASSUME RInv, TInv', FormCandidate \/ AttestSeal \/ RejectSeal \/ ApproveReceipt
    PROVE  RInv'
<1>1. CASE FormCandidate
  <2>1. UNCHANGED <<chain, latest, reused, canonical, quarantined, receipts, script, committed>>
    BY <1>1 DEF FormCandidate, Ungrown
  <2>2. ReceiptsMatch' /\ PointerNotQuarantined'
    BY <2>1 DEF RInv, ReceiptsMatch, PointerNotQuarantined
  <2>3. KeysFollowRepairs' /\ PlansFollowRepairs'
    BY <2>1 DEF RInv, KeysFollowRepairs, Eligible, PlansFollowRepairs, PlanOf, NextQuarantined
  <2> QED BY <2>2, <2>3 DEF RInv
<1>2. CASE AttestSeal \/ RejectSeal
  <2>1. /\ candidate # NoSeal /\ reused' = reused \cup Overwritten
        /\ \E x : chain' = [chain EXCEPT ![candidate] = x]
        /\ AttestSeal => latest' = candidate
        /\ RejectSeal => latest' = latest
        /\ UNCHANGED <<canonical, quarantined, receipts, script, committed>>
    BY <1>2 DEF AttestSeal, RejectSeal, Ungrown
  <2>2. chain \in [Names -> Times] /\ candidate \in Names
    BY <2>1, GrowthFacts DEF RInv
  <2>3. \A s \in Names : chain[s] # 0 \/ s \in reused => chain'[s] # 0 \/ s \in reused'
    <3> SUFFICES ASSUME NEW s \in Names, chain[s] # 0 \/ s \in reused
                 PROVE  chain'[s] # 0 \/ s \in reused'
      OBVIOUS
    <3>1. CASE s = candidate
      BY <3>1, <2>1 DEF Overwritten
    <3>2. CASE s # candidate
      BY <3>2, <2>1, <2>2
    <3> QED BY <3>1, <3>2
  <2>4. ReceiptsMatch'
    <3>1. ReceiptsMatch /\ reused \subseteq reused' /\ receipts' = receipts
      BY <2>1 DEF RInv
    <3>2. \A r \in receipts : r.conflicting \cup {r.canonical} \subseteq Names
      BY DEF RInv, TInv, RTypeOK, Receipt
    <3> QED BY <3>1, <3>2, <2>3 DEF ReceiptsMatch
  <2>5. KeysFollowRepairs'
    BY <2>1 DEF RInv, KeysFollowRepairs, Eligible
  <2>6. PlansFollowRepairs'
    BY <2>1 DEF RInv, PlansFollowRepairs, PlanOf, Eligible, NextQuarantined
  <2>7. PointerNotQuarantined'
    <3>1. CASE AttestSeal
      <4> SUFFICES ASSUME candidate \in quarantined PROVE candidate \in reused'
        BY <3>1, <2>1 DEF PointerNotQuarantined
      <4>1. chain[candidate] # 0 \/ candidate \in reused
        BY QuarantinedStored DEF RInv
      <4> QED BY <4>1, <2>1 DEF Overwritten
    <3>2. CASE RejectSeal
      BY <3>2, <2>1 DEF RInv, PointerNotQuarantined
    <3> QED BY <1>2, <3>1, <3>2
  <2> QED BY <2>4, <2>5, <2>6, <2>7 DEF RInv
<1>3. CASE ApproveReceipt
  <2>1. PICK b \in Collisions(chain) : \E s \in AttestedAt(chain, b) :
          receipts' = receipts \cup {[block |-> b, canonical |-> s,
                                      conflicting |-> AttestedAt(chain, b) \ {s},
                                      hashes |-> Audit(b)]}
    BY <1>3 DEF ApproveReceipt
  <2>2. PICK s \in AttestedAt(chain, b) :
          receipts' = receipts \cup {[block |-> b, canonical |-> s,
                                      conflicting |-> AttestedAt(chain, b) \ {s},
                                      hashes |-> Audit(b)]}
    BY <2>1
  <2>3. UNCHANGED <<keys, script, committed>>
    BY <1>3 DEF ApproveReceipt
  <2> DEFINE new == [block |-> b, canonical |-> s, conflicting |-> AttestedAt(chain, b) \ {s},
                     hashes |-> Audit(b)]
  <2>4. new.block = b /\ new.canonical = s /\ new.conflicting = AttestedAt(chain, b) \ {s}
        /\ receipts' = receipts \cup {new}
    BY <2>2
  <2> HIDE DEF new
  <2>5. \A u \in AttestedAt(chain, b) : u.block = b /\ chain[u] # 0
    BY DEF AttestedAt, Attested
  <2>6. UNCHANGED <<chain, reused>> /\ ReceiptsMatch
    BY <2>3 DEF keys, growth, RInv
  <2>7. ASSUME NEW t \in receipts, t.block = b
        PROVE  t.canonical = s \/ t.canonical \in new.conflicting \/ t.canonical \in reused
    <3>1. t.canonical.block = b /\ (chain[t.canonical] # 0 \/ t.canonical \in reused)
      BY <2>6, <2>7 DEF ReceiptsMatch
    <3>2. t \in Receipt /\ DOMAIN chain = Names
      BY DEF RInv, TInv, RTypeOK
    <3>3. t.canonical \in DOMAIN chain
      BY <3>2 DEF Receipt
    <3> QED BY <3>1, <3>3, <2>4 DEF AttestedAt, Attested
  <2>8. ReceiptsMatch'
    <3>1. \A r \in receipts' : /\ \A u \in r.conflicting \cup {r.canonical} :
                                    u.block = r.block /\ (chain[u] # 0 \/ u \in reused)
                               /\ r.canonical \notin r.conflicting
      BY <2>2, <2>4, <2>5, <2>6 DEF ReceiptsMatch
    <3>2. \A r, t \in receipts' : r.block = t.block =>
            \/ r.canonical = t.canonical \/ r.canonical \in t.conflicting
            \/ t.canonical \in r.conflicting \/ {r.canonical, t.canonical} \cap reused # {}
      BY <2>4, <2>6, <2>7 DEF ReceiptsMatch
    <3> QED BY <2>6, <3>1, <3>2 DEF ReceiptsMatch
  <2> QED BY <2>3, <2>8 DEF RInv, KeysFollowRepairs, Eligible, PlansFollowRepairs, PlanOf,
                            NextQuarantined, PointerNotQuarantined, keys, growth
<1> QED BY <1>1, <1>2, <1>3

(* A step that writes no key keeps the invariant if the script that takes  *)
(* it is not left at its commit.                                           *)
LEMMA RInvNoWrite ==
    ASSUME RInv, TInv', NEW o \in Scripts, NEW next, Goto(o, next),
           UNCHANGED <<keys, receipts, committed>>,
           next.at # "commit"
    PROVE  RInv'
<1>1. script'[o] = next /\ \A p \in Scripts \ {o} : script'[p] = script[p]
  BY DEF Goto, RInv, TInv, RTypeOK
<1>2. PlansFollowRepairs'
  BY <1>1 DEF RInv, PlansFollowRepairs, PlanOf, Eligible, NextQuarantined, keys, growth
<1> QED BY <1>2 DEF RInv, ReceiptsMatch, KeysFollowRepairs, Eligible, PointerNotQuarantined, keys,
                    growth

LEMMA RInvScript ==
    ASSUME RInv, TInv', NEW o \in Scripts, ScriptStep(o) \/ KillScript(o)
    PROVE  RInv'
<1>t. /\ script \in [Scripts -> Run] /\ script[o] \in Run
      /\ canonical \in [Blocks -> NamesOrNone] /\ committed \subseteq receipts
      /\ receipts \subseteq Receipt
  BY DEF RInv, TInv, RTypeOK
<1>d. Idle \in Run
  BY IdleIsRun
<1>1. CASE ListSeals(o)
  BY <1>1, <1>d, RInvNoWrite DEF ListSeals, Run
<1>2. CASE ReadCanonical(o)
  BY <1>2, <1>t, RInvNoWrite DEF ReadCanonical, Run
<1>3. CASE ReadQuarantined(o)
  BY <1>3, <1>t, RInvNoWrite DEF ReadQuarantined, Run
<1>4. CASE ReadLatest(o)
  BY <1>4, <1>t, RInvNoWrite DEF ReadLatest, Run
<1>5. CASE End(o) /\ UNCHANGED <<keys, receipts, committed>>
  BY <1>5, <1>d, RInvNoWrite DEF End, Run
<1>6. CASE ReadOthers(o)
  <2> DEFINE r == script[o].receipt
             index == [canonical EXCEPT ![r.block] = r.canonical]
             target == NewestCanonical(script[o].seals, NextQuarantined(o), index)
             next == [script[o] EXCEPT !.at = "commit", !.target = target]
  <2>1. UNCHANGED <<keys, receipts, committed>>
    BY <1>6 DEF ReadOthers
  <2>2. CASE target # NoSeal /\ Goto(o, next)
    <3> HIDE DEF target
    <3>1. /\ script'[o].seals = script[o].seals /\ script'[o].receipt = script[o].receipt
          /\ script'[o].quarantined = script[o].quarantined /\ script'[o].target = target
          /\ \A p \in Scripts \ {o} : script'[p] = script[p]
      BY <2>2, <1>t DEF Goto, Run
    <3>2. NextQuarantined(o)' = NextQuarantined(o) /\ \A b : Eligible(b)' = Eligible(b)
      BY <2>1, <3>1 DEF NextQuarantined, Eligible
    <3>3. PlanOf(o, canonical)'
      <4>1. \A b \in Blocks : canonical[b] \in Eligible(b) \cup {NoSeal}
        BY DEF RInv, KeysFollowRepairs
      <4> QED BY <2>1, <3>1, <3>2, <4>1 DEF PlanOf, keys, target
    <3>4. \A p \in Scripts \ {o} : \A f : PlanOf(p, f)' = PlanOf(p, f)
      BY <2>1, <3>1, <3>2 DEF PlanOf, NextQuarantined, keys
    <3>5. PlansFollowRepairs'
      BY <2>1, <3>1, <3>3, <3>4, <1>t DEF RInv, PlansFollowRepairs, keys
    <3> QED BY <2>1, <3>5 DEF RInv, ReceiptsMatch, KeysFollowRepairs, Eligible,
                              PointerNotQuarantined, keys, growth
  <2> QED BY <1>6, <2>1, <2>2, <1>5 DEF ReadOthers
<1>7. CASE Commit(o)
  <2> DEFINE r == script[o].receipt
  <2>1. /\ script[o].at = "commit" /\ Report(o, "committed")
        /\ quarantined = script[o].quarantined
        /\ canonical' = [canonical EXCEPT ![r.block] = r.canonical]
        /\ quarantined' = NextQuarantined(o) /\ latest' = script[o].target
        /\ committed' = committed \cup {r}
        /\ UNCHANGED <<chain, reused, receipts>>
    BY <1>7 DEF Commit, KeysAsRead
  <2>2. r \in receipts /\ r \in Receipt /\ r.block \in Blocks
    BY <2>1, <1>t DEF RInv, TInv, ScriptsHold, Reading, Receipt
  <2>3. \A p \in Scripts \ {o} : script'[p] = script[p]
    BY <2>1, <1>t DEF Report, Goto
  <2>4. script'[o].at = "journal"
    BY <2>1, <1>t, <1>d DEF Report, Goto, Run
  <2>5. /\ \A b : Eligible(b) \subseteq Eligible(b)'
        /\ \A b : b # r.block => Eligible(b)' = Eligible(b)
        /\ \A b : b = r.block => r.canonical \in Eligible(b)'
    <3>1. \A t : t \in committed' <=> t \in committed \/ t = r
      BY <2>1
    <3>2. \A b, x : x \in Eligible(b)' <=> \E t \in committed' : t.block = b /\ x = t.canonical
      BY DEF Eligible
    <3>3. \A b, x : x \in Eligible(b) <=> \E t \in committed : t.block = b /\ x = t.canonical
      BY DEF Eligible
    <3> HIDE DEF r
    <3>4. \A b, x : x \in Eligible(b)' <=> x \in Eligible(b) \/ (r.block = b /\ x = r.canonical)
      BY <3>1, <3>2, <3>3
    <3>5. \A b : Eligible(b) \subseteq Eligible(b)'
      BY <3>4
    <3>6. \A b : b = r.block => r.canonical \in Eligible(b)'
      BY <3>4
    <3>7. ASSUME NEW b, b # r.block
          PROVE  Eligible(b)' = Eligible(b)
      <4>1. \A x : x \in Eligible(b)' <=> x \in Eligible(b)
        BY <3>4, <3>7
      <4> QED BY <4>1
    <3> QED BY <3>5, <3>6, <3>7
  <2>6. KeysFollowRepairs'
    <3>1. quarantined' = UNION {t.conflicting : t \in committed'}
      BY <2>1 DEF RInv, KeysFollowRepairs, NextQuarantined
    <3>2. ASSUME NEW b \in Blocks
          PROVE  \/ canonical'[b] = NoSeal /\ Eligible(b)' = {}
                 \/ canonical'[b] \in Eligible(b)'
      <4>1. CASE b = r.block
        <5>1. canonical'[b] = r.canonical
          BY <4>1, <2>1, <1>t
        <5>2. r.canonical \in Eligible(b)'
          BY <4>1, <2>5
        <5> QED BY <5>1, <5>2
      <4>2. CASE b # r.block
        BY <4>2, <2>1, <2>5, <1>t DEF RInv, KeysFollowRepairs
      <4> QED BY <4>1, <4>2
    <3> QED BY <3>1, <3>2 DEF KeysFollowRepairs
  <2>7. PlansFollowRepairs'
    <3>1. ASSUME NEW p \in Scripts, script'[p].at = "commit"
          PROVE  \E index \in [Blocks -> NamesOrNone] : PlanOf(p, index)'
      <4>1. p # o /\ script'[p] = script[p]
        BY <3>1, <2>3, <2>4
      <4>2. PICK index \in [Blocks -> NamesOrNone] : PlanOf(p, index)
        BY <3>1, <4>1 DEF RInv, PlansFollowRepairs
      <4>3. PlanOf(p, index)'
        BY <4>1, <4>2, <2>1, <2>5 DEF PlanOf, NextQuarantined
      <4> QED BY <4>3
    <3> QED BY <3>1 DEF PlansFollowRepairs
  <2>8. PointerNotQuarantined'
    <3>1. PICK index \in [Blocks -> NamesOrNone] : PlanOf(o, index)
      BY <2>1 DEF RInv, PlansFollowRepairs
    <3>2. script[o].seals \in [Names -> Times] /\ script[o].target \in Attested(script[o].seals)
      BY <2>1, <1>t DEF RInv, TInv, ScriptsHold, Run
    <3>3. script[o].target # NoSeal
      BY <3>2, NoSealIsNoName DEF Attested
    <3>4. script[o].target \notin NextQuarantined(o)
      <4> DEFINE f == [index EXCEPT ![script[o].receipt.block] = script[o].receipt.canonical]
      <4>1. script[o].target = NewestCanonical(script[o].seals, NextQuarantined(o), f)
        BY <3>1 DEF PlanOf
      <4> HIDE DEF f
      <4> QED BY <3>2, <3>3, <4>1, NewestIsUsable
    <3> QED BY <2>1, <3>4 DEF PointerNotQuarantined
  <2> QED BY <2>1, <2>6, <2>7, <2>8 DEF RInv, ReceiptsMatch
<1>8. CASE CommitNothing(o)
  BY <1>8, <1>d, RInvNoWrite DEF CommitNothing, Report, Run
<1>9. CASE ReadJournal(o)
  BY <1>9, <1>t, RInvNoWrite DEF ReadJournal, Run
<1>10. CASE WriteJournal(o)
  BY <1>10, <1>5 DEF WriteJournal
<1>11. CASE KillScript(o)
  BY <1>11, <1>5 DEF KillScript
<1> QED BY <1>1, <1>2, <1>3, <1>4, <1>6, <1>7, <1>8, <1>9, <1>10, <1>11 DEF ScriptStep

LEMMA RInvKept == RInv /\ [RNext]_repairVars => RInv'
<1> SUFFICES ASSUME RInv, [RNext]_repairVars PROVE RInv'
  OBVIOUS
<1>1. TInv'
  BY TInvKept DEF RInv
<1>2. CASE UNCHANGED repairVars
  <2>1. UNCHANGED <<chain, latest, reused, canonical, quarantined, receipts, script, committed>>
    BY <1>2 DEF repairVars, keys, growth
  <2>2. ReceiptsMatch' /\ PointerNotQuarantined'
    BY <2>1 DEF RInv, ReceiptsMatch, PointerNotQuarantined
  <2>3. KeysFollowRepairs' /\ PlansFollowRepairs'
    BY <2>1 DEF RInv, KeysFollowRepairs, Eligible, PlansFollowRepairs, PlanOf, NextQuarantined
  <2> QED BY <1>1, <2>2, <2>3 DEF RInv
<1> QED BY <1>1, <1>2, RInvGrowth, RInvScript DEF RNext

(* No script writes over what another one ruled out.                       *)
THEOREM RuledOutForGood == RSpec => []RuledOutStaysOut
<1>1. RInv => RuledOutStaysOut
  BY DEF RInv, KeysFollowRepairs, RuledOutStaysOut
<1> QED BY <1>1, RInvInit, RInvKept, PTL DEF RSpec

(* The pointer names a quarantined seal only when a second seal was stored *)
(* under that name.                                                        *)
THEOREM PointerStaysUsable == RSpec => []PointerNotQuarantined
<1>1. RInv => PointerNotQuarantined
  BY DEF RInv
<1> QED BY <1>1, RInvInit, RInvKept, PTL DEF RSpec

(* A settled block keeps an indexed and usable seal while its receipts     *)
(* agree and no second seal takes the name of the one they chose.          *)
THEOREM SettledBlocksStaySettled == RSpec => []SettledBlockKeepsSeal
<1>1. ASSUME RInv PROVE SettledBlockKeepsSeal
  <2> SUFFICES ASSUME NEW t \in committed, Agreed(t.block, committed)
               PROVE  canonical[t.block] \in Usable(chain, t.block, quarantined)
    BY DEF SettledBlockKeepsSeal
  <2>1. committed \subseteq receipts /\ t.block \in Blocks
    BY <1>1 DEF RInv, TInv, RTypeOK, Receipt
  <2>2. PICK r \in committed : r.block = t.block /\ canonical[t.block] = r.canonical
    BY <1>1, <2>1 DEF RInv, KeysFollowRepairs, Eligible
  <2>3. r.canonical \in AttestedAt(chain, t.block)
    <3>1. r.canonical \notin reused
      BY <2>2 DEF Agreed
    <3>2. r.canonical.block = t.block /\ chain[r.canonical] # 0
      BY <1>1, <2>1, <2>2, <3>1 DEF RInv, ReceiptsMatch
    <3>3. r.canonical \in DOMAIN chain
      BY <1>1, <2>1, <2>2 DEF RInv, TInv, RTypeOK, Receipt
    <3> QED BY <3>2, <3>3 DEF AttestedAt, Attested
  <2>4. ASSUME NEW u \in committed, r.canonical \in u.conflicting PROVE FALSE
    <3>1. u.block = t.block
      BY <1>1, <2>1, <2>3, <2>4 DEF RInv, ReceiptsMatch, AttestedAt
    <3> QED BY <2>2, <2>4, <3>1 DEF Agreed
  <2>5. r.canonical \notin quarantined
    BY <1>1, <2>4 DEF RInv, KeysFollowRepairs
  <2> QED BY <2>2, <2>3, <2>5 DEF Usable
<1> QED BY <1>1, RInvInit, RInvKept, PTL DEF RSpec

-----------------------------------------------------------------------------
(* A commit resolves the chain: where the plan's index differs from the    *)
(* index at the commit, both entries would be choices that no committed    *)
(* receipt rules out, and of two receipts one rules out the other's.       *)
LEMMA CommitResolves ==
    ASSUME RInv, RInv', NEW o \in Scripts, Commit(o), script[o].seals = chain,
           \A b \in Blocks : Agreed(b, committed')
    PROVE  /\ UnresolvedBlocks(chain, quarantined', canonical') = {}
           /\ latest' = NewestCanonical(chain, quarantined', canonical')
<1> DEFINE r == script[o].receipt
<1>1. /\ script[o].at = "commit"
      /\ canonical' = [canonical EXCEPT ![r.block] = r.canonical]
      /\ quarantined' = NextQuarantined(o) /\ latest' = script[o].target
      /\ committed' = committed \cup {r} /\ chain' = chain
  BY DEF Commit
<1>2. /\ r \in receipts /\ r.block \in Blocks /\ committed \subseteq receipts
      /\ canonical \in [Blocks -> NamesOrNone] /\ chain \in [Names -> Times]
      /\ receipts \subseteq Receipt /\ NoSeal \notin Attested(chain)
  <2>1. RTypeOK /\ ScriptsHold
    BY DEF RInv, TInv
  <2>2. r \in receipts
    BY <1>1, <2>1 DEF ScriptsHold, Reading
  <2>3. /\ receipts \subseteq Receipt /\ committed \subseteq receipts
        /\ canonical \in [Blocks -> NamesOrNone] /\ chain \in [Names -> Times]
    BY <2>1 DEF RTypeOK
  <2>4. r.block \in Blocks
    BY <2>2, <2>3 DEF Receipt
  <2>5. NoSeal \notin Attested(chain)
    BY <2>3, NoSealIsNoName DEF Attested
  <2> QED
    BY <2>2, <2>3, <2>4, <2>5
<1>4. PICK index \in [Blocks -> NamesOrNone] : PlanOf(o, index)
  BY <1>1 DEF RInv, PlansFollowRepairs
<1> DEFINE f == [index EXCEPT ![r.block] = r.canonical]
<1>5. latest' = NewestCanonical(chain, quarantined', f) /\ latest' # NoSeal
  <2>1. script[o].target = NewestCanonical(chain, quarantined', f)
    BY <1>1, <1>4 DEF PlanOf
  <2>2. script[o].target # NoSeal
    BY <1>1, <1>2 DEF RInv, TInv, ScriptsHold
  <2> QED BY <1>1, <2>1, <2>2
<1>6. UnresolvedBlocks(chain, quarantined', f) = {}
  <2> HIDE DEF f
  <2> QED BY <1>2, <1>5, NewestIsUsable
<1>7. Collisions(chain) \subseteq Blocks
  BY <1>2, AttestedHasBlock DEF Collisions, BlocksOf
<1>8. ASSUME NEW t \in committed'
      PROVE  /\ t \in receipts /\ t.canonical \in AttestedAt(chain, t.block)
             /\ t.canonical \in Usable(chain, t.block, quarantined')
  <2>1. t \in receipts /\ t.canonical \in AttestedAt(chain, t.block)
    <3>1. t \in receipts /\ t.block \in Blocks /\ t.canonical \in Names
      BY <1>1, <1>2 DEF Receipt
    <3>2. t.canonical \notin reused
      BY <3>1 DEF Agreed
    <3>3. t.canonical.block = t.block /\ chain[t.canonical] # 0
      BY <3>1, <3>2 DEF RInv, ReceiptsMatch
    <3> QED BY <3>1, <3>3, <1>2 DEF AttestedAt, Attested
  <2>2. ASSUME NEW u \in committed', t.canonical \in u.conflicting PROVE FALSE
    <3>1. u \in receipts
      BY <1>1, <1>2
    <3>2. u.block = t.block
      BY <2>1, <2>2, <3>1 DEF RInv, ReceiptsMatch, AttestedAt
    <3>3. t.block \in Blocks
      BY <2>1 DEF RInv, TInv, RTypeOK, Receipt
    <3> QED BY <2>2, <3>2, <3>3 DEF Agreed
  <2>3. quarantined' = UNION {u.conflicting : u \in committed'}
    BY DEF RInv, KeysFollowRepairs
  <2> QED BY <2>1, <2>2, <2>3 DEF Usable
<1>9. ASSUME NEW b \in Collisions(chain) PROVE canonical'[b] = f[b]
  <2>1. CASE b = r.block
    BY <2>1, <1>1, <1>2
  <2>2. CASE b # r.block
    <3>1. canonical'[b] = canonical[b] /\ f[b] = index[b] /\ b \in Blocks
      BY <2>2, <1>1, <1>2, <1>7
    <3>2. index[b] \in Eligible(b) \cup {NoSeal}
      BY <3>1, <1>4 DEF PlanOf
    <3>3. CASE canonical[b] = NoSeal /\ Eligible(b) = {}
      BY <3>1, <3>2, <3>3
    <3>4. CASE canonical[b] \in Eligible(b)
      <4>1. PICK t \in committed : t.block = b /\ canonical[b] = t.canonical
        BY <3>4 DEF Eligible
      <4>2. t \in committed' /\ t.canonical \in Usable(chain, b, quarantined')
        BY <4>1, <1>1, <1>8
      <4>3. index[b] \in Usable(chain, b, quarantined')
        BY <4>2, <3>1, <1>6 DEF UnresolvedBlocks
      <4>4. index[b] # NoSeal
        BY <4>3, <1>2 DEF Usable, AttestedAt
      <4>5. PICK u \in committed : u.block = b /\ index[b] = u.canonical
        BY <3>2, <4>4 DEF Eligible
      <4>6. t.canonical \notin u.conflicting /\ u.canonical \notin t.conflicting
        BY <4>1, <4>5, <3>1, <1>1 DEF Agreed
      <4>7. t.canonical = u.canonical
        <5>1. t.canonical \notin reused /\ u.canonical \notin reused
          BY <4>1, <4>5, <3>1, <1>1 DEF Agreed
        <5> QED BY <4>1, <4>5, <4>6, <5>1, <1>2 DEF RInv, ReceiptsMatch
      <4> QED BY <3>1, <4>1, <4>5, <4>7
    <3> QED BY <3>1, <3>3, <3>4 DEF RInv, KeysFollowRepairs
  <2> QED BY <2>1, <2>2
<1>10. /\ UnresolvedBlocks(chain, quarantined', canonical') = UnresolvedBlocks(chain, quarantined', f)
       /\ NewestCanonical(chain, quarantined', canonical') = NewestCanonical(chain, quarantined', f)
  <2> HIDE DEF f
  <2> QED BY <1>9, NewestOfCollisions
<1> QED BY <1>5, <1>6, <1>10

(* The commit of a plan made from the whole chain resolves every block and *)
(* points at the newest canonical seal, while the receipts agree.          *)
THEOREM CommitsResolve == RSpec => RepairResolves
<1> DEFINE Resolves ==
             \A o \in Scripts :
               (Commit(o) /\ script[o].seals = chain /\ \A b \in Blocks : Agreed(b, committed'))
                 => /\ UnresolvedBlocks(chain, quarantined', canonical') = {}
                    /\ latest' = NewestCanonical(chain, quarantined', canonical')
<1>1. RInv /\ RInv' /\ [RNext]_repairVars => [Resolves]_repairVars
  BY CommitResolves
<1> QED BY <1>1, RInvInit, RInvKept, PTL DEF RSpec, RepairResolves

-----------------------------------------------------------------------------
(* The journal.                                                            *)

(* Without an overlap only one script writes, from the journal as it is.   *)
JournalRead ==
    /\ kills \in Nat
    /\ ~overlapped =>
         /\ \A o, p \in Scripts : script[o].at = "write" /\ script[p].at = "write" => o = p
         /\ \A o \in Scripts : script[o].at = "write" => script[o].journal = journal

JInv == TInv /\ JournalRead /\ RepairsOnRecord

LEMMA JInvInit == RInit => JInv
BY TInvInit DEF RInit, JInv, JournalRead, RepairsOnRecord, Idle

LEMMA JInvScript ==
    ASSUME JInv, TInv', NEW o \in Scripts, ScriptStep(o) \/ KillScript(o)
    PROVE  JInv'
<1>t. script \in [Scripts -> Run] /\ script[o] \in Run /\ Idle \in Run /\ kills \in Nat
      /\ overlapped \in BOOLEAN
  BY IdleIsRun DEF JInv, TInv, RTypeOK
<1>1. ASSUME NEW next, Goto(o, next), script[o].at \notin {"journal", "write"},
             next.at \notin {"journal", "write"},
             UNCHANGED <<journal, kills, committed, overlapped>>
      PROVE  JInv'
  <2>1. script'[o] = next /\ \A p \in Scripts \ {o} : script'[p] = script[p]
    BY <1>1, <1>t DEF Goto
  <2> QED BY <1>1, <2>1 DEF JInv, JournalRead, RepairsOnRecord
<1>2. CASE ListSeals(o)
  BY <1>2, <1>1, <1>t DEF ListSeals, Run, Idle
<1>3. CASE ReadCanonical(o)
  BY <1>3, <1>1, <1>t DEF ReadCanonical, Run
<1>4. CASE ReadQuarantined(o)
  BY <1>4, <1>1, <1>t DEF ReadQuarantined, Run
<1>5. CASE ReadLatest(o)
  BY <1>5, <1>1, <1>t DEF ReadLatest, Run
<1>6. CASE ReadOthers(o)
  BY <1>6, <1>1, <1>t DEF ReadOthers, End, Run
<1>7. ASSUME NEW out, Report(o, out), script[o].at = "commit",
             UNCHANGED <<journal, kills, overlapped>>,
             \/ committed' = committed
             \/ committed' = committed \cup {script[o].receipt} /\ out = "committed"
      PROVE  JInv'
  <2> DEFINE next == [Idle EXCEPT !.at = "journal", !.receipt = script[o].receipt, !.outcome = out]
  <2>1. next.at = "journal" /\ next.receipt = script[o].receipt /\ next.outcome = out
    BY <1>t DEF Run
  <2>2. Goto(o, next)
    BY <1>7 DEF Report
  <2> HIDE DEF next
  <2>3. script'[o] = next /\ \A p \in Scripts \ {o} : script'[p] = script[p]
    BY <2>2, <1>t DEF Goto
  <2>4. JournalRead'
    BY <1>7, <2>1, <2>3 DEF JInv, JournalRead
  <2>5. RepairsOnRecord'
    <3> SUFFICES ASSUME kills' = 0, ~overlapped', NEW r \in committed'
                 PROVE  \/ <<r, "committed">> \in journal'
                        \/ \E p \in Scripts : /\ script'[p].at \in {"journal", "write"}
                                              /\ script'[p].receipt = r
                                              /\ script'[p].outcome = "committed"
      BY DEF RepairsOnRecord
    <3>1. CASE r \in committed
      <4>1. \/ <<r, "committed">> \in journal
            \/ \E p \in Scripts : /\ script[p].at \in {"journal", "write"}
                                  /\ script[p].receipt = r /\ script[p].outcome = "committed"
        BY <3>1, <1>7 DEF JInv, RepairsOnRecord
      <4> QED BY <4>1, <1>7, <2>3
    <3>2. CASE r = script[o].receipt /\ out = "committed"
      BY <3>2, <2>1, <2>3
    <3> QED BY <3>1, <3>2, <1>7
  <2> QED BY <2>4, <2>5 DEF JInv
<1>8. CASE Commit(o)
  BY <1>8, <1>7 DEF Commit
<1>9. CASE CommitNothing(o)
  BY <1>9, <1>7 DEF CommitNothing
<1>10. CASE ReadJournal(o)
  <2>1. /\ script[o].at = "journal" /\ UNCHANGED <<journal, kills, committed>>
        /\ Goto(o, [script[o] EXCEPT !.at = "write", !.journal = journal])
        /\ overlapped' = (overlapped \/ \E p \in Scripts : script[p].at = "write")
    BY <1>10 DEF ReadJournal
  <2>2. /\ script'[o].at = "write" /\ script'[o].journal = journal
        /\ script'[o].receipt = script[o].receipt /\ script'[o].outcome = script[o].outcome
        /\ \A p \in Scripts \ {o} : script'[p] = script[p]
    BY <2>1, <1>t DEF Goto, Run
  <2>3. JournalRead'
    BY <2>1, <2>2 DEF JInv, JournalRead
  <2>4. ~overlapped' => ~overlapped
    BY <2>1
  <2>5. RepairsOnRecord'
    <3> SUFFICES ASSUME kills' = 0, ~overlapped', NEW r \in committed'
                 PROVE  \/ <<r, "committed">> \in journal'
                        \/ \E p \in Scripts : /\ script'[p].at \in {"journal", "write"}
                                              /\ script'[p].receipt = r
                                              /\ script'[p].outcome = "committed"
      BY DEF RepairsOnRecord
    <3>1. CASE r \in committed
      <4>1. \/ <<r, "committed">> \in journal
            \/ \E p \in Scripts : /\ script[p].at \in {"journal", "write"}
                                  /\ script[p].receipt = r /\ script[p].outcome = "committed"
        BY <3>1, <2>1, <2>4 DEF JInv, RepairsOnRecord
      <4> QED BY <4>1, <2>1, <2>2
    <3> QED BY <3>1, <2>1
  <2> QED BY <2>3, <2>5 DEF JInv
<1>11. CASE WriteJournal(o)
  <2>1. /\ script[o].at = "write" /\ UNCHANGED <<kills, committed, overlapped>>
        /\ journal' = script[o].journal \cup {<<script[o].receipt, script[o].outcome>>}
        /\ Goto(o, [Idle EXCEPT !.at = "done"])
    BY <1>11 DEF WriteJournal, End
  <2>2. script'[o].at = "done" /\ \A p \in Scripts \ {o} : script'[p] = script[p]
    BY <2>1, <1>t DEF Goto, Run
  <2>3. JournalRead'
    BY <2>1, <2>2 DEF JInv, JournalRead
  <2>4. ~overlapped => journal' = journal \cup {<<script[o].receipt, script[o].outcome>>}
    BY <2>1 DEF JInv, JournalRead
  <2>5. RepairsOnRecord'
    <3> SUFFICES ASSUME kills' = 0, ~overlapped', NEW r \in committed'
                 PROVE  \/ <<r, "committed">> \in journal'
                        \/ \E p \in Scripts : /\ script'[p].at \in {"journal", "write"}
                                              /\ script'[p].receipt = r
                                              /\ script'[p].outcome = "committed"
      BY DEF RepairsOnRecord
    <3>1. CASE r \in committed
      <4>1. \/ <<r, "committed">> \in journal
            \/ \E p \in Scripts : /\ script[p].at \in {"journal", "write"}
                                  /\ script[p].receipt = r /\ script[p].outcome = "committed"
        BY <3>1, <2>1 DEF JInv, RepairsOnRecord
      <4>2. CASE <<r, "committed">> \in journal
        BY <4>2, <2>1, <2>4
      <4>3. ASSUME NEW p \in Scripts, script[p].at \in {"journal", "write"},
                   script[p].receipt = r, script[p].outcome = "committed"
            PROVE  \/ <<r, "committed">> \in journal'
                   \/ \E q \in Scripts : /\ script'[q].at \in {"journal", "write"}
                                         /\ script'[q].receipt = r
                                         /\ script'[q].outcome = "committed"
        BY <4>3, <2>1, <2>2
      <4> QED BY <4>1, <4>2, <4>3
    <3> QED BY <3>1, <2>1
  <2> QED BY <2>3, <2>5 DEF JInv
<1>12. CASE KillScript(o)
  <2>1. kills' = kills + 1 /\ UNCHANGED <<journal, overlapped>> /\ Goto(o, [Idle EXCEPT !.at = "done"])
    BY <1>12 DEF KillScript, End
  <2>2. script'[o].at = "done" /\ \A p \in Scripts \ {o} : script'[p] = script[p]
    BY <2>1, <1>t DEF Goto, Run
  <2> QED BY <2>1, <2>2, <1>t DEF JInv, JournalRead, RepairsOnRecord
<1> QED BY <1>2, <1>3, <1>4, <1>5, <1>6, <1>8, <1>9, <1>10, <1>11, <1>12 DEF ScriptStep

LEMMA JInvKept == JInv /\ [RNext]_repairVars => JInv'
<1> SUFFICES ASSUME JInv, [RNext]_repairVars PROVE JInv'
  OBVIOUS
<1>1. TInv'
  BY TInvKept DEF JInv
<1>2. CASE UNCHANGED repairVars
  BY <1>1, <1>2 DEF repairVars, JInv, JournalRead, RepairsOnRecord
<1>3. CASE FormCandidate \/ AttestSeal \/ RejectSeal \/ ApproveReceipt
  BY <1>1, <1>3 DEF FormCandidate, AttestSeal, RejectSeal, Ungrown, ApproveReceipt, JInv, JournalRead,
                    RepairsOnRecord
<1> QED BY <1>1, <1>2, <1>3, JInvScript DEF RNext

(* A committed repair is on the journal once its script is through, unless *)
(* a script was killed or two wrote the journal at the same time.          *)
THEOREM RepairsStayOnRecord == RSpec => []RepairsOnRecord
<1>1. JInv => RepairsOnRecord
  BY DEF JInv
<1> QED BY <1>1, JInvInit, JInvKept, PTL DEF RSpec
=============================================================================
