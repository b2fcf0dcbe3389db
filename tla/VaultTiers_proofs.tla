-------------------------- MODULE VaultTiers_proofs --------------------------
(***************************************************************************)
(* Proofs about VaultTiers, for any finite set of deposits and all bounds: *)
(* types, that no tier counts what nobody deposited, and that deposits     *)
(* which met neither another deposit nor an outage are counted.            *)
(***************************************************************************)
EXTENDS VaultTiers, SequenceTheorems, FiniteSetTheorems, TLAPS

-----------------------------------------------------------------------------
(* What a tier, a mirror and a copy hold when no count exceeds bound b.     *)

Totals      == [Keys -> Nat]
Held(b)     == {f \in Totals : \A k \in Keys : f[k] <= b[k]}
Mirrored(b) == {m \in [key : Keys, value : Nat] : m.value <= b[m.key]}
Copied(b)   == [at : {"balance", "meta", "write"}, slot : Held(b)]

Places == {"start", "balance", "readMeta", "meta", "row", "bridge", "done"}

(* The tiers beside the primary, and the writes under way to them.          *)
Beside(ba, br, mi, co, b) ==
    /\ ba \in Held(b) /\ br \in Held(b)
    /\ mi \in Seq(Mirrored(b)) /\ co \in Seq(Copied(b))

(* Sequences over a larger set include those over a smaller one.            *)
LEMMA SeqGrows == ASSUME NEW S, NEW T, S \subseteq T PROVE Seq(S) \subseteq Seq(T)
OBVIOUS

(* A larger bound holds all that a smaller one holds.                       *)
LEMMA HeldGrows ==
    ASSUME NEW b \in Totals, NEW c \in Totals, \A k \in Keys : b[k] <= c[k]
    PROVE  /\ Held(b) \subseteq Held(c)
           /\ \A ba, br, mi, co : Beside(ba, br, mi, co, b) => Beside(ba, br, mi, co, c)
<1>1. Held(b) \subseteq Held(c)
  <2> SUFFICES ASSUME NEW f \in Held(b) PROVE f \in Held(c)
    OBVIOUS
  <2> QED
    BY DEF Held, Totals
<1>2. Mirrored(b) \subseteq Mirrored(c)
  <2> SUFFICES ASSUME NEW m \in Mirrored(b) PROVE m \in Mirrored(c)
    OBVIOUS
  <2>1. m.key \in Keys /\ m.value \in Nat /\ m.value <= b[m.key]
    BY DEF Mirrored
  <2>2. b[m.key] \in Nat /\ c[m.key] \in Nat /\ b[m.key] <= c[m.key]
    BY <2>1 DEF Totals
  <2>3. m.value <= c[m.key]
    BY <2>1, <2>2
  <2> QED
    BY <2>3 DEF Mirrored
<1>3. Copied(b) \subseteq Copied(c)
  BY <1>1 DEF Copied
<1>4. Seq(Mirrored(b)) \subseteq Seq(Mirrored(c)) /\ Seq(Copied(b)) \subseteq Seq(Copied(c))
  BY <1>2, <1>3
<1> QED
  BY <1>1, <1>4 DEF Beside

(* What is left of a sequence is part of it.                                *)
LEMMA RemoveAtTyped ==
    ASSUME NEW S, NEW s \in Seq(S), NEW i \in DOMAIN s
    PROVE  RemoveAt(s, i) \in Seq(S)
<1>1. i \in 1..Len(s) /\ Len(s) \in Nat
  OBVIOUS
<1>2. SubSeq(s, 1, i - 1) \in Seq(S)
  <2>1. \A j \in 1..(i - 1) : s[j] \in S
    BY <1>1
  <2> QED
    BY <1>1, <2>1, SubSeqProperties
<1>3. SubSeq(s, i + 1, Len(s)) \in Seq(S)
  <2>1. \A j \in (i + 1)..Len(s) : s[j] \in S
    BY <1>1
  <2> QED
    BY <1>1, <2>1, SubSeqProperties
<1> QED
  BY <1>2, <1>3, ConcatProperties DEF RemoveAt

(* A read returns a count some tier holds.                                  *)
LEMMA ReadsHeld ==
    ASSUME NEW b \in Totals, NEW k \in Keys,
           primary \in Held(b), backup \in Held(b), bridge \in Held(b)
    PROVE  kvGet(k) \in Nat /\ kvGet(k) <= b[k]
BY DEF Held, Totals, kvGet

-----------------------------------------------------------------------------
(* Mirrors, copies and outages.                                             *)

BackgroundNext ==
    \/ MirrorStep \/ CopyStep \/ Ping \/ InstanceEnds
    \/ PrimaryFails \/ PrimaryReturns \/ BackupFails \/ BackupReturns

(* What lands beside the primary was once read or written: no bound that    *)
(* held all of it is exceeded.                                              *)
LEMMA BackgroundKeeps ==
    ASSUME NEW b \in Totals, primary \in Held(b), Beside(backup, bridge, mirrors, copies, b),
           BackgroundNext
    PROVE  /\ Beside(backup', bridge', mirrors', copies', b)
           /\ UNCHANGED <<primary, rows, deposit, shared, fellBack>>
<1>1. /\ backup \in Held(b) /\ bridge \in Held(b)
      /\ mirrors \in Seq(Mirrored(b)) /\ copies \in Seq(Copied(b))
  BY DEF Beside
<1>2. ASSUME NEW i \in DOMAIN mirrors, LandMirror(i) \/ DropMirror(i)
      PROVE  /\ Beside(backup', bridge', mirrors', copies', b)
             /\ UNCHANGED <<primary, rows, deposit, shared, fellBack>>
  <2>1. /\ mirrors' = RemoveAt(mirrors, i) /\ UNCHANGED <<bridge, copies>>
        /\ UNCHANGED <<primary, rows, deposit, shared, fellBack>>
        /\ \/ backup' = backup
           \/ backup' = [backup EXCEPT ![mirrors[i].key] = mirrors[i].value]
    BY <1>2 DEF LandMirror, DropMirror, tiers
  <2>2. mirrors' \in Seq(Mirrored(b))
    BY <1>1, <2>1, RemoveAtTyped
  <2>3. backup' \in Held(b)
    <3>1. mirrors[i] \in Mirrored(b)
      BY <1>1
    <3>2. mirrors[i].key \in Keys /\ mirrors[i].value \in Nat
          /\ mirrors[i].value <= b[mirrors[i].key]
      BY <3>1 DEF Mirrored
    <3> QED
      BY <1>1, <2>1, <3>2 DEF Held, Totals
  <2> QED
    BY <1>1, <2>1, <2>2, <2>3 DEF Beside
<1>3. ASSUME NEW i \in DOMAIN copies, NEW from \in Keys, NEW to \in {"meta", "write"},
             CopyReads(i, from, to)
      PROVE  /\ Beside(backup', bridge', mirrors', copies', b)
             /\ UNCHANGED <<primary, rows, deposit, shared, fellBack>>
  <2>1. /\ UNCHANGED <<backup, bridge, mirrors>>
        /\ UNCHANGED <<primary, rows, deposit, shared, fellBack>>
        /\ \/ copies' = RemoveAt(copies, i)
           \/ copies' = [copies EXCEPT ![i].at = to, ![i].slot[from] = primary[from]]
    BY <1>3 DEF CopyReads, tiers
  <2>2. copies[i] \in Copied(b)
    BY <1>1
  <2>3. [copies[i] EXCEPT !.at = to, !.slot[from] = primary[from]] \in Copied(b)
    <3>1. [copies[i].slot EXCEPT ![from] = primary[from]] \in Held(b)
      BY <2>2 DEF Copied, Held, Totals
    <3> QED
      BY <2>2, <3>1 DEF Copied
  <2>4. CASE copies' = RemoveAt(copies, i)
    BY <1>1, <2>1, <2>4, RemoveAtTyped DEF Beside
  <2>5. CASE copies' = [copies EXCEPT ![i].at = to, ![i].slot[from] = primary[from]]
    <3> DEFINE c == [copies[i] EXCEPT !.at = to, !.slot[from] = primary[from]]
    <3>1. copies' = [copies EXCEPT ![i] = c]
      BY <2>5
    <3> HIDE DEF c
    <3>2. copies' \in Seq(Copied(b))
      BY <1>1, <2>3, <3>1 DEF c
    <3> QED
      BY <1>1, <2>1, <3>2 DEF Beside
  <2> QED
    BY <2>1, <2>4, <2>5
<1>4. ASSUME NEW i \in DOMAIN copies, CopyLands(i)
      PROVE  /\ Beside(backup', bridge', mirrors', copies', b)
             /\ UNCHANGED <<primary, rows, deposit, shared, fellBack>>
  <2>1. copies[i].slot \in Held(b)
    <3>1. copies[i] \in Copied(b)
      BY <1>1
    <3> QED
      BY <3>1 DEF Copied
  <2> QED
    BY <1>1, <1>4, <2>1, RemoveAtTyped DEF CopyLands, Beside
<1>5. ASSUME InstanceEnds
      PROVE  /\ Beside(backup', bridge', mirrors', copies', b)
             /\ UNCHANGED <<primary, rows, deposit, shared, fellBack>>
  BY <1>1, <1>5, RemoveAtTyped DEF InstanceEnds, Beside, tiers
<1>6. ASSUME Ping \/ PrimaryFails \/ PrimaryReturns \/ BackupFails \/ BackupReturns
      PROVE  /\ Beside(backup', bridge', mirrors', copies', b)
             /\ UNCHANGED <<primary, rows, deposit, shared, fellBack>>
  BY <1>6 DEF Ping, PrimaryFails, PrimaryReturns, BackupFails, BackupReturns, Quiet, tiers
<1>7. CASE MirrorStep
  BY <1>2, <1>7 DEF MirrorStep
<1>8. CASE CopyStep
  <2>1. "balance" \in Keys /\ "meta" \in Keys
    BY DEF Keys
  <2> QED
    BY <1>3, <1>4, <1>8, <2>1 DEF CopyStep, CopyBalance, CopyMeta
<1> QED
  BY <1>5, <1>6, <1>7, <1>8 DEF BackgroundNext

-----------------------------------------------------------------------------
(* How far the deposits are, and the counts that go with it.                *)

(* A deposit that has read row k, and so may add one to it.                 *)
HasBegun(k, r) ==
    IF k = "balance" THEN r.at # "start"
    ELSE r.at \in {"meta", "row", "done"} \/ (r.at = "bridge" /\ r.next = "row")

BegunOn(k) == {d \in Deposits : HasBegun(k, deposit[d])}
Bound      == [k \in Keys |-> Cardinality(BegunOn(k))]

(* Subsets of the deposits are counted, one more element at a time.         *)
LEMMA CountsDeposits ==
    /\ \A S \in SUBSET Deposits : /\ Cardinality(S) \in Nat
                                  /\ Cardinality(S) <= Cardinality(Deposits)
    /\ \A S \in SUBSET Deposits : \A d \in Deposits \ S :
          Cardinality(S \cup {d}) = Cardinality(S) + 1
    /\ Cardinality(Deposits) \in Nat
<1>0. IsFiniteSet(Deposits)
  BY TiersAssumption
<1>1. ASSUME NEW S \in SUBSET Deposits
      PROVE  IsFiniteSet(S) /\ Cardinality(S) \in Nat /\ Cardinality(S) <= Cardinality(Deposits)
  BY <1>0, FS_Subset, FS_CardinalityType
<1>2. ASSUME NEW S \in SUBSET Deposits, NEW d \in Deposits \ S
      PROVE  Cardinality(S \cup {d}) = Cardinality(S) + 1
  BY <1>1, FS_AddElement
<1> QED
  BY <1>0, <1>1, <1>2, FS_CardinalityType

(* The bound is a count for every row.                                      *)
LEMMA BoundTyped == Bound \in Totals
<1>1. \A k \in Keys : Cardinality(BegunOn(k)) \in Nat
  BY CountsDeposits DEF BegunOn
<1> QED
  BY <1>1 DEF Bound, Totals

(* A deposit that moves on raises the bound of a row by one if it begins on *)
(* that row, and leaves it as it is otherwise.                              *)
LEMMA BoundMoves ==
    ASSUME DOMAIN deposit = Deposits, NEW d \in Deposits, NEW r,
           deposit' = [deposit EXCEPT ![d] = r],
           \A k \in Keys : HasBegun(k, deposit[d]) => HasBegun(k, r)
    PROVE  /\ Bound' \in Totals
           /\ \A k \in Keys : Bound[k] <= Bound'[k]
           /\ \A k \in Keys : ~HasBegun(k, deposit[d]) /\ HasBegun(k, r)
                                 => Bound'[k] = Bound[k] + 1
<1>1. deposit'[d] = r /\ \A e \in Deposits : e # d => deposit'[e] = deposit[e]
  OBVIOUS
<1> DEFINE now(k) == {e \in Deposits : HasBegun(k, deposit'[e])}
<1>2. Bound' = [k \in Keys |-> Cardinality(now(k))] /\ Bound = [k \in Keys |-> Cardinality(BegunOn(k))]
  BY DEF Bound, BegunOn, HasBegun
<1>3. ASSUME NEW k \in Keys
      PROVE  now(k) = IF HasBegun(k, r) THEN BegunOn(k) \cup {d} ELSE BegunOn(k)
  <2> DEFINE P(x) == HasBegun(k, x)
  <2>1. P(deposit[d]) => P(r)
    OBVIOUS
  <2>2. now(k) = {e \in Deposits : P(deposit'[e])} /\ BegunOn(k) = {e \in Deposits : P(deposit[e])}
    BY DEF BegunOn
  <2> HIDE DEF P, now
  <2>3. now(k) = IF P(r) THEN BegunOn(k) \cup {d} ELSE BegunOn(k)
    BY <1>1, <2>1, <2>2
  <2> QED
    BY <2>3 DEF P
<1>4. ASSUME NEW k \in Keys
      PROVE  BegunOn(k) \in SUBSET Deposits /\ (d \in BegunOn(k) <=> HasBegun(k, deposit[d]))
  BY DEF BegunOn
<1> HIDE DEF now
<1>5. ASSUME NEW k \in Keys
      PROVE  /\ Cardinality(now(k)) \in Nat /\ Cardinality(BegunOn(k)) \in Nat
             /\ Cardinality(BegunOn(k)) <= Cardinality(now(k))
             /\ ~HasBegun(k, deposit[d]) /\ HasBegun(k, r)
                  => Cardinality(now(k)) = Cardinality(BegunOn(k)) + 1
  <2>1. CASE HasBegun(k, r) /\ d \notin BegunOn(k)
    BY <1>3, <1>4, <2>1, CountsDeposits
  <2>2. CASE ~(HasBegun(k, r) /\ d \notin BegunOn(k))
    <3>1. now(k) = BegunOn(k)
      BY <1>3, <2>2
    <3> QED
      BY <1>4, <2>2, <3>1, CountsDeposits
  <2> QED
    BY <2>1, <2>2
<1> QED
  BY <1>2, <1>5 DEF Totals

(* A deposit that ends adds one to the ended ones.                          *)
LEMMA EndedMoves ==
    ASSUME DOMAIN deposit = Deposits, NEW d \in Deposits, NEW r,
           deposit' = [deposit EXCEPT ![d] = r], deposit[d].at # "done"
    PROVE  /\ Cardinality(Ended) \in Nat
           /\ Cardinality(Ended') = IF r.at = "done" THEN Cardinality(Ended) + 1
                                    ELSE Cardinality(Ended)
<1>1. deposit'[d] = r /\ \A e \in Deposits : e # d => deposit'[e] = deposit[e]
  OBVIOUS
<1>2. Ended' = IF r.at = "done" THEN Ended \cup {d} ELSE Ended
  BY <1>1 DEF Ended
<1>3. Ended \in SUBSET Deposits /\ d \notin Ended
  BY DEF Ended
<1> QED
  BY <1>2, <1>3, CountsDeposits

-----------------------------------------------------------------------------
(* The first invariant: every value anywhere is bounded by the deposits     *)
(* that have read its row.                                                  *)

(* A deposit's copies: one may still be added to a count it has read.       *)
DepositFits(r, b) ==
    /\ r.at \in Places
    /\ r.at \in {"balance", "meta"} => r.value \in Nat /\ r.value + 1 <= b[r.at]
    /\ r.at = "bridge" => r.slot \in Held(b) /\ r.next \in {"readMeta", "row"}

FlagsTyped ==
    /\ up \in BOOLEAN /\ backupUp \in BOOLEAN /\ healthy \in BOOLEAN
    /\ outages \in 0..MaxOutages /\ lost \in 0..MaxLost

TInv ==
    /\ DOMAIN deposit = Deposits
    /\ \A d \in Deposits : DepositFits(deposit[d], Bound)
    /\ primary \in Held(Bound)
    /\ Beside(backup, bridge, mirrors, copies, Bound)
    /\ rows \in Nat /\ rows <= Cardinality(Ended)
    /\ FlagsTyped

(* A larger bound fits too.                                                 *)
LEMMA FitsGrows ==
    ASSUME NEW b \in Totals, NEW c \in Totals, \A k \in Keys : b[k] <= c[k],
           NEW r, DepositFits(r, b)
    PROVE  DepositFits(r, c)
<1>1. Held(b) \subseteq Held(c)
  BY HeldGrows
<1>2. ASSUME r.at \in {"balance", "meta"} PROVE r.value \in Nat /\ r.value + 1 <= c[r.at]
  <2>1. r.at \in Keys
    BY <1>2 DEF Keys
  <2>2. b[r.at] \in Nat /\ c[r.at] \in Nat /\ b[r.at] <= c[r.at]
    BY <2>1 DEF Totals
  <2> QED
    BY <1>2, <2>2 DEF DepositFits
<1> QED
  BY <1>1, <1>2 DEF DepositFits

(* A step of deposit d, from what it does to the tiers.                     *)
LEMMA DepositStepKeeps ==
    ASSUME TInv, NEW d \in Deposits, NEW r, deposit' = [deposit EXCEPT ![d] = r],
           \A k \in Keys : HasBegun(k, deposit[d]) => HasBegun(k, r),
           DepositFits(r, Bound'), primary' \in Held(Bound'),
           Beside(backup', bridge', mirrors', copies', Bound'),
           deposit[d].at # "done", rows' \in Nat,
           rows' <= rows + (IF r.at = "done" THEN 1 ELSE 0), FlagsTyped'
    PROVE  TInv'
<1>1. /\ Bound' \in Totals /\ Bound \in Totals /\ \A k \in Keys : Bound[k] <= Bound'[k]
  BY BoundMoves, BoundTyped DEF TInv
<1>2. \A e \in Deposits : DepositFits(deposit'[e], Bound')
  <2>1. ASSUME NEW e \in Deposits, e # d PROVE DepositFits(deposit'[e], Bound')
    <3>1. deposit'[e] = deposit[e] /\ DepositFits(deposit[e], Bound)
      BY <2>1 DEF TInv
    <3> QED
      BY <1>1, <3>1, FitsGrows
  <2>2. deposit'[d] = r
    BY DEF TInv
  <2> QED
    BY <2>1, <2>2
<1>3. rows' <= Cardinality(Ended')
  <2>1. /\ Cardinality(Ended) \in Nat
        /\ Cardinality(Ended') = IF r.at = "done" THEN Cardinality(Ended) + 1
                                 ELSE Cardinality(Ended)
    BY EndedMoves DEF TInv
  <2> QED
    BY <2>1 DEF TInv
<1>4. DOMAIN deposit' = Deposits
  BY DEF TInv
<1> QED
  BY <1>2, <1>3, <1>4 DEF TInv

(* What holds before a step of deposit d that reads or writes row k.        *)
LEMMA Facts ==
    ASSUME TInv
    PROVE  /\ Bound \in Totals /\ primary \in Held(Bound) /\ rows \in Nat
           /\ backup \in Held(Bound) /\ bridge \in Held(Bound)
           /\ mirrors \in Seq(Mirrored(Bound)) /\ copies \in Seq(Copied(Bound))
           /\ DOMAIN deposit = Deposits /\ \A d \in Deposits : DepositFits(deposit[d], Bound)
BY BoundTyped DEF TInv, Beside

(* A deposit reads row k: what it read counts it out, so one more fits.     *)
LEMMA ReadKeeps ==
    ASSUME TInv, NEW d \in Deposits, NEW from, NEW k \in Keys,
           \/ from = "start" /\ k = "balance"
           \/ from = "readMeta" /\ k = "meta",
           Read(d, from, k, k)
    PROVE  TInv'
<1> DEFINE v == kvGet(k)
           r == [at |-> k, value |-> v]
<1>1. /\ deposit[d].at = from /\ deposit' = [deposit EXCEPT ![d] = r]
      /\ UNCHANGED <<tiers, answers, healthy, mirrors, copies, lost, strayed>>
  BY DEF Read, Goto
<1>2. v \in Nat /\ v <= Bound[k]
  BY Facts, ReadsHeld
<1> HIDE DEF v
<1>3. r.at = k /\ r.value = v
  OBVIOUS
<1> HIDE DEF r
<1>4. \A j \in Keys : HasBegun(j, deposit[d]) => HasBegun(j, r)
  BY <1>1, <1>3 DEF HasBegun, Keys
<1>5. ~HasBegun(k, deposit[d]) /\ HasBegun(k, r)
  BY <1>1, <1>3 DEF HasBegun
<1>6. /\ Bound' \in Totals /\ \A j \in Keys : Bound[j] <= Bound'[j]
      /\ Bound'[k] = Bound[k] + 1
  BY <1>1, <1>4, <1>5, Facts, BoundMoves
<1>7. DepositFits(r, Bound')
  <2>1. Bound[k] \in Nat
    BY Facts DEF Totals
  <2>2. v + 1 <= Bound'[k]
    BY <1>2, <1>6, <2>1
  <2> QED
    BY <1>2, <1>3, <2>2 DEF DepositFits, Places
<1>8. primary' \in Held(Bound') /\ Beside(backup', bridge', mirrors', copies', Bound')
  BY <1>1, <1>6, Facts, HeldGrows DEF tiers, Beside
<1>9. rows' = rows /\ FlagsTyped' /\ deposit[d].at # "done" /\ r.at # "done"
  BY <1>1, <1>3 DEF TInv, FlagsTyped, tiers, answers
<1>10. rows' \in Nat /\ rows' <= rows + (IF r.at = "done" THEN 1 ELSE 0)
  BY <1>9, Facts
<1> QED
  BY <1>1, <1>4, <1>7, <1>8, <1>9, <1>10, DepositStepKeeps

(* A step of a deposit that neither begins on a row nor ends.               *)
LEMMA MiddleKeeps ==
    ASSUME TInv, NEW d \in Deposits, NEW r, deposit' = [deposit EXCEPT ![d] = r],
           \A k \in Keys : HasBegun(k, deposit[d]) <=> HasBegun(k, r),
           DepositFits(r, Bound), primary' \in Held(Bound),
           Beside(backup', bridge', mirrors', copies', Bound),
           deposit[d].at # "done", r.at # "done", rows' = rows, FlagsTyped'
    PROVE  TInv'
<1>1. /\ Bound' \in Totals /\ \A k \in Keys : Bound[k] <= Bound'[k]
  BY Facts, BoundMoves
<1>2. /\ DepositFits(r, Bound') /\ primary' \in Held(Bound')
      /\ Beside(backup', bridge', mirrors', copies', Bound')
  BY <1>1, Facts, FitsGrows, HeldGrows
<1>3. rows' \in Nat /\ rows' <= rows + (IF r.at = "done" THEN 1 ELSE 0)
  BY Facts
<1> QED
  BY <1>2, <1>3, DepositStepKeeps

(* A deposit writes row k, to the primary or towards the bridge.            *)
LEMMA WriteKeeps ==
    ASSUME TInv, NEW d \in Deposits, NEW k \in Keys, NEW next,
           \/ k = "balance" /\ next = "readMeta"
           \/ k = "meta" /\ next = "row",
           Write(d, k, next)
    PROVE  TInv'
<1> DEFINE w == deposit[d].value + 1
<1>1. deposit[d].at = k /\ w \in Nat /\ w <= Bound[k]
  <2>1. deposit[d].at = k /\ DepositFits(deposit[d], Bound)
    BY Facts DEF Write
  <2> QED
    BY <2>1 DEF DepositFits, Keys
<1>2. rows' = rows /\ FlagsTyped'
  BY DEF Write, answers, TInv, FlagsTyped
<1>3. CASE up
  <2> DEFINE r == [at |-> next, value |-> 0]
             m == [key |-> k, value |-> w]
             c == [at |-> "balance", slot |-> Empty]
  <2>1. /\ deposit' = [deposit EXCEPT ![d] = r]
        /\ primary' = [primary EXCEPT ![k] = w]
        /\ mirrors' = Append(mirrors, m) /\ copies' = Append(copies, c)
        /\ UNCHANGED <<backup, bridge>>
    BY <1>3 DEF Write, SetPrimary, Goto
  <2>2. r.at = next
    OBVIOUS
  <2>3. m \in Mirrored(Bound)
    BY <1>1 DEF Mirrored
  <2>4. c \in Copied(Bound)
    BY Facts DEF Copied, Held, Totals, Empty
  <2> HIDE DEF r, m, c, w
  <2>5. primary' \in Held(Bound)
    BY <1>1, <2>1, Facts DEF Held, Totals
  <2>6. Beside(backup', bridge', mirrors', copies', Bound)
    BY <2>1, <2>3, <2>4, Facts, AppendProperties DEF Beside
  <2>7. DepositFits(r, Bound)
    BY <2>2 DEF DepositFits, Places
  <2>8. \A j \in Keys : HasBegun(j, deposit[d]) <=> HasBegun(j, r)
    BY <1>1, <2>2 DEF HasBegun, Keys
  <2> QED
    BY <1>1, <1>2, <2>1, <2>2, <2>5, <2>6, <2>7, <2>8, MiddleKeeps
<1>4. CASE ~up
  <2> DEFINE s == [bridge EXCEPT ![k] = w]
             r == [at |-> "bridge", slot |-> s, next |-> next]
  <2>1. /\ deposit' = [deposit EXCEPT ![d] = r]
        /\ UNCHANGED <<primary, backup, mirrors, copies, bridge>>
    BY <1>4 DEF Write
  <2> HIDE DEF w
  <2>2. s \in Held(Bound)
    BY <1>1, Facts DEF Held, Totals
  <2> HIDE DEF s
  <2>3. r.at = "bridge" /\ r.slot = s /\ r.next = next
    OBVIOUS
  <2> HIDE DEF r
  <2>4. DepositFits(r, Bound)
    BY <2>2, <2>3 DEF DepositFits, Places
  <2>5. \A j \in Keys : HasBegun(j, deposit[d]) <=> HasBegun(j, r)
    BY <1>1, <2>3 DEF HasBegun, Keys
  <2>6. primary' \in Held(Bound) /\ Beside(backup', bridge', mirrors', copies', Bound)
    BY <2>1, Facts DEF Beside
  <2> QED
    BY <1>1, <1>2, <2>1, <2>3, <2>4, <2>5, <2>6, MiddleKeeps
<1> QED
  BY <1>3, <1>4

(* A deposit's slot reaches the bridge, or is refused.                      *)
LEMMA BridgeKeeps ==
    ASSUME TInv, NEW d \in Deposits, WriteBridge(d) \/ BridgeRefuses(d)
    PROVE  TInv'
<1> DEFINE r == [at |-> deposit[d].next, value |-> 0]
<1>1. /\ deposit[d].at = "bridge" /\ deposit' = [deposit EXCEPT ![d] = r]
      /\ bridge' \in {bridge, deposit[d].slot}
      /\ UNCHANGED <<primary, backup, rows, mirrors, copies, answers, healthy>>
      /\ \/ lost' = lost
         \/ lost < MaxLost /\ lost' = lost + 1
  BY DEF WriteBridge, BridgeRefuses, Goto, tiers
<1>2. deposit[d].slot \in Held(Bound) /\ deposit[d].next \in {"readMeta", "row"}
  BY <1>1, Facts DEF DepositFits
<1>3. r.at = deposit[d].next
  OBVIOUS
<1> HIDE DEF r
<1>4. DepositFits(r, Bound)
  BY <1>2, <1>3 DEF DepositFits, Places
<1>5. \A j \in Keys : HasBegun(j, deposit[d]) <=> HasBegun(j, r)
  BY <1>1, <1>2, <1>3 DEF HasBegun, Keys
<1>6. primary' \in Held(Bound) /\ Beside(backup', bridge', mirrors', copies', Bound)
  BY <1>1, <1>2, Facts DEF Beside
<1>7. FlagsTyped'
  BY <1>1, TiersAssumption DEF TInv, FlagsTyped, answers
<1> QED
  BY <1>1, <1>2, <1>3, <1>4, <1>5, <1>6, <1>7, MiddleKeeps

(* A deposit ends.                                                          *)
LEMMA PushKeeps ==
    ASSUME TInv, NEW d \in Deposits, PushRow(d)
    PROVE  TInv'
<1>1. /\ deposit[d].at = "row" /\ deposit' = [deposit EXCEPT ![d] = Done]
      /\ rows' = IF up THEN rows + 1 ELSE rows
      /\ UNCHANGED <<primary, backup, bridge, answers, healthy, mirrors, copies, lost, strayed>>
  BY DEF PushRow
<1>2. Done.at = "done"
  BY DEF Done
<1>3. \A j \in Keys : HasBegun(j, deposit[d]) => HasBegun(j, Done)
  BY <1>1, <1>2 DEF HasBegun
<1>4. /\ Bound' \in Totals /\ \A j \in Keys : Bound[j] <= Bound'[j]
  BY <1>1, <1>3, Facts, BoundMoves
<1>5. DepositFits(Done, Bound')
  BY <1>2 DEF DepositFits, Places
<1>6. primary' \in Held(Bound') /\ Beside(backup', bridge', mirrors', copies', Bound')
  BY <1>1, <1>4, Facts, HeldGrows DEF Beside
<1>7. FlagsTyped' /\ rows' \in Nat /\ rows' <= rows + 1
  BY <1>1, Facts DEF TInv, FlagsTyped, answers
<1> QED
  BY <1>1, <1>2, <1>3, <1>5, <1>6, <1>7, DepositStepKeeps

(* What lands, and what fails and returns.                                  *)
LEMMA BackgroundKeepsAll ==
    ASSUME TInv, BackgroundNext
    PROVE  TInv'
<1>1. /\ Beside(backup', bridge', mirrors', copies', Bound)
      /\ UNCHANGED <<primary, rows, deposit, shared, fellBack>>
  BY Facts, BackgroundKeeps DEF Beside
<1>2. Bound' = Bound /\ Ended' = Ended
  BY <1>1 DEF Bound, BegunOn, HasBegun, Ended
<1>3. FlagsTyped'
  <2>0. FlagsTyped
    BY DEF TInv
  <2>1. CASE MirrorStep
    BY <2>0, <2>1 DEF MirrorStep, LandMirror, DropMirror, answers, FlagsTyped
  <2>2. CASE CopyStep
    BY <2>0, <2>2 DEF CopyStep, CopyBalance, CopyMeta, CopyReads, CopyLands, answers, FlagsTyped
  <2>3. CASE Ping \/ InstanceEnds
    BY <2>0, <2>3, TiersAssumption DEF Ping, InstanceEnds, answers, FlagsTyped
  <2>4. CASE PrimaryFails \/ PrimaryReturns \/ BackupFails \/ BackupReturns
    <3>1. healthy' = healthy /\ lost' = lost /\ up' \in BOOLEAN /\ backupUp' \in BOOLEAN
      BY <2>0, <2>4
         DEF PrimaryFails, PrimaryReturns, BackupFails, BackupReturns, Quiet, FlagsTyped
    <3>2. outages' = outages \/ (outages < MaxOutages /\ outages' = outages + 1)
      BY <2>4 DEF PrimaryFails, PrimaryReturns, BackupFails, BackupReturns
    <3>3. outages' \in 0..MaxOutages
      BY <2>0, <3>2, TiersAssumption DEF FlagsTyped
    <3> QED
      BY <2>0, <3>1, <3>3 DEF FlagsTyped
  <2> QED
    BY <2>1, <2>2, <2>3, <2>4 DEF BackgroundNext
<1> QED
  BY <1>1, <1>2, <1>3 DEF TInv

(* The steps of a deposit, one by one.                                      *)
LEMMA DepositKeepsAll ==
    ASSUME TInv, NEW d \in Deposits, DepositStep(d)
    PROVE  TInv'
<1>1. "balance" \in Keys /\ "meta" \in Keys
  BY DEF Keys
<1>2. CASE ReadBalance(d)
  BY <1>1, <1>2, ReadKeeps DEF ReadBalance
<1>3. CASE ReadMeta(d)
  BY <1>1, <1>3, ReadKeeps DEF ReadMeta
<1>4. CASE WriteBalance(d)
  BY <1>1, <1>4, WriteKeeps DEF WriteBalance
<1>5. CASE WriteMeta(d)
  BY <1>1, <1>5, WriteKeeps DEF WriteMeta
<1>6. CASE WriteBridge(d) \/ BridgeRefuses(d)
  BY <1>6, BridgeKeeps
<1>7. CASE PushRow(d)
  BY <1>7, PushKeeps
<1> QED
  BY <1>2, <1>3, <1>4, <1>5, <1>6, <1>7 DEF DepositStep

(* At first nothing is counted.                                             *)
LEMMA TInitKeeps == VInit => TInv
<1> SUFFICES ASSUME VInit PROVE TInv
  OBVIOUS
<1>1. DOMAIN deposit = Deposits /\ \A d \in Deposits : deposit[d].at = "start"
  BY DEF VInit, Waiting
<1>2. Bound \in Totals /\ Cardinality(Ended) \in Nat
  BY BoundTyped, CountsDeposits DEF Ended
<1>3. Empty \in Held(Bound)
  BY <1>2 DEF Held, Totals, Empty
<1>4. primary = Empty /\ backup = Empty /\ bridge = Empty /\ mirrors = <<>> /\ copies = <<>>
  BY DEF VInit
<1>5. primary \in Held(Bound) /\ Beside(backup, bridge, mirrors, copies, Bound)
  BY <1>3, <1>4 DEF Beside
<1>6. \A d \in Deposits : DepositFits(deposit[d], Bound)
  BY <1>1 DEF DepositFits, Places
<1>7. FlagsTyped /\ rows = 0
  BY TiersAssumption DEF VInit, FlagsTyped
<1> QED
  BY <1>1, <1>2, <1>5, <1>6, <1>7 DEF TInv

(* Every step keeps the invariant.                                          *)
LEMMA TStep == TInv /\ [VNext]_vars => TInv'
<1> SUFFICES ASSUME TInv, [VNext]_vars PROVE TInv'
  OBVIOUS
<1>1. CASE \E d \in Deposits : DepositStep(d)
  BY <1>1, DepositKeepsAll
<1>2. CASE BackgroundNext
  BY <1>2, BackgroundKeepsAll
<1>3. CASE UNCHANGED vars
  BY <1>3 DEF vars, tiers, answers, TInv, FlagsTyped, Bound, BegunOn, HasBegun, Ended
<1> QED
  BY <1>1, <1>2, <1>3 DEF VNext, BackgroundNext

-----------------------------------------------------------------------------
(* The second invariant: while no deposit has met another or an outage, the *)
(* primary counts exactly what was written, and is ahead of all else.       *)

Lone == ~shared /\ ~fellBack

Active(r) == r.at \notin {"start", "done"}

(* A deposit that has written row k.                                        *)
HasWritten(k, r) ==
    IF k = "balance" THEN r.at \in {"readMeta", "meta", "row", "done"}
    ELSE r.at \in {"row", "done"}

WrittenOn(k) == {d \in Deposits : HasWritten(k, deposit[d])}

LoneFacts ==
    /\ \A d, e \in Deposits : Active(deposit[d]) /\ Active(deposit[e]) => d = e
    /\ \A d \in Deposits :
          /\ deposit[d].at # "bridge"
          /\ deposit[d].at \in {"balance", "meta"} => deposit[d].value = primary[deposit[d].at]
    /\ \A k \in Keys : primary[k] = Cardinality(WrittenOn(k))
    /\ rows = Cardinality(Ended)
    /\ Beside(backup, bridge, mirrors, copies, primary)

LInv == Lone => LoneFacts

(* A step of the only deposit under way keeps it the only one.              *)
LEMMA LoneMoves ==
    ASSUME TInv, LoneFacts, NEW d \in Deposits, NEW r, deposit' = [deposit EXCEPT ![d] = r],
           Meets(d), Lone'
    PROVE  /\ up /\ Lone
           /\ \A e \in Deposits \ {d} : deposit'[e] = deposit[e] /\ ~Active(deposit[e])
           /\ \A e, f \in Deposits : Active(deposit'[e]) /\ Active(deposit'[f]) => e = f
<1>1. up /\ Lone /\ \A e \in Deposits \ {d} : ~Active(deposit[e])
  BY DEF Meets, Lone, Active
<1>2. \A e \in Deposits \ {d} : deposit'[e] = deposit[e]
  BY DEF TInv
<1> HIDE DEF Active
<1> QED
  BY <1>1, <1>2

(* The written counts after a step of d.                                    *)
LEMMA WrittenMoves ==
    ASSUME DOMAIN deposit = Deposits, NEW d \in Deposits, NEW r,
           deposit' = [deposit EXCEPT ![d] = r],
           NEW k \in Keys, HasWritten(k, deposit[d]) => HasWritten(k, r)
    PROVE  /\ Cardinality(WrittenOn(k)) \in Nat
           /\ Cardinality(WrittenOn(k)') =
                 IF ~HasWritten(k, deposit[d]) /\ HasWritten(k, r)
                 THEN Cardinality(WrittenOn(k)) + 1 ELSE Cardinality(WrittenOn(k))
<1>1. deposit'[d] = r /\ \A e \in Deposits : e # d => deposit'[e] = deposit[e]
  OBVIOUS
<1> DEFINE P(x) == HasWritten(k, x)
<1>2. WrittenOn(k) = {e \in Deposits : P(deposit[e])}
  BY DEF WrittenOn
<1>3. WrittenOn(k)' = {e \in Deposits : P(deposit'[e])}
  BY DEF WrittenOn, HasWritten
<1>4. P(deposit[d]) => P(r)
  OBVIOUS
<1> HIDE DEF P
<1>5. /\ WrittenOn(k) \in SUBSET Deposits
      /\ WrittenOn(k)' = IF ~P(deposit[d]) /\ P(r) THEN WrittenOn(k) \cup {d} ELSE WrittenOn(k)
      /\ d \in WrittenOn(k) <=> P(deposit[d])
  BY <1>1, <1>2, <1>3, <1>4
<1>6. /\ Cardinality(WrittenOn(k)) \in Nat
      /\ Cardinality(WrittenOn(k)') =
            IF ~P(deposit[d]) /\ P(r)
            THEN Cardinality(WrittenOn(k)) + 1 ELSE Cardinality(WrittenOn(k))
  BY <1>5, CountsDeposits
<1> QED
  BY <1>6 DEF P

(* A lone deposit reads what the primary counts.                            *)
LEMMA ReadLone ==
    ASSUME TInv, LInv, NEW d \in Deposits, NEW from, NEW k \in Keys,
           \/ from = "start" /\ k = "balance"
           \/ from = "readMeta" /\ k = "meta",
           Read(d, from, k, k)
    PROVE  LInv'
<1> SUFFICES ASSUME Lone' PROVE LoneFacts'
  BY DEF LInv
<1> DEFINE v == kvGet(k)
           r == [at |-> k, value |-> v]
<1>1. /\ deposit[d].at = from /\ deposit' = [deposit EXCEPT ![d] = r] /\ Meets(d)
      /\ UNCHANGED <<primary, backup, bridge, rows, mirrors, copies>>
  BY DEF Read, Goto, tiers
<1>2. LoneFacts
  BY <1>1 DEF LInv, Lone, Meets
<1>3. v = primary[k]
  <2>1. up
    BY <1>1 DEF Meets, Lone
  <2>2. backup \in Held(primary) /\ bridge \in Held(primary) /\ primary[k] \in Nat
    BY <1>2, Facts DEF LoneFacts, Beside, Held, Totals
  <2>3. backup[k] \in Nat /\ bridge[k] \in Nat /\ backup[k] <= primary[k] /\ bridge[k] <= primary[k]
    BY <2>2 DEF Held, Totals
  <2> QED
    BY <2>1, <2>2, <2>3 DEF kvGet
<1> HIDE DEF v
<1>4. r.at = k /\ r.value = primary[k]
  BY <1>3
<1> HIDE DEF r
<1>5. /\ \A e \in Deposits \ {d} : deposit'[e] = deposit[e] /\ ~Active(deposit[e])
      /\ \A e, f \in Deposits : Active(deposit'[e]) /\ Active(deposit'[f]) => e = f
  BY <1>1, <1>2, LoneMoves
<1>6. deposit'[d] = r /\ DOMAIN deposit = Deposits
  BY <1>1, Facts
<1>7. \A e \in Deposits :
         /\ deposit'[e].at # "bridge"
         /\ deposit'[e].at \in {"balance", "meta"} => deposit'[e].value = primary'[deposit'[e].at]
  BY <1>1, <1>2, <1>4, <1>5, <1>6 DEF LoneFacts, Keys
<1>8. \A j \in Keys : primary'[j] = Cardinality(WrittenOn(j)')
  <2> SUFFICES ASSUME NEW j \in Keys PROVE primary'[j] = Cardinality(WrittenOn(j)')
    OBVIOUS
  <2>1. HasWritten(j, deposit[d]) <=> HasWritten(j, r)
    BY <1>1, <1>4 DEF HasWritten, Keys
  <2>2. Cardinality(WrittenOn(j)') = Cardinality(WrittenOn(j))
    BY <1>1, <1>6, <2>1, WrittenMoves
  <2> QED
    BY <1>1, <1>2, <2>2 DEF LoneFacts
<1>9. rows' = Cardinality(Ended')
  <2>1. deposit[d].at # "done" /\ r.at # "done"
    BY <1>1, <1>4
  <2>2. Cardinality(Ended') = Cardinality(Ended)
    BY <1>1, <1>6, <2>1, EndedMoves
  <2> QED
    BY <1>1, <1>2, <2>2 DEF LoneFacts
<1>10. Beside(backup', bridge', mirrors', copies', primary')
  BY <1>1, <1>2 DEF LoneFacts
<1> QED
  BY <1>5, <1>7, <1>8, <1>9, <1>10 DEF LoneFacts

(* A lone deposit adds one to what the primary counts.                      *)
LEMMA WriteLone ==
    ASSUME TInv, LInv, NEW d \in Deposits, NEW k \in Keys, NEW next,
           \/ k = "balance" /\ next = "readMeta"
           \/ k = "meta" /\ next = "row",
           Write(d, k, next)
    PROVE  LInv'
<1> SUFFICES ASSUME Lone' PROVE LoneFacts'
  BY DEF LInv
<1> DEFINE r == [at |-> next, value |-> 0]
           w == primary[k] + 1
           m == [key |-> k, value |-> w]
           c == [at |-> "balance", slot |-> Empty]
<1>1. deposit[d].at = k /\ Meets(d) /\ UNCHANGED rows
  BY DEF Write
<1>2. LoneFacts
  BY <1>1 DEF LInv, Lone, Meets
<1>3. deposit[d].value = primary[k] /\ up
  BY <1>1, <1>2 DEF LoneFacts, Keys, Meets, Lone
<1>4. /\ deposit' = [deposit EXCEPT ![d] = r]
      /\ primary' = [primary EXCEPT ![k] = w]
      /\ mirrors' = Append(mirrors, m) /\ copies' = Append(copies, c)
      /\ UNCHANGED <<backup, bridge>>
  BY <1>3 DEF Write, SetPrimary, Goto
<1>5. r.at = next
  OBVIOUS
<1>6. /\ primary \in Totals /\ w \in Nat /\ primary' \in Totals /\ primary'[k] = w
      /\ \A j \in Keys : primary[j] <= primary'[j] /\ (j # k => primary'[j] = primary[j])
  <2>1. primary \in Totals
    BY Facts DEF Held
  <2> QED
    BY <1>4, <2>1 DEF Totals
<1>7. m \in Mirrored(primary') /\ c \in Copied(primary')
  <2>1. m \in Mirrored(primary')
    BY <1>6 DEF Mirrored
  <2>2. Empty \in Held(primary')
    BY <1>6 DEF Held, Totals, Empty
  <2> QED
    BY <2>1, <2>2 DEF Copied
<1> HIDE DEF r, m, c, w
<1>8. Beside(backup, bridge, mirrors, copies, primary')
  BY <1>2, <1>6, HeldGrows DEF LoneFacts
<1>9. Beside(backup', bridge', mirrors', copies', primary')
  BY <1>4, <1>7, <1>8, AppendProperties DEF Beside
<1>10. /\ \A e \in Deposits \ {d} : deposit'[e] = deposit[e] /\ ~Active(deposit[e])
       /\ \A e, f \in Deposits : Active(deposit'[e]) /\ Active(deposit'[f]) => e = f
  BY <1>1, <1>2, <1>4, LoneMoves
<1>11. deposit'[d] = r /\ DOMAIN deposit = Deposits
  BY <1>4, Facts
<1>12. \A e \in Deposits :
          /\ deposit'[e].at # "bridge"
          /\ deposit'[e].at \notin {"balance", "meta"}
  BY <1>5, <1>10, <1>11 DEF Active
<1>13. \A j \in Keys : primary'[j] = Cardinality(WrittenOn(j)')
  <2> SUFFICES ASSUME NEW j \in Keys PROVE primary'[j] = Cardinality(WrittenOn(j)')
    OBVIOUS
  <2>1. /\ HasWritten(j, deposit[d]) => HasWritten(j, r)
        /\ ~HasWritten(j, deposit[d]) /\ HasWritten(j, r) <=> j = k
    BY <1>1, <1>5 DEF HasWritten, Keys
  <2>2. Cardinality(WrittenOn(j)') = IF j = k THEN Cardinality(WrittenOn(j)) + 1
                                     ELSE Cardinality(WrittenOn(j))
    BY <1>4, <1>11, <2>1, WrittenMoves
  <2>3. primary[j] = Cardinality(WrittenOn(j))
    BY <1>2 DEF LoneFacts
  <2> QED
    BY <1>6, <2>2, <2>3 DEF w
<1>14. rows' = Cardinality(Ended')
  <2>1. deposit[d].at # "done" /\ r.at # "done"
    BY <1>1, <1>5 DEF Keys
  <2>2. Cardinality(Ended') = Cardinality(Ended)
    BY <1>4, <1>11, <2>1, EndedMoves
  <2> QED
    BY <1>1, <1>2, <2>2 DEF LoneFacts
<1> QED
  BY <1>9, <1>10, <1>12, <1>13, <1>14 DEF LoneFacts

(* A lone deposit ends with its row pushed.                                 *)
LEMMA PushLone ==
    ASSUME TInv, LInv, NEW d \in Deposits, PushRow(d)
    PROVE  LInv'
<1> SUFFICES ASSUME Lone' PROVE LoneFacts'
  BY DEF LInv
<1>1. /\ deposit[d].at = "row" /\ Meets(d) /\ deposit' = [deposit EXCEPT ![d] = Done]
      /\ rows' = IF up THEN rows + 1 ELSE rows
      /\ UNCHANGED <<primary, backup, bridge, mirrors, copies>>
  BY DEF PushRow
<1>2. LoneFacts /\ up
  BY <1>1 DEF LInv, Lone, Meets
<1>3. Done.at = "done"
  BY DEF Done
<1>4. /\ \A e \in Deposits \ {d} : deposit'[e] = deposit[e] /\ ~Active(deposit[e])
      /\ \A e, f \in Deposits : Active(deposit'[e]) /\ Active(deposit'[f]) => e = f
  BY <1>1, <1>2, LoneMoves
<1>5. deposit'[d] = Done /\ DOMAIN deposit = Deposits
  BY <1>1, Facts
<1>6. \A e \in Deposits :
         /\ deposit'[e].at # "bridge"
         /\ deposit'[e].at \notin {"balance", "meta"}
  BY <1>3, <1>4, <1>5 DEF Active
<1>7. \A j \in Keys : primary'[j] = Cardinality(WrittenOn(j)')
  <2> SUFFICES ASSUME NEW j \in Keys PROVE primary'[j] = Cardinality(WrittenOn(j)')
    OBVIOUS
  <2>1. HasWritten(j, deposit[d]) <=> HasWritten(j, Done)
    BY <1>1, <1>3 DEF HasWritten
  <2>2. Cardinality(WrittenOn(j)') = Cardinality(WrittenOn(j))
    BY <1>1, <1>5, <2>1, WrittenMoves
  <2> QED
    BY <1>1, <1>2, <2>2 DEF LoneFacts
<1>8. rows' = Cardinality(Ended')
  <2>1. Cardinality(Ended') = Cardinality(Ended) + 1
    BY <1>1, <1>3, <1>5, EndedMoves
  <2> QED
    BY <1>1, <1>2, <2>1 DEF LoneFacts
<1>9. Beside(backup', bridge', mirrors', copies', primary')
  BY <1>1, <1>2 DEF LoneFacts
<1> QED
  BY <1>4, <1>6, <1>7, <1>8, <1>9 DEF LoneFacts

(* Every step keeps the second invariant.                                   *)
LEMMA LStep == TInv /\ LInv /\ [VNext]_vars => LInv'
<1> SUFFICES ASSUME TInv, LInv, [VNext]_vars PROVE LInv'
  OBVIOUS
<1>0. "balance" \in Keys /\ "meta" \in Keys
  BY DEF Keys
<1>1. ASSUME NEW d \in Deposits, DepositStep(d) PROVE LInv'
  <2>1. CASE ReadBalance(d)
    BY <1>0, <2>1, ReadLone DEF ReadBalance
  <2>2. CASE ReadMeta(d)
    BY <1>0, <2>2, ReadLone DEF ReadMeta
  <2>3. CASE WriteBalance(d)
    BY <1>0, <2>3, WriteLone DEF WriteBalance
  <2>4. CASE WriteMeta(d)
    BY <1>0, <2>4, WriteLone DEF WriteMeta
  <2>5. CASE WriteBridge(d) \/ BridgeRefuses(d)
    <3>1. deposit[d].at = "bridge" /\ UNCHANGED <<shared, fellBack>>
      BY <2>5 DEF WriteBridge, BridgeRefuses
    <3> QED
      BY <3>1 DEF LInv, LoneFacts, Lone
  <2>6. CASE PushRow(d)
    BY <2>6, PushLone
  <2> QED
    BY <1>1, <2>1, <2>2, <2>3, <2>4, <2>5, <2>6 DEF DepositStep
<1>2. CASE BackgroundNext
  <2> SUFFICES ASSUME Lone' PROVE LoneFacts'
    BY DEF LInv
  <2>1. primary \in Totals /\ primary \in Held(primary)
    BY Facts DEF Held, Totals
  <2>2. UNCHANGED <<primary, rows, deposit, shared, fellBack>>
    <3>1. primary \in Held(Bound) /\ Beside(backup, bridge, mirrors, copies, Bound)
          /\ Bound \in Totals
      BY Facts DEF TInv
    <3> QED
      BY <1>2, <3>1, BackgroundKeeps
  <2>3. LoneFacts
    BY <2>2 DEF LInv, Lone
  <2>4. Beside(backup', bridge', mirrors', copies', primary)
    BY <1>2, <2>1, <2>3, BackgroundKeeps DEF LoneFacts
  <2>5. Ended' = Ended /\ \A k \in Keys : WrittenOn(k)' = WrittenOn(k)
    BY <2>2 DEF Ended, WrittenOn, HasWritten
  <2> QED
    BY <2>2, <2>3, <2>4, <2>5 DEF LoneFacts
<1>3. CASE UNCHANGED vars
  <2>1. UNCHANGED <<primary, backup, bridge, rows, mirrors, copies, deposit, shared, fellBack>>
    BY <1>3 DEF vars, tiers
  <2>2. Ended' = Ended /\ \A k \in Keys : WrittenOn(k)' = WrittenOn(k)
    BY <2>1 DEF Ended, WrittenOn, HasWritten
  <2> QED
    BY <2>1, <2>2 DEF LInv, Lone, LoneFacts
<1> QED
  BY <1>1, <1>2, <1>3 DEF VNext, BackgroundNext

(* At first no deposit is under way and nothing is written.                 *)
LEMMA LInitKeeps == VInit => LInv
<1> SUFFICES ASSUME VInit PROVE LoneFacts
  BY DEF LInv
<1>1. \A d \in Deposits : deposit[d].at = "start"
  BY DEF VInit, Waiting
<1>2. /\ primary = Empty /\ backup = Empty /\ bridge = Empty /\ rows = 0
      /\ mirrors = <<>> /\ copies = <<>>
  BY DEF VInit
<1>3. Ended = {} /\ \A k \in Keys : WrittenOn(k) = {}
  BY <1>1 DEF Ended, WrittenOn, HasWritten
<1>4. \A k \in Keys : primary[k] = Cardinality(WrittenOn(k))
  BY <1>2, <1>3, FS_EmptySet DEF Empty
<1>5. Empty \in Held(Empty)
  BY DEF Empty, Held, Totals
<1>6. Beside(backup, bridge, mirrors, copies, primary)
  BY <1>2, <1>5 DEF Beside
<1> QED
  BY <1>1, <1>2, <1>3, <1>4, <1>6, FS_EmptySet DEF LoneFacts, Active

-----------------------------------------------------------------------------
(* The theorems.                                                            *)

(* Both invariants hold in every reachable state.                           *)
LEMMA InvariantsHold == VSpec => [](TInv /\ LInv)
BY TInitKeeps, LInitKeeps, TStep, LStep, PTL DEF VSpec

(* Every row of every tier, and every write under way to one, is a count of *)
(* deposits, and the budgets of outages and losses are kept.                *)
THEOREM TiersTypeCorrect == VSpec => []VTypeOK
<1>1. TInv => VTypeOK
  <2> SUFFICES ASSUME TInv PROVE VTypeOK
    OBVIOUS
  <2>1. Bound \in Totals /\ \A k \in Keys : Bound[k] <= Cardinality(Deposits)
    BY BoundTyped, CountsDeposits DEF Bound, BegunOn
  <2>2. Cardinality(Deposits) \in Nat /\ rows \in Counts
    <3>1. Cardinality(Ended) \in Nat /\ Cardinality(Ended) <= Cardinality(Deposits)
      BY CountsDeposits DEF Ended
    <3> QED
      BY <3>1, CountsDeposits DEF TInv, Counts
  <2>3. Held(Bound) \subseteq [Keys -> Counts]
    <3> SUFFICES ASSUME NEW f \in Held(Bound) PROVE f \in [Keys -> Counts]
      OBVIOUS
    <3> QED
      BY <2>1, <2>2 DEF Held, Totals, Counts
  <2>4. Mirrored(Bound) \subseteq [key : Keys, value : Counts]
    <3> SUFFICES ASSUME NEW m \in Mirrored(Bound) PROVE m \in [key : Keys, value : Counts]
      OBVIOUS
    <3>1. m \in [key : Keys, value : Nat] /\ m.key \in Keys /\ m.value <= Bound[m.key]
      BY DEF Mirrored
    <3>2. m.value \in Counts
      BY <2>1, <2>2, <3>1 DEF Totals, Counts
    <3> QED
      BY <3>1, <3>2
  <2>5. Copied(Bound) \subseteq [at : {"balance", "meta", "write"}, slot : [Keys -> Counts]]
    BY <2>3 DEF Copied
  <2>6. /\ mirrors \in Seq([key : Keys, value : Counts])
        /\ copies \in Seq([at : {"balance", "meta", "write"}, slot : [Keys -> Counts]])
    <3>1. mirrors \in Seq(Mirrored(Bound)) /\ copies \in Seq(Copied(Bound))
      BY Facts
    <3>2. Seq(Mirrored(Bound)) \subseteq Seq([key : Keys, value : Counts])
      BY <2>4, SeqGrows, Zenon
    <3>3. Seq(Copied(Bound)) \subseteq
            Seq([at : {"balance", "meta", "write"}, slot : [Keys -> Counts]])
      BY <2>5, SeqGrows, Zenon
    <3> QED
      BY <3>1, <3>2, <3>3
  <2>7. \A d \in Deposits : deposit[d].at \in
          {"start", "balance", "readMeta", "meta", "row", "bridge", "done"}
    BY DEF TInv, DepositFits, Places
  <2> QED
    BY <2>2, <2>3, <2>6, <2>7, Facts DEF TInv, FlagsTyped, VTypeOK
<1> QED
  BY <1>1, InvariantsHold, PTL

(* However values travel by backup, bridge and mirrors, through outages and *)
(* overlapping deposits, no tier counts a unit or entry nobody deposited.   *)
THEOREM NothingEverInvented == VSpec => []NothingInvented
<1>1. TInv => NothingInvented
  <2> SUFFICES ASSUME TInv, NEW k \in Keys
               PROVE  /\ primary[k] <= Cardinality(Begun)
                      /\ backup[k] <= Cardinality(Begun)
                      /\ bridge[k] <= Cardinality(Begun)
    BY DEF NothingInvented
  <2>1. IsFiniteSet(Begun) /\ BegunOn(k) \subseteq Begun
    <3>1. BegunOn(k) \subseteq Begun
      BY DEF BegunOn, Begun, HasBegun
    <3>2. Begun \subseteq Deposits
      BY DEF Begun
    <3> QED
      BY <3>1, <3>2, TiersAssumption, FS_Subset
  <2>2. Bound[k] \in Nat /\ Cardinality(Begun) \in Nat /\ Bound[k] <= Cardinality(Begun)
    BY <2>1, FS_Subset, FS_CardinalityType DEF Bound
  <2>3. /\ primary[k] \in Nat /\ backup[k] \in Nat /\ bridge[k] \in Nat
        /\ primary[k] <= Bound[k] /\ backup[k] <= Bound[k] /\ bridge[k] <= Bound[k]
    BY Facts DEF Held, Totals
  <2> QED
    BY <2>2, <2>3
<1> QED
  BY <1>1, InvariantsHold, PTL

(* Deposits that each had the store to themselves and found the primary up  *)
(* are counted by it, row, balance and meta alike, whatever the backup did. *)
THEOREM LoneDepositsAlwaysCounted == VSpec => []LoneDepositsCounted
<1>1. LInv => LoneDepositsCounted
  <2> SUFFICES ASSUME LInv, Lone, Begun = Ended
               PROVE  /\ \A k \in Keys : primary[k] = Cardinality(Ended)
                      /\ rows = Cardinality(Ended)
    BY DEF LoneDepositsCounted, Lone
  <2>1. LoneFacts
    BY DEF LInv
  <2>2. ASSUME NEW k \in Keys PROVE WrittenOn(k) = Ended
    <3>1. Ended \subseteq WrittenOn(k)
      BY DEF Ended, WrittenOn, HasWritten
    <3>2. WrittenOn(k) \subseteq Begun
      BY DEF Begun, WrittenOn, HasWritten
    <3> QED
      BY <3>1, <3>2
  <2> QED
    BY <2>1, <2>2 DEF LoneFacts
<1> QED
  BY <1>1, InvariantsHold, PTL
=============================================================================
