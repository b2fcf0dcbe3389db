----------------------- MODULE HistoricalReserve_proofs -----------------------
(***************************************************************************)
(* Proofs about HistoricalReserve, for every council, threshold and bound:  *)
(* the lanes on stored seals keep the indexes complete, attest nothing that *)
(* is undecided, account for all reserve and leave a ZEUS veto alone.       *)
(***************************************************************************)
EXTENDS HistoricalReserve, SealedReserve_proofs, WellFoundedInduction

-----------------------------------------------------------------------------
(* Sequences built entry by entry.                                          *)

(* Induction over the natural numbers, on a set.                            *)
LEMMA SetInduction ==
    ASSUME NEW S, 0 \in S, \A n \in Nat : n \in S => n + 1 \in S
    PROVE  \A n \in Nat : n \in S
<1> DEFINE T == Nat \ S
<1> SUFFICES ASSUME T # {} PROVE FALSE
  OBVIOUS
<1>1. PICK x \in T : \A y \in T : ~(<<y, x>> \in OpToRel(<, Nat))
  BY NatLessThanWellFounded, WFMin
<1>2. x \in Nat /\ x # 0 /\ x - 1 \in Nat
  OBVIOUS
<1>3. <<x - 1, x>> \in OpToRel(<, Nat)
  BY <1>2 DEF OpToRel
<1>4. x - 1 \in S
  BY <1>1, <1>2, <1>3
<1>5. x - 1 + 1 \in S
  BY <1>2, <1>4
<1> QED
  BY <1>2, <1>5

(* f is what Kept builds from the first n entries of s.                     *)
KeepsUpTo(f, n, s, T) ==
    f = [i \in 0..n |->
            IF i = 0 THEN <<>>
            ELSE IF s[i] \in T THEN Append(f[i - 1], s[i]) ELSE f[i - 1]]

(* The recursion of Kept has a solution.                                    *)
LEMMA KeptDefined ==
    ASSUME NEW s, NEW T
    PROVE  \A n \in Nat : \E f : KeepsUpTo(f, n, s, T)
<1> DEFINE Next1(q, i) == IF s[i] \in T THEN Append(q, s[i]) ELSE q
           Solves(f, n) == f = [i \in 0..n |-> IF i = 0 THEN <<>> ELSE Next1(f[i - 1], i)]
           N == {n \in Nat : \E f : KeepsUpTo(f, n, s, T)}
<1> HIDE DEF Next1
<1>0. \A f, n : Solves(f, n) <=> KeepsUpTo(f, n, s, T)
  BY DEF Next1, KeepsUpTo
<1>1. 0 \in N
  <2>1. Solves([i \in 0..0 |-> <<>>], 0)
    OBVIOUS
  <2> QED
    BY <1>0, <2>1
<1>2. ASSUME NEW n \in Nat, n \in N
      PROVE  n + 1 \in N
  <2>1. PICK f : Solves(f, n)
    BY <1>0, <1>2
  <2> DEFINE g == [i \in 0..(n + 1) |-> IF i <= n THEN f[i] ELSE Next1(f[n], i)]
  <2>2. ASSUME NEW i \in 0..(n + 1)
        PROVE  g[i] = IF i = 0 THEN <<>> ELSE Next1(g[i - 1], i)
    <3>1. CASE i = 0
      BY <2>1, <3>1
    <3>2. CASE i # 0 /\ i <= n
      <4>1. i - 1 \in 0..n /\ i \in 0..n /\ i - 1 \in 0..(n + 1) /\ i - 1 <= n
        BY <3>2
      <4>2. g[i] = f[i] /\ g[i - 1] = f[i - 1]
        BY <3>2, <4>1
      <4>3. f[i] = Next1(f[i - 1], i)
        BY <2>1, <3>2, <4>1
      <4> QED
        BY <3>2, <4>2, <4>3
    <3>3. CASE i = n + 1
      <4>1. i - 1 = n /\ n \in 0..(n + 1) /\ ~(i <= n) /\ i # 0
        BY <3>3
      <4>2. g[i] = Next1(f[n], i) /\ g[n] = f[n]
        BY <3>3, <4>1
      <4> QED
        BY <4>1, <4>2
    <3> QED
      BY <3>1, <3>2, <3>3
  <2>3. g = [i \in 0..(n + 1) |-> g[i]]
    OBVIOUS
  <2>4. Solves(g, n + 1)
    <3> HIDE DEF g
    <3> QED
      BY <2>2, <2>3
  <2> HIDE DEF g, Solves
  <2> QED
    BY <1>0, <2>4
<1>3. \A n \in Nat : n \in N
  <2> HIDE DEF N
  <2> QED
    BY <1>1, <1>2, SetInduction
<1> QED
  BY <1>3

(* Appending to a sequence adds one entry to its range.                     *)
LEMMA AppendKeepsInjective ==
    ASSUME NEW S, NEW q \in Seq(S), NEW x \in S
    PROVE  /\ Append(q, x) \in Seq(S)
           /\ Range(Append(q, x)) = Range(q) \cup {x}
           /\ IsInjective(q) /\ x \notin Range(q) => IsInjective(Append(q, x))
<1>1. /\ Append(q, x) \in Seq(S)
      /\ DOMAIN Append(q, x) = DOMAIN q \cup {Len(q) + 1}
      /\ \A i \in DOMAIN q : Append(q, x)[i] = q[i]
      /\ Append(q, x)[Len(q) + 1] = x
      /\ Len(q) + 1 \notin DOMAIN q
  BY AppendProperties
<1> QED
  BY <1>1 DEF Range, IsInjective

(* Kept keeps what it is told to, and repeats nothing.                      *)
LEMMA KeptProperties ==
    ASSUME NEW S, NEW s \in Seq(S), NEW T
    PROVE  /\ Kept(s, T) \in Seq(S)
           /\ Range(Kept(s, T)) = Range(s) \cap T
           /\ IsInjective(s) => IsInjective(Kept(s, T))
<1> DEFINE kept == CHOOSE f : KeepsUpTo(f, Len(s), s, T)
           Upto(i) == {s[j] : j \in 1..i} \cap T
           Good(i) == /\ kept[i] \in Seq(S)
                      /\ Range(kept[i]) = Upto(i)
                      /\ IsInjective(s) => IsInjective(kept[i])
           N == {i \in Nat : i <= Len(s) => Good(i)}
<1>0. Len(s) \in Nat /\ DOMAIN s = 1..Len(s)
  OBVIOUS
<1>1. Kept(s, T) = kept[Len(s)]
  BY DEF Kept, KeepsUpTo
<1>2. KeepsUpTo(kept, Len(s), s, T)
  BY <1>0, KeptDefined
<1>3. /\ kept[0] = <<>>
      /\ \A i \in 1..Len(s) : kept[i] = IF s[i] \in T THEN Append(kept[i - 1], s[i])
                                        ELSE kept[i - 1]
  <2> HIDE DEF kept
  <2>1. 0 \in 0..Len(s) /\ \A i \in 1..Len(s) : i \in 0..Len(s) /\ i # 0
    BY <1>0
  <2> QED
    BY <1>2, <2>1 DEF KeepsUpTo
<1> HIDE DEF kept
<1>4. 0 \in N
  <2>1. Range(<<>>) = {} /\ Upto(0) = {} /\ IsInjective(<<>>) /\ <<>> \in Seq(S)
    BY DEF Range, IsInjective
  <2> QED
    BY <1>3, <2>1
<1>5. ASSUME NEW n \in Nat, n \in N
      PROVE  n + 1 \in N
  <2> SUFFICES ASSUME n + 1 <= Len(s) PROVE Good(n + 1)
    OBVIOUS
  <2> DEFINE x == s[n + 1]
             q == kept[n]
  <2>1. /\ n <= Len(s) /\ n + 1 \in 1..Len(s) /\ n + 1 - 1 = n /\ x \in S
        /\ 1..(n + 1) = 1..n \cup {n + 1}
    BY <1>0
  <2>2. q \in Seq(S) /\ Range(q) = Upto(n) /\ (IsInjective(s) => IsInjective(q))
    BY <1>5, <2>1
  <2>3. kept[n + 1] = IF x \in T THEN Append(q, x) ELSE q
    BY <1>3, <2>1
  <2>4. Upto(n + 1) = IF x \in T THEN Upto(n) \cup {x} ELSE Upto(n)
    BY <2>1
  <2>5. CASE x \in T
    <3>1. IsInjective(s) => x \notin Range(q)
      <4>1. SUFFICES ASSUME IsInjective(s), NEW j \in 1..n, s[j] = x PROVE FALSE
        BY <2>2
      <4>2. j \in DOMAIN s /\ n + 1 \in DOMAIN s /\ j # n + 1
        BY <1>0, <2>1
      <4> QED
        BY <4>1, <4>2 DEF IsInjective
    <3> HIDE DEF x, q, Upto
    <3>2. /\ Append(q, x) \in Seq(S)
          /\ Range(Append(q, x)) = Range(q) \cup {x}
          /\ IsInjective(q) /\ x \notin Range(q) => IsInjective(Append(q, x))
      BY <2>1, <2>2, AppendKeepsInjective
    <3> QED
      BY <2>2, <2>3, <2>4, <2>5, <3>1, <3>2
  <2>6. CASE x \notin T
    <3> HIDE DEF x, q, Upto
    <3> QED
      BY <2>2, <2>3, <2>4, <2>6
  <2> QED
    BY <2>5, <2>6
<1>6. Len(s) \in N
  <2> HIDE DEF N
  <2> QED
    BY <1>0, <1>4, <1>5, SetInduction
<1>7. Upto(Len(s)) = Range(s) \cap T
  BY <1>0 DEF Range
<1> QED
  BY <1>0, <1>1, <1>6, <1>7

(* Concatenation adds up ranges, and repeats nothing if nothing is shared.  *)
LEMMA ConcatKeepsInjective ==
    ASSUME NEW S, NEW q \in Seq(S), NEW t \in Seq(S)
    PROVE  /\ q \o t \in Seq(S)
           /\ Range(q \o t) = Range(q) \cup Range(t)
           /\ IsInjective(q) /\ IsInjective(t) /\ Range(q) \cap Range(t) = {}
                => IsInjective(q \o t)
<1> DEFINE c == q \o t
           m == Len(q)
<1>1. /\ c \in Seq(S) /\ Len(c) = m + Len(t)
      /\ \A i \in 1..(m + Len(t)) : c[i] = IF i <= m THEN q[i] ELSE t[i - m]
  BY ConcatProperties
<1>2. /\ m \in Nat /\ Len(t) \in Nat
      /\ DOMAIN q = 1..m /\ DOMAIN t = 1..Len(t) /\ DOMAIN c = 1..(m + Len(t))
  BY <1>1
<1>3. \A i \in DOMAIN c : \/ i \in DOMAIN q /\ c[i] = q[i]
                          \/ i - m \in DOMAIN t /\ i \notin DOMAIN q /\ c[i] = t[i - m]
  BY <1>1, <1>2
<1>4. /\ \A i \in DOMAIN q : i \in DOMAIN c /\ c[i] = q[i]
      /\ \A i \in DOMAIN t : i + m \in DOMAIN c /\ c[i + m] = t[i]
  BY <1>1, <1>2
<1> HIDE DEF c, m
<1>5. Range(c) = Range(q) \cup Range(t)
  BY <1>3, <1>4 DEF Range
<1>6. ASSUME IsInjective(q), IsInjective(t), Range(q) \cap Range(t) = {}
      PROVE  IsInjective(c)
  <2> SUFFICES ASSUME NEW i \in DOMAIN c, NEW j \in DOMAIN c, c[i] = c[j] PROVE i = j
    BY DEF IsInjective
  <2>1. /\ \A k \in DOMAIN q : q[k] \in Range(q)
        /\ \A k \in DOMAIN t : t[k] \in Range(t)
    BY DEF Range
  <2>2. CASE i \in DOMAIN q /\ j \in DOMAIN q
    BY <1>4, <1>6, <2>2 DEF IsInjective
  <2>3. CASE i \notin DOMAIN q /\ j \notin DOMAIN q
    <3>1. i - m \in DOMAIN t /\ j - m \in DOMAIN t /\ t[i - m] = t[j - m]
      BY <1>3, <2>3
    <3>2. i - m = j - m
      BY <1>6, <3>1 DEF IsInjective
    <3> QED
      BY <1>2, <3>2
  <2>4. CASE (i \in DOMAIN q) # (j \in DOMAIN q)
    BY <1>3, <1>6, <2>1, <2>4
  <2> QED
    BY <2>2, <2>3, <2>4
<1> QED
  BY <1>1, <1>5, <1>6 DEF c

(* Reverse holds the same entries.                                          *)
LEMMA ReverseProperties ==
    ASSUME NEW S, NEW q \in Seq(S)
    PROVE  /\ Reverse(q) \in Seq(S)
           /\ Range(Reverse(q)) = Range(q)
           /\ IsInjective(q) => IsInjective(Reverse(q))
<1> DEFINE r == Reverse(q)
           n == Len(q)
<1>1. n \in Nat /\ DOMAIN q = 1..n
  OBVIOUS
<1>2. /\ DOMAIN r = 1..n
      /\ \A i \in 1..n : n - i + 1 \in 1..n /\ r[i] = q[n - i + 1] /\ r[i] \in S
  BY <1>1 DEF Reverse
<1>3. r \in Seq(S)
  BY <1>1, <1>2 DEF Reverse
<1>4. \A i \in 1..n : r[n - i + 1] = q[i]
  BY <1>1, <1>2
<1> HIDE DEF r, n
<1>5. Range(r) = Range(q)
  <2>1. \A x \in Range(r) : x \in Range(q)
    BY <1>1, <1>2 DEF Range
  <2>2. \A x \in Range(q) : x \in Range(r)
    <3>1. SUFFICES ASSUME NEW i \in 1..n PROVE q[i] \in Range(r)
      BY <1>1 DEF Range
    <3>2. n - i + 1 \in DOMAIN r
      BY <1>2
    <3> QED
      BY <1>4, <3>2 DEF Range
  <2> QED
    BY <2>1, <2>2
<1>6. IsInjective(q) => IsInjective(r)
  BY <1>1, <1>2 DEF IsInjective
<1> QED
  BY <1>3, <1>5, <1>6 DEF r

(* The last of a sequence is one of its entries.                            *)
LEMMA LastInRange ==
    ASSUME NEW S, NEW q \in Seq(S), q # <<>>
    PROVE  Last(q) \in Range(q)
<1>1. Len(q) \in DOMAIN q
  OBVIOUS
<1> QED
  BY <1>1 DEF Last, Range

(* f is what EnqueuedAll builds from the first n names of ids.              *)
QueuesUpTo(f, n, q, ids) ==
    f = [i \in 0..n |-> IF i = 0 THEN q ELSE Enqueued(f[i - 1], ids[i])]

(* The recursion of EnqueuedAll has a solution.                             *)
LEMMA QueueDefined ==
    ASSUME NEW q, NEW ids
    PROVE  \A n \in Nat : \E f : QueuesUpTo(f, n, q, ids)
<1> DEFINE N == {n \in Nat : \E f : QueuesUpTo(f, n, q, ids)}
<1>1. 0 \in N
  <2>1. QueuesUpTo([i \in 0..0 |-> q], 0, q, ids)
    BY DEF QueuesUpTo
  <2> QED
    BY <2>1
<1>2. ASSUME NEW n \in Nat, n \in N
      PROVE  n + 1 \in N
  <2>1. PICK f : QueuesUpTo(f, n, q, ids)
    BY <1>2
  <2>2. \A i \in 0..n : f[i] = IF i = 0 THEN q ELSE Enqueued(f[i - 1], ids[i])
    BY <2>1 DEF QueuesUpTo
  <2> DEFINE g == [i \in 0..(n + 1) |-> IF i <= n THEN f[i] ELSE Enqueued(f[n], ids[i])]
  <2>3. ASSUME NEW i \in 0..(n + 1)
        PROVE  g[i] = IF i = 0 THEN q ELSE Enqueued(g[i - 1], ids[i])
    <3>1. CASE i = 0
      BY <2>2, <3>1
    <3>2. CASE i # 0 /\ i <= n
      <4>1. i - 1 \in 0..n /\ i \in 0..n /\ i - 1 \in 0..(n + 1) /\ i - 1 <= n
        BY <3>2
      <4>2. g[i] = f[i] /\ g[i - 1] = f[i - 1]
        BY <3>2, <4>1
      <4> HIDE DEF g
      <4> QED
        BY <2>2, <3>2, <4>1, <4>2
    <3>3. CASE i = n + 1
      <4>1. i - 1 = n /\ n \in 0..(n + 1) /\ ~(i <= n) /\ i # 0
        BY <3>3
      <4>2. g[i] = Enqueued(f[n], ids[i]) /\ g[n] = f[n]
        BY <3>3, <4>1
      <4> HIDE DEF g
      <4> QED
        BY <4>1, <4>2
    <3> QED
      BY <3>1, <3>2, <3>3
  <2>4. g = [i \in 0..(n + 1) |-> g[i]]
    OBVIOUS
  <2> HIDE DEF g
  <2>5. QueuesUpTo(g, n + 1, q, ids)
    BY <2>3, <2>4 DEF QueuesUpTo
  <2> QED
    BY <2>5
<1>3. \A n \in Nat : n \in N
  <2> HIDE DEF N
  <2> QED
    BY <1>1, <1>2, SetInduction
<1> QED
  BY <1>3

(* The retry queue stays a queue of names.                                  *)
LEMMA EnqueuedAllTyped ==
    ASSUME NEW q \in Seq(SealIds), NEW ids \in Seq(SealIds)
    PROVE  EnqueuedAll(q, ids) \in Seq(SealIds)
<1> DEFINE queue == CHOOSE f : QueuesUpTo(f, Len(ids), q, ids)
           N == {i \in Nat : i <= Len(ids) => queue[i] \in Seq(SealIds)}
<1>0. Len(ids) \in Nat
  OBVIOUS
<1>1. EnqueuedAll(q, ids) = queue[Len(ids)]
  BY DEF EnqueuedAll, QueuesUpTo
<1>2. QueuesUpTo(queue, Len(ids), q, ids)
  BY <1>0, QueueDefined
<1> HIDE DEF queue
<1>3. \A i \in 0..Len(ids) : queue[i] = IF i = 0 THEN q ELSE Enqueued(queue[i - 1], ids[i])
  BY <1>2 DEF QueuesUpTo
<1>4. 0 \in N
  BY <1>0, <1>3
<1>5. ASSUME NEW n \in Nat, n \in N
      PROVE  n + 1 \in N
  <2> SUFFICES ASSUME n + 1 <= Len(ids) PROVE queue[n + 1] \in Seq(SealIds)
    OBVIOUS
  <2>1. n + 1 \in 0..Len(ids) /\ n + 1 # 0 /\ n + 1 - 1 = n /\ n <= Len(ids)
    BY <1>0
  <2>2. queue[n + 1] = Enqueued(queue[n], ids[n + 1])
    BY <1>3, <2>1
  <2>3. ids[n + 1] \in SealIds
    BY <1>0
  <2> QED
    BY <1>5, <2>1, <2>2, <2>3, EnqueuedTyped
<1>6. Len(ids) \in N
  <2> HIDE DEF N
  <2> QED
    BY <1>0, <1>4, <1>5, SetInduction
<1> QED
  BY <1>1, <1>6

-----------------------------------------------------------------------------
(* What every lane keeps of the store.                                      *)

Provenance == Signatures \cup {CHOOSE s \in Signatures : TRUE}

StoredSeals ==
    [seq: Nat \ {0}, cycle: Cycles, hash: Nat, prev: Nat, sources: Seq(Provenance),
     votes: Votes, status: HistoricalStatuses, pointer: BOOLEAN]

(* A seal is attested on a quorum, or once every sentinel has voted.        *)
Settled(s) == s.status = "attested" => QuorumMet(s.votes) \/ Missing(s.votes) = {}

SealsKept(ss) ==
    \A id \in DOMAIN ss : ss[id] \in StoredSeals /\ Id(ss[id]) = id /\ Settled(ss[id])

Indexed(ss, ch, au, la) ==
    /\ ch \in Seq(SealIds) /\ au \in Seq(SealIds)
    /\ Range(au) = DOMAIN ss /\ IsInjective(au)
    /\ Range(ch) \subseteq DOMAIN ss /\ IsInjective(ch)
    /\ \A id \in DOMAIN ss : ss[id].status = "attested" => id \in Range(ch)
    /\ la # None => la \in Range(ch)

IsStore(st) ==
    st = [seals |-> st.seals, chain |-> st.chain, audit |-> st.audit,
          latest |-> st.latest, retry |-> st.retry]

StoreKept(st) ==
    /\ IsStore(st)
    /\ SealsKept(st.seals)
    /\ Indexed(st.seals, st.chain, st.audit, st.latest)
    /\ st.retry \in Seq(SealIds)

(* The seals tt are the seals ss with other votes, pointers and statuses,   *)
(* but no veto lifted.                                                      *)
Spared(ss, tt) ==
    /\ DOMAIN tt = DOMAIN ss
    /\ \A id \in DOMAIN ss : /\ tt[id].hash = ss[id].hash
                             /\ ss[id].status = "rejected" => tt[id].status = "rejected"

(* Sparing adds up.                                                         *)
LEMMA SparedTransitive ==
    ASSUME NEW ss, NEW tt, NEW uu, Spared(ss, tt), Spared(tt, uu)
    PROVE  Spared(ss, uu)
BY DEF Spared

(* The name of a stored seal is a name.                                     *)
LEMMA StoredNames ==
    /\ \A s \in StoredSeals : Id(s) \in SealIds
    /\ \A ss : SealsKept(ss) => DOMAIN ss \subseteq SealIds
<1>1. \A s \in StoredSeals : Id(s) \in SealIds
  BY DEF StoredSeals, Id, SealIds
<1> QED
  BY <1>1 DEF SealsKept

(* An index takes a name once.                                              *)
LEMMA PushedOnce ==
    ASSUME NEW q \in Seq(SealIds), NEW x \in SealIds, IsInjective(q)
    PROVE  /\ PushIfMissing(q, x) \in Seq(SealIds)
           /\ Range(PushIfMissing(q, x)) = Range(q) \cup {x}
           /\ IsInjective(PushIfMissing(q, x))
<1>1. CASE x \in Range(q)
  BY <1>1 DEF PushIfMissing
<1>2. CASE x \notin Range(q)
  BY <1>2, AppendKeepsInjective DEF PushIfMissing
<1> QED
  BY <1>1, <1>2

(* Storing a seal, new or under a name in use, keeps the store.             *)
LEMMA StoredKeeps ==
    ASSUME NEW st, StoreKept(st), NEW s \in StoredSeals, Settled(s)
    PROVE  StoreKept(Stored(st, s))
<1> DEFINE x == Id(s)
           minted == s.status = "attested"
           new == Stored(st, s)
<1>1. x \in SealIds
  BY StoredNames
<1>2. /\ new.seals = Put(st.seals, x, s)
      /\ new.chain = IF minted THEN PushIfMissing(st.chain, x) ELSE st.chain
      /\ new.audit = PushIfMissing(st.audit, x)
      /\ new.latest = IF minted THEN x ELSE st.latest
      /\ new.retry = IF minted /\ ~s.pointer THEN Enqueued(st.retry, x) ELSE st.retry
      /\ IsStore(new)
  BY DEF Stored, IsStore
<1> HIDE DEF new
<1>3. /\ DOMAIN new.seals = DOMAIN st.seals \cup {x}
      /\ new.seals[x] = s
      /\ \A id \in DOMAIN st.seals : id # x => new.seals[id] = st.seals[id]
  BY <1>2 DEF Put
<1>4. SealsKept(new.seals)
  BY <1>3 DEF SealsKept, StoreKept
<1>5. /\ st.chain \in Seq(SealIds) /\ st.audit \in Seq(SealIds) /\ st.retry \in Seq(SealIds)
      /\ IsInjective(st.chain) /\ IsInjective(st.audit)
      /\ Range(st.audit) = DOMAIN st.seals /\ Range(st.chain) \subseteq DOMAIN st.seals
      /\ \A id \in DOMAIN st.seals : st.seals[id].status = "attested" => id \in Range(st.chain)
      /\ st.latest # None => st.latest \in Range(st.chain)
  BY DEF StoreKept, Indexed
<1>6. /\ new.chain \in Seq(SealIds) /\ IsInjective(new.chain)
      /\ Range(new.chain) = IF minted THEN Range(st.chain) \cup {x} ELSE Range(st.chain)
  <2> HIDE DEF x, minted
  <2>1. CASE minted
    BY <1>1, <1>2, <1>5, <2>1, PushedOnce
  <2>2. CASE ~minted
    BY <1>2, <1>5, <2>2
  <2> QED
    BY <2>1, <2>2
<1>7. /\ new.audit \in Seq(SealIds) /\ IsInjective(new.audit)
      /\ Range(new.audit) = DOMAIN new.seals
  BY <1>1, <1>2, <1>3, <1>5, PushedOnce
<1>8. new.retry \in Seq(SealIds)
  BY <1>1, <1>2, <1>5, EnqueuedTyped
<1>9. Range(new.chain) \subseteq DOMAIN new.seals
  BY <1>3, <1>5, <1>6
<1>10. ASSUME NEW id \in DOMAIN new.seals, new.seals[id].status = "attested"
       PROVE  id \in Range(new.chain)
  BY <1>3, <1>5, <1>6, <1>10
<1>11. new.latest # None => new.latest \in Range(new.chain)
  BY <1>2, <1>5, <1>6
<1> QED
  BY <1>2, <1>4, <1>6, <1>7, <1>8, <1>9, <1>10, <1>11 DEF StoreKept, Indexed, new

(* Editing stored seals in place keeps the store, if none is attested that  *)
(* is not indexed.                                                          *)
LEMMA EditedKeeps ==
    ASSUME NEW st, StoreKept(st), NEW new, IsStore(new),
           new.chain = st.chain, new.audit = st.audit, new.latest = st.latest,
           new.retry \in Seq(SealIds),
           DOMAIN new.seals = DOMAIN st.seals, SealsKept(new.seals),
           \A id \in DOMAIN st.seals :
              new.seals[id].status = "attested" => id \in Range(st.chain)
    PROVE  StoreKept(new)
BY DEF StoreKept, Indexed

(* A store with other seals and another queue.                              *)
Edited(st, tt, queue) == [st EXCEPT !.seals = tt, !.retry = queue]

(* All else stays.                                                          *)
LEMMA EditedStore ==
    ASSUME NEW st, IsStore(st), NEW tt, NEW queue
    PROVE  /\ IsStore(Edited(st, tt, queue))
           /\ Edited(st, tt, queue).chain = st.chain
           /\ Edited(st, tt, queue).audit = st.audit
           /\ Edited(st, tt, queue).latest = st.latest
           /\ Edited(st, tt, queue).seals = tt
           /\ Edited(st, tt, queue).retry = queue
<1> DEFINE new == Edited(st, tt, queue)
           ss == st.seals
           ch == st.chain
           au == st.audit
           la == st.latest
           re == st.retry
           Stores == [seals : {ss, tt}, chain : {ch}, audit : {au}, latest : {la},
                      retry : {re, queue}]
<1>1. st = [seals |-> ss, chain |-> ch, audit |-> au, latest |-> la, retry |-> re]
  BY DEF IsStore
<1> HIDE DEF ss, ch, au, la, re
<1>2. st \in Stores
  BY <1>1
<1>3. new \in Stores /\ new.seals = tt /\ new.retry = queue
  BY <1>2 DEF Edited
<1> HIDE DEF new
<1>4. new = [seals |-> new.seals, chain |-> new.chain, audit |-> new.audit,
             latest |-> new.latest, retry |-> new.retry]
  BY <1>3
<1>5. IsStore(new)
  BY <1>4 DEF IsStore
<1>6. new.chain = ch /\ new.audit = au /\ new.latest = la
  BY <1>3
<1> QED
  BY <1>3, <1>5, <1>6 DEF new, ch, au, la

(* Promoting stored seals, those of W in the order p, keeps the store.      *)
LEMMA PromotedKeeps ==
    ASSUME NEW st, StoreKept(st), NEW new, IsStore(new),
           NEW W \in SUBSET DOMAIN st.seals, NEW p \in Seq(SealIds),
           IsInjective(p), Range(p) = W,
           new.chain = st.chain \o Kept(p, W \ Range(st.chain)),
           new.audit = st.audit,
           \/ W = {} /\ new.latest = st.latest
           \/ W # {} /\ new.latest = Last(p),
           new.retry \in Seq(SealIds),
           DOMAIN new.seals = DOMAIN st.seals, SealsKept(new.seals),
           \A id \in DOMAIN st.seals :
              new.seals[id].status = "attested" => id \in Range(st.chain) \cup W
    PROVE  StoreKept(new)
<1> DEFINE q == Kept(p, W \ Range(st.chain))
<1>1. /\ st.chain \in Seq(SealIds) /\ st.audit \in Seq(SealIds)
      /\ IsInjective(st.chain) /\ IsInjective(st.audit)
      /\ Range(st.audit) = DOMAIN st.seals /\ Range(st.chain) \subseteq DOMAIN st.seals
      /\ st.latest # None => st.latest \in Range(st.chain)
  BY DEF StoreKept, Indexed
<1>2. /\ q \in Seq(SealIds) /\ Range(q) = W \ Range(st.chain) /\ IsInjective(q)
  BY KeptProperties
<1> HIDE DEF q
<1>3. /\ new.chain \in Seq(SealIds) /\ IsInjective(new.chain)
      /\ Range(new.chain) = Range(st.chain) \cup W
  <2>1. Range(st.chain) \cap Range(q) = {}
    BY <1>2
  <2>2. /\ st.chain \o q \in Seq(SealIds) /\ IsInjective(st.chain \o q)
        /\ Range(st.chain \o q) = Range(st.chain) \cup Range(q)
    BY <1>1, <1>2, <2>1, ConcatKeepsInjective
  <2> QED
    BY <1>2, <2>2 DEF q
<1>4. new.latest # None => new.latest \in Range(new.chain)
  <2>1. CASE W = {}
    BY <1>1, <1>3, <2>1
  <2>2. CASE W # {}
    <3>1. p # <<>>
      BY <2>2 DEF Range
    <3>2. Last(p) \in W
      BY <3>1, LastInRange
    <3> QED
      BY <1>3, <2>2, <3>2
  <2> QED
    BY <2>1, <2>2
<1>5. Indexed(new.seals, new.chain, new.audit, new.latest)
  BY <1>1, <1>3, <1>4 DEF Indexed
<1> QED
  BY <1>5 DEF StoreKept

(* The names of stored seals, newest first, are those of the audit index.   *)
LEMMA NewestFirst ==
    ASSUME NEW st, StoreKept(st), NEW W \in SUBSET DOMAIN st.seals
    PROVE  /\ Kept(Reverse(st.audit), W) \in Seq(SealIds)
           /\ Range(Kept(Reverse(st.audit), W)) = W
           /\ IsInjective(Kept(Reverse(st.audit), W))
<1>1. /\ st.audit \in Seq(SealIds) /\ IsInjective(st.audit) /\ Range(st.audit) = DOMAIN st.seals
  BY DEF StoreKept, Indexed
<1> DEFINE r == Reverse(st.audit)
<1>2. r \in Seq(SealIds) /\ IsInjective(r) /\ Range(r) = DOMAIN st.seals
  BY <1>1, ReverseProperties
<1> HIDE DEF r
<1>3. /\ Kept(r, W) \in Seq(SealIds)
      /\ Range(Kept(r, W)) = Range(r) \cap W
      /\ IsInjective(Kept(r, W))
  BY <1>2, KeptProperties
<1>4. Range(Kept(r, W)) = W
  BY <1>2, <1>3
<1> QED
  BY <1>3, <1>4 DEF r

-----------------------------------------------------------------------------
(* The lanes, one by one.                                                   *)

(* The sweeps cast passes only.                                             *)
LEMMA SweptVotesTyped ==
    ASSUME NEW v \in Votes
    PROVE  SweptVotes(v) \in Votes
BY DEF SweptVotes, PassUpTo, Votes, Verdicts

(* A sweep keeps the store, and touches only quarantined seals with votes   *)
(* missing.                                                                 *)
LEMMA SweptKeeps ==
    ASSUME NEW st, StoreKept(st), NEW ok \in BOOLEAN, NEW skip
    PROVE  /\ StoreKept(Swept(st, ok, skip))
           /\ Spared(st.seals, Swept(st, ok, skip).seals)
           /\ Swept(st, ok, skip).audit = st.audit
           /\ \A id \in DOMAIN st.seals :
                 id \notin Unvoted(st.seals) \ skip
                    => Swept(st, ok, skip).seals[id] = st.seals[id]
<1> DEFINE todo == Unvoted(st.seals) \ skip
           won == {id \in todo : QuorumMet(SweptVotes(st.seals[id].votes))}
           p == Kept(Reverse(st.audit), won)
           swept(id) == [st.seals[id] EXCEPT
                            !.votes   = SweptVotes(@),
                            !.status  = IF id \in won THEN "attested" ELSE @,
                            !.pointer = IF id \in won THEN ok ELSE @]
           new == [seals  |-> [id \in DOMAIN st.seals |->
                                 IF id \in todo THEN swept(id) ELSE st.seals[id]],
                   chain  |-> st.chain \o Kept(p, won \ Range(st.chain)),
                   audit  |-> st.audit,
                   latest |-> IF p = <<>> THEN st.latest ELSE Last(p),
                   retry  |-> IF ok THEN st.retry ELSE EnqueuedAll(st.retry, p)]
<1>1. Swept(st, ok, skip) = IF todo = {} THEN st ELSE new
  BY DEF Swept
<1>2. CASE todo = {}
  <2>1. Swept(st, ok, skip) = st
    BY <1>1, <1>2
  <2> HIDE DEF todo, new
  <2> QED
    BY <2>1 DEF Spared
<1>3. CASE todo # {}
  <2>0. /\ todo \subseteq DOMAIN st.seals
        /\ won \subseteq todo
        /\ \A id \in todo : st.seals[id].status = "quarantined"
    BY DEF Unvoted
  <2>1. ASSUME NEW id \in todo
        PROVE  /\ swept(id) \in StoredSeals /\ Id(swept(id)) = id /\ Settled(swept(id))
               /\ swept(id).hash = st.seals[id].hash
               /\ swept(id).status = "attested" => id \in won
    <3>1. st.seals[id] \in StoredSeals /\ Id(st.seals[id]) = id
      BY <2>0 DEF StoreKept, SealsKept
    <3>2. SweptVotes(st.seals[id].votes) \in Votes
      BY <3>1, SweptVotesTyped DEF StoredSeals
    <3>3. id \in won => QuorumMet(SweptVotes(st.seals[id].votes))
      OBVIOUS
    <3>4. st.seals[id].status = "quarantined"
      BY <2>0
    <3> HIDE DEF won, todo
    <3> DEFINE w == SweptVotes(st.seals[id].votes)
    <3> HIDE DEF w
    <3>5. swept(id) = [st.seals[id] EXCEPT
                            !.votes   = w,
                            !.status  = IF id \in won THEN "attested" ELSE "quarantined",
                            !.pointer = IF id \in won THEN ok ELSE @]
      BY <3>1, <3>4 DEF StoredSeals, w
    <3>6. /\ swept(id) \in StoredSeals
          /\ swept(id).seq = st.seals[id].seq /\ swept(id).cycle = st.seals[id].cycle
          /\ swept(id).hash = st.seals[id].hash /\ swept(id).votes = w
          /\ swept(id).status = IF id \in won THEN "attested" ELSE "quarantined"
      BY <3>1, <3>2, <3>5 DEF StoredSeals, HistoricalStatuses, Statuses, w
    <3> QED
      BY <3>1, <3>3, <3>6 DEF Id, Settled, w
  <2> HIDE DEF swept
  <2>2. /\ p \in Seq(SealIds) /\ Range(p) = won /\ IsInjective(p)
    BY <2>0, NewestFirst
  <2> HIDE DEF p
  <2>3. /\ DOMAIN new.seals = DOMAIN st.seals
        /\ \A id \in DOMAIN st.seals :
              new.seals[id] = IF id \in todo THEN swept(id) ELSE st.seals[id]
        /\ new.chain = st.chain \o Kept(p, won \ Range(st.chain))
        /\ new.audit = st.audit
        /\ new.latest = IF p = <<>> THEN st.latest ELSE Last(p)
        /\ new.retry = IF ok THEN st.retry ELSE EnqueuedAll(st.retry, p)
        /\ IsStore(new)
    BY DEF IsStore
  <2> HIDE DEF new, won, todo
  <2>4. SealsKept(new.seals)
    BY <2>1, <2>3 DEF StoreKept, SealsKept
  <2>5. new.retry \in Seq(SealIds)
    BY <2>2, <2>3, EnqueuedAllTyped DEF StoreKept
  <2>6. \/ won = {} /\ new.latest = st.latest
        \/ won # {} /\ new.latest = Last(p)
    <3>1. p = <<>> <=> won = {}
      <4>1. p = <<>> => won = {}
        BY <2>2 DEF Range
      <4>2. p # <<>> => won # {}
        BY <2>2, LastInRange
      <4> QED
        BY <4>1, <4>2
    <3> QED
      BY <2>3, <3>1
  <2>7. \A id \in DOMAIN st.seals :
           new.seals[id].status = "attested" => id \in Range(st.chain) \cup won
    BY <2>1, <2>3 DEF StoreKept, Indexed
  <2>8. StoreKept(new)
    BY <2>0, <2>2, <2>3, <2>4, <2>5, <2>6, <2>7, PromotedKeeps
  <2>9. Spared(st.seals, new.seals)
    BY <2>0, <2>1, <2>3 DEF Spared
  <2> QED
    BY <1>1, <1>3, <2>3, <2>8, <2>9 DEF todo
<1> QED
  BY <1>2, <1>3

(* Setting the pointer of stored seals changes nothing the store must keep. *)
LEMMA PointedKeeps ==
    ASSUME NEW ss, SealsKept(ss), NEW given,
           NEW tt, tt = [id \in DOMAIN ss |->
                           IF id \in given THEN [ss[id] EXCEPT !.pointer = TRUE] ELSE ss[id]]
    PROVE  /\ SealsKept(tt) /\ Spared(ss, tt)
           /\ \A id \in DOMAIN ss : tt[id].status = ss[id].status
<1>1. ASSUME NEW id \in DOMAIN ss
      PROVE  /\ tt[id] \in StoredSeals /\ Id(tt[id]) = id /\ Settled(tt[id])
             /\ tt[id].status = ss[id].status /\ tt[id].hash = ss[id].hash
  <2>1. ss[id] \in StoredSeals /\ Id(ss[id]) = id /\ Settled(ss[id])
    BY DEF SealsKept
  <2>2. /\ tt[id] \in StoredSeals
        /\ tt[id].seq = ss[id].seq /\ tt[id].cycle = ss[id].cycle /\ tt[id].hash = ss[id].hash
        /\ tt[id].votes = ss[id].votes /\ tt[id].status = ss[id].status
    BY <2>1 DEF StoredSeals
  <2> QED
    BY <2>1, <2>2 DEF Id, Settled
<1>2. DOMAIN tt = DOMAIN ss
  OBVIOUS
<1> QED
  BY <1>1, <1>2 DEF SealsKept, Spared

(* Draining the retry queue keeps the store.                                *)
LEMMA DrainedKeeps ==
    ASSUME NEW st, StoreKept(st), NEW ok \in BOOLEAN
    PROVE  StoreKept(Drained(st, ok)) /\ Spared(st.seals, Drained(st, ok).seals)
<1> DEFINE pending == {id \in DOMAIN st.seals :
                         st.seals[id].status = "attested" /\ ~st.seals[id].pointer}
           given == IF ok THEN pending \cap Range(st.retry) ELSE {}
           tt == [id \in DOMAIN st.seals |->
                    IF id \in given THEN [st.seals[id] EXCEPT !.pointer = TRUE]
                    ELSE st.seals[id]]
           new == Drained(st, ok)
<1>1. /\ IsStore(new)
      /\ new.chain = st.chain /\ new.audit = st.audit /\ new.latest = st.latest
      /\ new.seals = tt
      /\ new.retry = IF ok THEN <<>> ELSE Kept(st.retry, pending)
  <2> DEFINE queue == IF ok THEN <<>> ELSE Kept(st.retry, pending)
  <2>1. new = Edited(st, tt, queue)
    BY DEF Drained, Edited
  <2> HIDE DEF tt, queue, new
  <2>2. IsStore(st)
    BY DEF StoreKept
  <2>3. /\ IsStore(new)
        /\ new.chain = st.chain /\ new.audit = st.audit /\ new.latest = st.latest
        /\ new.seals = tt /\ new.retry = queue
    BY <2>1, <2>2, EditedStore
  <2> QED
    BY <2>3 DEF queue
<1> HIDE DEF new
<1>2. new.retry \in Seq(SealIds)
  BY <1>1, KeptProperties DEF StoreKept
<1> HIDE DEF given, pending
<1>3. /\ SealsKept(tt) /\ Spared(st.seals, tt)
      /\ \A id \in DOMAIN st.seals : tt[id].status = st.seals[id].status
  <2> DEFINE ss == st.seals
  <2>1. SealsKept(ss)
    BY DEF StoreKept
  <2>2. tt = [id \in DOMAIN ss |->
                IF id \in given THEN [ss[id] EXCEPT !.pointer = TRUE] ELSE ss[id]]
    OBVIOUS
  <2> HIDE DEF tt, ss
  <2>3. /\ SealsKept(tt) /\ Spared(ss, tt)
        /\ \A id \in DOMAIN ss : tt[id].status = ss[id].status
    BY <2>1, <2>2, PointedKeeps
  <2> QED
    BY <2>3 DEF ss
<1>4. DOMAIN tt = DOMAIN st.seals
  OBVIOUS
<1> HIDE DEF tt
<1>5. StoreKept(new)
  BY <1>1, <1>2, <1>3, <1>4, EditedKeeps DEF StoreKept, Indexed
<1> QED
  BY <1>1, <1>3, <1>5 DEF new

(* A store with other seals only, or with another queue only.               *)
Reseated(st, tt)    == [st EXCEPT !.seals = tt]
Requeued(st, queue) == [st EXCEPT !.retry = queue]

(* All else stays.                                                          *)
LEMMA EditedOnce ==
    ASSUME NEW st, IsStore(st), NEW tt, NEW queue
    PROVE  /\ Reseated(st, tt) = Edited(st, tt, st.retry)
           /\ Requeued(st, queue) = Edited(st, st.seals, queue)
<1> DEFINE ss == st.seals
           ch == st.chain
           au == st.audit
           la == st.latest
           re == st.retry
           Stores == [seals : {ss, tt}, chain : {ch}, audit : {au}, latest : {la},
                      retry : {re, queue}]
<1>1. st = [seals |-> ss, chain |-> ch, audit |-> au, latest |-> la, retry |-> re]
  BY DEF IsStore
<1>2. ss = st.seals /\ re = st.retry
  OBVIOUS
<1> HIDE DEF ss, ch, au, la, re
<1>3. st \in Stores
  BY <1>1
<1>4. /\ Reseated(st, tt) \in Stores /\ Reseated(st, tt).seals = tt
      /\ Reseated(st, tt).retry = re
  BY <1>2, <1>3 DEF Reseated
<1>5. /\ Requeued(st, queue) \in Stores /\ Requeued(st, queue).seals = ss
      /\ Requeued(st, queue).retry = queue
  BY <1>2, <1>3 DEF Requeued
<1>6. /\ Edited(st, tt, re) \in Stores /\ Edited(st, tt, re).seals = tt
      /\ Edited(st, tt, re).retry = re
      /\ Edited(st, ss, queue) \in Stores /\ Edited(st, ss, queue).seals = ss
      /\ Edited(st, ss, queue).retry = queue
  BY <1>3 DEF Edited
<1>7. \A x, y \in Stores : x.seals = y.seals /\ x.retry = y.retry => x = y
  OBVIOUS
<1> HIDE DEF Stores
<1>8. Reseated(st, tt) = Edited(st, tt, re) /\ Requeued(st, queue) = Edited(st, ss, queue)
  BY <1>4, <1>5, <1>6, <1>7
<1> QED
  BY <1>2, <1>8

(* Giving up on quarantined seals keeps the store.                          *)
LEMMA GivenUpKeeps ==
    ASSUME NEW st, StoreKept(st), NEW capped \in SUBSET Unvoted(st.seals)
    PROVE  /\ StoreKept(GivenUp(st, capped))
           /\ Spared(st.seals, GivenUp(st, capped).seals)
           /\ GivenUp(st, capped).audit = st.audit
           /\ \A id \in DOMAIN st.seals :
                 id \notin capped => GivenUp(st, capped).seals[id] = st.seals[id]
           /\ Unvoted(GivenUp(st, capped).seals) \subseteq Unvoted(st.seals)
<1> DEFINE ss == st.seals
           tt == [id \in DOMAIN ss |->
                    IF id \in capped THEN [ss[id] EXCEPT !.status = "permanently-failed"]
                    ELSE ss[id]]
           new == GivenUp(st, capped)
<1>1. IsStore(st) /\ SealsKept(ss) /\ st.retry \in Seq(SealIds)
  BY DEF StoreKept
<1>2. /\ IsStore(new)
      /\ new.chain = st.chain /\ new.audit = st.audit /\ new.latest = st.latest
      /\ new.seals = tt /\ new.retry = st.retry
  <2>1. new = Reseated(st, tt)
    BY DEF GivenUp, Reseated
  <2> HIDE DEF new, tt
  <2> QED
    BY <1>1, <2>1, EditedOnce, EditedStore
<1>3. ASSUME NEW id \in DOMAIN ss
      PROVE  /\ tt[id] \in StoredSeals /\ Id(tt[id]) = id /\ Settled(tt[id])
             /\ tt[id].hash = ss[id].hash
             /\ tt[id].status \in {ss[id].status, "permanently-failed"}
             /\ id \in capped => /\ tt[id].status = "permanently-failed"
                                 /\ ss[id].status = "quarantined"
             /\ id \notin capped => tt[id] = ss[id]
  <2>1. ss[id] \in StoredSeals /\ Id(ss[id]) = id /\ Settled(ss[id])
    BY <1>1 DEF SealsKept
  <2>2. CASE id \in capped
    <3>1. tt[id] = [ss[id] EXCEPT !.status = "permanently-failed"]
      BY <2>2
    <3>2. ss[id].status = "quarantined"
      BY <2>2 DEF Unvoted
    <3> HIDE DEF tt
    <3>3. /\ tt[id] \in StoredSeals
          /\ tt[id].seq = ss[id].seq /\ tt[id].cycle = ss[id].cycle /\ tt[id].hash = ss[id].hash
          /\ tt[id].status = "permanently-failed"
      BY <2>1, <3>1 DEF StoredSeals, HistoricalStatuses
    <3> QED
      BY <2>1, <2>2, <3>2, <3>3 DEF Id, Settled
  <2>3. CASE id \notin capped
    <3>1. tt[id] = ss[id]
      BY <2>3
    <3> HIDE DEF tt
    <3> QED
      BY <2>1, <2>3, <3>1
  <2> QED
    BY <2>2, <2>3
<1>4. DOMAIN tt = DOMAIN ss
  OBVIOUS
<1> HIDE DEF new, tt
<1>5. SealsKept(tt) /\ Spared(ss, tt)
  BY <1>3, <1>4 DEF SealsKept, Spared
<1>6. StoreKept(new)
  <2>1. \A id \in DOMAIN ss : tt[id].status = "attested" => id \in Range(st.chain)
    BY <1>3 DEF StoreKept, Indexed
  <2> QED
    BY <1>1, <1>2, <1>4, <1>5, <2>1, EditedKeeps
<1>7. Unvoted(tt) \subseteq Unvoted(ss)
  BY <1>3, <1>4 DEF Unvoted
<1> QED
  BY <1>2, <1>3, <1>5, <1>6, <1>7 DEF new

(* Attesting stuck seals, whose votes are all in, and pointing stale ones,  *)
(* keeps the store.                                                         *)
LEMMA RepairedKeeps ==
    ASSUME StoreKept(Store), NEW st, StoreKept(st), st.audit = audit,
           DOMAIN st.seals = DOMAIN seals,
           NEW ok \in BOOLEAN, NEW stuck \in SUBSET Stuck, NEW stale \in SUBSET Stale,
           \A id \in stuck \cup stale : st.seals[id] = seals[id]
    PROVE  /\ StoreKept(Repaired(st, stuck, stale, ok))
           /\ Spared(st.seals, Repaired(st, stuck, stale, ok).seals)
<1> DEFINE ss == st.seals
           done == stuck \cup stale
           p == Names(stuck)
           q == Names(stale)
<1>1. /\ IsStore(st) /\ SealsKept(ss) /\ st.retry \in Seq(SealIds)
      /\ stuck \subseteq DOMAIN ss /\ stale \subseteq DOMAIN ss
  BY DEF StoreKept, Stuck, Stale
<1>2. /\ p \in Seq(SealIds) /\ Range(p) = stuck /\ IsInjective(p)
      /\ q \in Seq(SealIds)
  BY <1>1, NewestFirst DEF Names
<1>3. CASE ~ok
  <2> DEFINE new == Repaired(st, stuck, stale, ok)
             queue == EnqueuedAll(st.retry, p \o q)
  <2>1. new = Requeued(st, queue)
    BY <1>3 DEF Repaired, Requeued
  <2>2. queue \in Seq(SealIds)
    <3> HIDE DEF p, q
    <3>1. p \o q \in Seq(SealIds)
      BY <1>2
    <3> QED
      BY <1>1, <3>1, EnqueuedAllTyped
  <2> HIDE DEF new, queue
  <2>3. /\ IsStore(new)
        /\ new.chain = st.chain /\ new.audit = st.audit /\ new.latest = st.latest
        /\ new.seals = ss /\ new.retry = queue
    BY <1>1, <2>1, EditedOnce, EditedStore
  <2>4. StoreKept(new)
    BY <1>1, <2>2, <2>3, EditedKeeps DEF StoreKept, Indexed
  <2>5. Spared(ss, ss)
    BY DEF Spared
  <2> QED
    BY <2>3, <2>4, <2>5 DEF new
<1>4. CASE ok
  <2> DEFINE tt == [id \in DOMAIN ss |->
                      IF id \in done THEN [ss[id] EXCEPT !.status = "attested", !.pointer = TRUE]
                      ELSE ss[id]]
             new == [seals  |-> tt,
                     chain  |-> st.chain \o Kept(p, stuck \ Range(st.chain)),
                     audit  |-> st.audit,
                     latest |-> IF stuck = {} THEN st.latest ELSE Last(p),
                     retry  |-> Kept(st.retry, Range(st.retry) \ done)]
  <2>1. Repaired(st, stuck, stale, ok) = new
    BY <1>4 DEF Repaired
  <2>2. ASSUME NEW id \in DOMAIN ss
        PROVE  /\ tt[id] \in StoredSeals /\ Id(tt[id]) = id /\ Settled(tt[id])
               /\ tt[id].hash = ss[id].hash
               /\ ss[id].status = "rejected" => tt[id].status = "rejected"
               /\ tt[id].status = "attested" => id \in Range(st.chain) \cup stuck
    <3>1. ss[id] \in StoredSeals /\ Id(ss[id]) = id /\ Settled(ss[id])
      BY <1>1 DEF SealsKept
    <3>2. ss[id].status = "attested" => id \in Range(st.chain)
      BY DEF StoreKept, Indexed
    <3>3. CASE id \in done
      <4>1. tt[id] = [ss[id] EXCEPT !.status = "attested", !.pointer = TRUE]
        BY <3>3
      <4>2. /\ Missing(ss[id].votes) = {}
            /\ \/ ss[id].status = "quarantined" /\ id \in stuck
               \/ ss[id].status = "attested"
        BY <3>3 DEF Stuck, Stale
      <4> HIDE DEF tt
      <4>3. /\ tt[id] \in StoredSeals
            /\ tt[id].seq = ss[id].seq /\ tt[id].cycle = ss[id].cycle
            /\ tt[id].hash = ss[id].hash /\ tt[id].votes = ss[id].votes
            /\ tt[id].status = "attested"
        BY <3>1, <4>1 DEF StoredSeals, HistoricalStatuses, Statuses
      <4> HIDE DEF ss
      <4> QED
        BY <3>1, <3>2, <4>2, <4>3 DEF Id, Settled
    <3>4. CASE id \notin done
      <4>1. tt[id] = ss[id]
        BY <3>4
      <4> HIDE DEF tt
      <4> QED
        BY <3>1, <3>2, <4>1
    <3> QED
      BY <3>3, <3>4
  <2>3. DOMAIN tt = DOMAIN ss
    OBVIOUS
  <2> HIDE DEF tt, p
  <2>4. /\ IsStore(new) /\ new.seals = tt
        /\ new.chain = st.chain \o Kept(p, stuck \ Range(st.chain))
        /\ new.audit = st.audit
        /\ new.latest = IF stuck = {} THEN st.latest ELSE Last(p)
        /\ new.retry = Kept(st.retry, Range(st.retry) \ done)
    BY DEF IsStore
  <2> HIDE DEF new
  <2>5. SealsKept(tt) /\ Spared(ss, tt)
    BY <2>2, <2>3 DEF SealsKept, Spared
  <2>6. new.retry \in Seq(SealIds)
    BY <1>1, <2>4, KeptProperties
  <2>7. \/ stuck = {} /\ new.latest = st.latest
        \/ stuck # {} /\ new.latest = Last(p)
    BY <2>4
  <2>8. StoreKept(new)
    <3>1. stuck \in SUBSET DOMAIN st.seals
      BY <1>1
    <3>2. \A id \in DOMAIN st.seals :
             new.seals[id].status = "attested" => id \in Range(st.chain) \cup stuck
      BY <2>2, <2>4
    <3>3. DOMAIN new.seals = DOMAIN st.seals /\ SealsKept(new.seals)
      BY <2>3, <2>4, <2>5
    <3> QED
      BY <1>2, <2>4, <2>6, <2>7, <3>1, <3>2, <3>3, PromotedKeeps
  <2> QED
    BY <2>1, <2>4, <2>5, <2>8
<1> QED
  BY <1>3, <1>4

-----------------------------------------------------------------------------
(* The inductive invariant.                                                 *)

LedgerTyped ==
    /\ v1Balance \in Nat /\ balance \in Nat /\ formed \in Nat
    /\ hashes \in Seq(Signatures) /\ cycle \in Cycles
    /\ candidate \in Candidates \cup {None}

(* Hashes number the formations; the candidate has the last one.            *)
HashesOrdered ==
    /\ \A id \in DOMAIN seals : seals[id].hash <= formed
    /\ candidate # None =>
          candidate.hash = formed /\ \A id \in DOMAIN seals : seals[id].hash < formed

HInv == LedgerTyped /\ HashesOrdered /\ UnitsAccounted /\ StoreKept(Store)

(* A rejected seal under a name stays rejected, or makes room for another   *)
(* parcel.                                                                  *)
VetoStands ==
    \A id \in DOMAIN seals :
        seals[id].status = "rejected" =>
            /\ id \in DOMAIN seals'
            /\ seals'[id].hash = seals[id].hash => seals'[id].status = "rejected"

(* What a step does to parcels: no stored seal loses its name, the candidate *)
(* stays or becomes a seal, and a new parcel is the candidate or a seal.    *)
ParcelsMove ==
    /\ DOMAIN seals \subseteq DOMAIN seals'
    /\ \A h : candidate # None /\ candidate.hash = h => InHand(h)'
    /\ formed' = formed \/ (formed' = formed + 1 /\ InHand(formed)')

(* The store of the invariant, key by key.                                  *)
LEMMA StoreKeys ==
    /\ Store.seals = seals /\ Store.chain = chain /\ Store.audit = audit
    /\ Store.latest = latest /\ Store.retry = retry /\ IsStore(Store)
BY DEF Store, IsStore

(* A step that sets the store to one that is kept keeps the store.          *)
LEMMA SetStoreKeeps ==
    ASSUME NEW st, StoreKept(st), SetStore(st)
    PROVE  StoreKept(Store)' /\ seals' = st.seals
<1>1. st = [seals |-> st.seals, chain |-> st.chain, audit |-> st.audit,
            latest |-> st.latest, retry |-> st.retry]
  BY DEF StoreKept, IsStore
<1>2. Store' = [seals |-> st.seals, chain |-> st.chain, audit |-> st.audit,
                latest |-> st.latest, retry |-> st.retry]
  BY DEF SetStore, Store
<1>3. Store' = st
  BY <1>1, <1>2
<1> QED
  BY <1>3 DEF SetStore

(* A step that leaves the store alone keeps it.                             *)
LEMMA StoreUnchanged ==
    ASSUME StoreKept(Store), UNCHANGED store
    PROVE  StoreKept(Store)' /\ seals' = seals
<1>1. Store' = Store
  BY DEF store, Store
<1> QED
  BY <1>1 DEF store

(* The tip a formation reads is a number and a hash, whatever the pointer   *)
(* names.                                                                   *)
LEMMA TipTyped ==
    ASSUME NEW ss, SealsKept(ss), NEW la
    PROVE  Tip(ss, la) \in [seq: Nat, hash: Nat]
BY DEF Tip, SealsKept, StoredSeals

(* A formation from units and the hashes hs keeps the ledger.               *)
LEMMA FormationKeeps ==
    ASSUME LedgerTyped, NEW t \in [seq: Nat, hash: Nat], NEW hs \in Seq(Signatures),
           NEW units \in Nat, units >= Threshold, v1Balance <= units + Threshold * formed
    PROVE  /\ NewCandidate(t, hs) \in Candidates /\ NewCandidate(t, hs) # None
           /\ NewCandidate(t, hs).hash = formed + 1
           /\ NewCandidate(t, hs).votes = NoVotes
           /\ units - Threshold \in Nat /\ formed + 1 \in Nat
           /\ CarriedForward(hs, units - Threshold) \in Seq(Signatures)
           /\ v1Balance <= (units - Threshold) + Threshold * (formed + 1)
<1>1. Threshold \in Nat /\ units - Threshold \in Nat /\ formed \in Nat /\ formed + 1 \in Nat
      /\ v1Balance \in Nat /\ cycle \in Cycles
  BY ReserveAssumption DEF LedgerTyped
<1>2. NewCandidate(t, hs) \in Candidates /\ NewCandidate(t, hs) # None
  BY <1>1, NewCandidateTyped
<1>3. CarriedForward(hs, units - Threshold) \in Seq(Signatures)
  BY <1>1, CarriedForwardTyped
<1>4. v1Balance <= (units - Threshold) + Threshold * (formed + 1)
  <2> DEFINE a == Threshold * formed
             b == Threshold * (formed + 1)
  <2>1. a \in Nat /\ b = a + Threshold
    BY <1>1, OneMoreParcel
  <2>2. v1Balance <= units + a
    OBVIOUS
  <2> HIDE DEF a, b
  <2>3. v1Balance <= (units - Threshold) + b
    BY <1>1, <2>1, <2>2
  <2> QED
    BY <2>3 DEF b
<1>5. NewCandidate(t, hs).hash = formed + 1 /\ NewCandidate(t, hs).votes = NoVotes
  BY DEF NewCandidate
<1> QED
  BY <1>1, <1>2, <1>3, <1>4, <1>5

(* The empty store and the legacy store satisfy the invariant.              *)
LEMMA HInitKeeps == HInit => HInv
<1>0. 1 \in Cycles /\ Threshold \in Nat
  BY ReserveAssumption DEF Cycles
<1>1. ASSUME Init PROVE HInv
  <2>1. LedgerTyped /\ HashesOrdered
    BY <1>0, <1>1 DEF Init, LedgerTyped, HashesOrdered
  <2>2. UnitsAccounted
    <3>1. Threshold * 0 = 0
      BY <1>0
    <3> QED
      BY <1>1, <3>1 DEF Init, UnitsAccounted
  <2>3. StoreKept(Store)
    <3>1. /\ DOMAIN seals = {} /\ chain = <<>> /\ audit = <<>> /\ latest = None /\ retry = <<>>
      BY <1>1 DEF Init
    <3>2. Range(<<>>) = {} /\ IsInjective(<<>>) /\ <<>> \in Seq(SealIds)
      BY DEF Range, IsInjective
    <3> QED
      BY <3>1, <3>2, StoreKeys DEF StoreKept, SealsKept, Indexed
  <2> QED
    BY <2>1, <2>2, <2>3 DEF HInv
<1>2. ASSUME InitLegacy PROVE HInv
  <2>1. PICK v \in Votes : seals = [id \in {<<1, 1>>} |-> LegacySeal(v)]
    BY <1>2 DEF InitLegacy
  <2>2. /\ v1Balance = Threshold /\ balance = 0 /\ hashes = <<>> /\ candidate = None
        /\ chain = <<>> /\ audit = <<<<1, 1>>>> /\ latest = None /\ retry = <<>>
        /\ cycle = 1 /\ formed = 1
    BY <1>2 DEF InitLegacy
  <2> DEFINE s == LegacySeal(v)
  <2>3. /\ s.hash = 1 /\ s.seq = 1 /\ s.cycle = 1 /\ s.status = "quarantined"
        /\ s \in StoredSeals
    <3>1. <<CHOOSE x \in Signatures : TRUE>> \in Seq(Provenance)
      BY DEF Provenance
    <3> QED
      BY <1>0, <3>1 DEF LegacySeal, StoredSeals, HistoricalStatuses, Statuses
  <2> HIDE DEF s
  <2>4. DOMAIN seals = {<<1, 1>>} /\ seals[<<1, 1>>] = s
    BY <2>1 DEF s
  <2>5. LedgerTyped /\ HashesOrdered
    BY <1>0, <2>2, <2>3, <2>4 DEF LedgerTyped, HashesOrdered
  <2>6. UnitsAccounted
    <3>1. Threshold * 1 = Threshold
      BY <1>0
    <3> QED
      BY <1>0, <2>2, <3>1 DEF UnitsAccounted
  <2>7. SealsKept(seals)
    BY <2>3, <2>4 DEF SealsKept, Id, Settled
  <2>8. Indexed(seals, chain, audit, latest)
    <3>1. <<1, 1>> \in SealIds
      BY <1>0 DEF SealIds
    <3>2. audit \in Seq(SealIds) /\ Range(audit) = {<<1, 1>>} /\ IsInjective(audit)
      BY <2>2, <3>1 DEF Range, IsInjective
    <3>3. Range(<<>>) = {} /\ IsInjective(<<>>) /\ <<>> \in Seq(SealIds)
      BY DEF Range, IsInjective
    <3> QED
      BY <2>2, <2>3, <2>4, <3>2, <3>3 DEF Indexed
  <2>9. StoreKept(Store)
    BY <2>2, <2>7, <2>8, StoreKeys DEF StoreKept
  <2> QED
    BY <2>5, <2>6, <2>9 DEF HInv
<1> QED
  BY <1>1, <1>2 DEF HInit

-----------------------------------------------------------------------------
(* Every action keeps the invariant and lifts no veto, but for a ZEUS pass. *)

(* Where the store is left alone, hashes stay ordered if the candidate is   *)
(* kept or is a new one.                                                    *)
LEMMA HashesStayOrdered ==
    ASSUME HInv, UNCHANGED store, formed' \in Nat,
           \/ formed' = formed /\ (candidate' = None \/ /\ candidate # None
                                                        /\ candidate'.hash = candidate.hash)
           \/ formed' = formed + 1 /\ (candidate' = None \/ candidate'.hash = formed + 1)
    PROVE  HashesOrdered'
<1>1. /\ formed \in Nat
      /\ \A id \in DOMAIN seals : seals[id].hash \in Nat
  <2>1. \A id \in DOMAIN seals : seals[id] \in StoredSeals
    BY StoreKeys DEF HInv, StoreKept, SealsKept
  <2> QED
    BY <2>1 DEF HInv, LedgerTyped, StoredSeals
<1>2. seals' = seals
  BY DEF store
<1> QED
  BY <1>1, <1>2 DEF HInv, HashesOrdered

(* A deposit is queued, or forms a candidate.                               *)
LEMMA HDeposit ==
    ASSUME HInv, NEW amount \in Amounts, NEW sig \in Signatures, Deposit(amount, sig)
    PROVE  HInv' /\ VetoStands /\ ParcelsMove
<1> DEFINE next == balance + amount
           all  == PushIfMissing(hashes, sig)
           t    == Tip(seals, latest)
<1>1. /\ v1Balance' = v1Balance + amount /\ UNCHANGED <<store, gate, cycle>>
      /\ IF next < Threshold \/ candidate # None \/ gate
         THEN balance' = next /\ hashes' = all /\ UNCHANGED <<candidate, formed>>
         ELSE /\ candidate' = NewCandidate(t, all)
              /\ balance' = next - Threshold
              /\ hashes' = IF next > Threshold THEN <<sig>> ELSE <<>>
              /\ formed' = formed + 1
  BY DEF Deposit
<1>2. /\ amount \in Nat /\ Threshold \in Nat /\ balance \in Nat /\ v1Balance \in Nat
      /\ formed \in Nat /\ hashes \in Seq(Signatures) /\ next \in Nat /\ v1Balance' \in Nat
      /\ cycle \in Cycles
  BY <1>1, ReserveAssumption DEF HInv, LedgerTyped
<1>3. all \in Seq(Signatures)
  BY <1>2, PushIfMissingTyped
<1>4. t \in [seq: Nat, hash: Nat]
  BY StoreKeys, TipTyped DEF HInv, StoreKept
<1> DEFINE parcels(n) == Threshold * n
<1>5. parcels(formed) \in Nat /\ parcels(formed + 1) = parcels(formed) + Threshold
  BY <1>2, OneMoreParcel
<1>6. v1Balance <= balance + parcels(formed)
  BY DEF HInv, UnitsAccounted
<1>7. StoreKept(Store)' /\ seals' = seals
  BY <1>1, StoreUnchanged DEF HInv
<1> HIDE DEF all, t, parcels
<1>8. CASE next < Threshold \/ candidate # None \/ gate
  <2>1. balance' = next /\ hashes' = all /\ UNCHANGED <<candidate, formed>>
    BY <1>1, <1>8
  <2>2. LedgerTyped'
    BY <1>1, <1>2, <1>3, <2>1 DEF HInv, LedgerTyped
  <2>3. HashesOrdered'
    BY <1>7, <2>1 DEF HInv, HashesOrdered
  <2>4. v1Balance' <= balance' + parcels(formed')
    BY <1>1, <1>2, <1>5, <1>6, <2>1
  <2>5. ParcelsMove
    BY <1>7, <2>1 DEF ParcelsMove, InHand
  <2> QED
    BY <1>7, <2>2, <2>3, <2>4, <2>5 DEF HInv, UnitsAccounted, VetoStands, parcels
<1>9. CASE ~(next < Threshold \/ candidate # None \/ gate)
  <2>1. /\ candidate' = NewCandidate(t, all)
        /\ balance' = next - Threshold
        /\ hashes' = IF next > Threshold THEN <<sig>> ELSE <<>>
        /\ formed' = formed + 1
    BY <1>1, <1>9
  <2>2. /\ candidate' \in Candidates /\ candidate'.hash = formed + 1
    BY <1>2, <1>3, <1>4, <2>1, NewCandidateTyped DEF NewCandidate
  <2>3. balance' \in Nat /\ formed' \in Nat /\ hashes' \in Seq(Signatures)
    BY <1>2, <1>9, <2>1
  <2>4. LedgerTyped'
    BY <1>1, <1>2, <2>2, <2>3 DEF LedgerTyped
  <2>5. HashesOrdered'
    BY <1>1, <2>1, <2>2, <2>3, HashesStayOrdered
  <2>6. v1Balance' <= balance' + parcels(formed')
    BY <1>1, <1>2, <1>5, <1>6, <2>1
  <2>7. ParcelsMove
    BY <1>7, <1>9, <2>1, <2>2, NoneAssumption DEF ParcelsMove, InHand
  <2> QED
    BY <1>7, <2>4, <2>5, <2>6, <2>7 DEF HInv, UnitsAccounted, VetoStands, parcels
<1> QED
  BY <1>8, <1>9

(* FormNext on top of any tip, in terms of the ledger.                      *)
LEMMA FormNextKeeps ==
    ASSUME LedgerTyped, UnitsAccounted, NEW t \in [seq: Nat, hash: Nat], FormNext(t),
           UNCHANGED <<v1Balance, cycle>>
    PROVE  /\ LedgerTyped' /\ UnitsAccounted'
           /\ \/ formed' = formed /\ candidate' = None
              \/ formed' = formed + 1 /\ candidate' # None /\ candidate'.hash = formed + 1
<1>1. CASE gate \/ balance < Threshold
  BY <1>1 DEF FormNext, LedgerTyped, UnitsAccounted
<1>2. CASE ~(gate \/ balance < Threshold)
  <2>1. /\ candidate' = NewCandidate(t, hashes)
        /\ balance' = balance - Threshold
        /\ hashes' = CarriedForward(hashes, balance - Threshold)
        /\ formed' = formed + 1
    BY <1>2 DEF FormNext
  <2>2. balance \in Nat /\ Threshold \in Nat /\ hashes \in Seq(Signatures) /\ balance >= Threshold
    BY <1>2, ReserveAssumption DEF LedgerTyped
  <2>3. /\ NewCandidate(t, hashes) \in Candidates /\ NewCandidate(t, hashes) # None
        /\ NewCandidate(t, hashes).hash = formed + 1
        /\ balance - Threshold \in Nat /\ formed + 1 \in Nat
        /\ CarriedForward(hashes, balance - Threshold) \in Seq(Signatures)
        /\ v1Balance <= (balance - Threshold) + Threshold * (formed + 1)
    BY <2>2, FormationKeeps DEF UnitsAccounted
  <2>4. LedgerTyped'
    BY <2>1, <2>3 DEF LedgerTyped
  <2>5. UnitsAccounted'
    BY <2>1, <2>3 DEF UnitsAccounted
  <2> QED
    BY <2>1, <2>3, <2>4, <2>5
<1> QED
  BY <1>1, <1>2

(* The formation endpoint.                                                  *)
LEMMA HRequestFormation ==
    ASSUME HInv, RequestFormation
    PROVE  HInv' /\ VetoStands /\ ParcelsMove
<1>1. /\ candidate = None /\ FormNext(Tip(seals, latest))
      /\ UNCHANGED <<v1Balance, store, gate, cycle>>
  BY DEF RequestFormation
<1>2. Tip(seals, latest) \in [seq: Nat, hash: Nat]
  BY StoreKeys, TipTyped DEF HInv, StoreKept
<1>3. /\ LedgerTyped' /\ UnitsAccounted'
      /\ \/ formed' = formed /\ candidate' = None
         \/ formed' = formed + 1 /\ candidate' # None /\ candidate'.hash = formed + 1
  BY <1>1, <1>2, FormNextKeeps DEF HInv
<1>4. StoreKept(Store)' /\ seals' = seals
  BY <1>1, StoreUnchanged DEF HInv
<1>5. HashesOrdered'
  BY <1>1, <1>3, HashesStayOrdered DEF LedgerTyped
<1>6. ParcelsMove
  BY <1>1, <1>3, <1>4 DEF ParcelsMove, InHand
<1> QED
  BY <1>3, <1>4, <1>5, <1>6 DEF HInv, VetoStands

(* A vote, or the end of the window: the candidate keeps its hash.          *)
LEMMA HVoting ==
    ASSUME HInv, candidate # None, candidate' \in Candidates,
           candidate'.hash = candidate.hash,
           UNCHANGED <<ledger, store, gate, cycle, formed>>
    PROVE  HInv' /\ VetoStands /\ ParcelsMove
<1>1. StoreKept(Store)' /\ seals' = seals
  BY StoreUnchanged DEF HInv
<1>2. LedgerTyped' /\ UnitsAccounted'
  BY DEF HInv, LedgerTyped, UnitsAccounted, ledger
<1>3. HashesOrdered'
  BY <1>1 DEF HInv, HashesOrdered
<1>4. ParcelsMove
  BY <1>1, NoneAssumption DEF ParcelsMove, InHand
<1> QED
  BY <1>1, <1>2, <1>3, <1>4 DEF HInv, VetoStands

(* A sentinel's vote.                                                       *)
LEMMA HSubmitAttestation ==
    ASSUME HInv, NEW agent \in Sentinels, NEW verdict \in CastVerdicts,
           SubmitAttestation(agent, verdict)
    PROVE  HInv' /\ VetoStands /\ ParcelsMove
<1>1. /\ candidate # None
      /\ candidate' = [candidate EXCEPT !.votes[agent] = verdict]
      /\ UNCHANGED <<ledger, store, gate, cycle, formed>>
  BY DEF SubmitAttestation
<1>2. candidate \in Candidates /\ verdict \in Verdicts
  BY <1>1, ReserveAssumption DEF HInv, LedgerTyped
<1>3. [candidate.votes EXCEPT ![agent] = verdict] \in Votes
  BY <1>2 DEF Candidates, Votes
<1>4. candidate' \in Candidates /\ candidate'.hash = candidate.hash
  BY <1>1, <1>2, <1>3 DEF Candidates
<1> QED
  BY <1>1, <1>4, HVoting

(* The end of the attestation window.                                       *)
LEMMA HCloseWindow ==
    ASSUME HInv, CloseWindow
    PROVE  HInv' /\ VetoStands /\ ParcelsMove
<1>1. /\ candidate # None
      /\ candidate' = [candidate EXCEPT !.open = FALSE]
      /\ UNCHANGED <<ledger, store, gate, cycle, formed>>
  BY DEF CloseWindow
<1>2. candidate \in Candidates
  BY <1>1 DEF HInv, LedgerTyped
<1>3. candidate' \in Candidates /\ candidate'.hash = candidate.hash
  BY <1>1, <1>2 DEF Candidates
<1> QED
  BY <1>1, <1>3, HVoting

(* The gate, the cycle, and a step that changes nothing.                    *)
LEMMA HSurroundings ==
    ASSUME HInv, SwitchGate \/ RollCycle \/ UNCHANGED hvars
    PROVE  HInv' /\ VetoStands /\ ParcelsMove
<1>1. UNCHANGED <<v1Balance, balance, hashes, candidate, store, formed>>
  BY DEF SwitchGate, RollCycle, hvars, vars, ledger
<1>2. StoreKept(Store)' /\ seals' = seals
  BY <1>1, StoreUnchanged DEF HInv
<1>3. cycle' \in Cycles
  BY ReserveAssumption DEF HInv, LedgerTyped, SwitchGate, RollCycle, hvars, vars, Cycles
<1>4. LedgerTyped' /\ UnitsAccounted' /\ HashesOrdered'
  BY <1>1, <1>2, <1>3 DEF HInv, LedgerTyped, UnitsAccounted, HashesOrdered
<1>5. ParcelsMove
  BY <1>1, <1>2 DEF ParcelsMove, InHand
<1> QED
  BY <1>2, <1>4, <1>5 DEF HInv, VetoStands

(* The seal of a decided candidate is stored: it is a new parcel.           *)
LEMMA DecidedKeeps ==
    ASSUME StoreKept(Store), NEW n \in Nat,
           \A id \in DOMAIN seals : seals[id].hash < n,
           NEW c \in Candidates, c.hash = n,
           NEW v \in Votes, EvaluateQuorum(v) # "waiting", NEW ok \in BOOLEAN,
           NEW st, st = Stored(Store, SealOf(c, v, ok))
    PROVE  /\ StoreKept(st)
           /\ \A id \in DOMAIN st.seals : st.seals[id].hash <= n
           /\ DOMAIN seals \subseteq DOMAIN st.seals
           /\ \A id \in DOMAIN seals : st.seals[id] = seals[id] \/ st.seals[id].hash = n
           /\ \E id \in DOMAIN st.seals : st.seals[id].hash = n
<1> DEFINE s == SealOf(c, v, ok)
<1>1. EvaluateQuorum(v) \in Statuses
  BY DEF EvaluateQuorum, Statuses
<1>2. /\ s.seq = c.seq /\ s.cycle = c.cycle /\ s.hash = n /\ s.votes = v
      /\ s.status = EvaluateQuorum(v)
  BY DEF SealOf
<1>3. s \in StoredSeals
  <2>1. c.sources \in Seq(Provenance)
    <3>1. c.sources \in Seq(Signatures)
      BY DEF Candidates
    <3> QED
      BY <3>1 DEF Provenance
  <2>2. /\ c.seq \in Nat \ {0} /\ c.cycle \in Cycles /\ c.hash \in Nat /\ c.prev \in Nat
    BY DEF Candidates
  <2>3. EvaluateQuorum(v) \in HistoricalStatuses
    BY <1>1 DEF HistoricalStatuses
  <2> QED
    BY <2>1, <2>2, <2>3 DEF SealOf, StoredSeals
<1>4. Settled(s)
  BY <1>2 DEF Settled, EvaluateQuorum
<1>5. StoreKept(st)
  BY <1>3, <1>4, StoredKeeps
<1>6. st.seals = Put(seals, Id(s), s)
  BY DEF Stored, Store
<1> HIDE DEF s
<1>7. /\ DOMAIN st.seals = DOMAIN seals \cup {Id(s)}
      /\ \A id \in DOMAIN st.seals : st.seals[id] = IF id = Id(s) THEN s ELSE seals[id]
  BY <1>6 DEF Put
<1>8. \A id \in DOMAIN seals : seals[id].hash \in Nat
  BY StoreKeys DEF StoreKept, SealsKept, StoredSeals
<1> QED
  BY <1>2, <1>5, <1>7, <1>8

(* The attestation cron: the candidate is decided, the next one formed, and *)
(* the quarantined seals are swept.                                         *)
LEMMA HVaultAttestation ==
    ASSUME HInv, NEW ok \in BOOLEAN, VaultAttestation(ok)
    PROVE  HInv' /\ VetoStands /\ ParcelsMove
<1>1. PICK st \in Decided(ok) :
         /\ FormNext(Tip(st.seals, st.latest))
         /\ \E swept \in {IF gate THEN st ELSE Swept(st, ok, {})} : SetStore(swept)
         /\ UNCHANGED <<v1Balance, gate, cycle>>
  BY DEF VaultAttestation
<1>2. LedgerTyped /\ HashesOrdered /\ UnitsAccounted /\ StoreKept(Store) /\ formed \in Nat
  BY DEF HInv, LedgerTyped
<1>3. \A id \in DOMAIN seals : seals[id].hash \in Nat /\ seals[id].hash <= formed
  <2>1. \A id \in DOMAIN seals : seals[id] \in StoredSeals
    BY <1>2, StoreKeys DEF StoreKept, SealsKept
  <2> QED
    BY <1>2, <2>1 DEF HashesOrdered, StoredSeals
<1>4. /\ StoreKept(st)
      /\ \A id \in DOMAIN st.seals : st.seals[id].hash <= formed
      /\ DOMAIN seals \subseteq DOMAIN st.seals
      /\ \A id \in DOMAIN seals :
            st.seals[id] = seals[id] \/ st.seals[id].hash # seals[id].hash
      /\ candidate # None =>
            \E id \in DOMAIN st.seals : st.seals[id].hash = candidate.hash
  <2>1. CASE candidate = None
    <3>1. st = Store
      BY <1>1, <2>1 DEF Decided
    <3> QED
      BY <1>2, <1>3, <2>1, <3>1, StoreKeys
  <2>2. CASE candidate # None
    <3> DEFINE v == CronVotes(candidate)
    <3>1. candidate \in Candidates /\ candidate.votes \in Votes
      BY <1>2, <2>2 DEF LedgerTyped, Candidates
    <3>2. v \in Votes /\ EvaluateQuorum(v) # "waiting"
      <4>1. v \in Votes /\ Missing(v) = {}
        BY <3>1, CronVotesComplete
      <4> HIDE DEF v
      <4> QED
        BY <4>1, CompleteVotesDecide DEF Statuses
    <3>3. st = Stored(Store, SealOf(candidate, v, ok))
      BY <1>1, <2>2 DEF Decided
    <3>4. candidate.hash = formed /\ \A id \in DOMAIN seals : seals[id].hash < formed
      BY <1>2, <2>2 DEF HashesOrdered
    <3> HIDE DEF v
    <3>5. /\ StoreKept(st)
          /\ \A id \in DOMAIN st.seals : st.seals[id].hash <= formed
          /\ DOMAIN seals \subseteq DOMAIN st.seals
          /\ \A id \in DOMAIN seals : st.seals[id] = seals[id] \/ st.seals[id].hash = formed
          /\ \E id \in DOMAIN st.seals : st.seals[id].hash = formed
      BY <1>2, <3>1, <3>2, <3>3, <3>4, DecidedKeeps
    <3> QED
      BY <1>2, <1>3, <3>4, <3>5
  <2> QED
    BY <2>1, <2>2
<1>5. Tip(st.seals, st.latest) \in [seq: Nat, hash: Nat]
  BY <1>4, TipTyped DEF StoreKept
<1>6. /\ LedgerTyped' /\ UnitsAccounted'
      /\ \/ formed' = formed /\ candidate' = None
         \/ formed' = formed + 1 /\ candidate' # None /\ candidate'.hash = formed + 1
  BY <1>1, <1>2, <1>5, FormNextKeeps
<1> DEFINE new == IF gate THEN st ELSE Swept(st, ok, {})
<1>7. StoreKept(new) /\ Spared(st.seals, new.seals)
  <2>1. Spared(st.seals, st.seals)
    BY DEF Spared
  <2>2. StoreKept(Swept(st, ok, {})) /\ Spared(st.seals, Swept(st, ok, {}).seals)
    BY <1>4, SweptKeeps
  <2> QED
    BY <1>4, <2>1, <2>2
<1>8. SetStore(new)
  BY <1>1
<1> HIDE DEF new
<1>9. StoreKept(Store)' /\ seals' = new.seals
  BY <1>7, <1>8, SetStoreKeeps
<1>10. \A id \in DOMAIN seals' : seals'[id].hash <= formed
  BY <1>4, <1>7, <1>9 DEF Spared
<1>11. \A id \in DOMAIN seals' : seals'[id].hash \in Nat
  BY <1>7, <1>9 DEF StoreKept, SealsKept, StoredSeals
<1>12. HashesOrdered'
  BY <1>2, <1>6, <1>10, <1>11 DEF HashesOrdered
<1>13. VetoStands
  BY <1>4, <1>7, <1>9 DEF Spared, VetoStands
<1>14. ParcelsMove
  <2>1. /\ DOMAIN seals \subseteq DOMAIN seals'
        /\ candidate # None => \E id \in DOMAIN seals' : seals'[id].hash = candidate.hash
    BY <1>4, <1>7, <1>9 DEF Spared
  <2> QED
    BY <1>6, <2>1 DEF ParcelsMove, InHand
<1> QED
  BY <1>6, <1>9, <1>12, <1>13, <1>14 DEF HInv

(* A rejected seal is no longer rejected only once ZEUS passes it.          *)
VetoLifted ==
    \A id \in DOMAIN seals :
        /\ seals[id].status = "rejected"
        /\ seals'[id].hash = seals[id].hash
        /\ seals'[id].status # "rejected"
        => seals'[id].votes[Zeus] = "pass"

(* A step that keeps the ledger, and the store but for the votes, statuses  *)
(* and pointers of its seals, keeps the invariant.                          *)
LEMMA StoreStepKeeps ==
    ASSUME HInv, UNCHANGED <<ledger, candidate, cycle, formed>>, StoreKept(Store)',
           DOMAIN seals' = DOMAIN seals,
           \A id \in DOMAIN seals : seals'[id].hash = seals[id].hash
    PROVE  HInv' /\ ParcelsMove
<1>1. LedgerTyped' /\ UnitsAccounted'
  BY DEF HInv, LedgerTyped, UnitsAccounted, ledger
<1>2. HashesOrdered'
  BY DEF HInv, HashesOrdered
<1>3. ParcelsMove
  BY DEF ParcelsMove, InHand
<1> QED
  BY <1>1, <1>2, <1>3 DEF HInv

(* The back-attestation endpoint: one vote, and perhaps a promotion.        *)
LEMMA HBackAttest ==
    ASSUME HInv, NEW id \in DOMAIN seals, NEW agent \in Sentinels,
           NEW verdict \in CastVerdicts, NEW ok \in BOOLEAN, BackAttest(id, agent, verdict, ok)
    PROVE  HInv' /\ VetoLifted /\ ParcelsMove
<1> DEFINE s == [seals[id] EXCEPT !.votes[agent] = verdict]
           m == [s EXCEPT !.status = "attested", !.pointer = ok]
<1>1. /\ seals[id].status # "attested"
      /\ IF EvaluateBackQuorum(s.votes) = "attested"
         THEN SetStore(Promoted(Store, s, ok))
         ELSE seals' = Put(seals, id, s) /\ UNCHANGED <<chain, audit, latest, retry>>
      /\ UNCHANGED <<ledger, candidate, gate, cycle, formed>>
  BY DEF BackAttest
<1>2. StoreKept(Store) /\ SealsKept(seals) /\ seals[id] \in StoredSeals /\ Id(seals[id]) = id
  BY StoreKeys DEF HInv, StoreKept, SealsKept
<1>3. /\ s \in StoredSeals /\ s.seq = seals[id].seq /\ s.cycle = seals[id].cycle
      /\ s.hash = seals[id].hash /\ s.status = seals[id].status
  <2>1. verdict \in Verdicts
    BY ReserveAssumption
  <2>2. [seals[id].votes EXCEPT ![agent] = verdict] \in Votes
    BY <1>2, <2>1 DEF StoredSeals, Votes
  <2> QED
    BY <1>2, <2>2 DEF StoredSeals
<1> HIDE DEF s
<1>4. /\ m \in StoredSeals /\ m.seq = s.seq /\ m.cycle = s.cycle /\ m.hash = s.hash
      /\ m.votes = s.votes /\ m.status = "attested"
  BY <1>3 DEF StoredSeals, HistoricalStatuses, Statuses
<1>5. Promoted(Store, s, ok) = Stored(Store, m)
  BY DEF Promoted
<1> HIDE DEF m
<1>6. Id(s) = id /\ Id(m) = id
  BY <1>2, <1>3, <1>4 DEF Id
<1>7. CASE EvaluateBackQuorum(s.votes) = "attested"
  <2>1. QuorumMet(s.votes)
    BY <1>7 DEF EvaluateBackQuorum
  <2>2. StoreKept(Stored(Store, m))
    BY <1>2, <1>4, <2>1, StoredKeeps DEF Settled
  <2>3. StoreKept(Store)' /\ seals' = Put(seals, id, m)
    <3> DEFINE new == Stored(Store, m)
    <3>1. new.seals = Put(seals, id, m)
      BY <1>6 DEF Stored, Store
    <3>2. SetStore(new)
      BY <1>1, <1>5, <1>7
    <3> HIDE DEF new
    <3>3. StoreKept(new)
      BY <2>2 DEF new
    <3> QED
      BY <3>1, <3>2, <3>3, SetStoreKeeps
  <2>4. /\ DOMAIN seals' = DOMAIN seals /\ seals'[id] = m
        /\ \A other \in DOMAIN seals : other # id => seals'[other] = seals[other]
    BY <2>3 DEF Put
  <2>5. HInv' /\ ParcelsMove
    BY <1>1, <1>3, <1>4, <2>3, <2>4, StoreStepKeeps
  <2>6. VetoLifted
    BY <1>4, <2>1, <2>4 DEF VetoLifted, QuorumMet
  <2> QED
    BY <2>5, <2>6
<1>8. CASE EvaluateBackQuorum(s.votes) # "attested"
  <2>1. seals' = Put(seals, id, s) /\ UNCHANGED <<chain, audit, latest, retry>>
    BY <1>1, <1>8
  <2>2. /\ DOMAIN seals' = DOMAIN seals /\ seals'[id] = s
        /\ \A other \in DOMAIN seals : other # id => seals'[other] = seals[other]
    BY <2>1 DEF Put
  <2>3. SealsKept(seals')
    BY <1>1, <1>2, <1>3, <1>6, <2>2 DEF SealsKept, Settled
  <2>4. Indexed(seals, chain, audit, latest) /\ retry \in Seq(SealIds)
    BY <1>2, StoreKeys DEF StoreKept
  <2>5. Indexed(seals', chain', audit', latest') /\ retry' \in Seq(SealIds)
    BY <1>1, <1>3, <2>1, <2>2, <2>4 DEF Indexed
  <2>6. StoreKept(Store)'
    BY <2>3, <2>5 DEF StoreKept, Store, IsStore
  <2>7. HInv' /\ ParcelsMove
    BY <1>1, <1>3, <2>2, <2>6, StoreStepKeeps
  <2>8. VetoLifted
    BY <1>3, <2>2 DEF VetoLifted
  <2> QED
    BY <2>7, <2>8
<1> QED
  BY <1>7, <1>8

(* The sweep: quarantined seals with votes missing, then the retry queue.   *)
LEMMA HAttestSweep ==
    ASSUME HInv, NEW ok \in BOOLEAN, AttestSweep(ok)
    PROVE  HInv' /\ VetoStands /\ ParcelsMove
<1> DEFINE mid == Swept(Store, ok, {})
           new == Drained(mid, ok)
<1>1. SetStore(new) /\ UNCHANGED <<ledger, candidate, gate, cycle, formed>>
  BY DEF AttestSweep
<1>2. StoreKept(mid) /\ Spared(Store.seals, mid.seals)
  BY SweptKeeps DEF HInv
<1> HIDE DEF mid
<1>3. StoreKept(new) /\ Spared(mid.seals, new.seals)
  BY <1>2, DrainedKeeps
<1> HIDE DEF new
<1>4. StoreKept(Store)' /\ seals' = new.seals
  BY <1>1, <1>3, SetStoreKeeps
<1>5. Spared(seals, seals')
  BY <1>2, <1>3, <1>4, SparedTransitive, StoreKeys
<1>6. HInv' /\ ParcelsMove
  BY <1>1, <1>4, <1>5, StoreStepKeeps DEF Spared
<1> QED
  BY <1>5, <1>6 DEF Spared, VetoStands

(* The reattestation cron: giving up, sweeping, then repairing.             *)
LEMMA HReattestSeals ==
    ASSUME HInv, NEW ok \in BOOLEAN, NEW resting,
           NEW capped \in SUBSET (Unvoted(seals) \ resting), ReattestSeals(ok, resting, capped)
    PROVE  HInv' /\ VetoStands /\ ParcelsMove
<1> DEFINE one   == GivenUp(Store, capped)
           two   == Swept(one, ok, resting)
           stuck == Stuck \ resting
           stale == Stale \ resting
           new   == Repaired(two, stuck, stale, ok)
<1>1. SetStore(new) /\ UNCHANGED <<ledger, candidate, gate, cycle, formed>>
  BY DEF ReattestSeals
<1>2. /\ StoreKept(one) /\ Spared(seals, one.seals) /\ one.audit = audit
      /\ \A id \in DOMAIN seals : id \notin capped => one.seals[id] = seals[id]
      /\ Unvoted(one.seals) \subseteq Unvoted(seals)
  <2>1. capped \in SUBSET Unvoted(Store.seals) /\ StoreKept(Store)
    BY StoreKeys DEF HInv
  <2>2. /\ StoreKept(one)
        /\ Spared(Store.seals, one.seals)
        /\ one.audit = Store.audit
        /\ \A id \in DOMAIN Store.seals : id \notin capped => one.seals[id] = Store.seals[id]
        /\ Unvoted(one.seals) \subseteq Unvoted(Store.seals)
    BY <2>1, GivenUpKeeps
  <2> HIDE DEF one
  <2> QED
    BY <2>2, StoreKeys
<1> HIDE DEF one
<1>3. /\ StoreKept(two) /\ Spared(one.seals, two.seals) /\ two.audit = one.audit
      /\ \A id \in DOMAIN one.seals :
            id \notin Unvoted(one.seals) \ resting => two.seals[id] = one.seals[id]
  BY <1>2, SweptKeeps
<1> HIDE DEF two
<1>4. stuck \in SUBSET Stuck /\ stale \in SUBSET Stale /\ stuck \cup stale \subseteq DOMAIN seals
  BY DEF Stuck, Stale
<1>5. \A id \in stuck \cup stale : id \notin Unvoted(seals)
  BY DEF Stuck, Stale, Unvoted
<1> HIDE DEF stuck, stale
<1>6. \A id \in stuck \cup stale : two.seals[id] = seals[id]
  BY <1>2, <1>3, <1>4, <1>5 DEF Spared
<1>7. DOMAIN two.seals = DOMAIN seals /\ two.audit = audit
  BY <1>2, <1>3 DEF Spared
<1>8. StoreKept(new) /\ Spared(two.seals, new.seals)
  BY <1>3, <1>4, <1>6, <1>7, RepairedKeeps DEF HInv
<1> HIDE DEF new
<1>9. StoreKept(Store)' /\ seals' = new.seals
  BY <1>1, <1>8, SetStoreKeeps
<1>10. Spared(seals, seals')
  BY <1>2, <1>3, <1>8, <1>9, SparedTransitive
<1>11. HInv' /\ ParcelsMove
  BY <1>1, <1>9, <1>10, StoreStepKeeps DEF Spared
<1> QED
  BY <1>10, <1>11 DEF Spared, VetoStands

(* The operator's quorum endpoint: reserve is reseeded and formed, and the  *)
(* candidate is voted on and decided, as far as each step applies.          *)
LEMMA HCallQuorum ==
    ASSUME HInv, NEW bootstrap \in BOOLEAN, NEW voters \in SUBSET Sentinels,
           NEW sig \in Signatures, NEW ok \in BOOLEAN, CallQuorum(bootstrap, voters, sig, ok)
    PROVE  HInv' /\ VetoStands /\ ParcelsMove
<1> DEFINE seeded == /\ bootstrap /\ candidate = None /\ balance < Threshold
                     /\ chain = <<>> /\ v1Balance >= Threshold /\ formed < MaxFormed
           funds  == IF seeded THEN v1Balance ELSE balance
           known  == IF seeded THEN <<sig>> ELSE hashes
           forms  == candidate = None /\ funds >= Threshold /\ ~gate
           t      == Tip(seals, latest)
           c      == IF forms THEN NewCandidate(t, known) ELSE candidate
           v      == [a \in Sentinels |-> IF a \in voters THEN "pass" ELSE c.votes[a]]
<1>1. /\ balance' = IF forms THEN funds - Threshold ELSE funds
      /\ hashes' = IF forms THEN CarriedForward(known, funds - Threshold) ELSE known
      /\ formed' = IF forms THEN formed + 1 ELSE formed
      /\ IF c = None THEN UNCHANGED <<candidate, store>>
         ELSE IF EvaluateQuorum(v) = "waiting"
         THEN candidate' = [c EXCEPT !.votes = v] /\ UNCHANGED store
         ELSE candidate' = None /\ SetStore(Stored(Store, SealOf(c, v, ok)))
      /\ UNCHANGED <<v1Balance, gate, cycle>>
  BY DEF CallQuorum
<1>2. /\ LedgerTyped /\ HashesOrdered /\ UnitsAccounted /\ StoreKept(Store)
      /\ formed \in Nat /\ balance \in Nat /\ v1Balance \in Nat /\ Threshold \in Nat
      /\ hashes \in Seq(Signatures)
  BY ReserveAssumption DEF HInv, LedgerTyped
<1>3. \A id \in DOMAIN seals : seals[id].hash \in Nat /\ seals[id].hash <= formed
  <2>1. \A id \in DOMAIN seals : seals[id] \in StoredSeals
    BY <1>2, StoreKeys DEF StoreKept, SealsKept
  <2> QED
    BY <1>2, <2>1 DEF HashesOrdered, StoredSeals
<1>4. t \in [seq: Nat, hash: Nat]
  BY <1>2, StoreKeys, TipTyped DEF StoreKept
<1>5. funds \in Nat /\ known \in Seq(Signatures)
  BY <1>2
<1>6. v1Balance <= funds + Threshold * formed
  <2> DEFINE parcels == Threshold * formed
  <2>1. parcels \in Nat /\ v1Balance <= balance + parcels
    BY <1>2, OneMoreParcel DEF UnitsAccounted
  <2> HIDE DEF parcels
  <2>2. v1Balance <= funds + parcels
    BY <1>2, <2>1
  <2> QED
    BY <2>2 DEF parcels
<1> HIDE DEF funds, known, t
<1>7. /\ balance' \in Nat /\ hashes' \in Seq(Signatures) /\ formed' \in Nat
      /\ UnitsAccounted'
      /\ c # None => c \in Candidates /\ c.hash = formed'
                     /\ \A id \in DOMAIN seals : seals[id].hash < formed'
      /\ formed' = formed \/ (formed' = formed + 1 /\ c # None)
  <2>1. CASE forms
    <3>1. c = NewCandidate(t, known) /\ funds >= Threshold
      BY <2>1
    <3>2. /\ NewCandidate(t, known) \in Candidates
          /\ NewCandidate(t, known) # None
          /\ NewCandidate(t, known).hash = formed + 1
          /\ funds - Threshold \in Nat /\ formed + 1 \in Nat
          /\ CarriedForward(known, funds - Threshold) \in Seq(Signatures)
          /\ v1Balance <= (funds - Threshold) + Threshold * (formed + 1)
      BY <1>2, <1>4, <1>5, <1>6, <3>1, FormationKeeps
    <3>3. /\ balance' = funds - Threshold /\ formed' = formed + 1
          /\ hashes' = CarriedForward(known, funds - Threshold)
      BY <1>1, <2>1
    <3> HIDE DEF c, forms
    <3> QED
      BY <1>1, <1>2, <1>3, <3>1, <3>2, <3>3 DEF UnitsAccounted
  <2>2. CASE ~forms
    <3>1. c = candidate /\ balance' = funds /\ formed' = formed /\ hashes' = known
      BY <1>1, <2>2
    <3> HIDE DEF c, forms
    <3>2. UnitsAccounted'
      BY <1>1, <1>6, <3>1 DEF UnitsAccounted
    <3> QED
      BY <1>2, <1>5, <3>1, <3>2 DEF LedgerTyped, HashesOrdered
  <2> QED
    BY <2>1, <2>2
<1>8. /\ c = None => candidate = None
      /\ candidate # None => c.hash = candidate.hash
  <2>1. forms => NewCandidate(t, known) # None
    BY <1>2, <1>4, <1>5, <1>6, FormationKeeps
  <2> QED
    BY <2>1
<1> HIDE DEF c, forms
<1>9. CASE c = None
  <2>1. candidate' = None /\ UNCHANGED store
    BY <1>1, <1>8, <1>9
  <2>2. StoreKept(Store)' /\ seals' = seals
    BY <1>2, <2>1, StoreUnchanged
  <2>3. LedgerTyped'
    BY <1>1, <1>2, <1>7, <2>1 DEF LedgerTyped
  <2>4. HashesOrdered'
    <3>1. formed' >= formed
      BY <1>1, <1>2
    <3> QED
      BY <1>2, <1>3, <1>7, <2>1, <2>2, <3>1 DEF HashesOrdered
  <2>5. ParcelsMove
    BY <1>7, <1>8, <1>9, <2>2 DEF ParcelsMove, InHand
  <2> QED
    BY <1>7, <2>2, <2>3, <2>4, <2>5 DEF HInv, VetoStands
<1>10. ASSUME c # None
       PROVE  v \in Votes
  BY <1>7, <1>10 DEF Votes, Verdicts, Candidates
<1>11. CASE c # None /\ EvaluateQuorum(v) = "waiting"
  <2>1. candidate' = [c EXCEPT !.votes = v] /\ UNCHANGED store
    BY <1>1, <1>11
  <2> HIDE DEF v
  <2>2. candidate' \in Candidates /\ candidate'.hash = formed'
    BY <1>7, <1>10, <1>11, <2>1 DEF Candidates
  <2>3. StoreKept(Store)' /\ seals' = seals
    BY <1>2, <2>1, StoreUnchanged
  <2>4. LedgerTyped'
    BY <1>1, <1>2, <1>7, <2>2 DEF LedgerTyped
  <2>5. HashesOrdered'
    BY <1>3, <1>7, <1>11, <2>2, <2>3 DEF HashesOrdered
  <2>6. ParcelsMove
    BY <1>7, <1>8, <1>11, <2>2, <2>3, NoneAssumption DEF ParcelsMove, InHand
  <2> QED
    BY <1>7, <2>3, <2>4, <2>5, <2>6 DEF HInv, VetoStands
<1>12. CASE c # None /\ EvaluateQuorum(v) # "waiting"
  <2> DEFINE st == Stored(Store, SealOf(c, v, ok))
  <2>1. candidate' = None /\ SetStore(st)
    BY <1>1, <1>12
  <2> HIDE DEF v
  <2>2. /\ StoreKept(st)
        /\ \A id \in DOMAIN st.seals : st.seals[id].hash <= formed'
        /\ DOMAIN seals \subseteq DOMAIN st.seals
        /\ \A id \in DOMAIN seals : st.seals[id] = seals[id] \/ st.seals[id].hash = formed'
        /\ \E id \in DOMAIN st.seals : st.seals[id].hash = formed'
    BY <1>2, <1>7, <1>10, <1>12, DecidedKeeps
  <2> HIDE DEF st
  <2>3. StoreKept(Store)' /\ seals' = st.seals
    BY <2>1, <2>2, SetStoreKeeps
  <2>4. LedgerTyped' /\ HashesOrdered'
    BY <1>1, <1>2, <1>7, <2>1, <2>2, <2>3 DEF LedgerTyped, HashesOrdered
  <2>5. VetoStands
    BY <1>3, <1>7, <1>12, <2>2, <2>3 DEF VetoStands
  <2>6. ParcelsMove
    BY <1>7, <1>8, <1>12, <2>2, <2>3 DEF ParcelsMove, InHand
  <2> QED
    BY <1>7, <2>3, <2>4, <2>5, <2>6 DEF HInv
<1> QED
  BY <1>9, <1>11, <1>12

(* The queue expires: only the retry queue changes.                         *)
LEMMA HQueueExpires ==
    ASSUME HInv, QueueExpires
    PROVE  HInv' /\ VetoStands /\ ParcelsMove
<1>1. /\ retry' = <<>>
      /\ UNCHANGED <<v1Balance, balance, hashes, candidate, seals, chain, audit, latest,
                     cycle, formed>>
  BY DEF QueueExpires, ledger
<1>2. StoreKept(Store)'
  <2>1. <<>> \in Seq(SealIds)
    OBVIOUS
  <2> QED
    BY <1>1, <2>1 DEF HInv, StoreKept, IsStore, Store
<1>3. LedgerTyped' /\ UnitsAccounted' /\ HashesOrdered'
  BY <1>1 DEF HInv, LedgerTyped, UnitsAccounted, HashesOrdered
<1>4. ParcelsMove
  BY <1>1 DEF ParcelsMove, InHand
<1> QED
  BY <1>1, <1>2, <1>3, <1>4 DEF HInv, VetoStands

(* Where parcels move as above, and what is replaced is recorded, every     *)
(* parcel stays accounted for.                                              *)
LEMMA ParcelsStayAccounted ==
    ASSUME formed \in Nat, ParcelsAccounted, ParcelsMove,
           Replacing \/ UNCHANGED <<seals, overwritten>>
    PROVE  ParcelsAccounted'
<1> SUFFICES ASSUME NEW h \in 1..formed'
             PROVE  InHand(h)' \/ h \in overwritten'
  BY DEF ParcelsAccounted
<1>1. /\ overwritten \subseteq overwritten'
      /\ \A id \in DOMAIN seals : seals'[id].hash = seals[id].hash
                                  \/ seals[id].hash \in overwritten'
  BY DEF Replacing
<1>2. CASE h \in 1..formed
  <2>1. InHand(h) \/ h \in overwritten
    BY <1>2 DEF ParcelsAccounted
  <2>2. CASE candidate # None /\ candidate.hash = h
    BY <2>2 DEF ParcelsMove
  <2>3. CASE \E id \in DOMAIN seals : seals[id].hash = h
    BY <1>1, <2>3 DEF ParcelsMove, InHand
  <2> QED
    BY <1>1, <2>1, <2>2, <2>3 DEF InHand
<1>3. CASE h \notin 1..formed
  <2>1. h = formed' /\ InHand(formed)'
    BY <1>3 DEF ParcelsMove
  <2> QED
    BY <2>1
<1> QED
  BY <1>2, <1>3

-----------------------------------------------------------------------------
(* The theorems.                                                            *)

(* Every handler keeps the invariant, lifts a veto only on a ZEUS pass, and *)
(* moves parcels as above.                                                  *)
LEMMA HandlerKeeps ==
    ASSUME HInv, HistoricalNext \/ Next
    PROVE  HInv' /\ VetoLifted /\ ParcelsMove
<1>0. VetoStands => VetoLifted
  BY DEF VetoStands, VetoLifted
<1>1. CASE \E id \in DOMAIN seals, agent \in Sentinels, verdict \in CastVerdicts,
              ok \in SubstrateOutcomes : BackAttest(id, agent, verdict, ok)
  BY <1>1, HBackAttest, OutcomesBoolean
<1>2. CASE \E ok \in SubstrateOutcomes : AttestSweep(ok)
  BY <1>0, <1>2, HAttestSweep, OutcomesBoolean
<1>3. CASE \E resting \in SUBSET (Unvoted(seals) \cup Stuck \cup Stale) :
              \E capped \in SUBSET (Unvoted(seals) \ resting), ok \in SubstrateOutcomes :
                 ReattestSeals(ok, resting, capped)
  BY <1>0, <1>3, HReattestSeals, OutcomesBoolean
<1>4. CASE \E bootstrap \in BOOLEAN, voters \in SUBSET Sentinels, sig \in Signatures,
              ok \in SubstrateOutcomes : CallQuorum(bootstrap, voters, sig, ok)
  BY <1>0, <1>4, HCallQuorum, OutcomesBoolean
<1>5. CASE \E amount \in Amounts, sig \in Signatures : Deposit(amount, sig)
  BY <1>0, <1>5, HDeposit
<1>6. CASE RequestFormation
  BY <1>0, <1>6, HRequestFormation
<1>7. CASE \E agent \in Sentinels, verdict \in CastVerdicts : SubmitAttestation(agent, verdict)
  BY <1>0, <1>7, HSubmitAttestation
<1>8. CASE CloseWindow
  BY <1>0, <1>8, HCloseWindow
<1>9. CASE \E ok \in SubstrateOutcomes : VaultAttestation(ok)
  BY <1>0, <1>9, HVaultAttestation, OutcomesBoolean
<1>10. CASE SwitchGate \/ RollCycle
  BY <1>0, <1>10, HSurroundings
<1> QED
  BY <1>1, <1>2, <1>3, <1>4, <1>5, <1>6, <1>7, <1>8, <1>9, <1>10
     DEF HistoricalNext, Next

(* Every step keeps the invariant, lifts a veto only on a ZEUS pass, and    *)
(* keeps every parcel accounted for.                                        *)
LEMMA HStep ==
    HInv /\ [HNext]_hvars =>
        HInv' /\ VetoLifted /\ (ParcelsAccounted => ParcelsAccounted')
<1> SUFFICES ASSUME HInv, [HNext]_hvars
             PROVE  HInv' /\ VetoLifted /\ (ParcelsAccounted => ParcelsAccounted')
  OBVIOUS
<1>0. formed \in Nat
  BY DEF HInv, LedgerTyped
<1>1. CASE (HistoricalNext \/ Next) /\ Replacing
  BY <1>0, <1>1, HandlerKeeps, ParcelsStayAccounted
<1>2. CASE QueueExpires
  <2>1. UNCHANGED <<seals, overwritten>>
    BY <1>2 DEF QueueExpires
  <2> QED
    BY <1>0, <1>2, <2>1, HQueueExpires, ParcelsStayAccounted DEF VetoStands, VetoLifted
<1>3. CASE UNCHANGED hvars
  <2>1. UNCHANGED <<seals, overwritten>>
    BY <1>3 DEF hvars, vars, store
  <2> QED
    BY <1>0, <1>3, <2>1, HSurroundings, ParcelsStayAccounted DEF VetoStands, VetoLifted
<1> QED
  BY <1>1, <1>2, <1>3 DEF HNext

(* The invariant holds in every reachable state.                            *)
LEMMA HInvariantHolds == HSpec => []HInv
BY HInitKeeps, HStep, PTL DEF HSpec

(* The type invariant of the store holds whatever mix of deposits, votes,   *)
(* crons and operator lanes runs: no lane writes a malformed seal or index. *)
THEOREM HistoricalTypeCorrect == HSpec => []HTypeOK
<1>1. HInv => HTypeOK
  <2> SUFFICES ASSUME HInv PROVE HTypeOK
    OBVIOUS
  <2>1. /\ SealsKept(seals) /\ DOMAIN seals \subseteq SealIds
        /\ chain \in Seq(SealIds) /\ audit \in Seq(SealIds) /\ retry \in Seq(SealIds)
    BY StoreKeys, StoredNames DEF HInv, StoreKept, Indexed
  <2>2. latest \in SealIds \cup {None}
    BY <2>1, StoreKeys DEF HInv, StoreKept, Indexed
  <2> QED
    BY <2>1, <2>2 DEF HInv, LedgerTyped, SealsKept, StoredSeals, HTypeOK
<1> QED
  BY <1>1, HInvariantHolds, PTL

(* Whichever lane stores or promotes a seal, the audit index names every    *)
(* stored seal once, the attested index every attested seal once, and the   *)
(* latest pointer one of the latter (appendSealToChain and its callers).    *)
THEOREM IndexesStayComplete == HSpec => []IndexesComplete
<1>1. HInv => IndexesComplete
  BY StoreKeys DEF HInv, StoreKept, Indexed, IndexesComplete
<1> QED
  BY <1>1, HInvariantHolds, PTL

(* No lane, the repair of stuck seals included, attests a seal that has     *)
(* neither a quorum nor all its votes.                                      *)
THEOREM AttestedStaysDecided == HSpec => []AttestedWasDecided
<1>1. HInv => AttestedWasDecided
  BY StoreKeys DEF HInv, StoreKept, SealsKept, Settled, AttestedWasDecided
<1> QED
  BY <1>1, HInvariantHolds, PTL

(* Every unit deposited is in progress or went into a parcel, also when the *)
(* quorum endpoint reseeds an empty chain from the v1 balance, and every    *)
(* parcel is the candidate or a stored seal, unless another parcel was      *)
(* given its name (finalizeSeal writes under the name without looking).     *)
THEOREM ReserveNeverLost == HSpec => []NoReserveLost
<1>1. HInit => ParcelsAccounted
  <2>1. ASSUME Init PROVE ParcelsAccounted
    BY <2>1 DEF Init, ParcelsAccounted
  <2>2. ASSUME InitLegacy PROVE ParcelsAccounted
    <3>1. PICK v \in Votes : seals = [id \in {<<1, 1>>} |-> LegacySeal(v)]
      BY <2>2 DEF InitLegacy
    <3>2. DOMAIN seals = {<<1, 1>>} /\ seals[<<1, 1>>].hash = 1
      BY <3>1 DEF LegacySeal
    <3> QED
      BY <2>2, <3>2 DEF InitLegacy, ParcelsAccounted, InHand
  <2> QED
    BY <2>1, <2>2 DEF HInit
<1>2. HInv /\ ParcelsAccounted => NoReserveLost
  BY DEF HInv, NoReserveLost
<1> QED
  BY <1>1, <1>2, HInitKeeps, HStep, PTL DEF HSpec

(* No cron lifts a ZEUS veto: where a rejected parcel changes its status,   *)
(* ZEUS has voted pass on it through the back-attestation endpoint.         *)
THEOREM VetoLiftsByZeusOnly == HSpec => VetoLiftedByZeusOnly
<1>1. HInv /\ [HNext]_hvars => [\A id \in DOMAIN seals :
         /\ seals[id].status = "rejected"
         /\ seals'[id].hash = seals[id].hash
         /\ seals'[id].status # "rejected"
         => seals'[id].votes[Zeus] = "pass"]_hvars
  BY HStep DEF VetoLifted
<1> QED
  BY <1>1, HInvariantHolds, PTL DEF HSpec, VetoLiftedByZeusOnly
=============================================================================
