-------------------------- MODULE CanonicalLineage --------------------------
(***************************************************************************)
(* Which attested seal is canonical when several carry the same block      *)
(* number (lib/watchdog/canonicalLineageResolve.ts).  A seal is known by   *)
(* its name seal-<cycle>-<number>, here a record of its block number and   *)
(* its cycle.  A chain gives each name the sealed_at of the attested seal  *)
(* stored under it, 0 when none is: no seal, or one that is not attested.  *)
(* The hash covers sealed_at, which so stands for the hash as well, and    *)
(* two attested seals of one block have different hashes.  q is a set of   *)
(* quarantined names and index gives each block the name its canonical     *)
(* index holds, NoSeal for none.                                           *)
(***************************************************************************)
EXTENDS Integers, FiniteSets, FiniteSetsExt, TLC

NoSeal == [block |-> 0, cycle |-> "none"]

Attested(chain) == {s \in DOMAIN chain : chain[s] # 0}

AttestedAt(chain, b) == {s \in Attested(chain) : s.block = b}

BlocksOf(chain) == {s.block : s \in Attested(chain)}

Collisions(chain) == {b \in BlocksOf(chain) : Cardinality(AttestedAt(chain, b)) > 1}

Usable(chain, b, q) == AttestedAt(chain, b) \ q

(* Two or more seals, one at least not quarantined, and no usable index.   *)
UnresolvedBlocks(chain, q, index) ==
    {b \in Collisions(chain) :
        /\ Usable(chain, b, q) # {}
        /\ index[b] \notin Usable(chain, b, q)}

(* Fault: the indexed seal is taken whether or not it is quarantined.      *)
CanonicalSeals_Indexed(chain, q, index) ==
    UNION {IF b \in Collisions(chain)
             THEN AttestedAt(chain, b) \cap {index[b]}
             ELSE Usable(chain, b, q) : b \in BlocksOf(chain)}

CanonicalSeals(chain, q, index) ==
    UNION {IF b \in Collisions(chain)
             THEN Usable(chain, b, q) \cap {index[b]}
             ELSE Usable(chain, b, q) : b \in BlocksOf(chain)}

Newest(chain, S) == CHOOSE s \in S : \A t \in S : chain[s] >= chain[t]

(* Fault: unresolved blocks are passed over.                               *)
NewestCanonical_Partial(chain, q, index) ==
    IF CanonicalSeals(chain, q, index) = {}
      THEN NoSeal
      ELSE Newest(chain, CanonicalSeals(chain, q, index))

(* The seal the next one should follow: none while a block is unresolved.  *)
NewestCanonical(chain, q, index) ==
    IF UnresolvedBlocks(chain, q, index) # {} \/ CanonicalSeals(chain, q, index) = {}
      THEN NoSeal
      ELSE Newest(chain, CanonicalSeals(chain, q, index))
=============================================================================
