----------------------------- MODULE NamesProofs ------------------------------
(***************************************************************************)
(* Members and the names that are given for them.                          *)
(*                                                                         *)
(* _valid_multisig_account compares two numbers: the members it met that   *)
(* are named, and the names.  That they are equal means more: each member  *)
(* it met takes a name that no other member takes, so when there are as    *)
(* many names as members met, no name is left over for an outsider and     *)
(* none is there twice.                                                    *)
(***************************************************************************)
EXTENDS Naturals, Sequences, FiniteSets, FiniteSetTheorems, TLAPS

\* The positions of a sequence are as many as it is long.
LEMMA PositionsCounted ==
    ASSUME NEW S, NEW seq \in Seq(S)
    PROVE  /\ DOMAIN seq = 1..Len(seq) /\ Len(seq) \in Nat
           /\ IsFiniteSet(DOMAIN seq) /\ Cardinality(DOMAIN seq) = Len(seq)
<1> DEFINE n == Len(seq)
<1>1. DOMAIN seq = 1..n /\ n \in Nat
  OBVIOUS
<1> HIDE DEF n
<1>2. IsFiniteSet(1..n) /\ Cardinality(1..n) = IF 1 > n THEN 0 ELSE n - 1 + 1
  <2>1. 1 \in Int /\ n \in Int
    BY <1>1
  <2> QED
    BY <2>1, FS_Interval, Zenon
<1>3. (IF 1 > n THEN 0 ELSE n - 1 + 1) = n
  BY <1>1
<1> QED
  BY <1>1, <1>2, <1>3 DEF n

\* A sequence with as many values as positions has no value twice.
LEMMA CountedOnce ==
    ASSUME NEW S, NEW seq \in Seq(S), Cardinality({seq[i] : i \in DOMAIN seq}) = Len(seq)
    PROVE  \A i, j \in DOMAIN seq : seq[i] = seq[j] => i = j
<1> DEFINE T == {seq[i] : i \in DOMAIN seq}
           f == [i \in DOMAIN seq |-> seq[i]]
<1>1. f \in Surjection(DOMAIN seq, T)
  BY DEF Surjection
<1>2. IsFiniteSet(DOMAIN seq) /\ Cardinality(DOMAIN seq) = Len(seq)
  BY PositionsCounted
<1> HIDE DEF f
<1>3. f \in Injection(DOMAIN seq, T)
  BY <1>1, <1>2, FS_Surjection
<1>4. \A i, j \in DOMAIN seq : f[i] = f[j] => i = j
  BY <1>3 DEF Injection, IsInjective
<1> QED
  BY <1>4 DEF f

\* As many members are named as there are names: then each name is a member's,
\* and no name is there twice (_valid_multisig_account).
LEMMA NamesMatch ==
    ASSUME NEW I, NEW X, NEW member \in [I -> X],
           \A i, j \in I : member[i] = member[j] => i = j,
           NEW names \in Seq(X),
           NEW N \in SUBSET I,
           \A i \in N : \E k \in DOMAIN names : names[k] = member[i],
           Cardinality(N) = Len(names)
    PROVE  /\ \A k \in DOMAIN names : \E i \in N : member[i] = names[k]
           /\ \A j, k \in DOMAIN names : names[j] = names[k] => j = k
<1> DEFINE f == [i \in N |-> CHOOSE k \in DOMAIN names : names[k] = member[i]]
<1>1. f \in [N -> DOMAIN names] /\ \A i \in N : names[f[i]] = member[i]
  OBVIOUS
<1> HIDE DEF f
<1>2. ASSUME NEW i \in N, NEW j \in N, f[i] = f[j] PROVE i = j
  <2>1. member[i] = member[j] /\ i \in I /\ j \in I
    BY <1>1, <1>2
  <2> QED
    BY <2>1
<1>3. f \in Injection(N, DOMAIN names)
  BY <1>1, <1>2 DEF Injection, IsInjective
<1>4. f \in Surjection(N, DOMAIN names)
  BY <1>3, PositionsCounted, FS_Injection
<1>5. ASSUME NEW k \in DOMAIN names PROVE \E i \in N : f[i] = k /\ member[i] = names[k]
  <2>1. PICK i \in N : f[i] = k
    BY <1>4 DEF Surjection
  <2> QED
    BY <1>1, <2>1
<1>6. ASSUME NEW j \in DOMAIN names, NEW k \in DOMAIN names, names[j] = names[k] PROVE j = k
  <2>1. PICK i \in N : f[i] = j /\ member[i] = names[j]
    BY <1>5
  <2>2. PICK l \in N : f[l] = k /\ member[l] = names[k]
    BY <1>5
  <2>3. i = l
    BY <1>6, <2>1, <2>2
  <2> QED
    BY <2>1, <2>2, <2>3
<1> QED
  BY <1>5, <1>6
=============================================================================
