----------------------------- MODULE DataLemmas -----------------------------
(***************************************************************************)
(* Facts about numbers and sequences that the proofs of several components *)
(* rest on: induction over an interval of numbers and the existence of a   *)
(* function defined by recursion over one (both stated of sets and         *)
(* functions, in the place of predicates, so that a proof can cite them),  *)
(* and what the elements of a permutation or a prefix are.                 *)
(***************************************************************************)
EXTENDS Integers, SequencesExt, TLAPS, FiniteSetTheorems

(* A set of numbers that is not empty has a least element. *)
LEMMA LeastNat ==
    ASSUME NEW T \in SUBSET Nat, T # {}
    PROVE  \E x \in T : \A y \in T : x <= y
<1>1. PICK x \in T : \A y \in T : ~ (<<y, x>> \in OpToRel(<, Nat))
  BY NatLessThanWellFounded, WFMin, Zenon
<1>2. \A y \in T : ~ (y < x)
  BY <1>1 DEF OpToRel
<1> QED BY <1>2

(* A set that holds the first number of an interval, and with each number    *)
(* the next, holds the interval.                                             *)
LEMMA IntervalInduction ==
    ASSUME NEW lo \in Nat, NEW hi \in Nat, NEW T,
           lo \in T, \A i \in (lo + 1)..hi : i - 1 \in T => i \in T
    PROVE  lo..hi \subseteq T
<1> DEFINE Rest == {i \in lo..hi : i \notin T}
<1> SUFFICES ASSUME Rest # {} PROVE FALSE
  OBVIOUS
<1>1. PICK x \in Rest : \A y \in Rest : x <= y
  <2>1. Rest \in SUBSET Nat
    OBVIOUS
  <2> HIDE DEF Rest
  <2> QED BY <2>1, LeastNat
<1>2. x \in (lo + 1)..hi /\ x - 1 \notin Rest /\ x - 1 \in lo..hi
  BY <1>1
<1> QED BY <1>1, <1>2

(* The functions that give the value at a number from the number and the     *)
(* value before, and what it is to follow one from a first value.            *)
Steps(lo, hi, S) == [((lo + 1)..hi) \X S -> S]
Follows(f, lo, hi, base, step) ==
    f[lo] = base /\ \A i \in (lo + 1)..hi : f[i] = step[<<i, f[i - 1]>>]

(* Every recursion over an interval has a function that follows it. *)
LEMMA RecursionExists ==
    ASSUME NEW lo \in Nat, NEW hi \in Nat, lo <= hi,
           NEW S, NEW base \in S, NEW step \in Steps(lo, hi, S)
    PROVE  \E f \in [lo..hi -> S] : Follows(f, lo, hi, base, step)
<1> DEFINE T == {k \in lo..hi : \E f \in [lo..k -> S] : Follows(f, lo, k, base, step)}
<1>1. lo \in T
  <2> DEFINE g == [i \in lo..lo |-> base]
  <2>1. g \in [lo..lo -> S] /\ Follows(g, lo, lo, base, step)
    BY DEF Follows
  <2> QED BY <2>1
<1>2. ASSUME NEW k \in (lo + 1)..hi, k - 1 \in T PROVE k \in T
  <2>1. PICK f \in [lo..(k - 1) -> S] : Follows(f, lo, k - 1, base, step)
    BY <1>2
  <2> DEFINE v == step[<<k, f[k - 1]>>]
             g == [i \in lo..k |-> IF i = k THEN v ELSE f[i]]
  <2>2. v \in S
    <3>1. f[k - 1] \in S
      OBVIOUS
    <3> QED BY <3>1 DEF Steps
  <2> HIDE DEF v
  <2>3. g \in [lo..k -> S]
    BY <2>2
  <2>4. g[k] = v /\ \A i \in lo..(k - 1) : g[i] = f[i]
    OBVIOUS
  <2> HIDE DEF g
  <2>5. ASSUME NEW i \in (lo + 1)..k PROVE g[i] = step[<<i, g[i - 1]>>]
    <3>1. CASE i = k
      <4>1. g[k - 1] = f[k - 1]
        BY <2>4
      <4> QED BY <2>4, <3>1, <4>1 DEF v
    <3>2. CASE i # k
      <4>1. i \in (lo + 1)..(k - 1) /\ i \in lo..(k - 1) /\ i - 1 \in lo..(k - 1)
        BY <3>2
      <4>2. g[i] = f[i] /\ g[i - 1] = f[i - 1]
        BY <2>4, <4>1
      <4> QED BY <2>1, <4>1, <4>2 DEF Follows
    <3> QED BY <3>1, <3>2
  <2>6. g[lo] = base
    BY <2>1, <2>4 DEF Follows
  <2>7. Follows(g, lo, k, base, step)
    BY <2>5, <2>6 DEF Follows
  <2> QED BY <2>3, <2>7
<1>3. hi \in T
  <2> HIDE DEF T
  <2> QED BY <1>1, <1>2, IntervalInduction
<1> QED BY <1>3

-----------------------------------------------------------------------------
(* r is drawn from s: its entries are entries of s, no position taken twice. *)
Draws(r, s) ==
    \E p \in [DOMAIN r -> DOMAIN s] :
        /\ \A i, j \in DOMAIN r : p[i] = p[j] => i = j
        /\ \A i \in DOMAIN r : r[i] = s[p[i]]

LEMMA DrawsElements ==
    ASSUME NEW r, NEW s, Draws(r, s)
    PROVE  ToSet(r) \subseteq ToSet(s)
BY DEF Draws, ToSet

LEMMA DrawsTransitive ==
    ASSUME NEW q, NEW r, NEW s, Draws(q, r), Draws(r, s)
    PROVE  Draws(q, s)
<1>1. PICK f \in [DOMAIN q -> DOMAIN r] :
         /\ \A i, j \in DOMAIN q : f[i] = f[j] => i = j
         /\ \A i \in DOMAIN q : q[i] = r[f[i]]
  BY DEF Draws
<1>2. PICK g \in [DOMAIN r -> DOMAIN s] :
         /\ \A i, j \in DOMAIN r : g[i] = g[j] => i = j
         /\ \A i \in DOMAIN r : r[i] = s[g[i]]
  BY DEF Draws
<1> DEFINE p == [i \in DOMAIN q |-> g[f[i]]]
<1>3. /\ p \in [DOMAIN q -> DOMAIN s]
      /\ \A i, j \in DOMAIN q : p[i] = p[j] => i = j
      /\ \A i \in DOMAIN q : q[i] = s[p[i]]
  BY <1>1, <1>2
<1> HIDE DEF p
<1> QED BY <1>3 DEF Draws

(* A prefix. *)
LEMMA PrefixFacts ==
    ASSUME NEW S, NEW s \in Seq(S), NEW n \in 0..Len(s)
    PROVE  /\ SubSeq(s, 1, n) \in Seq(S) /\ Len(SubSeq(s, 1, n)) = n
           /\ \A i \in 1..n : SubSeq(s, 1, n)[i] = s[i]
OBVIOUS

LEMMA PrefixDraws ==
    ASSUME NEW S, NEW s \in Seq(S), NEW n \in 0..Len(s)
    PROVE  Draws(SubSeq(s, 1, n), s)
<1> DEFINE r == SubSeq(s, 1, n)
           p == [i \in 1..n |-> i]
<1>1. DOMAIN r = 1..n /\ \A i \in 1..n : r[i] = s[i]
  OBVIOUS
<1>2. 1..n \subseteq DOMAIN s
  OBVIOUS
<1> HIDE DEF r
<1>3. /\ p \in [1..n -> DOMAIN s]
      /\ \A i, j \in 1..n : p[i] = p[j] => i = j
      /\ \A i \in 1..n : r[i] = s[p[i]]
  BY <1>1, <1>2
<1> HIDE DEF p
<1> QED BY <1>1, <1>3 DEF Draws, r

(* A sequence read in another order. *)
LEMMA PermutationFacts ==
    ASSUME NEW S, NEW s \in Seq(S), NEW p \in [DOMAIN s -> DOMAIN s],
           \A i, j \in DOMAIN s : p[i] = p[j] => i = j
    PROVE  LET r == [k \in DOMAIN s |-> s[p[k]]]
           IN  /\ r \in Seq(S) /\ Len(r) = Len(s)
               /\ Draws(r, s) /\ ToSet(r) = ToSet(s)
<1> DEFINE r == [k \in DOMAIN s |-> s[p[k]]]
<1>1. DOMAIN s = 1..Len(s) /\ Len(s) \in Nat
  OBVIOUS
<1>2. r \in Seq(S) /\ Len(r) = Len(s)
  <2>1. r \in [1..Len(s) -> S]
    BY <1>1
  <2> HIDE DEF r
  <2> QED BY <1>1, <2>1
<1>3. DOMAIN r = DOMAIN s /\ \A k \in DOMAIN s : r[k] = s[p[k]]
  OBVIOUS
<1> HIDE DEF r
<1>4. Draws(r, s)
  BY <1>3 DEF Draws
<1>5. \A k \in DOMAIN s : \E i \in DOMAIN s : p[i] = k
  <2>1. p \in Injection(DOMAIN s, DOMAIN s)
    BY DEF Injection, IsInjective
  <2>2. IsFiniteSet(DOMAIN s)
    BY <1>1, FS_Interval
  <2>3. p \in Surjection(DOMAIN s, DOMAIN s)
    BY <2>1, <2>2, FS_Injection
  <2> QED BY <2>3 DEF Surjection
<1>6. ToSet(r) = ToSet(s)
  BY <1>3, <1>5 DEF ToSet
<1> QED BY <1>2, <1>4, <1>6 DEF r

(* One element more. *)
LEMMA AppendFacts ==
    ASSUME NEW S, NEW s \in Seq(S), NEW x \in S
    PROVE  /\ Append(s, x) \in Seq(S) /\ Len(Append(s, x)) = Len(s) + 1
           /\ DOMAIN Append(s, x) = 1..(Len(s) + 1)
           /\ \A i \in 1..Len(s) : Append(s, x)[i] = s[i]
           /\ Append(s, x)[Len(s) + 1] = x
           /\ ToSet(Append(s, x)) = ToSet(s) \cup {x}
<1>1. /\ Append(s, x) \in Seq(S) /\ Len(Append(s, x)) = Len(s) + 1
      /\ DOMAIN Append(s, x) = 1..(Len(s) + 1) /\ DOMAIN s = 1..Len(s)
      /\ \A i \in 1..Len(s) : Append(s, x)[i] = s[i]
      /\ Append(s, x)[Len(s) + 1] = x
      /\ Len(s) \in Nat
  OBVIOUS
<1> DEFINE r == Append(s, x)
<1>2. 1..(Len(s) + 1) = 1..Len(s) \cup {Len(s) + 1}
  BY <1>1
<1>3. ToSet(r) = ToSet(s) \cup {x}
  <2> HIDE DEF r
  <2> SUFFICES ToSet(r) = {s[i] : i \in 1..Len(s)} \cup {x}
    BY <1>1 DEF ToSet
  <2> QED BY <1>1, <1>2 DEF ToSet, r
<1> QED BY <1>1, <1>3
=============================================================================
