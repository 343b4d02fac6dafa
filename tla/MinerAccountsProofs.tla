------------------------- MODULE MinerAccountsProofs -------------------------
(***************************************************************************)
(* The share pool, the node's use of it and what it keeps of each miner,   *)
(* for any miners, shares, limits and bounds.                              *)
(***************************************************************************)
EXTENDS MinerAccounts, DataLemmas, FiniteSetTheorems

(* The share pool.                                                           *)

(* The inductive invariant: the conjunction of the pool's invariants, as a   *)
(* predicate of values, so that it can be stated of the pool between the     *)
(* eviction and the insertion of one step.                                   *)
Types(sh, ct, hs, inv, tot, mem) ==
    /\ sh \in [Miners -> Seq(Shares)]
    /\ ct \in [Miners -> Nat]
    /\ hs \in SUBSET Shares
    /\ inv \in [Miners -> Nat]
    /\ tot \in [Miners -> Nat]
    /\ mem \in Nat
Counts(sh, ct) == \A m \in Miners : ct[m] = Len(sh[m])
Own(sh) == \A m \in Miners : \A i \in DOMAIN sh[m] : MinerOf[sh[m][i]] = m
Distinct(sh) ==
    \A m \in Miners : \A i, j \in DOMAIN sh[m] : i # j => sh[m][i] # sh[m][j]
Hashed(sh, hs) == hs = UNION {Elements(sh[m]) : m \in Miners}
Memory(hs, mem) == IsFiniteSet(hs) /\ mem = Cardinality(hs) /\ mem <= Capacity
Limited(sh) == \A m \in Miners : Len(sh[m]) <= MaxPerMiner
Covered(ct, inv, tot) == \A m \in Miners : inv[m] + ct[m] <= tot[m]

Good(sh, ct, hs, inv, tot, mem) ==
    /\ Types(sh, ct, hs, inv, tot, mem)
    /\ Counts(sh, ct)
    /\ Own(sh)
    /\ Distinct(sh)
    /\ Hashed(sh, hs)
    /\ Memory(hs, mem)
    /\ Limited(sh)
    /\ Covered(ct, inv, tot)

PoolInv ==
    /\ Good(shares, shareCount, hashes, invalid, total, memoryUsed)
    /\ poolEpoch \in Nat

-----------------------------------------------------------------------------
(* Some miner has the most shares, unless no miner has any: evict_oldest     *)
(* finds a victim in every pool that is not empty.                           *)
LEMMA LargestExists ==
    ASSUME PoolInv, NEW n \in Miners, shares[n] # <<>>
    PROVE  Largest # {}
<1> DEFINE room(m) == MaxPerMiner - Len(shares[m])
           T == {room(m) : m \in Miners}
<1>1. \A m \in Miners : Len(shares[m]) \in Nat /\ room(m) \in Nat
  BY PoolAssumption DEF PoolInv, Good, Types, Limited
<1>2. T \in SUBSET Nat /\ T # {}
  BY <1>1
<1>3. PICK x \in T : \A y \in T : x <= y
  <2> HIDE DEF T
  <2> QED BY <1>2, LeastNat
<1>4. PICK m \in Miners : x = room(m)
  BY <1>3
<1>5. \A k \in Miners : Len(shares[k]) <= Len(shares[m])
  <2> TAKE k \in Miners
  <2>1. room(k) \in T
    OBVIOUS
  <2>2. MaxPerMiner - Len(shares[m]) <= MaxPerMiner - Len(shares[k])
    BY <1>3, <1>4, <2>1
  <2> HIDE DEF T
  <2> QED BY <1>1, <2>2, PoolAssumption
<1>6. Len(shares[n]) > 0
  BY DEF PoolInv, Good, Types
<1>7. shares[m] # <<>>
  BY <1>1, <1>5, <1>6
<1> QED BY <1>5, <1>7 DEF Largest

-----------------------------------------------------------------------------
(* What Tail and Append do to the elements of a sequence. *)
LEMMA TailElements ==
    ASSUME NEW S, NEW q \in Seq(S), q # <<>>,
           \A i, j \in DOMAIN q : i # j => q[i] # q[j]
    PROVE  /\ Tail(q) \in Seq(S) /\ Len(Tail(q)) = Len(q) - 1
           /\ \A i \in DOMAIN Tail(q) : i + 1 \in DOMAIN q /\ Tail(q)[i] = q[i + 1]
           /\ Head(q) \in Elements(q)
           /\ Elements(Tail(q)) = Elements(q) \ {Head(q)}
<1>1. Tail(q) \in Seq(S) /\ Len(Tail(q)) = Len(q) - 1 /\ Len(q) > 0
  OBVIOUS
<1>2. \A i \in DOMAIN Tail(q) : i + 1 \in DOMAIN q /\ Tail(q)[i] = q[i + 1]
  BY <1>1
<1>3. Head(q) = q[1] /\ 1 \in DOMAIN q
  BY <1>1
<1>4. Elements(Tail(q)) \subseteq Elements(q) \ {Head(q)}
  <2> SUFFICES ASSUME NEW e \in Elements(Tail(q))
               PROVE  e \in Elements(q) \ {Head(q)}
    OBVIOUS
  <2>1. PICK i \in DOMAIN Tail(q) : e = Tail(q)[i]
    BY DEF Elements
  <2>2. i \in Nat /\ i >= 1 /\ i + 1 # 1
    BY <1>1, <2>1
  <2> QED BY <1>2, <1>3, <2>1, <2>2 DEF Elements
<1>5. Elements(q) \ {Head(q)} \subseteq Elements(Tail(q))
  <2> SUFFICES ASSUME NEW e \in Elements(q) \ {Head(q)}
               PROVE  e \in Elements(Tail(q))
    OBVIOUS
  <2>1. PICK i \in DOMAIN q : e = q[i]
    BY DEF Elements
  <2>2. i \in 2..Len(q)
    BY <1>3, <2>1
  <2>3. i - 1 \in DOMAIN Tail(q) /\ Tail(q)[i - 1] = q[i]
    BY <1>1, <2>2
  <2> QED BY <2>1, <2>3 DEF Elements
<1> QED BY <1>1, <1>2, <1>3, <1>4, <1>5 DEF Elements

LEMMA AppendElements ==
    ASSUME NEW S, NEW q \in Seq(S), NEW s \in S
    PROVE  /\ Append(q, s) \in Seq(S) /\ Len(Append(q, s)) = Len(q) + 1
           /\ \A i \in DOMAIN q : i \in DOMAIN Append(q, s) /\ Append(q, s)[i] = q[i]
           /\ \A i \in DOMAIN Append(q, s) :
                 i \in DOMAIN q \/ (i = Len(q) + 1 /\ Append(q, s)[i] = s)
           /\ Elements(Append(q, s)) = Elements(q) \cup {s}
<1>1. /\ Append(q, s) \in Seq(S) /\ Len(Append(q, s)) = Len(q) + 1
      /\ \A i \in DOMAIN q : i \in DOMAIN Append(q, s) /\ Append(q, s)[i] = q[i]
      /\ \A i \in DOMAIN Append(q, s) :
            i \in DOMAIN q \/ (i = Len(q) + 1 /\ Append(q, s)[i] = s)
  OBVIOUS
<1>2. Len(q) + 1 \in DOMAIN Append(q, s) /\ Append(q, s)[Len(q) + 1] = s
  OBVIOUS
<1>3. Elements(Append(q, s)) \subseteq Elements(q) \cup {s}
  BY <1>1 DEF Elements
<1>4. Elements(q) \cup {s} \subseteq Elements(Append(q, s))
  BY <1>1, <1>2 DEF Elements
<1> QED BY <1>1, <1>3, <1>4

(* Own shares differ: an element of one miner's vector is in no other's. *)
LEMMA Disjoint ==
    ASSUME NEW sh, Own(sh), NEW m \in Miners, NEW n \in Miners, m # n,
           NEW e \in Elements(sh[m])
    PROVE  e \notin Elements(sh[n])
BY DEF Own, Elements

-----------------------------------------------------------------------------
(* Removing the oldest share of a miner that has one keeps the bookkeeping,  *)
(* and makes room for one share.                                             *)
LEMMA EvictKeepsGood ==
    ASSUME NEW sh, NEW ct, NEW hs, NEW inv, NEW tot, NEW mem,
           Good(sh, ct, hs, inv, tot, mem),
           NEW v \in Miners, sh[v] # <<>>
    PROVE  /\ Good([sh EXCEPT ![v] = Tail(@)], [ct EXCEPT ![v] = @ - 1],
                    hs \ {Head(sh[v])}, inv, tot, mem - 1)
           /\ mem - 1 + 1 <= Capacity
<1> DEFINE sh2 == [sh EXCEPT ![v] = Tail(@)]
           ct2 == [ct EXCEPT ![v] = @ - 1]
           h == Head(sh[v])
<1>1. /\ sh \in [Miners -> Seq(Shares)] /\ sh[v] \in Seq(Shares)
      /\ ct \in [Miners -> Nat] /\ ct[v] = Len(sh[v])
      /\ \A i, j \in DOMAIN sh[v] : i # j => sh[v][i] # sh[v][j]
  BY DEF Good, Types, Counts, Distinct
<1>2. /\ Tail(sh[v]) \in Seq(Shares) /\ Len(Tail(sh[v])) = Len(sh[v]) - 1
      /\ \A i \in DOMAIN Tail(sh[v]) :
            i + 1 \in DOMAIN sh[v] /\ Tail(sh[v])[i] = sh[v][i + 1]
      /\ h \in Elements(sh[v])
      /\ Elements(Tail(sh[v])) = Elements(sh[v]) \ {h}
  BY <1>1, TailElements
<1>3. /\ sh2 \in [Miners -> Seq(Shares)] /\ sh2[v] = Tail(sh[v])
      /\ \A m \in Miners \ {v} : sh2[m] = sh[m]
  BY <1>1, <1>2
<1>4. Len(sh[v]) \in Nat /\ Len(sh[v]) > 0
  BY <1>1
<1>5. /\ ct2 \in [Miners -> Nat] /\ ct2[v] = Len(sh[v]) - 1
      /\ \A m \in Miners \ {v} : ct2[m] = ct[m]
  BY <1>1, <1>4
<1>6. h \in hs
  BY <1>2 DEF Good, Hashed
<1>7. Memory(hs \ {h}, mem - 1) /\ mem - 1 \in Nat /\ mem - 1 + 1 <= Capacity
  <2>1. /\ IsFiniteSet(hs) /\ mem = Cardinality(hs) /\ mem <= Capacity /\ mem \in Nat
    BY DEF Good, Memory, Types
  <2>2. IsFiniteSet(hs \ {h}) /\ Cardinality(hs \ {h}) = Cardinality(hs) - 1
    BY <1>6, <2>1, FS_RemoveElement
  <2>3. Cardinality(hs \ {h}) \in Nat
    BY <2>2, FS_CardinalityType
  <2> QED BY <2>1, <2>2, <2>3, PoolAssumption DEF Memory, PoolAssumption
<1>8. Types(sh2, ct2, hs \ {h}, inv, tot, mem - 1)
  BY <1>3, <1>5, <1>7 DEF Good, Types
<1>9. Counts(sh2, ct2)
  BY <1>2, <1>3, <1>5 DEF Good, Counts
<1>10. Own(sh2)
  BY <1>2, <1>3 DEF Good, Own
<1>11. Distinct(sh2)
  <2> SUFFICES ASSUME NEW m \in Miners, NEW i \in DOMAIN sh2[m], NEW j \in DOMAIN sh2[m],
                      i # j
               PROVE  sh2[m][i] # sh2[m][j]
    BY DEF Distinct
  <2>1. CASE m = v
    <3>1. i \in Nat /\ j \in Nat
      BY <1>2, <1>3, <2>1
    <3> QED BY <1>1, <1>2, <1>3, <2>1, <3>1
  <2>2. CASE m # v
    BY <1>3, <2>2 DEF Good, Distinct
  <2> QED BY <2>1, <2>2
<1>12. Hashed(sh2, hs \ {h})
  <2>1. \A m \in Miners : Elements(sh2[m]) = Elements(sh[m]) \ {h}
    <3> TAKE m \in Miners
    <3>1. CASE m = v
      BY <1>2, <1>3, <3>1
    <3>2. CASE m # v
      BY <1>2, <1>3, <3>2, Disjoint DEF Good
    <3> QED BY <3>1, <3>2
  <2>2. hs = UNION {Elements(sh[m]) : m \in Miners}
    BY DEF Good, Hashed
  <2>3. \A e : e \in hs \ {h} <=> \E m \in Miners : e \in Elements(sh2[m])
    <3> HIDE DEF sh2, h
    <3> QED BY <2>1, <2>2
  <2> HIDE DEF sh2, h
  <2>4. \A e : e \in hs \ {h} <=> e \in UNION {Elements(sh2[m]) : m \in Miners}
    BY <2>3
  <2> QED BY <2>4 DEF Hashed
<1>13. Limited(sh2)
  <2>1. \A m \in Miners : Len(sh2[m]) \in Nat /\ Len(sh[m]) \in Nat /\ Len(sh2[m]) <= Len(sh[m])
    BY <1>1, <1>2, <1>3, <1>4
  <2> QED BY <2>1, PoolAssumption DEF Good, Limited
<1>14. Covered(ct2, inv, tot)
  <2>1. \A m \in Miners : ct2[m] \in Nat /\ ct[m] \in Nat /\ ct2[m] <= ct[m]
    BY <1>1, <1>4, <1>5
  <2>2. \A m \in Miners : inv[m] \in Nat /\ tot[m] \in Nat /\ inv[m] + ct[m] <= tot[m]
    BY DEF Good, Types, Covered
  <2> QED BY <2>1, <2>2 DEF Covered
<1> QED
  BY <1>7, <1>8, <1>9, <1>10, <1>11, <1>12, <1>13, <1>14 DEF Good

(* A new share of a miner below its limit, counted in the total, keeps the   *)
(* bookkeeping when there is room.                                           *)
LEMMA AddKeepsGood ==
    ASSUME NEW sh, NEW ct, NEW hs, NEW inv, NEW tot, NEW mem,
           Good(sh, ct, hs, inv, tot, mem),
           NEW s \in Shares, s \notin hs,
           ct[MinerOf[s]] < MaxPerMiner, mem + 1 <= Capacity
    PROVE  Good([sh EXCEPT ![MinerOf[s]] = Append(@, s)],
                [ct EXCEPT ![MinerOf[s]] = @ + 1],
                hs \cup {s}, inv, [tot EXCEPT ![MinerOf[s]] = @ + 1], mem + 1)
<1> DEFINE a == MinerOf[s]
           sh2 == [sh EXCEPT ![a] = Append(@, s)]
           ct2 == [ct EXCEPT ![a] = @ + 1]
           tot2 == [tot EXCEPT ![a] = @ + 1]
<1>1. a \in Miners
  BY PoolAssumption
<1>2. /\ sh \in [Miners -> Seq(Shares)] /\ sh[a] \in Seq(Shares)
      /\ ct \in [Miners -> Nat] /\ ct[a] = Len(sh[a])
      /\ tot \in [Miners -> Nat]
  BY <1>1 DEF Good, Types, Counts
<1>3. /\ Append(sh[a], s) \in Seq(Shares) /\ Len(Append(sh[a], s)) = Len(sh[a]) + 1
      /\ \A i \in DOMAIN sh[a] :
            i \in DOMAIN Append(sh[a], s) /\ Append(sh[a], s)[i] = sh[a][i]
      /\ \A i \in DOMAIN Append(sh[a], s) :
            i \in DOMAIN sh[a] \/ (i = Len(sh[a]) + 1 /\ Append(sh[a], s)[i] = s)
      /\ Elements(Append(sh[a], s)) = Elements(sh[a]) \cup {s}
  BY <1>2, AppendElements
<1>4. /\ sh2 \in [Miners -> Seq(Shares)] /\ sh2[a] = Append(sh[a], s)
      /\ \A m \in Miners \ {a} : sh2[m] = sh[m]
  BY <1>1, <1>2, <1>3
<1>5. /\ ct2 \in [Miners -> Nat] /\ ct2[a] = ct[a] + 1
      /\ \A m \in Miners \ {a} : ct2[m] = ct[m]
      /\ tot2 \in [Miners -> Nat] /\ tot2[a] = tot[a] + 1
      /\ \A m \in Miners \ {a} : tot2[m] = tot[m]
  BY <1>1, <1>2
<1>6. Memory(hs \cup {s}, mem + 1) /\ mem + 1 \in Nat
  <2>1. IsFiniteSet(hs) /\ mem = Cardinality(hs) /\ mem \in Nat
    BY DEF Good, Memory, Types
  <2>2. IsFiniteSet(hs \cup {s}) /\ Cardinality(hs \cup {s}) = Cardinality(hs) + 1
    BY <2>1, FS_AddElement
  <2> QED BY <2>1, <2>2 DEF Memory
<1>7. Types(sh2, ct2, hs \cup {s}, inv, tot2, mem + 1)
  BY <1>4, <1>5, <1>6 DEF Good, Types
<1>8. Counts(sh2, ct2)
  BY <1>2, <1>3, <1>4, <1>5 DEF Good, Counts
<1>9. Own(sh2)
  BY <1>1, <1>3, <1>4 DEF Good, Own
<1>10. s \notin Elements(sh[a])
  BY <1>1 DEF Good, Hashed
<1>11. Distinct(sh2)
  <2> SUFFICES ASSUME NEW m \in Miners, NEW i \in DOMAIN sh2[m], NEW j \in DOMAIN sh2[m],
                      i # j
               PROVE  sh2[m][i] # sh2[m][j]
    BY DEF Distinct
  <2>1. CASE m = a
    <3>1. \A k \in DOMAIN sh[a] : sh[a][k] # s
      BY <1>10 DEF Elements
    <3>2. \A k, l \in DOMAIN sh[a] : k # l => sh[a][k] # sh[a][l]
      BY <1>1 DEF Good, Distinct
    <3> HIDE DEF sh2, a
    <3> QED BY <1>3, <1>4, <2>1, <3>1, <3>2
  <2>2. CASE m # a
    BY <1>4, <2>2 DEF Good, Distinct
  <2> QED BY <2>1, <2>2
<1>12. Hashed(sh2, hs \cup {s})
  <2>1. \A m \in Miners :
          Elements(sh2[m]) = IF m = a THEN Elements(sh[m]) \cup {s} ELSE Elements(sh[m])
    BY <1>3, <1>4
  <2>2. hs = UNION {Elements(sh[m]) : m \in Miners}
    BY DEF Good, Hashed
  <2> HIDE DEF sh2, a
  <2> QED BY <1>1, <2>1, <2>2 DEF Hashed
<1>13. Limited(sh2)
  <2>1. Len(sh[a]) \in Nat /\ Len(sh[a]) < MaxPerMiner
    BY <1>2
  <2> QED BY <1>3, <1>4, <2>1, PoolAssumption DEF Good, Limited
<1>14. Covered(ct2, inv, tot2)
  <2>1. \A m \in Miners : /\ inv[m] \in Nat /\ tot[m] \in Nat /\ ct[m] \in Nat
                          /\ inv[m] + ct[m] <= tot[m]
    BY DEF Good, Types, Covered
  <2> QED BY <1>5, <2>1 DEF Covered
<1> QED
  BY <1>6, <1>7, <1>8, <1>9, <1>11, <1>12, <1>13, <1>14 DEF Good

(* A share that is counted without being stored: refused over the limit, or  *)
(* invalid.                                                                  *)
LEMMA CountKeepsGood ==
    ASSUME NEW sh, NEW ct, NEW hs, NEW inv, NEW tot, NEW mem,
           Good(sh, ct, hs, inv, tot, mem),
           NEW m \in Miners
    PROVE  /\ Good(sh, ct, hs, inv, [tot EXCEPT ![m] = @ + 1], mem)
           /\ Good(sh, ct, hs, [inv EXCEPT ![m] = @ + 1], [tot EXCEPT ![m] = @ + 1], mem)
<1>1. \A n \in Miners : /\ inv[n] \in Nat /\ tot[n] \in Nat /\ ct[n] \in Nat
                        /\ inv[n] + ct[n] <= tot[n]
  BY DEF Good, Types, Covered
<1>2. /\ [tot EXCEPT ![m] = @ + 1] \in [Miners -> Nat]
      /\ [inv EXCEPT ![m] = @ + 1] \in [Miners -> Nat]
      /\ \A n \in Miners :
            /\ [tot EXCEPT ![m] = @ + 1][n] = IF n = m THEN tot[n] + 1 ELSE tot[n]
            /\ [inv EXCEPT ![m] = @ + 1][n] = IF n = m THEN inv[n] + 1 ELSE inv[n]
  BY DEF Good, Types
<1>3. Covered(ct, inv, [tot EXCEPT ![m] = @ + 1])
  BY <1>1, <1>2 DEF Covered
<1>4. Covered(ct, [inv EXCEPT ![m] = @ + 1], [tot EXCEPT ![m] = @ + 1])
  BY <1>1, <1>2 DEF Covered
<1> QED BY <1>2, <1>3, <1>4 DEF Good, Types

-----------------------------------------------------------------------------
(* Whatever victim evict_oldest finds, the pool without it has room for one  *)
(* share.                                                                    *)
LEMMA RoomIsMade ==
    ASSUME PoolInv, NEW v \in Victims
    PROVE  /\ Good(SharesWithout(v), CountWithout(v), HashesWithout(v),
                    invalid, total, MemoryWithout(v))
           /\ MemoryWithout(v) + 1 <= Capacity
           /\ HashesWithout(v) \subseteq hashes
<1>1. memoryUsed \in Nat /\ memoryUsed <= Capacity /\ Capacity \in Nat \ {0}
  BY PoolAssumption DEF PoolInv, Good, Types, Memory
<1>2. CASE v = Nobody
  <2>1. ~(memoryUsed + 1 > Capacity)
    <3>1. SUFFICES ASSUME memoryUsed + 1 > Capacity PROVE FALSE
      OBVIOUS
    <3>2. Nobody \in LargestOrNone /\ Nobody \notin Largest
      BY <1>2, <3>1, PoolAssumption DEF Victims, Largest
    <3>3. \A n \in Miners : shares[n] = <<>>
      BY <3>2, LargestExists DEF LargestOrNone
    <3>4. hashes = {}
      BY <3>3 DEF PoolInv, Good, Hashed, Elements
    <3>5. memoryUsed = 0
      BY <3>4, FS_EmptySet DEF PoolInv, Good, Memory
    <3> QED BY <1>1, <3>1, <3>5
  <2> QED BY <1>1, <1>2, <2>1
          DEF PoolInv, SharesWithout, CountWithout, HashesWithout, MemoryWithout
<1>3. CASE v # Nobody
  <2>1. v \in Miners /\ shares[v] # <<>>
    BY <1>3 DEF Victims, LargestOrNone, Largest
  <2> QED BY <1>3, <2>1, EvictKeepsGood
          DEF PoolInv, SharesWithout, CountWithout, HashesWithout, MemoryWithout
<1> QED BY <1>2, <1>3

LEMMA EmptyIsGood ==
    Good([m \in Miners |-> <<>>], Zeroes, {}, Zeroes, Zeroes, 0)
<1>1. Types([m \in Miners |-> <<>>], Zeroes, {}, Zeroes, Zeroes, 0)
  BY DEF Types, Zeroes
<1>2. Hashed([m \in Miners |-> <<>>], {})
  BY DEF Hashed, Elements
<1>3. Memory({}, 0)
  BY FS_EmptySet, PoolAssumption DEF Memory
<1> QED BY <1>1, <1>2, <1>3, PoolAssumption
        DEF Good, Counts, Own, Distinct, Limited, Covered, Zeroes

LEMMA PoolInvInit == PoolInit => PoolInv
BY EmptyIsGood DEF PoolInit, PoolInv

LEMMA PoolInvStep == PoolInv /\ [PoolNext]_poolVars => PoolInv'
<1> SUFFICES ASSUME PoolInv, [PoolNext]_poolVars PROVE PoolInv'
  OBVIOUS
<1>1. ASSUME UNCHANGED poolVars PROVE PoolInv'
  BY <1>1 DEF poolVars, PoolInv
<1>2. ASSUME NEW s \in Shares, WrongEpoch(s) \/ Duplicate(s) PROVE PoolInv'
  BY <1>1, <1>2 DEF WrongEpoch, Duplicate
<1>3. ASSUME NEW s \in Shares, CountInvalid(s) PROVE PoolInv'
  BY <1>3, CountKeepsGood, PoolAssumption DEF CountInvalid, PoolInv
<1>4. ASSUME NEW s \in Shares, NEW v, OverLimit(s, v) PROVE PoolInv'
  <2>1. v \in Victims /\ MinerOf[s] \in Miners
    BY <1>4, PoolAssumption DEF OverLimit
  <2> QED BY <1>4, <2>1, RoomIsMade, CountKeepsGood DEF OverLimit, PoolInv
<1>5. ASSUME NEW s \in Shares, NEW v, Accept(s, v) PROVE PoolInv'
  <2>1. /\ v \in Victims /\ s \notin hashes
        /\ CountWithout(v)[MinerOf[s]] < MaxPerMiner
    BY <1>5 DEF Accept, Novel
  <2>2. s \notin HashesWithout(v)
    BY <2>1, RoomIsMade
  <2>3. Good([SharesWithout(v) EXCEPT ![MinerOf[s]] = Append(@, s)],
             [CountWithout(v) EXCEPT ![MinerOf[s]] = @ + 1],
             HashesWithout(v) \cup {s}, invalid,
             [total EXCEPT ![MinerOf[s]] = @ + 1], MemoryWithout(v) + 1)
    BY <2>1, <2>2, RoomIsMade, AddKeepsGood
  <2> QED BY <1>5, <2>3 DEF Accept, PoolInv
<1>6. CASE NewEpoch
  BY <1>6, EmptyIsGood DEF NewEpoch, PoolInv
<1>7. CASE FreshPool
  BY <1>7, EmptyIsGood DEF FreshPool, PoolInv
<1> QED BY <1>1, <1>2, <1>3, <1>4, <1>5, <1>6, <1>7 DEF PoolNext

LEMMA PoolInvMeaning ==
    PoolInv => /\ PoolTypeOK /\ CountsMatch /\ HashesMatch /\ StoredOnce
               /\ MemoryMatches /\ WithinMinerLimit /\ TotalsCover
BY DEF PoolInv, Good, Types, Counts, Own, Distinct, Hashed, Memory, Limited, Covered,
       PoolTypeOK, CountsMatch, HashesMatch, StoredOnce, MemoryMatches,
       WithinMinerLimit, TotalsCover

(* Every operation of SharePool keeps its fields in their types: no counter  *)
(* that evict_oldest decrements underflows.                                  *)
THEOREM PoolTypeCorrect == PoolSpec => []PoolTypeOK
<1>1. PoolInv => PoolTypeOK
  BY PoolInvMeaning
<1> QED BY <1>1, PoolInvInit, PoolInvStep, PTL DEF PoolSpec

(* share_hashes, share_count and memory_used stay what the stored shares     *)
(* say, no share is stored twice, the memory limit and the limit per miner   *)
(* hold, for any number of miners and shares and any limits.                 *)
THEOREM PoolCorrect ==
    PoolSpec => [](CountsMatch /\ HashesMatch /\ StoredOnce /\ MemoryMatches
                    /\ WithinMinerLimit /\ TotalsCover)
<1>1. PoolInv => CountsMatch /\ HashesMatch /\ StoredOnce /\ MemoryMatches
                   /\ WithinMinerLimit /\ TotalsCover
  BY PoolInvMeaning
<1> QED BY <1>1, PoolInvInit, PoolInvStep, PTL DEF PoolSpec

-----------------------------------------------------------------------------
(* The node.                                                                 *)

(* Every step of the node is an operation of its pool or leaves it alone.    *)
LEMMA StepUsesPool == [Next]_vars => [PoolNext]_poolVars
<1> SUFFICES ASSUME [Next]_vars PROVE [PoolNext]_poolVars
  OBVIOUS
<1>1. CASE UNCHANGED vars
  BY <1>1 DEF vars
<1>2. ASSUME NEW s \in Shares, NEW t \in Times, InvalidShare(s, t)
      PROVE  PoolNext
  BY <1>2 DEF InvalidShare, PoolNext
<1>3. ASSUME NEW s \in Shares, NEW v \in Miners \cup {Nobody}, NEW t \in Times,
             RefusedShare(s, v, t) \/ AcceptedShare(s, v, t)
      PROVE  PoolNext
  BY <1>3 DEF RefusedShare, AcceptedShare, PoolNext
<1>4. ASSUME NEW m \in Miners, BondExpires(m) \/ Pay(m) \/ CountLoyalty(m) \/ ResetShares(m)
      PROVE  UNCHANGED poolVars
  BY <1>4 DEF BondExpires, Pay, CountLoyalty, ResetShares
<1>5. CASE EndEpoch \/ LoyaltyDone \/ SaveEpoch
  BY <1>5 DEF EndEpoch, LoyaltyDone, SaveEpoch
<1>6. CASE OpenEpoch \/ Restart
  BY <1>6 DEF OpenEpoch, Restart, PoolNext
<1> QED BY <1>1, <1>2, <1>3, <1>4, <1>5, <1>6 DEF Next

(* The node uses its pool only through the pool's operations. *)
LEMMA NodeKeepsPool == Spec => PoolSpec
<1>1. Init => PoolInit
  BY DEF Init
<1> QED BY <1>1, StepUsesPool, PTL DEF Spec, PoolSpec

(* Inside the node, through kills and restarts: share_hashes knows exactly   *)
(* the stored shares.                                                        *)
THEOREM NodeHashesMatch == Spec => []HashesMatch
BY NodeKeepsPool, PoolCorrect, PTL

(* No share is stored twice, nor under another miner's name.                 *)
THEOREM NodeStoresOnce == Spec => []StoredOnce
BY NodeKeepsPool, PoolCorrect, PTL

(* memory_used is what the stored shares take, and within its limit.         *)
THEOREM NodeMemoryMatches == Spec => []MemoryMatches
BY NodeKeepsPool, PoolCorrect, PTL

(* No miner holds more shares than the limit of an epoch.                    *)
THEOREM NodeLimitsMiners == Spec => []WithinMinerLimit
BY NodeKeepsPool, PoolCorrect, PTL

(* invalid_ratio stays within [0, 1]: what it divides was counted.           *)
THEOREM NodeTotalsCover == Spec => []TotalsCover
BY NodeKeepsPool, PoolCorrect, PTL

-----------------------------------------------------------------------------
(* The loyalty counters and the epochs they are counted in.  The invariant   *)
(* adds which epoch each part of process_epoch_end works in: the saved one   *)
(* until OpenEpoch, the next one from there to SaveEpoch.                    *)
Within(l) ==
    /\ l \in Loyalty
    /\ l.consecutive + l.missed <= l.last
    /\ l.last <= sEpoch
LoyaltyInv ==
    /\ sEpoch \in Nat
    /\ pc \in {"run", "pay", "loyalty", "reset"}
    /\ epoch = IF pc \in {"run", "pay"} THEN sEpoch ELSE sEpoch + 1
    /\ loyalty \in [Miners -> Loyalty] /\ sLoyalty \in [Miners -> Loyalty]
    /\ \A m \in Miners : Within(loyalty[m]) /\ Within(sLoyalty[m])

(* Counting an epoch not yet counted, or counted already, keeps the bound. *)
LEMMA UpdatedWithin ==
    ASSUME NEW l, sEpoch \in Nat, Within(l), NEW e \in 0..sEpoch, NEW p \in BOOLEAN
    PROVE  Within(Updated(l, e, p))
<1>1. /\ l.last \in Nat /\ l.consecutive \in Nat /\ l.missed \in Nat
      /\ l.consecutive + l.missed <= l.last /\ l.last <= sEpoch
  BY DEF Within, Loyalty
<1>2. CASE e <= l.last
  BY <1>2 DEF Updated
<1>3. CASE ~(e <= l.last) /\ p
  BY <1>1, <1>3 DEF Updated, Within, Loyalty
<1>4. CASE ~(e <= l.last) /\ ~p
  BY <1>1, <1>4 DEF Updated, Within, Loyalty
<1> QED BY <1>2, <1>3, <1>4

LEMMA LoyaltyInvInit == Init => LoyaltyInv
BY DEF Init, LoyaltyInv, Within, Loyalty, NewLoyalty

LEMMA LoyaltyInvStep == LoyaltyInv /\ [Next]_vars => LoyaltyInv'
<1> SUFFICES ASSUME LoyaltyInv, [Next]_vars PROVE LoyaltyInv'
  OBVIOUS
<1>1. ASSUME UNCHANGED <<epoch, pc, loyalty, sEpoch, sLoyalty>> PROVE LoyaltyInv'
  BY <1>1 DEF LoyaltyInv, Within
<1>2. CASE UNCHANGED vars
  BY <1>1, <1>2 DEF vars, node, disk
<1>3. ASSUME NEW s \in Shares, NEW t \in Times, InvalidShare(s, t) PROVE LoyaltyInv'
  BY <1>1, <1>3 DEF InvalidShare, node, disk
<1>4. ASSUME NEW s \in Shares, NEW v \in Miners \cup {Nobody}, NEW t \in Times,
             RefusedShare(s, v, t)
      PROVE  LoyaltyInv'
  BY <1>1, <1>4 DEF RefusedShare, disk
<1>5. ASSUME NEW s \in Shares, NEW v \in Miners \cup {Nobody}, NEW t \in Times,
             AcceptedShare(s, v, t)
      PROVE  LoyaltyInv'
  <2>1. /\ pc = "run" /\ pc' = pc /\ epoch' = epoch
        /\ sEpoch' = sEpoch /\ sLoyalty' = sLoyalty
        /\ loyalty' = [loyalty EXCEPT ![MinerOf[s]] = Updated(@, epoch, TRUE)]
    BY <1>5 DEF AcceptedShare, Admitted, disk
  <2>2. /\ sEpoch \in Nat /\ epoch \in 0..sEpoch
        /\ MinerOf[s] \in Miners /\ Within(loyalty[MinerOf[s]])
    BY <2>1, PoolAssumption DEF LoyaltyInv
  <2>3. Within(Updated(loyalty[MinerOf[s]], epoch, TRUE))
    BY <2>2, UpdatedWithin
  <2> HIDE DEF Updated
  <2> QED BY <2>1, <2>3 DEF LoyaltyInv, Within
<1>6. ASSUME NEW m \in Miners, BondExpires(m) \/ Pay(m) \/ ResetShares(m) PROVE LoyaltyInv'
  BY <1>1, <1>6 DEF BondExpires, Pay, ResetShares, disk
<1>7. ASSUME NEW m \in Miners, CountLoyalty(m) PROVE LoyaltyInv'
  <2> DEFINE p == accounts[m].credited > 0
             l == Updated(loyalty[m], epoch - 1, p)
  <2>1. /\ pc = "loyalty" /\ pc' = pc /\ epoch' = epoch /\ sEpoch' = sEpoch
        /\ loyalty' = [loyalty EXCEPT ![m] = l]
        /\ sLoyalty' = [sLoyalty EXCEPT ![m] = loyalty'[m]]
    BY <1>7 DEF CountLoyalty
  <2>2. Within(l)
    <3>1. epoch - 1 = sEpoch /\ sEpoch \in Nat /\ Within(loyalty[m])
      BY <2>1 DEF LoyaltyInv
    <3>2. p \in BOOLEAN
      OBVIOUS
    <3> HIDE DEF p
    <3> QED BY <3>1, <3>2, UpdatedWithin
  <2> HIDE DEF l
  <2> QED BY <2>1, <2>2 DEF LoyaltyInv, Within
<1>8. CASE EndEpoch
  BY <1>8 DEF EndEpoch, LoyaltyInv, Within, disk
<1>9. CASE LoyaltyDone
  BY <1>9 DEF LoyaltyDone, LoyaltyInv, Within, disk
<1>10. CASE OpenEpoch
  BY <1>10 DEF OpenEpoch, LoyaltyInv, Within, disk
<1>11. CASE SaveEpoch
  <2>1. sEpoch' = sEpoch + 1 /\ pc' = "run" /\ UNCHANGED <<epoch, loyalty, sLoyalty>>
    BY <1>11 DEF SaveEpoch, LoyaltyInv
  <2>2. ASSUME NEW l, Within(l), sEpoch \in Nat
        PROVE  /\ l \in Loyalty /\ l.consecutive + l.missed <= l.last
               /\ l.last <= sEpoch'
    BY <2>1, <2>2 DEF Within, Loyalty
  <2>3. epoch' = sEpoch' /\ sEpoch' \in Nat
    BY <1>11, <2>1 DEF SaveEpoch, LoyaltyInv
  <2> QED BY <2>1, <2>2, <2>3 DEF LoyaltyInv, Within
<1>12. CASE Restart
  BY <1>12 DEF Restart, Rebonded, LoyaltyInv, Within, disk
<1> QED
  BY <1>2, <1>3, <1>4, <1>5, <1>6, <1>7, <1>8, <1>9, <1>10, <1>11, <1>12 DEF Next

(* An epoch is counted at most once in a miner's loyalty, wherever a kill    *)
(* falls.                                                                    *)
THEOREM LoyaltyCorrect == Spec => []LoyaltyCountsOnce
<1>1. LoyaltyInv => LoyaltyCountsOnce
  BY DEF LoyaltyInv, Within, LoyaltyCountsOnce
<1> QED BY <1>1, LoyaltyInvInit, LoyaltyInvStep, PTL DEF Spec

(* No saved loyalty is ahead of the saved epoch, so the process that ends    *)
(* the epoch again after a kill skips none.                                  *)
THEOREM SavedLoyaltyCorrect == Spec => []SavedLoyaltyNotAhead
<1>1. LoyaltyInv => SavedLoyaltyNotAhead
  BY DEF LoyaltyInv, Within, SavedLoyaltyNotAhead
<1> QED BY <1>1, LoyaltyInvInit, LoyaltyInvStep, PTL DEF Spec

-----------------------------------------------------------------------------
(* What the node keeps of each miner.                                        *)
AccountsInv ==
    /\ bonded \subseteq Miners /\ known \subseteq Miners /\ todo \subseteq known
    /\ sKnown \subseteq Miners /\ faulty \subseteq Miners
    /\ accounts \in [Miners -> Account] /\ sAccounts \in [Miners -> Account]
    /\ evicted \in [Miners -> Nat] /\ crashes \in Nat

(* The parts of an account one step may write. *)
LEMMA AccountParts ==
    ASSUME NEW a \in [Miners -> Account], NEW m \in Miners, NEW x \in Nat
    PROVE  /\ [a EXCEPT ![m].credited = x] \in [Miners -> Account]
           /\ [a EXCEPT ![m].bannedUntil = x] \in [Miners -> Account]
           /\ [a EXCEPT ![m].rewards = x] \in [Miners -> Account]
           /\ a[m].credited \in Nat /\ a[m].bannedUntil \in Nat /\ a[m].rewards \in Nat
BY DEF Account

(* What a refused share does to its miner's account. *)
LEMMA PunishFacts ==
    ASSUME AccountsInv, NEW m \in Miners, NEW t \in Times, Punish(m, t)
    PROVE  /\ accounts' \in [Miners -> Account]
           /\ \A n \in Miners : /\ accounts'[n].credited = accounts[n].credited
                                /\ accounts'[n].rewards = accounts[n].rewards
                                /\ n # m => accounts'[n] = accounts[n]
           /\ accounts'[m].bannedUntil
                 \in {accounts[m].bannedUntil, BanAfter(m, t, invalid', total')}
<1>1. accounts \in [Miners -> Account] /\ t \in Nat
  BY AccountsAssumption DEF AccountsInv
<1>2. CASE m \notin known
  BY <1>1, <1>2 DEF Punish
<1>3. CASE m \in known
  <2> DEFINE ban == BanAfter(m, t, invalid', total')
  <2>1. accounts' = [accounts EXCEPT ![m].bannedUntil = ban]
    BY <1>3 DEF Punish
  <2>2. ban \in {t + 3, t + 1, accounts[m].bannedUntil}
    BY DEF BanAfter
  <2>3. accounts[m].bannedUntil \in Nat
    BY <1>1, AccountParts
  <2>4. ban \in Nat
    BY <1>1, <2>2, <2>3
  <2> HIDE DEF ban
  <2>5. accounts' \in [Miners -> Account]
    BY <1>1, <2>1, <2>4, AccountParts
  <2>6. \A n \in Miners : accounts[n] \in Account /\ (n # m => accounts'[n] = accounts[n])
    BY <1>1, <2>1
  <2>7. accounts'[m] = [accounts[m] EXCEPT !.bannedUntil = ban]
    BY <1>1, <2>1
  <2>8. /\ accounts'[m].credited = accounts[m].credited
        /\ accounts'[m].rewards = accounts[m].rewards
        /\ accounts'[m].bannedUntil = ban
    BY <2>6, <2>7 DEF Account
  <2> QED BY <2>5, <2>6, <2>8 DEF ban
<1> QED BY <1>2, <1>3

(* The shares a miner is left with when room is made, and the evictions.     *)
LEMMA VictimFacts ==
    ASSUME PoolInv, NEW v \in Victims
    PROVE  /\ v \in Miners \cup {Nobody}
           /\ CountWithout(v) \in [Miners -> Nat]
           /\ \A m \in Miners :
                shareCount[m] = CountWithout(v)[m] + (IF m = v THEN 1 ELSE 0)
<1>1. shareCount \in [Miners -> Nat] /\ CountWithout(v) \in [Miners -> Nat]
  BY RoomIsMade DEF PoolInv, Good, Types
<1>2. v \in Miners \cup {Nobody}
  BY DEF Victims, LargestOrNone, Largest
<1>3. CASE v = Nobody
  BY <1>1, <1>3, PoolAssumption DEF CountWithout
<1>4. CASE v # Nobody
  <2>1. \A m \in Miners : CountWithout(v)[m] = IF m = v THEN shareCount[m] - 1 ELSE shareCount[m]
    BY <1>1, <1>2, <1>4 DEF CountWithout
  <2> QED BY <1>1, <1>2, <2>1
<1> QED BY <1>1, <1>2, <1>3, <1>4

EvictedNow(v) == IF v = Nobody THEN evicted ELSE [evicted EXCEPT ![v] = @ + 1]
LEMMA EvictedFacts ==
    ASSUME AccountsInv, NEW v \in Miners \cup {Nobody}
    PROVE  /\ EvictedNow(v) \in [Miners -> Nat]
           /\ \A m \in Miners : EvictedNow(v)[m] = evicted[m] + (IF m = v THEN 1 ELSE 0)
<1>1. evicted \in [Miners -> Nat]
  BY DEF AccountsInv
<1> QED BY <1>1, PoolAssumption DEF EvictedNow

(* The outcomes of add_share, seen from the accounts. *)
LEMMA RefusedFacts ==
    ASSUME PoolInv, AccountsInv, NEW s \in Shares, NEW v \in Miners \cup {Nobody},
           NEW t \in Times, RefusedShare(s, v, t)
    PROVE  /\ pc = "run" /\ MinerOf[s] \in Miners /\ Punish(MinerOf[s], t)
           /\ evicted' = EvictedNow(v) /\ invalid' = invalid
           /\ total' \in [Miners -> Nat]
           /\ \A m \in Miners : shareCount[m] = shareCount'[m] + (IF m = v THEN 1 ELSE 0)
           /\ UNCHANGED <<epoch, bonded, known, loyalty, pc, todo, disk, crashes, faulty>>
<1>1. /\ pc = "run" /\ MinerOf[s] \in Miners /\ Punish(MinerOf[s], t)
      /\ evicted' = EvictedNow(v)
      /\ UNCHANGED <<epoch, bonded, known, loyalty, pc, todo, disk, crashes, faulty>>
      /\ \/ WrongEpoch(s) /\ v = Nobody
         \/ OverLimit(s, v)
  BY PoolAssumption DEF RefusedShare, Admitted, EvictedNow
<1>2. /\ shareCount \in [Miners -> Nat] /\ total \in [Miners -> Nat]
  BY DEF PoolInv, Good, Types
<1>3. CASE WrongEpoch(s) /\ v = Nobody
  <2>1. UNCHANGED <<shareCount, invalid, total>>
    BY <1>3 DEF WrongEpoch, poolVars
  <2> QED BY <1>1, <1>2, <1>3, <2>1, PoolAssumption
<1>4. CASE OverLimit(s, v)
  <2>1. /\ v \in Victims /\ shareCount' = CountWithout(v) /\ invalid' = invalid
        /\ total' = [total EXCEPT ![MinerOf[s]] = @ + 1]
    BY <1>4 DEF OverLimit
  <2>2. total' \in [Miners -> Nat]
    BY <1>1, <1>2, <2>1
  <2> QED BY <1>1, <2>1, <2>2, VictimFacts
<1> QED BY <1>1, <1>3, <1>4

LEMMA AcceptedFacts ==
    ASSUME PoolInv, AccountsInv, NEW s \in Shares, NEW v \in Miners \cup {Nobody},
           NEW t \in Times, AcceptedShare(s, v, t)
    PROVE  /\ pc = "run" /\ MinerOf[s] \in Miners
           /\ evicted' = EvictedNow(v) /\ invalid' = invalid
           /\ accounts' \in [Miners -> Account]
           /\ known' = known \cup {MinerOf[s]}
           /\ \A m \in Miners :
                /\ shareCount'[m] = shareCount[m] - (IF m = v THEN 1 ELSE 0)
                                      + (IF m = MinerOf[s] THEN 1 ELSE 0)
                /\ accounts'[m].credited = accounts[m].credited
                                             + (IF m = MinerOf[s] THEN 1 ELSE 0)
                /\ accounts'[m].rewards = accounts[m].rewards
                /\ accounts'[m].bannedUntil = accounts[m].bannedUntil
           /\ UNCHANGED <<epoch, bonded, pc, todo, disk, crashes, faulty>>
<1> DEFINE n == MinerOf[s]
<1>1. /\ pc = "run" /\ n \in Miners /\ evicted' = EvictedNow(v) /\ invalid' = invalid
      /\ known' = known \cup {n}
      /\ v \in Victims /\ shareCount' = [CountWithout(v) EXCEPT ![n] = @ + 1]
      /\ accounts' = [accounts EXCEPT ![n].credited = @ + 1]
      /\ UNCHANGED <<epoch, bonded, pc, todo, disk, crashes, faulty>>
  BY PoolAssumption DEF AcceptedShare, Admitted, EvictedNow, Accept, Credit
<1> HIDE DEF n
<1>2. accounts \in [Miners -> Account] /\ accounts[n].credited + 1 \in Nat
  <2>1. accounts \in [Miners -> Account]
    BY DEF AccountsInv
  <2>2. accounts[n].credited \in Nat
    BY <1>1, <2>1 DEF Account
  <2> QED BY <2>1, <2>2
<1>3. accounts' \in [Miners -> Account]
  BY <1>1, <1>2, AccountParts
<1>4. ASSUME NEW m \in Miners
      PROVE  /\ accounts'[m].credited = accounts[m].credited + (IF m = n THEN 1 ELSE 0)
             /\ accounts'[m].rewards = accounts[m].rewards
             /\ accounts'[m].bannedUntil = accounts[m].bannedUntil
  <2>1. accounts[m] \in Account /\ accounts[m].credited \in Nat
    BY <1>2, AccountParts
  <2>2. CASE m = n
    <3>1. accounts'[n] = [accounts[n] EXCEPT !.credited = @ + 1]
      BY <1>1, <1>2
    <3> QED BY <2>1, <2>2, <3>1 DEF Account
  <2>3. CASE m # n
    BY <1>1, <1>2, <2>1, <2>3
  <2> QED BY <2>2, <2>3
<1>5. ASSUME NEW m \in Miners
      PROVE  shareCount'[m] = shareCount[m] - (IF m = v THEN 1 ELSE 0) + (IF m = n THEN 1 ELSE 0)
  <2>1. /\ CountWithout(v) \in [Miners -> Nat]
        /\ shareCount[m] = CountWithout(v)[m] + (IF m = v THEN 1 ELSE 0)
    BY <1>1, VictimFacts
  <2>2. shareCount'[m] = CountWithout(v)[m] + (IF m = n THEN 1 ELSE 0)
    BY <1>1, <2>1
  <2>3. CountWithout(v)[m] \in Nat
    BY <2>1
  <2> HIDE DEF n
  <2> QED BY <2>1, <2>2, <2>3
<1> QED BY <1>1, <1>3, <1>4, <1>5 DEF n

-----------------------------------------------------------------------------
LEMMA AccountsInvInit == Init => AccountsInv
BY AccountsAssumption DEF Init, AccountsInv, Account, NewAccount, Zeroes

LEMMA AccountsInvStep == PoolInv /\ AccountsInv /\ [Next]_vars => AccountsInv'
<1> SUFFICES ASSUME PoolInv, AccountsInv, [Next]_vars PROVE AccountsInv'
  OBVIOUS
<1>1. /\ bonded \subseteq Miners /\ known \subseteq Miners /\ todo \subseteq known
      /\ sKnown \subseteq Miners /\ faulty \subseteq Miners
      /\ accounts \in [Miners -> Account] /\ sAccounts \in [Miners -> Account]
      /\ evicted \in [Miners -> Nat] /\ crashes \in Nat
  BY DEF AccountsInv
<1>2. CASE UNCHANGED <<known, todo, accounts, sKnown, sAccounts, evicted, crashes, faulty>>
           /\ bonded' \subseteq Miners
  BY <1>1, <1>2 DEF AccountsInv
<1>3. UNCHANGED vars \/ LoyaltyDone \/ SaveEpoch \/ EndEpoch \/ OpenEpoch
        => /\ UNCHANGED <<known, bonded, accounts, sKnown, sAccounts, evicted, crashes, faulty>>
           /\ todo' \subseteq known
  BY <1>1 DEF vars, node, disk, history, LoyaltyDone, SaveEpoch, EndEpoch, OpenEpoch
<1>4. CASE UNCHANGED vars \/ LoyaltyDone \/ SaveEpoch \/ EndEpoch \/ OpenEpoch
  BY <1>1, <1>3, <1>4 DEF AccountsInv
<1>5. ASSUME NEW s \in Shares, NEW t \in Times, InvalidShare(s, t) PROVE AccountsInv'
  BY <1>1, <1>5, PoolAssumption DEF InvalidShare, AccountsInv, node, disk
<1>6. ASSUME NEW s \in Shares, NEW v \in Miners \cup {Nobody}, NEW t \in Times,
             RefusedShare(s, v, t)
      PROVE  AccountsInv'
  <2>1. /\ MinerOf[s] \in Miners /\ Punish(MinerOf[s], t) /\ evicted' = EvictedNow(v)
        /\ total' \in [Miners -> Nat] /\ invalid' = invalid
        /\ UNCHANGED <<epoch, bonded, known, loyalty, pc, todo, disk, crashes, faulty>>
    BY <1>6, RefusedFacts
  <2>2. evicted' \in [Miners -> Nat]
    BY <2>1, EvictedFacts
  <2>3. accounts' \in [Miners -> Account]
    BY <2>1, PunishFacts
  <2> QED BY <1>1, <2>1, <2>2, <2>3 DEF AccountsInv, disk
<1>7. ASSUME NEW s \in Shares, NEW v \in Miners \cup {Nobody}, NEW t \in Times,
             AcceptedShare(s, v, t)
      PROVE  AccountsInv'
  <2>1. /\ MinerOf[s] \in Miners /\ evicted' = EvictedNow(v)
        /\ accounts' \in [Miners -> Account] /\ known' = known \cup {MinerOf[s]}
        /\ UNCHANGED <<epoch, bonded, pc, todo, disk, crashes, faulty>>
    BY <1>7, AcceptedFacts
  <2>2. evicted' \in [Miners -> Nat]
    BY <2>1, EvictedFacts
  <2> QED BY <1>1, <2>1, <2>2 DEF AccountsInv, disk
<1>8. ASSUME NEW m \in Miners, BondExpires(m) PROVE AccountsInv'
  BY <1>1, <1>2, <1>8 DEF BondExpires, disk, history
<1>9. ASSUME NEW m \in Miners, Pay(m) PROVE AccountsInv'
  <2>1. /\ accounts' = [accounts EXCEPT ![m].rewards = @ + 1]
        /\ sAccounts' = [sAccounts EXCEPT ![m] = accounts'[m]]
        /\ sKnown' = sKnown \cup {m} /\ todo' = todo \ {m}
        /\ UNCHANGED <<bonded, known, evicted, crashes, faulty>>
    BY <1>9 DEF Pay, history
  <2>2. accounts[m].rewards + 1 \in Nat
    BY <1>1 DEF Account
  <2>3. accounts' \in [Miners -> Account]
    BY <1>1, <2>1, <2>2, AccountParts
  <2>4. sAccounts' \in [Miners -> Account]
    BY <1>1, <2>1, <2>3
  <2> QED BY <1>1, <2>1, <2>3, <2>4 DEF AccountsInv
<1>10. ASSUME NEW m \in Miners, CountLoyalty(m) PROVE AccountsInv'
  BY <1>1, <1>10 DEF CountLoyalty, history, AccountsInv
<1>11. ASSUME NEW m \in Miners, ResetShares(m) PROVE AccountsInv'
  <2>1. /\ accounts' = [accounts EXCEPT ![m].credited = 0]
        /\ sAccounts' = [sAccounts EXCEPT ![m] = accounts'[m]]
        /\ sKnown' = sKnown \cup {m} /\ todo' = todo \ {m}
        /\ evicted' = [evicted EXCEPT ![m] = 0]
        /\ UNCHANGED <<bonded, known, crashes, faulty>>
    BY <1>11 DEF ResetShares
  <2>2. accounts' \in [Miners -> Account]
    BY <1>1, <2>1, AccountParts
  <2>3. sAccounts' \in [Miners -> Account] /\ evicted' \in [Miners -> Nat]
    BY <1>1, <2>1, <2>2
  <2> QED BY <1>1, <2>1, <2>2, <2>3 DEF AccountsInv
<1>12. CASE Restart
  <2>1. /\ known' = sKnown /\ todo' = {} /\ evicted' = Zeroes
        /\ accounts' = [m \in Miners |-> IF m \in sKnown THEN sAccounts[m] ELSE NewAccount]
        /\ bonded' \in {bonded, bonded \cup {Self}}
        /\ crashes' \in {crashes, crashes + 1}
        /\ UNCHANGED <<sKnown, sAccounts, faulty>>
    BY <1>12 DEF Restart, Rebonded, disk
  <2>2. accounts' \in [Miners -> Account]
    BY <1>1, <2>1 DEF Account, NewAccount
  <2>3. bonded' \subseteq Miners /\ evicted' \in [Miners -> Nat] /\ crashes' \in Nat
    BY <1>1, <2>1, AccountsAssumption DEF Zeroes
  <2> QED BY <1>1, <2>1, <2>2, <2>3 DEF AccountsInv
<1> QED
  BY <1>4, <1>5, <1>6, <1>7, <1>8, <1>9, <1>10, <1>11, <1>12 DEF Next

(* The node's fields and what it saves keep their types, through every       *)
(* outcome of add_share and every part of process_epoch_end.                 *)
NodeInv == PoolInv /\ LoyaltyInv /\ AccountsInv
LEMMA NodeInvInit == Init => NodeInv
BY PoolInvInit, LoyaltyInvInit, AccountsInvInit DEF Init, NodeInv
LEMMA NodeInvStep == NodeInv /\ [Next]_vars => NodeInv'
BY StepUsesPool, PoolInvStep, LoyaltyInvStep, AccountsInvStep DEF NodeInv

THEOREM AccountsTypeCorrect == Spec => []AccountsTypeOK
<1>1. NodeInv => AccountsTypeOK
  <2> SUFFICES ASSUME NodeInv PROVE AccountsTypeOK
    OBVIOUS
  <2>1. PoolTypeOK
    BY PoolInvMeaning DEF NodeInv
  <2>2. /\ sEpoch \in Nat /\ epoch \in Nat /\ loyalty \in [Miners -> Loyalty]
        /\ sLoyalty \in [Miners -> Loyalty] /\ pc \in {"run", "pay", "loyalty", "reset"}
    BY DEF NodeInv, LoyaltyInv
  <2> QED BY <2>1, <2>2 DEF NodeInv, AccountsInv, AccountsTypeOK
<1> QED BY <1>1, NodeInvInit, NodeInvStep, PTL DEF Spec

(* What the three parts of process_epoch_end that write accounts do.         *)
LEMMA PayFacts ==
    ASSUME AccountsInv, NEW m \in Miners, Pay(m)
    PROVE  /\ pc = "pay" /\ m \in todo /\ sKnown' = sKnown \cup {m} /\ todo' = todo \ {m}
           /\ \A n \in Miners :
                /\ accounts'[n].credited = accounts[n].credited
                /\ accounts'[n].bannedUntil = accounts[n].bannedUntil
                /\ accounts'[n].rewards = accounts[n].rewards + (IF n = m THEN 1 ELSE 0)
                /\ sAccounts'[n] = IF n = m THEN accounts'[n] ELSE sAccounts[n]
           /\ UNCHANGED <<poolVars, epoch, bonded, known, loyalty, pc, sEpoch, sLoyalty, history>>
<1>1. /\ accounts' = [accounts EXCEPT ![m].rewards = @ + 1]
      /\ sAccounts' = [sAccounts EXCEPT ![m] = accounts'[m]]
  BY DEF Pay
<1>2. accounts \in [Miners -> Account] /\ sAccounts \in [Miners -> Account]
  BY DEF AccountsInv
<1>3. \A n \in Miners : accounts'[n] = IF n = m THEN [accounts[m] EXCEPT !.rewards = @ + 1]
                                        ELSE accounts[n]
  BY <1>1, <1>2
<1>4. \A n \in Miners : accounts[n] \in Account /\ accounts[n].rewards \in Nat
  BY <1>2 DEF Account
<1>5. \A n \in Miners :
        /\ accounts'[n].credited = accounts[n].credited
        /\ accounts'[n].bannedUntil = accounts[n].bannedUntil
        /\ accounts'[n].rewards = accounts[n].rewards + (IF n = m THEN 1 ELSE 0)
  BY <1>3, <1>4 DEF Account
<1>6. \A n \in Miners : sAccounts'[n] = IF n = m THEN accounts'[n] ELSE sAccounts[n]
  BY <1>1, <1>2
<1> QED BY <1>5, <1>6 DEF Pay

LEMMA ResetFacts ==
    ASSUME AccountsInv, NEW m \in Miners, ResetShares(m)
    PROVE  /\ pc = "reset" /\ m \in todo /\ sKnown' = sKnown \cup {m} /\ todo' = todo \ {m}
           /\ \A n \in Miners :
                /\ accounts'[n].credited = IF n = m THEN 0 ELSE accounts[n].credited
                /\ accounts'[n].bannedUntil = accounts[n].bannedUntil
                /\ accounts'[n].rewards = accounts[n].rewards
                /\ sAccounts'[n] = IF n = m THEN accounts'[n] ELSE sAccounts[n]
                /\ evicted'[n] = IF n = m THEN 0 ELSE evicted[n]
           /\ UNCHANGED <<poolVars, epoch, bonded, known, loyalty, pc, sEpoch, sLoyalty,
                          crashes, faulty>>
<1>1. /\ accounts' = [accounts EXCEPT ![m].credited = 0]
      /\ sAccounts' = [sAccounts EXCEPT ![m] = accounts'[m]]
      /\ evicted' = [evicted EXCEPT ![m] = 0]
  BY DEF ResetShares
<1>2. /\ accounts \in [Miners -> Account] /\ sAccounts \in [Miners -> Account]
      /\ evicted \in [Miners -> Nat]
  BY DEF AccountsInv
<1>3. \A n \in Miners : accounts'[n] = IF n = m THEN [accounts[m] EXCEPT !.credited = 0]
                                        ELSE accounts[n]
  BY <1>1, <1>2
<1>4. \A n \in Miners : accounts[n] \in Account
  BY <1>2
<1>5. \A n \in Miners :
        /\ accounts'[n].credited = IF n = m THEN 0 ELSE accounts[n].credited
        /\ accounts'[n].bannedUntil = accounts[n].bannedUntil
        /\ accounts'[n].rewards = accounts[n].rewards
  BY <1>3, <1>4 DEF Account
<1>6. \A n \in Miners : sAccounts'[n] = IF n = m THEN accounts'[n] ELSE sAccounts[n]
  BY <1>1, <1>2
<1>7. \A n \in Miners : evicted'[n] = IF n = m THEN 0 ELSE evicted[n]
  BY <1>1, <1>2
<1> QED BY <1>5, <1>6, <1>7 DEF ResetShares

LEMMA RestartFacts ==
    ASSUME AccountsInv, Restart
    PROVE  /\ pc' = "run" /\ epoch' = sEpoch /\ known' = sKnown /\ todo' = {}
           /\ crashes' = IF pc = "run" THEN crashes ELSE crashes + 1
           /\ \A n \in Miners :
                /\ accounts'[n] = IF n \in sKnown THEN sAccounts[n] ELSE NewAccount
                /\ shareCount'[n] = 0 /\ evicted'[n] = 0 /\ invalid'[n] = 0
           /\ UNCHANGED <<disk, faulty>>
BY DEF Restart, FreshPool, Zeroes

-----------------------------------------------------------------------------
(* The credits of the node's miners against the shares of its pool, while no *)
(* kill has fallen inside an epoch end: the pool forgets its shares at       *)
(* OpenEpoch, the credits go one by one after it, and every miner saved      *)
(* while the epoch ended is saved again with none.                           *)
CreditInv ==
    crashes = 0 =>
        /\ \A m \in Miners \ known : accounts[m].credited = 0 /\ evicted[m] = 0
        /\ sKnown \subseteq known
        /\ pc \in {"run", "pay"} =>
             \A m \in Miners : accounts[m].credited = shareCount[m] + evicted[m]
        /\ pc \in {"loyalty", "reset"} => \A m \in Miners : shareCount[m] = 0
        /\ pc = "run" => \A m \in sKnown : sAccounts[m].credited = 0
        /\ pc = "reset" =>
             /\ \A m \in Miners \ todo : accounts[m].credited = 0 /\ evicted[m] = 0
             /\ \A m \in sKnown \ todo : sAccounts[m].credited = 0

LEMMA CreditInvInit == Init => CreditInv
BY DEF Init, CreditInv, PoolInit, NewAccount, Zeroes

LEMMA CreditInvStep == NodeInv /\ CreditInv /\ [Next]_vars => CreditInv'
<1> SUFFICES ASSUME NodeInv, CreditInv, [Next]_vars, crashes' = 0 PROVE CreditInv'
  BY DEF CreditInv
<1>1. /\ PoolInv /\ AccountsInv /\ known \subseteq Miners /\ todo \subseteq known
      /\ sKnown \subseteq Miners /\ crashes \in Nat
      /\ \A m \in Miners : /\ accounts[m].credited \in Nat /\ evicted[m] \in Nat
                           /\ shareCount[m] \in Nat
  BY DEF NodeInv, AccountsInv, Account, PoolInv, Good, Types
<1>2. crashes = 0 /\ (Restart => pc = "run")
  <2>1. crashes' = crashes \/ Restart
    BY DEF Next, vars, history, InvalidShare, RefusedShare, AcceptedShare, BondExpires, EndEpoch,
       Pay, CountLoyalty, ResetShares, OpenEpoch, LoyaltyDone, SaveEpoch
  <2>2. Restart => crashes' = IF pc = "run" THEN crashes ELSE crashes + 1
    BY DEF Restart
  <2> QED BY <1>1, <2>1, <2>2
<1>3. /\ \A m \in Miners \ known : accounts[m].credited = 0 /\ evicted[m] = 0
      /\ sKnown \subseteq known
      /\ pc \in {"run", "pay"} =>
           \A m \in Miners : accounts[m].credited = shareCount[m] + evicted[m]
      /\ pc \in {"loyalty", "reset"} => \A m \in Miners : shareCount[m] = 0
      /\ pc = "run" => \A m \in sKnown : sAccounts[m].credited = 0
      /\ pc = "reset" =>
           /\ \A m \in Miners \ todo : accounts[m].credited = 0 /\ evicted[m] = 0
           /\ \A m \in sKnown \ todo : sAccounts[m].credited = 0
  BY <1>2 DEF CreditInv
<1>4. CASE UNCHANGED <<known, accounts, sKnown, sAccounts, evicted, shareCount, todo, pc>>
  BY <1>3, <1>4 DEF CreditInv
<1>5. CASE UNCHANGED vars
  BY <1>4, <1>5 DEF vars, node, disk, history, poolVars
<1>6. ASSUME NEW s \in Shares, NEW t \in Times, InvalidShare(s, t) PROVE CreditInv'
  BY <1>4, <1>6 DEF InvalidShare, CountInvalid, node, disk
<1>7. ASSUME NEW s \in Shares, NEW v \in Miners \cup {Nobody}, NEW t \in Times,
             RefusedShare(s, v, t)
      PROVE  CreditInv'
  <2>1. /\ pc = "run" /\ evicted' = EvictedNow(v)
        /\ \A m \in Miners : shareCount[m] = shareCount'[m] + (IF m = v THEN 1 ELSE 0)
        /\ UNCHANGED <<known, pc, todo, sKnown, sAccounts>>
    BY <1>1, <1>7, RefusedFacts DEF disk
  <2>2. \A m \in Miners : accounts'[m].credited = accounts[m].credited
    BY <1>1, <1>7, RefusedFacts, PunishFacts
  <2>3. \A m \in Miners : evicted'[m] = evicted[m] + (IF m = v THEN 1 ELSE 0)
    BY <1>1, <2>1, EvictedFacts
  <2>4. \A m \in Miners : shareCount'[m] \in Nat
    <3>1. PoolInv'
      BY StepUsesPool, PoolInvStep, <1>1
    <3> QED BY <3>1 DEF PoolInv, Good, Types
  <2>5. ASSUME NEW m \in Miners PROVE accounts'[m].credited = shareCount'[m] + evicted'[m]
    <3>1. accounts[m].credited = shareCount[m] + evicted[m]
      BY <1>3, <2>1
    <3>2. evicted[m] \in Nat /\ shareCount'[m] \in Nat
      BY <1>1, <2>4
    <3>3. shareCount[m] = shareCount'[m] + (IF m = v THEN 1 ELSE 0)
      BY <2>1
    <3> QED BY <2>2, <2>3, <3>1, <3>2, <3>3
  <2>6. \A m \in Miners \ known : evicted'[m] = 0 /\ accounts'[m].credited = 0
    <3> SUFFICES ASSUME NEW m \in Miners \ known
                 PROVE  evicted'[m] = 0 /\ accounts'[m].credited = 0
      OBVIOUS
    <3>1. accounts[m].credited = 0 /\ evicted[m] = 0 /\ shareCount[m] = 0
      BY <1>1, <1>3, <2>1
    <3>2. m # v
      BY <2>1, <2>4, <3>1
    <3> QED BY <2>2, <2>3, <3>1, <3>2
  <2> QED BY <1>3, <2>1, <2>5, <2>6 DEF CreditInv
<1>8. ASSUME NEW s \in Shares, NEW v \in Miners \cup {Nobody}, NEW t \in Times,
             AcceptedShare(s, v, t)
      PROVE  CreditInv'
  <2> DEFINE n == MinerOf[s]
  <2>1. /\ pc = "run" /\ n \in Miners /\ evicted' = EvictedNow(v)
        /\ known' = known \cup {n}
        /\ \A m \in Miners :
             /\ shareCount'[m] = shareCount[m] - (IF m = v THEN 1 ELSE 0) + (IF m = n THEN 1 ELSE 0)
             /\ accounts'[m].credited = accounts[m].credited + (IF m = n THEN 1 ELSE 0)
        /\ UNCHANGED <<pc, todo, sKnown, sAccounts>>
    BY <1>1, <1>8, AcceptedFacts DEF disk
  <2> HIDE DEF n
  <2>2. \A m \in Miners : evicted'[m] = evicted[m] + (IF m = v THEN 1 ELSE 0)
    BY <1>1, <2>1, EvictedFacts
  <2>3. \A m \in Miners : accounts'[m].credited = shareCount'[m] + evicted'[m]
    BY <1>1, <1>3, <2>1, <2>2
  <2>4. \A m \in Miners \ known' : evicted'[m] = 0 /\ accounts'[m].credited = 0
    <3> SUFFICES ASSUME NEW m \in Miners \ known, m # n
                 PROVE  evicted'[m] = 0 /\ accounts'[m].credited = 0
      BY <2>1
    <3>1. accounts[m].credited = 0 /\ evicted[m] = 0 /\ shareCount[m] = 0
      BY <1>1, <1>3, <2>1
    <3>2. \A k \in Miners : shareCount'[k] \in Nat
      <4>1. PoolInv'
        BY StepUsesPool, PoolInvStep, <1>1
      <4> QED BY <4>1 DEF PoolInv, Good, Types
    <3>3. m # v
      BY <2>1, <3>1, <3>2
    <3> QED BY <2>1, <2>2, <3>1, <3>3
  <2> QED BY <1>3, <2>1, <2>3, <2>4 DEF CreditInv
<1>9. ASSUME NEW m \in Miners, BondExpires(m) PROVE CreditInv'
  BY <1>4, <1>9 DEF BondExpires, poolVars, disk, history
<1>10. CASE EndEpoch
  <2>1. pc = "run" /\ pc' = "pay"
        /\ UNCHANGED <<known, accounts, sKnown, sAccounts, evicted, shareCount>>
    BY <1>10 DEF EndEpoch, poolVars, disk, history
  <2> QED BY <1>3, <2>1 DEF CreditInv
<1>11. ASSUME NEW m \in Miners, Pay(m) PROVE CreditInv'
  <2>1. /\ pc = "pay" /\ pc' = pc /\ m \in todo /\ sKnown' = sKnown \cup {m}
        /\ \A n \in Miners : accounts'[n].credited = accounts[n].credited
        /\ UNCHANGED <<known, evicted, shareCount>>
    BY <1>1, <1>11, PayFacts DEF poolVars, history
  <2> QED BY <1>1, <1>3, <2>1 DEF CreditInv
<1>12. CASE OpenEpoch
  <2>1. /\ pc' = "loyalty" /\ \A m \in Miners : shareCount'[m] = 0
        /\ UNCHANGED <<known, accounts, sKnown, sAccounts, evicted>>
    BY <1>12 DEF OpenEpoch, NewEpoch, Zeroes, disk, history
  <2> QED BY <1>3, <2>1 DEF CreditInv
<1>13. ASSUME NEW m \in Miners, CountLoyalty(m) PROVE CreditInv'
  <2>1. /\ pc = "loyalty" /\ pc' = "loyalty"
        /\ UNCHANGED <<known, accounts, sKnown, sAccounts, evicted, shareCount>>
    BY <1>13 DEF CountLoyalty, poolVars, history
  <2> QED BY <1>3, <2>1 DEF CreditInv
<1>14. CASE LoyaltyDone
  <2>1. /\ pc = "loyalty" /\ pc' = "reset" /\ todo' = known
        /\ UNCHANGED <<known, accounts, sKnown, sAccounts, evicted, shareCount>>
    BY <1>14 DEF LoyaltyDone, poolVars, disk, history
  <2> QED BY <1>3, <2>1 DEF CreditInv
<1>15. ASSUME NEW m \in Miners, ResetShares(m) PROVE CreditInv'
  <2>1. /\ pc = "reset" /\ pc' = "reset" /\ m \in todo
        /\ sKnown' = sKnown \cup {m} /\ todo' = todo \ {m}
        /\ \A n \in Miners :
             /\ accounts'[n].credited = IF n = m THEN 0 ELSE accounts[n].credited
             /\ sAccounts'[n] = IF n = m THEN accounts'[n] ELSE sAccounts[n]
             /\ evicted'[n] = IF n = m THEN 0 ELSE evicted[n]
        /\ UNCHANGED <<known, shareCount>>
    BY <1>1, <1>15, ResetFacts DEF poolVars
  <2> QED BY <1>1, <1>3, <2>1 DEF CreditInv
<1>16. CASE SaveEpoch
  <2>1. /\ pc = "reset" /\ pc' = "run" /\ todo = {}
        /\ UNCHANGED <<known, accounts, sKnown, sAccounts, evicted, shareCount>>
    BY <1>16 DEF SaveEpoch, poolVars, history
  <2>2. \A m \in Miners : accounts[m].credited = 0 + 0 /\ evicted[m] = 0 /\ shareCount[m] = 0
    BY <1>3, <2>1
  <2> QED BY <1>3, <2>1, <2>2 DEF CreditInv
<1>17. CASE Restart
  <2>1. /\ pc = "run" /\ pc' = "run" /\ known' = sKnown
        /\ \A n \in Miners :
             /\ accounts'[n] = IF n \in sKnown THEN sAccounts[n] ELSE NewAccount
             /\ shareCount'[n] = 0 /\ evicted'[n] = 0
        /\ UNCHANGED <<sKnown, sAccounts>>
    BY <1>1, <1>2, <1>17, RestartFacts DEF disk
  <2>2. \A n \in Miners : accounts'[n].credited = 0
    BY <1>3, <2>1 DEF NewAccount
  <2> QED BY <1>3, <2>1, <2>2 DEF CreditInv
<1> QED
  BY <1>5, <1>6, <1>7, <1>8, <1>9, <1>10, <1>11, <1>12, <1>13, <1>14, <1>15, <1>16, <1>17 DEF Next

(* Between epoch ends a miner is credited for the shares the pool stores and *)
(* those it evicted, though the pool's counters and the node's are kept by   *)
(* different code and reset at different steps, and whatever restarts.       *)
THEOREM CreditsCorrect == Spec => []CreditsAreShares
<1>1. CreditInv => CreditsAreShares
  BY DEF CreditInv, CreditsAreShares
<1> QED BY <1>1, NodeInvInit, NodeInvStep, CreditInvInit, CreditInvStep, PTL DEF Spec

-----------------------------------------------------------------------------
(* The rewards paid.  A kill inside an epoch end makes the next process end  *)
(* the same epoch again, from the accounts as they were saved.               *)
RewardInv ==
    /\ PaidOncePerEpoch
    /\ sEpoch >= 1
    /\ \A m \in Miners :
         sAccounts[m].rewards <= (sEpoch - 1) + crashes + (IF pc = "run" THEN 0 ELSE 1)

LEMMA RewardInvInit == Init => RewardInv
BY DEF Init, RewardInv, PaidOncePerEpoch, NewAccount

LEMMA RewardInvStep == NodeInv /\ RewardInv /\ [Next]_vars => RewardInv'
<1> SUFFICES ASSUME NodeInv, RewardInv, [Next]_vars PROVE RewardInv'
  OBVIOUS
<1>1. /\ PoolInv /\ AccountsInv /\ todo \subseteq Miners
      /\ crashes \in Nat /\ sEpoch \in Nat /\ sEpoch >= 1
      /\ pc \in {"run", "pay", "loyalty", "reset"}
      /\ epoch = IF pc \in {"run", "pay"} THEN sEpoch ELSE sEpoch + 1
      /\ \A m \in Miners : accounts[m].rewards \in Nat /\ sAccounts[m].rewards \in Nat
  BY DEF NodeInv, LoyaltyInv, AccountsInv, Account, RewardInv
<1>2. \A m \in Miners :
        /\ accounts[m].rewards
             <= (epoch - 1) + crashes + (IF pc = "pay" /\ m \notin todo THEN 1 ELSE 0)
        /\ sAccounts[m].rewards <= (sEpoch - 1) + crashes + (IF pc = "run" THEN 0 ELSE 1)
  BY DEF RewardInv, PaidOncePerEpoch
<1>3. ASSUME UNCHANGED <<epoch, pc, todo, sEpoch, sAccounts, crashes>>,
             \A m \in Miners : accounts'[m].rewards = accounts[m].rewards
      PROVE  RewardInv'
  BY <1>1, <1>2, <1>3 DEF RewardInv, PaidOncePerEpoch
<1>4. CASE UNCHANGED vars
  BY <1>3, <1>4 DEF vars, node, disk, history
<1>5. ASSUME NEW s \in Shares, NEW t \in Times, InvalidShare(s, t) PROVE RewardInv'
  BY <1>3, <1>5 DEF InvalidShare, node, disk
<1>6. ASSUME NEW s \in Shares, NEW v \in Miners \cup {Nobody}, NEW t \in Times,
             RefusedShare(s, v, t)
      PROVE  RewardInv'
  <2>1. /\ MinerOf[s] \in Miners /\ Punish(MinerOf[s], t)
        /\ UNCHANGED <<epoch, pc, todo, sEpoch, sAccounts, crashes>>
    BY <1>1, <1>6, RefusedFacts DEF disk
  <2> QED BY <1>1, <1>3, <2>1, PunishFacts
<1>7. ASSUME NEW s \in Shares, NEW v \in Miners \cup {Nobody}, NEW t \in Times,
             AcceptedShare(s, v, t)
      PROVE  RewardInv'
  BY <1>1, <1>3, <1>7, AcceptedFacts DEF disk
<1>8. ASSUME NEW m \in Miners, BondExpires(m) PROVE RewardInv'
  BY <1>3, <1>8 DEF BondExpires, disk, history
<1>9. CASE EndEpoch
  <2>1. /\ pc = "run" /\ pc' = "pay"
        /\ UNCHANGED <<epoch, accounts, sEpoch, sAccounts, crashes>>
    BY <1>9 DEF EndEpoch, disk, history
  <2> QED BY <1>1, <1>2, <2>1 DEF RewardInv, PaidOncePerEpoch
<1>10. ASSUME NEW m \in Miners, Pay(m) PROVE RewardInv'
  <2>1. /\ pc = "pay" /\ pc' = pc /\ m \in todo /\ todo' = todo \ {m}
        /\ UNCHANGED <<epoch, sEpoch, crashes>>
        /\ \A n \in Miners :
             /\ accounts'[n].rewards = accounts[n].rewards + (IF n = m THEN 1 ELSE 0)
             /\ sAccounts'[n] = IF n = m THEN accounts'[n] ELSE sAccounts[n]
    BY <1>1, <1>10, PayFacts DEF history
  <2>2. ASSUME NEW n \in Miners
        PROVE  /\ accounts'[n].rewards
                    <= (epoch' - 1) + crashes' + (IF n \notin todo' THEN 1 ELSE 0)
               /\ sAccounts'[n].rewards <= (sEpoch' - 1) + crashes' + 1
    <3>1. CASE n = m
      BY <1>1, <1>2, <2>1, <3>1
    <3>2. CASE n # m
      BY <1>1, <1>2, <2>1, <3>2
    <3> QED BY <3>1, <3>2
  <2> QED BY <1>1, <2>1, <2>2 DEF RewardInv, PaidOncePerEpoch
<1>11. CASE OpenEpoch
  <2>1. /\ pc = "pay" /\ todo = {} /\ pc' = "loyalty" /\ epoch' = epoch + 1
        /\ UNCHANGED <<accounts, sEpoch, sAccounts, crashes>>
    BY <1>11 DEF OpenEpoch, disk, history
  <2> QED BY <1>1, <1>2, <2>1 DEF RewardInv, PaidOncePerEpoch
<1>12. CASE LoyaltyDone
  <2>1. /\ pc = "loyalty" /\ pc' = "reset"
        /\ UNCHANGED <<epoch, accounts, sEpoch, sAccounts, crashes>>
    BY <1>12 DEF LoyaltyDone, disk, history
  <2> QED BY <1>1, <1>2, <2>1 DEF RewardInv, PaidOncePerEpoch
<1>13. ASSUME NEW m \in Miners, CountLoyalty(m) PROVE RewardInv'
  <2>1. /\ pc = "loyalty" /\ pc' = pc
        /\ UNCHANGED <<epoch, accounts, sEpoch, sAccounts, crashes>>
    BY <1>13 DEF CountLoyalty, history
  <2> QED BY <1>1, <1>2, <2>1 DEF RewardInv, PaidOncePerEpoch
<1>14. ASSUME NEW m \in Miners, ResetShares(m) PROVE RewardInv'
  <2>1. /\ pc = "reset" /\ pc' = pc /\ UNCHANGED <<epoch, sEpoch, crashes>>
        /\ \A n \in Miners :
             /\ accounts'[n].rewards = accounts[n].rewards
             /\ sAccounts'[n] = IF n = m THEN accounts'[n] ELSE sAccounts[n]
    BY <1>1, <1>14, ResetFacts
  <2>2. ASSUME NEW n \in Miners
        PROVE  /\ accounts'[n].rewards <= (epoch' - 1) + crashes'
               /\ sAccounts'[n].rewards <= (sEpoch' - 1) + crashes' + 1
    BY <1>1, <1>2, <2>1
  <2> QED BY <1>1, <2>1, <2>2 DEF RewardInv, PaidOncePerEpoch
<1>15. CASE SaveEpoch
  <2>1. /\ pc = "reset" /\ pc' = "run" /\ sEpoch' = epoch
        /\ UNCHANGED <<epoch, accounts, sAccounts, crashes>>
    BY <1>15 DEF SaveEpoch, history
  <2> QED BY <1>1, <1>2, <2>1 DEF RewardInv, PaidOncePerEpoch
<1>16. CASE Restart
  <2>1. /\ pc' = "run" /\ epoch' = sEpoch /\ UNCHANGED <<sEpoch, sAccounts>>
        /\ crashes' = IF pc = "run" THEN crashes ELSE crashes + 1
        /\ \A n \in Miners : accounts'[n] = IF n \in sKnown THEN sAccounts[n] ELSE NewAccount
    BY <1>1, <1>16, RestartFacts DEF disk
  <2> QED BY <1>1, <1>2, <2>1 DEF RewardInv, PaidOncePerEpoch, NewAccount
<1> QED
  BY <1>4, <1>5, <1>6, <1>7, <1>8, <1>9, <1>10, <1>11, <1>12, <1>13, <1>14, <1>15, <1>16 DEF Next

(* An epoch pays a miner once, and once more for every kill inside an epoch  *)
(* end, which makes the next process end that epoch again.                   *)
THEOREM RewardsBounded == Spec => []PaidOncePerEpoch
<1>1. RewardInv => PaidOncePerEpoch
  BY DEF RewardInv
<1> QED BY <1>1, NodeInvInit, NodeInvStep, RewardInvInit, RewardInvStep, PTL DEF Spec

-----------------------------------------------------------------------------
(* Bans.  The invariant adds that the pool has counted no invalid share for  *)
(* such a miner, so update_invalid_ratio finds a ratio of zero.              *)
FaultlessInv ==
    \A m \in Miners \ faulty :
        accounts[m].bannedUntil = 0 /\ sAccounts[m].bannedUntil = 0 /\ invalid[m] = 0

LEMMA FaultlessInvInit == Init => FaultlessInv
BY DEF Init, FaultlessInv, PoolInit, NewAccount, Zeroes

LEMMA FaultlessInvStep == NodeInv /\ FaultlessInv /\ [Next]_vars => FaultlessInv'
<1> SUFFICES ASSUME NodeInv, FaultlessInv, [Next]_vars PROVE FaultlessInv'
  OBVIOUS
<1>1. /\ PoolInv /\ AccountsInv /\ invalid \in [Miners -> Nat] /\ total \in [Miners -> Nat]
      /\ accounts \in [Miners -> Account] /\ sAccounts \in [Miners -> Account]
  BY DEF NodeInv, AccountsInv, PoolInv, Good, Types
<1>2. \A m \in Miners \ faulty :
        accounts[m].bannedUntil = 0 /\ sAccounts[m].bannedUntil = 0 /\ invalid[m] = 0
  BY DEF FaultlessInv
<1>3. ASSUME faulty \subseteq faulty',
             \A m \in Miners \ faulty' : /\ accounts'[m].bannedUntil = accounts[m].bannedUntil
                                         /\ sAccounts'[m].bannedUntil = sAccounts[m].bannedUntil
                                         /\ invalid'[m] \in {invalid[m], 0}
      PROVE  FaultlessInv'
  BY <1>2, <1>3 DEF FaultlessInv
<1>4. CASE UNCHANGED <<accounts, sAccounts, invalid, faulty>>
  BY <1>2, <1>4 DEF FaultlessInv
<1>5. UNCHANGED vars \/ EndEpoch \/ LoyaltyDone \/ SaveEpoch
        \/ (\E m \in Miners : BondExpires(m) \/ CountLoyalty(m))
        => UNCHANGED <<accounts, sAccounts, invalid, faulty>>
  BY DEF vars, node, disk, history, poolVars, EndEpoch, LoyaltyDone, SaveEpoch, BondExpires,
         CountLoyalty
<1>6. ASSUME NEW s \in Shares, NEW t \in Times, InvalidShare(s, t) PROVE FaultlessInv'
  <2>1. /\ invalid' = [invalid EXCEPT ![MinerOf[s]] = @ + 1]
        /\ faulty' = faulty \cup {MinerOf[s]}
        /\ UNCHANGED <<accounts, sAccounts>>
    BY <1>6 DEF InvalidShare, CountInvalid, node, disk
  <2> QED BY <1>1, <1>3, <2>1
<1>7. ASSUME NEW s \in Shares, NEW v \in Miners \cup {Nobody}, NEW t \in Times,
             RefusedShare(s, v, t)
      PROVE  FaultlessInv'
  <2> DEFINE n == MinerOf[s]
  <2>1. /\ n \in Miners /\ Punish(n, t) /\ invalid' = invalid /\ total' \in [Miners -> Nat]
        /\ UNCHANGED <<sAccounts, faulty>>
    BY <1>1, <1>7, RefusedFacts DEF disk
  <2> HIDE DEF n
  <2>2. /\ \A m \in Miners : m # n => accounts'[m] = accounts[m]
        /\ accounts'[n].bannedUntil
              \in {accounts[n].bannedUntil, BanAfter(n, t, invalid', total')}
    BY <1>1, <2>1, PunishFacts
  <2>3. n \notin faulty => accounts'[n].bannedUntil = 0
    <3> SUFFICES ASSUME n \notin faulty PROVE accounts'[n].bannedUntil = 0
      OBVIOUS
    <3>1. invalid'[n] = 0 /\ total'[n] \in Nat /\ accounts[n].bannedUntil = 0
      BY <1>2, <2>1
    <3>2. ~(10 * invalid'[n] > 3 * total'[n]) /\ ~(10 * invalid'[n] > total'[n])
      BY <3>1
    <3>3. BanAfter(n, t, invalid', total') = accounts[n].bannedUntil
      BY <3>2 DEF BanAfter
    <3> QED BY <2>2, <3>1, <3>3
  <2>4. \A m \in Miners \ faulty : accounts'[m].bannedUntil = 0
    BY <1>2, <2>2, <2>3
  <2> QED BY <1>2, <2>1, <2>4 DEF FaultlessInv
<1>8. ASSUME NEW s \in Shares, NEW v \in Miners \cup {Nobody}, NEW t \in Times,
             AcceptedShare(s, v, t)
      PROVE  FaultlessInv'
  BY <1>1, <1>3, <1>8, AcceptedFacts DEF disk
<1>9. ASSUME NEW m \in Miners, Pay(m) PROVE FaultlessInv'
  <2>1. /\ \A n \in Miners :
             /\ accounts'[n].bannedUntil = accounts[n].bannedUntil
             /\ sAccounts'[n] = IF n = m THEN accounts'[n] ELSE sAccounts[n]
        /\ UNCHANGED <<invalid, faulty>>
    BY <1>1, <1>9, PayFacts DEF poolVars, history
  <2> QED BY <1>2, <2>1 DEF FaultlessInv
<1>10. ASSUME NEW m \in Miners, ResetShares(m) PROVE FaultlessInv'
  <2>1. /\ \A n \in Miners :
             /\ accounts'[n].bannedUntil = accounts[n].bannedUntil
             /\ sAccounts'[n] = IF n = m THEN accounts'[n] ELSE sAccounts[n]
        /\ UNCHANGED <<invalid, faulty>>
    BY <1>1, <1>10, ResetFacts DEF poolVars
  <2> QED BY <1>2, <2>1 DEF FaultlessInv
<1>11. CASE OpenEpoch
  <2>1. /\ \A m \in Miners : invalid'[m] = 0
        /\ UNCHANGED <<accounts, sAccounts, faulty>>
    BY <1>11 DEF OpenEpoch, NewEpoch, Zeroes, disk, history
  <2> QED BY <1>3, <2>1
<1>12. CASE Restart
  <2>1. /\ \A n \in Miners :
             /\ accounts'[n] = IF n \in sKnown THEN sAccounts[n] ELSE NewAccount
             /\ invalid'[n] = 0
        /\ UNCHANGED <<sAccounts, faulty>>
    BY <1>1, <1>12, RestartFacts DEF disk
  <2> QED BY <1>2, <2>1 DEF FaultlessInv, NewAccount
<1> QED
  BY <1>4, <1>5, <1>6, <1>7, <1>8, <1>9, <1>10, <1>11, <1>12 DEF Next

(* A miner whose every share was valid when it came is never banned, however *)
(* many of them add_share refused for the epoch or the limit.                *)
THEOREM NoUnjustBan == Spec => []FaultlessNotBanned
<1>1. FaultlessInv => FaultlessNotBanned
  BY DEF FaultlessInv, FaultlessNotBanned
<1> QED BY <1>1, NodeInvInit, NodeInvStep, FaultlessInvInit, FaultlessInvStep, PTL DEF Spec
=============================================================================
