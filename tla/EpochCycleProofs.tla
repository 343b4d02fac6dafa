-------------------------- MODULE EpochCycleProofs --------------------------
(***************************************************************************)
(* The epoch cycle's properties, for any miners, shares, epoch length,     *)
(* limits and number of epochs.                                            *)
(***************************************************************************)
EXTENDS EpochCycle, FiniteSetTheorems, TLAPS

(* The heights of an epoch that starts at a multiple of the length: only the *)
(* one after its last is a multiple again.                                   *)
LEMMA NextMultiple ==
    ASSUME NEW b \in Nat \ {0}, NEW s \in Nat, s % b = 0, NEW k \in 1..b
    PROVE  (s + k) % b = 0 <=> k = b
<1> DEFINE q == s \div b
           r == (s + k) \div b
<1>1. q \in Int /\ r \in Int /\ s = b * q
  OBVIOUS
<1>2. s + k = b * r + ((s + k) % b) /\ (s + k) % b \in 0..(b - 1)
  OBVIOUS
<1>3. k - ((s + k) % b) = b * (r - q)
  BY <1>1, <1>2
<1>4. r - q >= 2 => b * (r - q) >= 2 * b
  BY <1>1
<1>5. r - q <= 0 => b * (r - q) <= 0
  BY <1>1
<1>6. r - q = 1 => b * (r - q) = b
  BY <1>1
<1> HIDE DEF q, r
<1>7. CASE r - q = 1
  BY <1>1, <1>2, <1>3, <1>6, <1>7
<1>8. CASE r - q <= 0
  BY <1>1, <1>2, <1>3, <1>5, <1>8
<1>9. CASE r - q >= 2
  BY <1>1, <1>2, <1>3, <1>4, <1>9
<1> QED BY <1>1, <1>7, <1>8, <1>9

-----------------------------------------------------------------------------
(* Blocks and epochs.  The invariant adds that the block to come lies in the *)
(* current epoch, whose start is a multiple of the length.                   *)
Span(e) ==
    /\ e = [start |-> e.start, end |-> e.end, ended |-> e.ended,
            shares |-> e.shares, active |-> e.active]
    /\ e.start \in Nat /\ e.end = e.start + EpochBlocks - 1
ChainInv ==
    /\ current \in Nat \ {0} /\ labels \in Seq(Nat)
    /\ regEpoch \in Nat /\ RegistryLagsByOne
    /\ DOMAIN epochs = 1..current
    /\ \A e \in 1..current : Span(epochs[e])
    /\ epochs[current].start % EpochBlocks = 0
    /\ Contains(epochs[current], Len(labels))
    /\ BlocksInTheirEpoch

LEMMA ChainInit == CycleAssumption /\ Init => ChainInv
<1> SUFFICES ASSUME CycleAssumption, Init PROVE ChainInv
  OBVIOUS
<1>1. Span(NewEpoch(0)) /\ NewEpoch(0).start = 0 /\ NewEpoch(0).end = EpochBlocks - 1
  BY DEF CycleAssumption, Span, NewEpoch
<1>2. 0 % EpochBlocks = 0
  BY DEF CycleAssumption
<1> QED BY <1>1, <1>2 DEF CycleAssumption, Init, ChainInv, RegistryLagsByOne, Contains, BlocksInTheirEpoch

LEMMA ChainStep == CycleAssumption /\ ChainInv /\ [Next]_vars => ChainInv'
<1> SUFFICES ASSUME CycleAssumption, ChainInv, [Next]_vars PROVE ChainInv'
  OBVIOUS
<1>1. CASE UNCHANGED <<chain, regEpoch>>
  BY <1>1 DEF chain, ChainInv, RegistryLagsByOne, BlocksInTheirEpoch
<1>2. CASE AddBlock
  <2> DEFINE n == Len(labels)
             start == epochs[current].start
  <2>0. current \in Nat \ {0} /\ current \in 1..current /\ EpochBlocks \in Nat \ {0}
        /\ Span(epochs[current]) /\ Contains(epochs[current], n)
    BY DEF ChainInv, CycleAssumption
  <2>1. /\ n \in Nat /\ labels' = Append(labels, current)
        /\ labels' \in Seq(Nat) /\ Len(labels') = n + 1
        /\ \A i \in 1..n : labels'[i] = labels[i]
        /\ labels'[n + 1] = current
    BY <1>2 DEF AddBlock, ChainInv
  <2>2. start \in Nat /\ n - start + 1 \in 1..EpochBlocks
        /\ epochs[current].end = start + EpochBlocks - 1
    BY <2>0, <2>1 DEF Span, Contains
  <2>3. (n + 1) % EpochBlocks = 0 <=> n + 1 = start + EpochBlocks
    <3>1. (start + (n - start + 1)) % EpochBlocks = 0 <=> n - start + 1 = EpochBlocks
      <4>1. start % EpochBlocks = 0
        BY DEF ChainInv
      <4> HIDE DEF start, n
      <4> QED BY <2>0, <2>2, <4>1, NextMultiple, ZenonT(60)
    <3>2. start + (n - start + 1) = n + 1
      BY <2>1, <2>2
    <3> HIDE DEF start, n
    <3> QED BY <2>0, <2>1, <2>2, <3>1, <3>2
  <2>4. \A i \in DOMAIN labels' :
            labels'[i] \in 1..current /\ Contains(epochs[labels'[i]], i - 1)
    <3> SUFFICES ASSUME NEW i \in DOMAIN labels'
                 PROVE  labels'[i] \in 1..current /\ Contains(epochs[labels'[i]], i - 1)
      OBVIOUS
    <3>1. CASE i \in 1..n
      BY <2>1, <3>1 DEF ChainInv, BlocksInTheirEpoch
    <3>2. CASE i = n + 1
      BY <2>1, <3>2 DEF ChainInv
    <3> QED BY <2>1, <3>1, <3>2
  <2>5. CASE Len(labels') % EpochBlocks # 0
    <3>1. UNCHANGED <<current, epochs, regEpoch>>
      BY <1>2, <2>5 DEF AddBlock, registry
    <3>2. Contains(epochs[current], Len(labels'))
      <4>1. n + 1 # start + EpochBlocks
        BY <2>1, <2>3, <2>5
      <4> QED BY <2>0, <2>1, <2>2, <4>1, SMTT(30) DEF Contains
    <3> QED BY <2>1, <2>4, <3>1, <3>2 DEF ChainInv, RegistryLagsByOne, BlocksInTheirEpoch
  <2>6. CASE Len(labels') % EpochBlocks = 0
    <3>1. EndEpoch(n)
      BY <1>2, <2>6 DEF AddBlock
    <3>2. current' = current + 1 /\ regEpoch' = regEpoch + 1 /\ DOMAIN epochs' = 1..current'
      BY <3>1 DEF EndEpoch, NextRegistryEpoch
    <3>3. epochs'[current + 1] = NewEpoch(n + 1)
      BY <2>0, <3>1 DEF EndEpoch
    <3>4. \A e \in 1..current :
            Span(epochs'[e]) /\ epochs'[e].start = epochs[e].start /\ epochs'[e].end = epochs[e].end
      <4> SUFFICES ASSUME NEW e \in 1..current
                   PROVE  Span(epochs'[e]) /\ epochs'[e].start = epochs[e].start
                          /\ epochs'[e].end = epochs[e].end
        OBVIOUS
      <4>1. Span(epochs[e])
        BY DEF ChainInv
      <4>2. CASE e = current
        <5>1. epochs'[e] = Ended(epochs[e])
          BY <2>0, <3>1, <4>2 DEF EndEpoch
        <5> QED BY <4>1, <5>1 DEF Span, Ended
      <4>3. CASE e # current
        <5>1. epochs'[e] = epochs[e]
          BY <2>0, <3>1, <4>3 DEF EndEpoch
        <5> QED BY <4>1, <5>1
      <4> QED BY <4>2, <4>3
    <3>5. Span(epochs'[current + 1]) /\ epochs'[current + 1].start = n + 1
          /\ epochs'[current + 1].end = n + EpochBlocks
      BY <2>1, <3>3 DEF Span, NewEpoch, CycleAssumption
    <3>6. \A e \in 1..current' : Span(epochs'[e])
      BY <3>2, <3>4, <3>5 DEF ChainInv
    <3>7. Contains(epochs'[current'], Len(labels'))
      BY <2>1, <3>2, <3>5 DEF Contains, CycleAssumption
    <3>8. \A e \in 2..current' : epochs'[e].start = epochs'[e - 1].end + 1
      <4> SUFFICES ASSUME NEW e \in 2..current'
                   PROVE  epochs'[e].start = epochs'[e - 1].end + 1
        OBVIOUS
      <4>1. CASE e \in 2..current
        <5>1. e \in 1..current /\ e - 1 \in 1..current
          BY <2>0, <4>1
        <5>2. epochs[e].start = epochs[e - 1].end + 1
          BY <4>1 DEF ChainInv, BlocksInTheirEpoch
        <5> QED BY <3>4, <5>1, <5>2
      <4>2. CASE e = current + 1
        <5>1. e - 1 = current /\ n + 1 = start + EpochBlocks
          BY <2>0, <2>1, <2>3, <2>6, <4>2
        <5>2. epochs'[e].start = n + 1
          BY <3>5, <4>2
        <5>3. epochs'[e - 1].end = start + EpochBlocks - 1
          BY <2>0, <2>2, <3>4, <5>1
        <5> HIDE DEF n, start
        <5> QED BY <2>0, <2>1, <2>2, <5>1, <5>2, <5>3
      <4> QED BY <2>0, <3>2, <4>1, <4>2
    <3>9. \A i \in DOMAIN labels' :
            labels'[i] \in 1..current' /\ Contains(epochs'[labels'[i]], i - 1)
      BY <2>4, <3>2, <3>4 DEF ChainInv, Contains
    <3>10. epochs'[current'].start % EpochBlocks = 0
      BY <2>1, <2>6, <3>2, <3>5
    <3>11. RegistryLagsByOne' /\ current' \in Nat \ {0} /\ regEpoch' \in Nat
      BY <3>2 DEF ChainInv, RegistryLagsByOne
    <3> QED BY <2>1, <3>2, <3>6, <3>7, <3>8, <3>9, <3>10, <3>11 DEF ChainInv, BlocksInTheirEpoch
  <2> QED BY <2>5, <2>6
<1>3. ASSUME NEW s \in Shares, AddShare(s) PROVE UNCHANGED <<chain, regEpoch>>
  BY <1>3 DEF AddShare, registry
<1>4. ASSUME NEW m \in Miners, AddValidShare(m) \/ AddInvalidShare(m)
      PROVE  UNCHANGED <<chain, regEpoch>>
  BY <1>4 DEF AddValidShare, AddInvalidShare
<1>5. ASSUME NEW m \in Miners, NEW amount \in Nat, AddBond(m, amount)
      PROVE  UNCHANGED <<chain, regEpoch>>
  BY <1>5 DEF AddBond
<1>6. ASSUME NEW h \in Nat, SetHeight(h) PROVE UNCHANGED <<chain, regEpoch>>
  BY <1>6 DEF SetHeight
<1>7. CASE UNCHANGED vars
  BY <1>1, <1>7 DEF vars, chain
<1> QED BY <1>1, <1>2, <1>3, <1>4, <1>5, <1>6, <1>7 DEF Next

-----------------------------------------------------------------------------
(* The shares of the epoch.                                                  *)
SharesInv ==
    /\ SharesOfEpoch
    /\ hashes \subseteq Shares /\ IsFiniteSet(hashes)
    /\ \A m \in DOMAIN pool : pool[m] \in Seq(Shares)

LEMMA SharesInit == CycleAssumption /\ Init => SharesInv
<1>1. IsFiniteSet({}) /\ Cardinality({}) = 0
  BY FS_EmptySet
<1>2. DOMAIN << >> = {}
  OBVIOUS
<1> QED BY <1>1, <1>2 DEF Init, SharesInv, SharesOfEpoch

LEMMA SharesStep == CycleAssumption /\ SharesInv /\ [Next]_vars => SharesInv'
<1> SUFFICES ASSUME CycleAssumption, SharesInv, [Next]_vars PROVE SharesInv'
  OBVIOUS
<1>1. CASE UNCHANGED <<current, shares>>
  BY <1>1 DEF shares, SharesInv, SharesOfEpoch
<1>2. CASE AddBlock
  <2>1. CASE UNCHANGED <<current, shares>>
    BY <1>1, <2>1
  <2>2. CASE EndEpoch(Len(labels))
    <3>1. pool' = << >> /\ hashes' = {} /\ count' = 0
      BY <2>2 DEF EndEpoch
    <3>2. IsFiniteSet({}) /\ Cardinality({}) = 0 /\ DOMAIN << >> = {}
      BY FS_EmptySet
    <3> QED BY <3>1, <3>2 DEF SharesInv, SharesOfEpoch
  <2> QED BY <1>2, <2>1, <2>2 DEF AddBlock
<1>3. ASSUME NEW s \in Shares, AddShare(s) PROVE SharesInv'
  <2> DEFINE m == MinerOf[s]
             q == Append(Stored(m), s)
  <2>1. m \in Miners /\ PerMiner \in Nat
    BY DEF CycleAssumption
  <2>2. /\ EpochOf[s] = current /\ s \notin hashes /\ Len(Stored(m)) < PerMiner
        /\ hashes' = hashes \cup {s} /\ count' = count + 1 /\ current' = current
        /\ DOMAIN pool' = DOMAIN pool \cup {m} /\ pool'[m] = q
        /\ \A k \in DOMAIN pool : k # m => pool'[k] = pool[k]
    BY <1>3 DEF AddShare, OfCurrentEpoch, With, chain
  <2>3. /\ Stored(m) \in Seq(Shares)
        /\ \A i \in DOMAIN Stored(m) : Stored(m)[i] \in hashes /\ MinerOf[Stored(m)[i]] = m
    BY DEF Stored, SharesInv, SharesOfEpoch
  <2>4. /\ q \in Seq(Shares) /\ Len(q) <= PerMiner
        /\ \A i \in DOMAIN q : q[i] \in hashes' /\ MinerOf[q[i]] = m
    BY <2>1, <2>2, <2>3
  <2>5. IsFiniteSet(hashes') /\ Cardinality(hashes') = Cardinality(hashes) + 1
    BY <2>2, FS_AddElement DEF SharesInv
  <2> HIDE DEF m, q
  <2>6. ASSUME NEW k \in DOMAIN pool'
        PROVE  /\ pool'[k] \in Seq(Shares) /\ Len(pool'[k]) <= PerMiner
               /\ \A i \in DOMAIN pool'[k] : pool'[k][i] \in hashes' /\ MinerOf[pool'[k][i]] = k
    <3>1. CASE k = m
      BY <2>2, <2>4, <3>1
    <3>2. CASE k # m
      <4>1. k \in DOMAIN pool /\ pool'[k] = pool[k]
        BY <2>2, <3>2
      <4> QED BY <2>2, <4>1 DEF SharesInv, SharesOfEpoch
    <3> QED BY <3>1, <3>2
  <2> QED BY <2>2, <2>5, <2>6 DEF SharesInv, SharesOfEpoch
<1>4. ASSUME NEW m \in Miners, AddValidShare(m) \/ AddInvalidShare(m)
      PROVE  UNCHANGED <<current, shares>>
  BY <1>4 DEF AddValidShare, AddInvalidShare, chain
<1>5. ASSUME NEW m \in Miners, NEW amount \in Nat, AddBond(m, amount)
      PROVE  UNCHANGED <<current, shares>>
  BY <1>5 DEF AddBond, chain
<1>6. ASSUME NEW h \in Nat, SetHeight(h) PROVE UNCHANGED <<current, shares>>
  BY <1>6 DEF SetHeight, chain
<1>7. CASE UNCHANGED vars
  BY <1>1, <1>7 DEF vars, shares
<1> QED BY <1>1, <1>2, <1>3, <1>4, <1>5, <1>6, <1>7 DEF Next

-----------------------------------------------------------------------------
(* Loyalty.  A miner whose last epoch is ahead of the registry's was put     *)
(* there by a ban, and is still over the threshold: nothing resets its       *)
(* counters, and every share of its own moves its last epoch back.           *)
Counters(i) ==
    i \in [shares : Nat, loyalty : {i.loyalty}, bond : {i.bond},
           invalid : Nat, total : Nat, last : Nat]
OverThreshold(i) == i.total >= MinData /\ 10 * i.invalid > 3 * i.total
Disloyal(i, e) == Counters(i) /\ i.loyalty = 0 /\ (i.last <= e \/ OverThreshold(i))
LoyaltyInv == regEpoch \in Nat /\ \A m \in DOMAIN infos : Disloyal(infos[m], regEpoch)

LEMMA InfoOfDisloyal ==
    ASSUME LoyaltyInv, NEW m PROVE Disloyal(InfoOf(m), regEpoch)
<1>1. Disloyal(NewInfo, regEpoch)
  BY DEF LoyaltyInv, Disloyal, Counters, NewInfo
<1> QED BY <1>1 DEF LoyaltyInv, InfoOf

(* A share counts for the epoch it comes in. *)
LEMMA CountedDisloyal ==
    ASSUME NEW e \in Nat, NEW r, Disloyal(r, e), NEW a \in Nat, NEW b \in Nat
    PROVE  /\ Disloyal([r EXCEPT !.shares = a, !.total = b, !.last = e], e)
           /\ Disloyal([r EXCEPT !.invalid = a, !.total = b, !.last = e], e)
<1> DEFINE i == [r EXCEPT !.shares = a, !.total = b, !.last = e]
           j == [r EXCEPT !.invalid = a, !.total = b, !.last = e]
           R == [shares : Nat, loyalty : {0}, bond : {r.bond},
                 invalid : Nat, total : Nat, last : Nat]
<1>1. r \in R
  BY DEF Disloyal, Counters
<1>2. i \in R /\ i.last = e
  BY <1>1
<1>3. j \in R /\ j.last = e
  BY <1>1
<1> HIDE DEF i, j
<1>4. Disloyal(i, e)
  BY <1>2 DEF Disloyal, Counters
<1>5. Disloyal(j, e)
  BY <1>3 DEF Disloyal, Counters
<1> QED BY <1>4, <1>5 DEF i, j

(* Nothing decays to nothing. *)
LEMMA NoLoyaltyDecays ==
    ASSUME CycleAssumption PROVE Halved(0) = 0 /\ Decayed(0) = 0
<1>1. 0 \div 2 = 0 /\ (7 * 0) \div 10 = 0
  OBVIOUS
<1>2. Unit \in Nat \ {0}
  BY DEF CycleAssumption
<1>3. 0 \div Unit = 0
  BY <1>2
<1>4. Unit * 0 = 0
  BY <1>2
<1> QED BY <1>1, <1>3, <1>4 DEF Halved, Decayed

LEMMA EpochDisloyal ==
    ASSUME CycleAssumption, LoyaltyInv, NEW m \in DOMAIN infos
    PROVE  Disloyal(InfoAfter(m, regEpoch + 1), regEpoch + 1)
<1> DEFINE i == infos[m]
           j == InfoAfter(m, regEpoch + 1)
<1> SUFFICES Disloyal(j, regEpoch + 1)
  OBVIOUS
<1>1. Disloyal(i, regEpoch) /\ regEpoch \in Nat /\ BanEpochs \in Nat
  BY DEF LoyaltyInv, CycleAssumption
<1>2. m \in ToBan <=> OverThreshold(i)
  BY DEF ToBan, OverThreshold
<1>3. j = [i EXCEPT
            !.loyalty = IF m \in ToBan THEN 0 ELSE LoyaltyAfter(i, regEpoch + 1),
            !.last = IF m \in ToBan THEN regEpoch + 1 + BanEpochs ELSE @,
            !.bond = BondAfter(m)]
  BY DEF InfoAfter
<1> HIDE DEF j, i
<1>4a. j = [shares |-> i.shares,
           loyalty |-> IF m \in ToBan THEN 0 ELSE LoyaltyAfter(i, regEpoch + 1),
           bond |-> BondAfter(m), invalid |-> i.invalid, total |-> i.total,
           last |-> IF m \in ToBan THEN regEpoch + 1 + BanEpochs ELSE i.last]
  BY <1>1, <1>3 DEF Disloyal, Counters
<1>4. Counters(j)
  BY <1>1, <1>4a DEF Counters, Disloyal
<1>5. CASE OverThreshold(i)
  BY <1>2, <1>4a, <1>4, <1>5 DEF Disloyal, OverThreshold
<1>6. CASE ~OverThreshold(i)
  <2>1. i.last <= regEpoch /\ i.last # regEpoch + 1 /\ i.loyalty = 0
    BY <1>1, <1>6 DEF Disloyal, Counters
  <2>2. LoyaltyAfter(i, regEpoch + 1) = 0
    BY <2>1, NoLoyaltyDecays DEF LoyaltyAfter
  <2>3. j.loyalty = 0 /\ j.last <= regEpoch + 1
    BY <1>1, <1>2, <1>4a, <1>6, <2>1, <2>2 DEF Disloyal, Counters
  <2> QED BY <1>4, <2>3 DEF Disloyal
<1> QED BY <1>5, <1>6

LEMMA LoyaltyStep == CycleAssumption /\ LoyaltyInv /\ [Next]_vars => LoyaltyInv'
<1> SUFFICES ASSUME CycleAssumption, LoyaltyInv, [Next]_vars PROVE LoyaltyInv'
  OBVIOUS
<1>1. CASE UNCHANGED <<infos, regEpoch>>
  BY <1>1 DEF LoyaltyInv
<1>2. CASE AddBlock
  <2>1. CASE UNCHANGED registry
    BY <1>1, <2>1 DEF registry
  <2>2. CASE EndEpoch(Len(labels))
    <3>1. regEpoch' = regEpoch + 1
          /\ infos' = [m \in DOMAIN infos |-> InfoAfter(m, regEpoch + 1)]
      BY <2>2 DEF EndEpoch, NextRegistryEpoch
    <3> QED BY <3>1, EpochDisloyal DEF LoyaltyInv
  <2> QED BY <1>2, <2>1, <2>2 DEF AddBlock
<1>3. ASSUME NEW s \in Shares, AddShare(s) PROVE UNCHANGED <<infos, regEpoch>>
  BY <1>3 DEF AddShare, registry
<1>4. ASSUME NEW m \in Miners, NEW i, Disloyal(i, regEpoch), regEpoch' = regEpoch,
             infos' = With(infos, m, i)
      PROVE  LoyaltyInv'
  BY <1>4 DEF LoyaltyInv, With
<1>5. ASSUME NEW m \in Miners, AddValidShare(m) PROVE LoyaltyInv'
  <2> DEFINE r == InfoOf(m)
  <2>1. Disloyal(r, regEpoch) /\ regEpoch \in Nat
    BY InfoOfDisloyal DEF LoyaltyInv
  <2> HIDE DEF r
  <2>2. r.shares + 1 \in Nat /\ r.total + 1 \in Nat
    BY <2>1 DEF Disloyal, Counters
  <2>3. Disloyal([r EXCEPT !.shares = @ + 1, !.total = @ + 1, !.last = regEpoch], regEpoch)
    BY <2>1, <2>2, CountedDisloyal
  <2> QED BY <1>4, <1>5, <2>3 DEF AddValidShare, r
<1>6. ASSUME NEW m \in Miners, AddInvalidShare(m) PROVE LoyaltyInv'
  <2> DEFINE r == InfoOf(m)
  <2>1. Disloyal(r, regEpoch) /\ regEpoch \in Nat
    BY InfoOfDisloyal DEF LoyaltyInv
  <2> HIDE DEF r
  <2>2. r.invalid + 1 \in Nat /\ r.total + 1 \in Nat
    BY <2>1 DEF Disloyal, Counters
  <2>3. Disloyal([r EXCEPT !.invalid = @ + 1, !.total = @ + 1, !.last = regEpoch], regEpoch)
    BY <2>1, <2>2, CountedDisloyal
  <2> QED BY <1>4, <1>6, <2>3 DEF AddInvalidShare, r
<1>7. ASSUME NEW m \in Miners, NEW amount \in Nat, AddBond(m, amount) PROVE LoyaltyInv'
  <2> DEFINE i == [InfoOf(m) EXCEPT !.bond = @ + amount]
  <2>1. Disloyal(InfoOf(m), regEpoch)
    BY InfoOfDisloyal
  <2>2. Disloyal(i, regEpoch)
    BY <2>1 DEF Disloyal, Counters, OverThreshold
  <2> QED BY <1>4, <1>7, <2>2 DEF AddBond
<1>8. ASSUME NEW h \in Nat, SetHeight(h) PROVE UNCHANGED <<infos, regEpoch>>
  BY <1>8 DEF SetHeight
<1>9. CASE UNCHANGED vars
  BY <1>1, <1>9 DEF vars
<1> QED BY <1>1, <1>2, <1>3, <1>5, <1>6, <1>7, <1>8, <1>9 DEF Next

-----------------------------------------------------------------------------
(* Every block lies in the epoch its header names, and the epochs tile the   *)
(* heights, with the registry's counter one behind.                          *)
THEOREM EpochsTile ==
    ASSUME CycleAssumption PROVE Spec => [](BlocksInTheirEpoch /\ RegistryLagsByOne)
<1>1. Init => ChainInv
  BY ChainInit
<1>2. ChainInv /\ [Next]_vars => ChainInv'
  BY ChainStep
<1>3. ChainInv => BlocksInTheirEpoch /\ RegistryLagsByOne
  BY DEF ChainInv
<1> QED BY <1>1, <1>2, <1>3, PTL DEF Spec

(* The share pool of the cycle holds distinct shares of the current epoch.   *)
THEOREM EpochSharesCorrect ==
    ASSUME CycleAssumption PROVE Spec => []SharesOfEpoch
<1>1. Init => SharesInv
  BY SharesInit
<1>2. SharesInv /\ [Next]_vars => SharesInv'
  BY SharesStep
<1>3. SharesInv => SharesOfEpoch
  BY DEF SharesInv
<1> QED BY <1>1, <1>2, <1>3, PTL DEF Spec

(* No miner of the registry ever has any loyalty.                            *)
THEOREM NoLoyalty ==
    ASSUME CycleAssumption PROVE Spec => []LoyaltyNeverEarned
<1>1. Init => LoyaltyInv
  BY DEF Init, LoyaltyInv
<1>2. LoyaltyInv /\ [Next]_vars => LoyaltyInv'
  BY LoyaltyStep
<1>3. LoyaltyInv => LoyaltyNeverEarned
  BY DEF LoyaltyInv, Disloyal, LoyaltyNeverEarned
<1> QED BY <1>1, <1>2, <1>3, PTL DEF Spec
=============================================================================
