-------------------------- MODULE NodeLedgerProofs --------------------------
(***************************************************************************)
(* The ledger for any transactions, limits and bounds: the chain and the   *)
(* mempool wherever a kill falls, the UTXO set and what was accepted while *)
(* none falls inside a block's writes, and the abstract ledger the node    *)
(* implements.                                                             *)
(***************************************************************************)
EXTENDS NodeLedger, DataLemmas

(* The writes that follow save_block up to the one of the height: the block  *)
(* is stored and in memory, and not yet part of the saved chain.             *)
Writing == {"utxo", "reward", "epoch", "height"}
Saved == {"boot", "loop", "save_epoch", "save_mempool"}

Linked(n) ==
    \A h \in 1..n : stored[h].prev = IF h = 1 THEN GenesisId ELSE stored[h - 1].id

(* The inductive invariant.  It adds to the properties which block each part *)
(* of the handlers works on.                                                 *)
ChainInv ==
    /\ sHeight \in Nat /\ height \in Nat
    /\ \E S : stored \in Seq(S)
    /\ sHeight <= Len(stored)
    /\ Linked(sHeight)
    /\ pc \in {"down"} \cup Writing \cup Saved
    /\ pc \in Writing => height = sHeight + 1
    /\ pc \in Saved => height = sHeight
    /\ ~Down => height <= Len(stored) /\ blocks = SubSeq(stored, 1, height) /\ Linked(height)

LEMMA StoreAtFacts ==
    ASSUME NEW S, stored \in Seq(S), NEW b, NEW h \in Nat, h <= Len(stored)
    PROVE  LET s == StoreAt(h + 1, b)
           IN  /\ \E T : s \in Seq(T)
               /\ h + 1 <= Len(s)
               /\ s[h + 1] = b
               /\ \A i \in 1..h : s[i] = stored[i]
               /\ SubSeq(s, 1, h + 1) = Append(SubSeq(stored, 1, h), b)
<1> DEFINE s == StoreAt(h + 1, b)
<1>1. stored \in Seq(S \cup {b}) /\ Len(stored) \in Nat
  OBVIOUS
<1>2. /\ s \in Seq(S \cup {b}) /\ h + 1 \in 1..Len(s) /\ s[h + 1] = b
      /\ \A i \in 1..h : s[i] = stored[i]
  <2>1. CASE h + 1 = Len(stored) + 1
    BY <1>1, <2>1 DEF StoreAt
  <2>2. CASE h + 1 # Len(stored) + 1
    <3>1. h + 1 \in 1..Len(stored)
      BY <1>1, <2>2
    <3>2. s = [stored EXCEPT ![h + 1] = b]
      BY <2>2 DEF StoreAt
    <3> QED BY <1>1, <3>1, <3>2
  <2> QED BY <2>1, <2>2
<1> HIDE DEF s
<1>3. SubSeq(s, 1, h + 1) = Append(SubSeq(stored, 1, h), b)
  <2>1. /\ SubSeq(s, 1, h + 1) \in Seq(S \cup {b}) /\ Len(SubSeq(s, 1, h + 1)) = h + 1
        /\ \A i \in 1..(h + 1) : SubSeq(s, 1, h + 1)[i] = s[i]
    BY <1>2, PrefixFacts
  <2>2. /\ SubSeq(stored, 1, h) \in Seq(S \cup {b}) /\ Len(SubSeq(stored, 1, h)) = h
        /\ \A i \in 1..h : SubSeq(stored, 1, h)[i] = stored[i]
    BY <1>1, PrefixFacts
  <2> DEFINE p == SubSeq(s, 1, h + 1)
             q == SubSeq(stored, 1, h)
  <2>3. /\ Append(q, b) \in Seq(S \cup {b}) /\ Len(Append(q, b)) = h + 1
        /\ \A i \in 1..(h + 1) : Append(q, b)[i] = IF i = h + 1 THEN b ELSE q[i]
    BY <2>2
  <2> HIDE DEF p, q
  <2> QED BY <1>2, <2>1, <2>2, <2>3 DEF p, q
<1> QED BY <1>2, <1>3 DEF s

-----------------------------------------------------------------------------
LEMMA ChainInvInit == Init => ChainInv
BY DEF Init, ChainInv, Linked, Down, Writing, Saved

(* While the node is at rest, a block made on last_hash extends the chain. *)
LEMMA WriteBlockKeeps ==
    ASSUME ChainInv, pc = "loop", NEW b, b.prev = LastId, WriteBlock(b)
    PROVE  ChainInv'
<1>1. PICK S : stored \in Seq(S)
  BY DEF ChainInv
<1>2. /\ height \in Nat /\ height = sHeight /\ height <= Len(stored)
      /\ blocks = SubSeq(stored, 1, height) /\ Linked(height)
  BY DEF ChainInv, Saved, Down
<1>3. /\ stored' = StoreAt(height + 1, b) /\ blocks' = Append(blocks, b)
      /\ height' = height + 1 /\ sHeight' = sHeight /\ pc' = "utxo"
  BY DEF WriteBlock
<1>4. /\ \E T : stored' \in Seq(T)
      /\ height + 1 <= Len(stored')
      /\ stored'[height + 1] = b
      /\ \A i \in 1..height : stored'[i] = stored[i]
      /\ SubSeq(stored', 1, height + 1) = Append(SubSeq(stored, 1, height), b)
  BY <1>1, <1>2, <1>3, StoreAtFacts, ZenonT(60)
<1>5. b.prev = IF height = 0 THEN GenesisId ELSE stored[height].id
  <2>1. height \in 0..Len(stored)
    BY <1>1, <1>2
  <2>2. Len(blocks) = height /\ \A i \in 1..height : blocks[i] = stored[i]
    BY <1>1, <1>2, <2>1, PrefixFacts
  <2>3. blocks \in Seq(S)
    BY <1>1, <1>2, <2>1, PrefixFacts
  <2>4. CASE height = 0
    BY <2>2, <2>3, <2>4 DEF LastId
  <2>5. CASE height # 0
    BY <1>2, <2>2, <2>3, <2>5 DEF LastId, Last
  <2> QED BY <2>4, <2>5
<1>6. Linked(height)' /\ Linked(sHeight)'
  <2> SUFFICES ASSUME NEW h \in 1..(height + 1)
               PROVE  stored'[h].prev = IF h = 1 THEN GenesisId ELSE stored'[h - 1].id
    BY <1>2, <1>3 DEF Linked
  <2>1. CASE h = height + 1
    BY <1>2, <1>4, <1>5, <2>1
  <2>2. CASE h # height + 1
    <3>1. h \in 1..height /\ (h # 1 => h - 1 \in 1..height)
      BY <1>2, <2>2
    <3> QED BY <1>2, <1>4, <3>1 DEF Linked
  <2> QED BY <2>1, <2>2
<1>7. sHeight' <= Len(stored')
  <2>1. Len(stored') \in Nat
    BY <1>4
  <2> QED BY <1>2, <1>3, <1>4, <2>1
<1> QED BY <1>2, <1>3, <1>4, <1>6, <1>7 DEF ChainInv, Down, Writing, Saved

(* The writes that leave the chain and both heights alone. *)
LEMMA ChainUntouched ==
    ASSUME ChainInv, UNCHANGED <<stored, sHeight, blocks, height>>,
           \/ pc' = pc
           \/ pc \in Writing /\ pc' \in Writing
           \/ pc \in Saved /\ pc' \in Saved
           \/ pc' = "down"
    PROVE  ChainInv'
BY DEF ChainInv, Linked, Down, Writing, Saved

LEMMA ChainInvStep == ChainInv /\ [Next]_vars => ChainInv'
<1> SUFFICES ASSUME ChainInv, [Next]_vars PROVE ChainInv'
  OBVIOUS
<1>1. CASE UNCHANGED vars
  BY <1>1, ChainUntouched DEF vars, disk, memory
<1>2. ASSUME NEW t \in Txs, SubmitTx(t) PROVE ChainInv'
  BY <1>2, ChainUntouched DEF SubmitTx
<1>3. CASE MineBlock
  <2>1. PICK b : pc = "loop" /\ b.prev = LastId /\ WriteBlock(b)
    BY <1>3 DEF MineBlock
  <2> QED BY <2>1, WriteBlockKeeps
<1>4. ASSUME NEW ts \in PeerBlockTxs, PeerBlock(ts) PROVE ChainInv'
  <2>1. PICK b : pc = "loop" /\ b.prev = LastId /\ WriteBlock(b)
    BY <1>4 DEF PeerBlock
  <2> QED BY <2>1, WriteBlockKeeps
<1>5. CASE UpdateUtxo
  BY <1>5, ChainUntouched DEF UpdateUtxo, memory
<1>6. CASE ClearMempool
  BY <1>6, ChainUntouched DEF ClearMempool, Writing
<1>7. CASE PayReward
  BY <1>7, ChainUntouched DEF PayReward, memory, Writing
<1>8. CASE EndEpoch
  BY <1>8, ChainUntouched DEF EndEpoch, Writing
<1>9. CASE SaveHeight
  BY <1>9 DEF SaveHeight, ChainInv, Linked, memory, Down, Writing, Saved
<1>10. CASE SaveEpoch
  BY <1>10, ChainUntouched DEF SaveEpoch, memory, Saved
<1>11. CASE RetainMempool
  BY <1>11, ChainUntouched DEF RetainMempool, disk, Writing
<1>12. CASE SavePeerMempool
  BY <1>12, ChainUntouched DEF SavePeerMempool, memory, Saved
<1>13. CASE Kill
  BY <1>13 DEF Kill, ChainInv, Linked, disk, Down, Writing, Saved
<1>14. CASE Restart
  BY <1>14 DEF Restart, Chain, ChainInv, Linked, Down, Writing, Saved
<1>15. CASE EnterLoop
  BY <1>15, ChainUntouched DEF EnterLoop, disk, memory, Saved
<1> QED
  BY <1>1, <1>2, <1>3, <1>4, <1>5, <1>6, <1>7, <1>8, <1>9, <1>10, <1>11, <1>12,
     <1>13, <1>14, <1>15 DEF Next

(* Wherever a kill falls, a restart finds a whole chain of linked blocks.    *)
THEOREM ChainSurvives == Spec => []StoredChainLinked
<1>1. ChainInv => StoredChainLinked
  BY DEF ChainInv, StoredChainLinked, Linked
<1> QED BY <1>1, ChainInvInit, ChainInvStep, PTL DEF Spec

(* A running node's memory is the stored chain, restarts included.           *)
THEOREM MemoryAgrees == Spec => []MemoryIsStored
<1>1. ChainInv => MemoryIsStored
  <2> SUFFICES ASSUME ChainInv, ~Down
               PROVE  /\ Len(blocks) = height /\ height <= Len(stored)
                      /\ blocks = SubSeq(stored, 1, height)
                      /\ sHeight <= height /\ height <= sHeight + 1
    BY DEF MemoryIsStored
  <2>1. PICK S : stored \in Seq(S)
    BY DEF ChainInv
  <2>2. height \in 0..Len(stored) /\ blocks = SubSeq(stored, 1, height)
    BY <2>1 DEF ChainInv
  <2>3. Len(blocks) = height
    BY <2>1, <2>2, PrefixFacts
  <2> QED BY <2>2, <2>3 DEF ChainInv, Down, Writing, Saved
<1> QED BY <1>1, ChainInvInit, ChainInvStep, PTL DEF Spec

-----------------------------------------------------------------------------
(* The saved epoch while the main loop keeps the lock, so that every block   *)
(* comes from mine_block: a peer's block would pass the boundary with the    *)
(* epoch still open.                                                         *)
EpochInv ==
    /\ sEpoch \in Nat /\ epoch \in Nat
    /\ ~Down => sEpoch <= epoch
    /\ sHeight < sEpoch * EpochBlocks
    /\ pc = "height" => height < sEpoch * EpochBlocks
    /\ pc \in Writing => Last(blocks).maker = "self"

(* What products and remainders the boundary test needs. *)
LEMMA Boundary ==
    ASSUME NEW E \in Nat \ {0}, NEW e \in Nat, NEW f \in Nat, e <= f
    PROVE  /\ e * E \in Nat /\ e * E <= f * E
           /\ (f + 1) * E = f * E + E
           /\ (e * E) % E = 0
<1>1. e * E \in Nat /\ (f + 1) * E = f * E + E
  OBVIOUS
<1>2. e * E <= f * E
  OBVIOUS
<1>3. (e * E) % E = 0
  OBVIOUS
<1> QED BY <1>1, <1>2, <1>3

LEMMA EpochInvInit == Init => EpochInv
<1>1. EpochBlocks \in Nat \ {0} /\ 0 < 1 * EpochBlocks
  BY LedgerAssumption
<1> QED BY <1>1 DEF Init, EpochInv, Down, Writing

LEMMA EpochInvStep ==
    ASSUME ~SharedLock PROVE ChainInv /\ EpochInv /\ [Next]_vars => EpochInv'
<1> SUFFICES ASSUME ChainInv, EpochInv, [Next]_vars PROVE EpochInv'
  OBVIOUS
<1>0. /\ EpochBlocks \in Nat \ {0} /\ sHeight \in Nat /\ height \in Nat
      /\ sEpoch \in Nat /\ epoch \in Nat
  BY LedgerAssumption DEF ChainInv, EpochInv
<1>1. CASE UNCHANGED vars
  BY <1>1 DEF vars, disk, memory, EpochInv, Down
<1>2. ASSUME NEW t \in Txs, SubmitTx(t) PROVE EpochInv'
  BY <1>2 DEF SubmitTx, EpochInv, Down
<1>3. CASE MineBlock
  <2>1. PICK b : pc = "loop" /\ b.maker = "self" /\ WriteBlock(b)
    BY <1>3 DEF MineBlock
  <2>2. blocks' = Append(blocks, b) /\ pc' = "utxo"
        /\ UNCHANGED <<sHeight, sEpoch, epoch>>
    BY <2>1 DEF WriteBlock
  <2>3. Last(blocks') = b
    <3>1. PICK S : stored \in Seq(S)
      BY DEF ChainInv
    <3>2. height \in 0..Len(stored) /\ blocks = SubSeq(stored, 1, height)
      BY <2>1, <3>1 DEF ChainInv, Down
    <3>3. blocks \in Seq(S)
      BY <3>1, <3>2, PrefixFacts
    <3>4. blocks \in Seq(S \cup {b})
      BY <3>3
    <3> QED BY <2>2, <3>4 DEF Last
  <2> QED BY <2>1, <2>2, <2>3 DEF EpochInv, Down, Writing
<1>4. ASSUME NEW ts \in PeerBlockTxs, PeerBlock(ts) PROVE EpochInv'
  BY <1>4 DEF PeerBlock
<1>5. CASE UpdateUtxo
  BY <1>5 DEF UpdateUtxo, memory, EpochInv, Down
<1>6. CASE ClearMempool
  <2>1. /\ pc = "utxo" /\ UNCHANGED <<sHeight, sEpoch, epoch, height, blocks>>
        /\ pc' = IF height % EpochBlocks = 0 THEN "reward" ELSE "height"
    BY <1>6 DEF ClearMempool
  <2>2. height = sHeight + 1 /\ sHeight < sEpoch * EpochBlocks
    BY <2>1 DEF ChainInv, EpochInv, Writing
  <2>3. /\ sEpoch * EpochBlocks \in Nat
        /\ (sEpoch * EpochBlocks) % EpochBlocks = 0
    BY <1>0, Boundary
  <2>4. pc' = "height" => height < sEpoch * EpochBlocks
    <3> DEFINE E == sEpoch * EpochBlocks
    <3>1. CASE height = E
      <4>1. pc' = "reward"
        <5>1. height % EpochBlocks = 0
          BY <2>3, <3>1, Zenon
        <5> QED BY <2>1, <5>1
      <4> QED BY <4>1
    <3>2. CASE height # E
      <4>1. E \in Nat /\ height = sHeight + 1 /\ sHeight < E
        BY <2>2, <2>3
      <4>2. height < E
        <5> HIDE DEF E
        <5> QED BY <1>0, <3>2, <4>1
      <4> QED BY <4>2
    <3> QED BY <3>1, <3>2
  <2> QED BY <2>1, <2>4 DEF EpochInv, Down, Writing
<1>7. CASE PayReward
  BY <1>7 DEF PayReward, memory, EpochInv, Down, Writing
<1>8. CASE EndEpoch
  <2>1. /\ pc = "epoch" /\ pc' = "height" /\ epoch' = epoch + 1 /\ sEpoch' = epoch + 1
        /\ UNCHANGED <<sHeight, height, blocks>>
    BY <1>8 DEF EndEpoch
  <2>2. height = sHeight + 1 /\ sHeight < sEpoch * EpochBlocks /\ sEpoch <= epoch
    BY <2>1 DEF ChainInv, EpochInv, Writing, Down
  <2>3. /\ sEpoch * EpochBlocks \in Nat /\ sEpoch * EpochBlocks <= epoch * EpochBlocks
        /\ epoch * EpochBlocks \in Nat
        /\ (epoch + 1) * EpochBlocks = epoch * EpochBlocks + EpochBlocks
    BY <1>0, <2>2, Boundary
  <2>4. height < sEpoch' * EpochBlocks /\ sHeight < sEpoch' * EpochBlocks
    BY <1>0, <2>1, <2>2, <2>3
  <2> QED BY <1>0, <2>1, <2>4 DEF EpochInv, Writing, Down
<1>9. CASE SaveHeight
  BY <1>9 DEF SaveHeight, EpochInv, memory, Down, Writing
<1>10. CASE SaveEpoch
  <2>1. /\ pc = "save_epoch" /\ pc' = "loop" /\ sEpoch' = epoch
        /\ UNCHANGED <<sHeight, height, blocks, epoch>>
    BY <1>10 DEF SaveEpoch, memory
  <2>2. sHeight < sEpoch * EpochBlocks /\ sEpoch <= epoch
    BY <2>1 DEF EpochInv, Down
  <2>3. /\ sEpoch * EpochBlocks \in Nat /\ epoch * EpochBlocks \in Nat
        /\ sEpoch * EpochBlocks <= epoch * EpochBlocks
    BY <1>0, <2>2, Boundary
  <2>4. sHeight < epoch * EpochBlocks
    BY <1>0, <2>2, <2>3
  <2> QED BY <1>0, <2>1, <2>4 DEF EpochInv, Writing
<1>11. CASE RetainMempool
  BY <1>11 DEF RetainMempool, EpochInv, Writing
<1>12. CASE SavePeerMempool
  BY <1>12 DEF SavePeerMempool, memory, EpochInv, Down, Writing
<1>13. CASE Kill
  BY <1>13 DEF Kill, disk, EpochInv, Down, Writing
<1>14. CASE Restart
  <2>1. /\ pc' = "boot" /\ epoch' = sEpoch /\ sHeight' = sHeight
        /\ sEpoch' = IF sHeight = 0 THEN 1 ELSE sEpoch
    BY <1>14 DEF Restart, InitGenesis
  <2>2. sHeight < sEpoch * EpochBlocks
    BY DEF EpochInv
  <2>3. sEpoch # 0
    BY <1>0, <2>2
  <2>4. sHeight < sEpoch' * EpochBlocks /\ sEpoch' <= epoch' /\ sEpoch' \in Nat
    BY <1>0, <2>1, <2>2, <2>3
  <2> QED BY <1>0, <2>1, <2>4 DEF EpochInv, Writing
<1>15. CASE EnterLoop
  BY <1>15 DEF EnterLoop, disk, memory, EpochInv, Down, Writing
<1> QED
  BY <1>1, <1>2, <1>3, <1>4, <1>5, <1>6, <1>7, <1>8, <1>9, <1>10, <1>11, <1>12,
     <1>13, <1>14, <1>15 DEF Next

(* As long as the main loop keeps the lock, the saved epoch is never behind  *)
(* the saved height: a boundary block is never the saved tip of an epoch     *)
(* that a restart would find still open.                                     *)
THEOREM EpochSavedFirst == ASSUME ~SharedLock PROVE Spec => []EpochNotBehind
<1>1. EpochInv => EpochNotBehind
  BY DEF EpochInv, EpochNotBehind
<1>2. ChainInv /\ EpochInv /\ [Next]_vars => (ChainInv /\ EpochInv)'
  BY ChainInvStep, EpochInvStep
<1> QED BY <1>1, <1>2, ChainInvInit, EpochInvInit, PTL DEF Spec

(* What the operators of the handlers return. *)

(* Sorting by fee only changes the order. *)
LEMMA SortedFacts ==
    ASSUME NEW S, NEW s \in Seq(S), NEW r \in SortedByFee(s)
    PROVE  r \in Seq(S) /\ Len(r) = Len(s) /\ Draws(r, s) /\ ToSet(r) = ToSet(s)
<1>1. PICK p \in [DOMAIN s -> DOMAIN s] :
         /\ \A i, j \in DOMAIN s : i < j => p[i] # p[j]
         /\ r = [k \in DOMAIN s |-> s[p[k]]]
  BY SMTT(30) DEF SortedByFee
<1>2. \A i, j \in DOMAIN s : p[i] = p[j] => i = j
  <2>1. \A i, j \in DOMAIN s : i < j \/ j < i \/ i = j
    OBVIOUS
  <2> QED BY <1>1, <2>1
<1> QED BY <1>1, <1>2, PermutationFacts

(* The function by which Retain is defined, and what it holds.               *)
Retains(f, s, T, n) ==
    f = [i \in 0..n |-> IF i = 0 THEN <<>>
                        ELSE IF s[i] \in T THEN Append(f[i - 1], s[i]) ELSE f[i - 1]]

LEMMA RetainExists ==
    ASSUME NEW S, NEW T \in SUBSET S, NEW n \in Nat, NEW s \in [1..n -> S]
    PROVE  \E f : Retains(f, s, T, n)
<1> DEFINE step == [x \in ((0 + 1)..n) \X Seq(S) |->
                      IF s[x[1]] \in T THEN Append(x[2], s[x[1]]) ELSE x[2]]
<1>1. \A i \in (0 + 1)..n, q \in Seq(S) : s[i] \in S /\ Append(q, s[i]) \in Seq(S)
  OBVIOUS
<1>2. /\ step \in Steps(0, n, Seq(S))
      /\ \A i \in (0 + 1)..n, q \in Seq(S) :
            step[<<i, q>>] = IF s[i] \in T THEN Append(q, s[i]) ELSE q
  BY <1>1 DEF Steps
<1> HIDE DEF step
<1>3. PICK f \in [0..n -> Seq(S)] : Follows(f, 0, n, <<>>, step)
  <2>1. 0 \in Nat /\ 0 <= n /\ <<>> \in Seq(S)
    OBVIOUS
  <2> QED BY <1>2, <2>1, RecursionExists
<1>4. \A i \in 0..n : f[i] = IF i = 0 THEN <<>>
                             ELSE IF s[i] \in T THEN Append(f[i - 1], s[i]) ELSE f[i - 1]
  <2> TAKE i \in 0..n
  <2>1. CASE i = 0
    BY <1>3, <2>1 DEF Follows
  <2>2. CASE i # 0
    <3>1. i \in (0 + 1)..n /\ i - 1 \in 0..n
      BY <2>2
    <3>2. f[i - 1] \in Seq(S)
      BY <3>1
    <3> QED BY <1>2, <1>3, <2>2, <3>1, <3>2 DEF Follows
  <2> QED BY <2>1, <2>2
<1> QED BY <1>4 DEF Retains

LEMMA RetainKeeps ==
    ASSUME NEW S, NEW T \in SUBSET S, NEW n \in Nat, NEW s \in [1..n -> S]
    PROVE  /\ Retain(s, T) \in Seq(S)
           /\ ToSet(Retain(s, T)) = ToSet(s) \cap T
           /\ Draws(Retain(s, T), s)
<1>1. n = Len(s) /\ DOMAIN s = 1..n /\ s \in Seq(S)
  OBVIOUS
<1> DEFINE kept == CHOOSE f : Retains(f, s, T, n)
           Draw(i, p) == /\ \A j, k \in 1..Len(kept[i]) : p[j] = p[k] => j = k
                         /\ \A j \in 1..Len(kept[i]) : kept[i][j] = s[p[j]]
           Good(i) == /\ kept[i] \in Seq(S)
                      /\ ToSet(kept[i]) = {s[j] : j \in 1..i} \cap T
                      /\ \E p \in [1..Len(kept[i]) -> 1..i] : Draw(i, p)
           G == {i \in 0..n : Good(i)}
<1>2. Retains(kept, s, T, n)
  BY RetainExists
<1>3. Retain(s, T) = kept[n]
  BY <1>1 DEF Retain, Retains
<1> HIDE DEF kept
<1>0. \A i \in 0..n : kept[i] = IF i = 0 THEN <<>>
                                ELSE IF s[i] \in T THEN Append(kept[i - 1], s[i])
                                     ELSE kept[i - 1]
  BY <1>2 DEF Retains
<1>4. /\ kept[0] = <<>>
      /\ \A i \in 1..n : kept[i] = IF s[i] \in T THEN Append(kept[i - 1], s[i])
                                    ELSE kept[i - 1]
  <2>1. 0 \in 0..n /\ \A i \in 1..n : i \in 0..n /\ i # 0
    OBVIOUS
  <2> QED BY <1>0, <2>1
<1>5. 0 \in G
  <2>1. kept[0] \in Seq(S) /\ Len(kept[0]) = 0 /\ ToSet(kept[0]) = {} /\ 1..0 = {}
    BY <1>4 DEF ToSet
  <2>2. [j \in 1..0 |-> 0] \in [1..Len(kept[0]) -> 1..0] /\ Draw(0, [j \in 1..0 |-> 0])
    BY <2>1
  <2> QED BY <2>1, <2>2
<1>6. ASSUME NEW i \in (0 + 1)..n, i - 1 \in G PROVE i \in G
  <2> DEFINE q == kept[i - 1]
  <2>1. i \in 1..n /\ i \in 0..n /\ 1..i = 1..(i - 1) \cup {i} /\ s[i] \in S
    BY <1>1
  <2>2. Good(i - 1)
    BY <1>6
  <2>3. q \in Seq(S) /\ ToSet(q) = {s[j] : j \in 1..(i - 1)} \cap T
    BY <2>2
  <2>4. PICK p \in [1..Len(q) -> 1..(i - 1)] : Draw(i - 1, p)
    BY <2>2
  <2>5. /\ \A j, k \in 1..Len(q) : p[j] = p[k] => j = k
        /\ \A j \in 1..Len(q) : q[j] = s[p[j]]
    BY <2>4
  <2>6. kept[i] = IF s[i] \in T THEN Append(q, s[i]) ELSE q
    BY <1>4, <2>1
  <2>7. {s[j] : j \in 1..i} = {s[j] : j \in 1..(i - 1)} \cup {s[i]}
    BY <2>1
  <2>8. \A j \in 1..Len(q) : p[j] \in 1..i /\ p[j] # i
    OBVIOUS
  <2> HIDE DEF q
  <2>9. CASE s[i] \in T
    <3> DEFINE l == Len(q) + 1
               g == [j \in 1..l |-> IF j = l THEN i ELSE p[j]]
               r == Append(q, s[i])
    <3>1. /\ r \in Seq(S) /\ Len(r) = l /\ ToSet(r) = ToSet(q) \cup {s[i]}
          /\ \A j \in 1..Len(q) : r[j] = q[j]
          /\ r[l] = s[i]
      BY <2>1, <2>3, AppendFacts
    <3>2. kept[i] = r
      BY <2>6, <2>9
    <3>3. l \in Nat \ {0} /\ 1..l = 1..Len(q) \cup {l} /\ l \notin 1..Len(q)
      BY <2>3
    <3> HIDE DEF r, l
    <3>4. /\ g \in [1..l -> 1..i]
          /\ g[l] = i /\ \A j \in 1..Len(q) : g[j] = p[j]
      BY <2>1, <2>8, <3>3
    <3> HIDE DEF g
    <3>5. \A j, k \in 1..l : g[j] = g[k] => j = k
      BY <2>5, <2>8, <3>3, <3>4
    <3>6. \A j \in 1..l : r[j] = s[g[j]]
      BY <2>5, <3>1, <3>3, <3>4
    <3>7. ToSet(r) = {s[j] : j \in 1..i} \cap T
      BY <2>3, <2>7, <2>9, <3>1
    <3>8. Draw(i, g)
      BY <3>1, <3>2, <3>5, <3>6
    <3> HIDE DEF Draw
    <3>9. Good(i)
      BY <3>1, <3>2, <3>4, <3>7, <3>8
    <3> QED BY <2>1, <3>9
  <2>10. CASE s[i] \notin T
    <3>1. kept[i] = q
      BY <2>6, <2>10
    <3>2. p \in [1..Len(q) -> 1..i]
      BY <2>8
    <3>3. ToSet(q) = {s[j] : j \in 1..i} \cap T
      BY <2>3, <2>7, <2>10
    <3> QED BY <2>1, <2>3, <2>5, <3>1, <3>2, <3>3
  <2> QED BY <2>9, <2>10
<1>7. n \in G
  <2>1. 0..n \subseteq G
    <3>1. 0 \in Nat /\ n \in Nat
      OBVIOUS
    <3> HIDE DEF G
    <3> QED BY <1>5, <1>6, <3>1, IntervalInduction
  <2>2. n \in 0..n
    OBVIOUS
  <2> HIDE DEF G
  <2> QED BY <2>1, <2>2
<1>8. kept[n] \in Seq(S) /\ ToSet(kept[n]) = ToSet(s) \cap T
  BY <1>1, <1>7 DEF ToSet
<1>9. Draws(kept[n], s)
  <2>1. PICK p \in [1..Len(kept[n]) -> 1..n] : Draw(n, p)
    BY <1>7
  <2>2. DOMAIN kept[n] = 1..Len(kept[n])
    BY <1>8
  <2> QED BY <1>1, <2>1, <2>2 DEF Draws
<1> QED BY <1>3, <1>8, <1>9

LEMMA RetainFacts ==
    ASSUME NEW S, NEW s \in Seq(S), NEW T \in SUBSET S
    PROVE  /\ Retain(s, T) \in Seq(S)
           /\ ToSet(Retain(s, T)) = ToSet(s) \cap T
           /\ Draws(Retain(s, T), s)
<1>1. Len(s) \in Nat /\ s \in [1..Len(s) -> S]
  OBVIOUS
<1> QED BY <1>1, RetainKeeps

-----------------------------------------------------------------------------
(* The saved chain and the one in memory, as sequences of blocks. *)
LEMMA ChainFacts ==
    ASSUME TypeOK, ChainInv
    PROVE  /\ Chain \in Seq(Block) /\ Len(Chain) = sHeight
           /\ \A h \in 1..sHeight : Chain[h] = stored[h]
           /\ pc \in Saved => blocks = Chain
           /\ pc \in Writing => /\ Last(blocks) \in Block
                                /\ blocks = Append(Chain, Last(blocks))
<1>1. stored \in Seq(Block) /\ sHeight \in 0..Len(stored) /\ blocks \in Seq(Block)
  BY DEF TypeOK, ChainInv
<1>2. /\ Chain \in Seq(Block) /\ Len(Chain) = sHeight
      /\ \A h \in 1..sHeight : Chain[h] = stored[h]
  BY <1>1, PrefixFacts DEF Chain
<1>3. pc \in Saved => blocks = Chain
  BY DEF ChainInv, Saved, Down, Chain
<1>4. ASSUME pc \in Writing
      PROVE  Last(blocks) \in Block /\ blocks = Append(Chain, Last(blocks))
  <2>1. height = sHeight + 1 /\ height \in 0..Len(stored) /\ blocks = SubSeq(stored, 1, height)
    BY <1>1, <1>4 DEF ChainInv, Writing, Down
  <2>2. Len(blocks) = height /\ \A i \in 1..height : blocks[i] = stored[i]
    BY <1>1, <2>1, PrefixFacts
  <2>3. Last(blocks) = blocks[height] /\ height \in 1..Len(blocks) /\ sHeight \in Nat
    BY <1>1, <2>1, <2>2 DEF Last
  <2>4. Last(blocks) \in Block
    BY <1>1, <2>3
  <2> DEFINE b == Last(blocks)
             c == Chain
             r == Append(c, b)
  <2>5. /\ r \in Seq(Block) /\ Len(r) = sHeight + 1
        /\ \A i \in 1..sHeight : r[i] = c[i]
        /\ r[sHeight + 1] = b
    BY <1>2, <2>4, AppendFacts
  <2> HIDE DEF r, c
  <2>6. \A i \in 1..height : i \in 1..sHeight \/ i = height
    BY <2>1, <2>3
  <2>7. \A i \in 1..sHeight : i \in 1..height
    BY <2>1, <2>3
  <2>8. \A i \in 1..height : r[i] = blocks[i]
    BY <1>2, <2>1, <2>2, <2>3, <2>5, <2>6, <2>7 DEF c
  <2>9. r = blocks
    BY <1>1, <2>1, <2>2, <2>5, <2>8
  <2> QED BY <2>4, <2>9 DEF r, c
<1> QED BY <1>2, <1>3, <1>4

-----------------------------------------------------------------------------
(* What mine_block and the Block handler write. *)
LEMMA TemplateFacts ==
    ASSUME mempool \in Seq(Txs)
    PROVE  BlockTemplate \in Seq(Txs) /\ Draws(BlockTemplate, mempool)
<1> DEFINE n == IF Len(mempool) < BlockCap THEN Len(mempool) ELSE BlockCap
<1>1. n \in 0..Len(mempool)
  BY LedgerAssumption
<1>2. BlockTemplate = SubSeq(mempool, 1, n)
  BY DEF BlockTemplate
<1> HIDE DEF n
<1> QED BY <1>1, <1>2, PrefixFacts, PrefixDraws

LEMMA LastIdType == TypeOK => LastId \in Nat
<1> SUFFICES ASSUME TypeOK, blocks # <<>> PROVE Last(blocks).id \in Nat
  BY DEF LastId, GenesisId
<1>1. blocks \in Seq(Block) /\ Len(blocks) \in DOMAIN blocks
  BY DEF TypeOK
<1>2. blocks[Len(blocks)] \in Block
  BY <1>1
<1> QED BY <1>2 DEF Last, Block

LEMMA MineFacts ==
    ASSUME TypeOK, MineBlock
    PROVE  /\ pc = "loop"
           /\ \E b \in Block : /\ b.maker = "self" /\ b.prev = LastId
                               /\ b.txs = BlockTemplate /\ b.epoch = epoch
                               /\ WriteBlock(b)
<1> DEFINE b == [id |-> nextId, prev |-> LastId, maker |-> "self",
                 epoch |-> epoch, txs |-> BlockTemplate]
<1>1. mempool \in Seq(Txs) /\ nextId \in Nat /\ epoch \in Nat
  BY DEF TypeOK
<1>2. b \in Block
  BY <1>1, TemplateFacts, LastIdType DEF Block, Makers
<1>3. pc = "loop" /\ WriteBlock(b)
  BY DEF MineBlock
<1> QED BY <1>2, <1>3

LEMMA PeerFacts ==
    ASSUME TypeOK, NEW ts \in PeerBlockTxs, PeerBlock(ts)
    PROVE  /\ SharedLock /\ pc = "loop"
           /\ \E b \in Block : /\ b.maker = "peer" /\ b.prev = LastId /\ b.txs = ts
                               /\ b.epoch = epoch /\ WriteBlock(b)
<1> DEFINE b == [id |-> nextId, prev |-> LastId, maker |-> "peer",
                 epoch |-> epoch, txs |-> ts]
<1>1. ts \in Seq(Txs) /\ nextId \in Nat /\ epoch \in Nat
  <2>1. PICK n \in 0..BlockCap : ts \in [1..n -> Txs]
    BY DEF PeerBlockTxs
  <2>2. n \in Nat
    BY <2>1, LedgerAssumption
  <2> QED BY <2>1, <2>2 DEF TypeOK
<1>2. b \in Block
  BY <1>1, LastIdType DEF Block, Makers
<1>3. SharedLock /\ pc = "loop" /\ WriteBlock(b)
  BY DEF PeerBlock
<1> QED BY <1>2, <1>3

LEMMA WriteBlockFacts ==
    ASSUME TypeOK, ChainInv, pc = "loop", NEW b \in Block, WriteBlock(b)
    PROVE  /\ height = sHeight /\ blocks = Chain /\ Chain' = Chain
           /\ blocks' = Append(Chain, b) /\ blocks' \in Seq(Block) /\ Last(blocks') = b
           /\ stored' \in Seq(Block)
           /\ \A h \in DOMAIN stored' : (h \in DOMAIN stored /\ stored'[h] = stored[h]) \/ stored'[h] = b
           /\ \A h \in 1..sHeight : stored'[h] = stored[h]
<1>1. /\ stored \in Seq(Block) /\ height \in Nat /\ height = sHeight /\ height <= Len(stored)
      /\ blocks = Chain
  BY ChainFacts DEF TypeOK, ChainInv, Saved, Down
<1>2. stored' = StoreAt(height + 1, b) /\ blocks' = Append(blocks, b) /\ sHeight' = sHeight
  BY DEF WriteBlock
<1>3. blocks' \in Seq(Block) /\ Last(blocks') = b
  <2>1. blocks \in Seq(Block)
    BY DEF TypeOK
  <2> QED BY <1>2, <2>1 DEF Last
<1>4. /\ stored' \in Seq(Block)
      /\ \A h \in DOMAIN stored' : (h \in DOMAIN stored /\ stored'[h] = stored[h]) \/ stored'[h] = b
      /\ \A h \in 1..height : stored'[h] = stored[h]
      /\ height + 1 <= Len(stored')
  <2>0. DOMAIN stored = 1..Len(stored) /\ Len(stored) \in Nat
    BY <1>1
  <2>1. CASE height + 1 = Len(stored) + 1
    <3>1. stored' = Append(stored, b)
      BY <1>2, <2>1 DEF StoreAt
    <3>0. height = Len(stored)
      <4>1. height \in Nat /\ Len(stored) \in Nat
        BY <1>1, <2>0
      <4> QED BY <2>1, <4>1
    <3>2. /\ stored' \in Seq(Block) /\ Len(stored') = height + 1
          /\ DOMAIN stored' = 1..(height + 1)
          /\ \A h \in 1..height : stored'[h] = stored[h]
          /\ stored'[height + 1] = b
      BY <1>1, <3>0, <3>1, AppendFacts
    <3>3. \A h \in 1..(height + 1) : h = height + 1 \/ h \in 1..height
      BY <1>1
    <3> QED BY <1>1, <2>0, <3>0, <3>1, <3>2, <3>3
  <2>2. CASE height + 1 # Len(stored) + 1
    <3>1. height + 1 \in 1..Len(stored) /\ height + 1 \notin 1..height
      BY <1>1, <2>2
    <3>2. stored' = [stored EXCEPT ![height + 1] = b]
      BY <1>2, <2>2 DEF StoreAt
    <3>3. /\ stored' \in Seq(Block) /\ Len(stored') = Len(stored)
          /\ DOMAIN stored' = DOMAIN stored
      BY <1>1, <3>1, <3>2
    <3>4. \A h \in DOMAIN stored : stored'[h] = IF h = height + 1 THEN b ELSE stored[h]
      BY <3>2
    <3>5. \A h \in 1..height : h \in DOMAIN stored /\ h # height + 1
      BY <1>1, <2>0
    <3> QED BY <1>1, <3>1, <3>3, <3>4, <3>5
  <2> QED BY <2>1, <2>2
<1>5. Chain' = Chain
  <2>1. sHeight \in 0..Len(stored) /\ sHeight \in 0..Len(stored')
    BY <1>1, <1>4
  <2>2. /\ SubSeq(stored, 1, sHeight) \in Seq(Block) /\ Len(SubSeq(stored, 1, sHeight)) = sHeight
        /\ \A i \in 1..sHeight : SubSeq(stored, 1, sHeight)[i] = stored[i]
    BY <1>1, <2>1, PrefixFacts
  <2>3. /\ SubSeq(stored', 1, sHeight) \in Seq(Block) /\ Len(SubSeq(stored', 1, sHeight)) = sHeight
        /\ \A i \in 1..sHeight : SubSeq(stored', 1, sHeight)[i] = stored'[i]
    BY <1>4, <2>1, PrefixFacts
  <2> DEFINE c == SubSeq(stored, 1, sHeight)
             d == SubSeq(stored', 1, sHeight)
  <2>4. \A i \in 1..sHeight : d[i] = c[i]
    BY <1>1, <1>4, <2>2, <2>3
  <2> HIDE DEF c, d
  <2>5. c = d
    BY <2>2, <2>3, <2>4 DEF c, d
  <2> QED BY <1>2, <2>5 DEF Chain, c, d
<1> QED BY <1>1, <1>2, <1>3, <1>4, <1>5

-----------------------------------------------------------------------------
LEMMA TypeOKInit == Init => TypeOK
BY DEF Init, TypeOK, GenesisOut, Outpoints

(* The output of a block's i-th transaction, its own coinbase included.      *)
LEMMA OutputType ==
    ASSUME NEW b \in Block, NEW h \in Nat, NEW i \in Nat, ~ (i > Len(b.txs))
    PROVE  OutputOf(b, h, i) \in Outpoints
<1>1. b.txs \in Seq(Txs)
  BY DEF Block
<1>2. CASE i = Coinbase
  BY <1>2 DEF OutputOf, CoinbaseOut, Outpoints
<1>3. CASE i # Coinbase
  <2>1. b.txs[i] \in Txs
    BY <1>1, <1>3 DEF Coinbase
  <2> QED BY <1>3, <2>1, LedgerAssumption DEF OutputOf
<1> QED BY <1>2, <1>3

LEMMA WriteBlockType ==
    ASSUME TypeOK, ChainInv, pc = "loop", NEW b \in Block, WriteBlock(b)
    PROVE  TypeOK'
<1>1. /\ height \in Nat /\ nextId \in Nat \ {0}
  BY DEF TypeOK
<1>2. /\ height' = height + 1 /\ nextId' = nextId + 1 /\ pc' = "utxo"
      /\ cursor' = <<0, 0>>
      /\ UNCHANGED <<sHeight, sEpoch, sUtxo, sMempool, epoch, mempool, processed,
                     poolEpoch, crashes, accepted, dropped>>
  BY DEF WriteBlock
<1>3. stored' \in Seq(Block) /\ blocks' \in Seq(Block)
  BY WriteBlockFacts
<1> QED BY <1>1, <1>2, <1>3 DEF TypeOK

LEMMA TypeOKStep == TypeOK /\ ChainInv /\ [Next]_vars => TypeOK'
<1> SUFFICES ASSUME TypeOK, ChainInv, [Next]_vars PROVE TypeOK'
  OBVIOUS
<1>0. /\ mempool \in Seq(Txs) /\ height \in Nat /\ epoch \in Nat /\ crashes \in Nat
      /\ blocks \in Seq(Block)
  BY DEF TypeOK
<1>1. CASE UNCHANGED vars
  BY <1>1 DEF vars, disk, memory, history, TypeOK
<1>2. ASSUME NEW t \in Txs, SubmitTx(t) PROVE TypeOK'
  <2>1. Append(mempool, t) \in Seq(Txs)
    BY <1>0
  <2>2. PICK r \in SortedByFee(Append(mempool, t)) :
           LET kept == SubSeq(r, 1, IF Len(r) < MempoolMax THEN Len(r) ELSE MempoolMax)
               evicted == ToSet(r) \ ToSet(kept)
           IN  /\ mempool' = kept /\ sMempool' = kept
               /\ processed' = (processed \cup {t}) \ evicted
               /\ dropped' = (dropped \ {t}) \cup evicted
    BY <1>2 DEF SubmitTx
  <2>3. r \in Seq(Txs) /\ ToSet(r) \subseteq Txs
    <3>1. r \in Seq(Txs)
      BY <2>1, SortedFacts
    <3> QED BY <3>1 DEF ToSet
  <2> DEFINE n == IF Len(r) < MempoolMax THEN Len(r) ELSE MempoolMax
  <2>4. n \in 0..Len(r)
    BY <2>3, LedgerAssumption
  <2>5. SubSeq(r, 1, n) \in Seq(Txs)
    BY <2>3, <2>4, PrefixFacts
  <2>6. /\ mempool' \in Seq(Txs) /\ sMempool' \in Seq(Txs)
        /\ processed' \subseteq processed \cup {t}
        /\ dropped' \subseteq dropped \cup Txs
    BY <2>2, <2>3, <2>5
  <2>7. /\ accepted' = accepted \cup {t}
        /\ UNCHANGED <<stored, sHeight, sEpoch, sUtxo, blocks, height, epoch,
                       poolEpoch, pc, cursor, nextId, crashes>>
    BY <1>2 DEF SubmitTx
  <2> QED BY <2>6, <2>7 DEF TypeOK
<1>3. CASE MineBlock
  BY <1>3, MineFacts, WriteBlockType
<1>4. ASSUME NEW ts \in PeerBlockTxs, PeerBlock(ts) PROVE TypeOK'
  BY <1>4, PeerFacts, WriteBlockType
<1>5. CASE UpdateUtxo
  <2>1. /\ pc = "utxo" /\ ~UtxoWritten
        /\ sUtxo' \in {sUtxo \cup {OutputOf(Last(blocks), height, cursor[1])},
                       sUtxo \ {InputsOf(Last(blocks), cursor[1])[cursor[2]]}}
        /\ cursor' \in {<<cursor[1], cursor[2] + 1>>, <<cursor[1] + 1, 0>>}
    BY <1>5 DEF UpdateUtxo
  <2>2. OutputOf(Last(blocks), height, cursor[1]) \in Outpoints
    BY <2>1, <1>0, ChainFacts, OutputType DEF UtxoWritten, Writing, TypeOK
  <2>3. sUtxo' \subseteq Outpoints
    BY <2>1, <2>2 DEF TypeOK
  <2>4. cursor' \in Nat \X Nat
    BY <2>1 DEF TypeOK
  <2> QED BY <1>5, <2>3, <2>4 DEF UpdateUtxo, memory, history, TypeOK
<1>6. ASSUME pc = "utxo" PROVE ToSet(Last(blocks).txs) \subseteq Txs /\ ToSet(mempool) \subseteq Txs
  <2>1. Last(blocks).txs \in Seq(Txs)
    BY <1>6, ChainFacts DEF Writing, Block
  <2> QED BY <1>0, <2>1 DEF ToSet
<1>7. CASE ClearMempool
  BY <1>6, <1>7 DEF ClearMempool, TypeOK, Ordinary
<1>8. CASE PayReward
  <2>1. RewardOut(height, epoch) \in Outpoints
    BY <1>0 DEF RewardOut, Outpoints
  <2> QED BY <1>8, <2>1 DEF PayReward, memory, history, TypeOK
<1>9. CASE EndEpoch
  BY <1>9 DEF EndEpoch, history, TypeOK
<1>10. CASE SaveHeight
  BY <1>10 DEF SaveHeight, memory, history, TypeOK
<1>11. CASE SaveEpoch
  BY <1>11 DEF SaveEpoch, memory, history, TypeOK
<1>12. CASE RetainMempool
  <2>1. /\ mempool' = Retain(mempool, Txs \ Ordinary(ToSet(Last(blocks).txs)))
        /\ processed' = processed \cup Ordinary(ToSet(Last(blocks).txs)) /\ pc' = "height" /\ pc = "utxo"
        /\ UNCHANGED <<disk, blocks, height, epoch, poolEpoch, cursor, history>>
    BY <1>12 DEF RetainMempool
  <2>2. mempool' \in Seq(Txs)
    <3>1. Txs \ Ordinary(ToSet(Last(blocks).txs)) \in SUBSET Txs
      OBVIOUS
    <3> QED BY <1>0, <2>1, <3>1, RetainFacts
  <2> QED BY <1>6, <2>1, <2>2 DEF disk, history, TypeOK, Ordinary
<1>13. CASE SavePeerMempool
  BY <1>13 DEF SavePeerMempool, memory, history, TypeOK
<1>14. CASE Kill
  BY <1>14 DEF Kill, disk, TypeOK
<1>15. CASE Restart
  <2>1. Chain \in Seq(Block) /\ GenesisOut \in Outpoints /\ ToSet(sMempool) \subseteq Txs
    BY ChainFacts DEF GenesisOut, Outpoints, TypeOK, ToSet
  <2> QED BY <1>15, <2>1 DEF Restart, InitGenesis, TypeOK
<1>16. CASE EnterLoop
  BY <1>16 DEF EnterLoop, disk, memory, history, TypeOK
<1> QED
  BY <1>1, <1>2, <1>3, <1>4, <1>5, <1>7, <1>8, <1>9, <1>10, <1>11, <1>12, <1>13,
     <1>14, <1>15, <1>16 DEF Next

(* Every field of the node and every key of its database holds a value of    *)
(* its kind after any handler, kill and restart.                             *)
THEOREM LedgerTypeCorrect == Spec => []TypeOK
<1>1. TypeOK /\ ChainInv /\ [Next]_vars => (TypeOK /\ ChainInv)'
  BY TypeOKStep, ChainInvStep
<1> QED BY <1>1, TypeOKInit, ChainInvInit, PTL DEF Spec

(* The pending transactions, in memory and on disk, and those of every       *)
(* stored block, spend different outpoints.                                  *)
NoConflict(s) ==
    \A i, j \in DOMAIN s : i # j => InputSet(s[i]) \cap InputSet(s[j]) = {}

ConflictInv ==
    /\ NoConflict(mempool) /\ NoConflict(sMempool)
    /\ \A h \in DOMAIN stored : NoConflict(stored[h].txs)

LEMMA DrawsNoConflict ==
    ASSUME NEW s, NEW r, NoConflict(s), Draws(r, s)
    PROVE  NoConflict(r)
BY DEF NoConflict, Draws

LEMMA AppendNoConflict ==
    ASSUME NEW s \in Seq(Txs), NEW t \in Txs,
           NoConflict(s), InputSet(t) \cap SpentBy(ToSet(s)) = {}
    PROVE  NoConflict(Append(s, t))
<1> DEFINE r == Append(s, t)
           n == Len(s)
<1>1. /\ DOMAIN r = 1..(n + 1) /\ \A i \in 1..n : r[i] = s[i]
      /\ r[n + 1] = t
  BY AppendFacts
<1>2. DOMAIN s = 1..n /\ n \in Nat /\ \A i \in 1..(n + 1) : i \in 1..n \/ i = n + 1
  OBVIOUS
<1>3. \A i \in 1..n : InputSet(s[i]) \cap InputSet(t) = {}
  BY <1>2 DEF SpentBy, ToSet
<1> HIDE DEF r, n
<1> SUFFICES ASSUME NEW i \in 1..(n + 1), NEW j \in 1..(n + 1), i # j
             PROVE  InputSet(r[i]) \cap InputSet(r[j]) = {}
  BY <1>1 DEF NoConflict, r
<1>4. CASE i \in 1..n /\ j \in 1..n
  BY <1>1, <1>2, <1>4 DEF NoConflict
<1>5. CASE i = n + 1 \/ j = n + 1
  BY <1>1, <1>2, <1>3, <1>5
<1> QED BY <1>2, <1>4, <1>5

(* A request leaves the mempool a part of what was pending and the new       *)
(* transaction, and saves it.                                                *)
LEMMA SubmitFacts ==
    ASSUME TypeOK, NEW t \in Txs, SubmitTx(t)
    PROVE  /\ Draws(mempool', Append(mempool, t)) /\ sMempool' = mempool'
           /\ ToSet(mempool') \subseteq ToSet(mempool) \cup {t}
           /\ \A u \in ToSet(mempool) \cup {t} : u \in ToSet(mempool') \cup dropped'
           /\ dropped \ {t} \subseteq dropped'
<1>1. Append(mempool, t) \in Seq(Txs) /\ ToSet(Append(mempool, t)) = ToSet(mempool) \cup {t}
  BY AppendFacts DEF TypeOK
<1>2. PICK r \in SortedByFee(Append(mempool, t)) :
         LET kept == SubSeq(r, 1, IF Len(r) < MempoolMax THEN Len(r) ELSE MempoolMax)
             evicted == ToSet(r) \ ToSet(kept)
         IN  /\ mempool' = kept /\ sMempool' = kept
             /\ dropped' = (dropped \ {t}) \cup evicted
  BY DEF SubmitTx
<1>3. /\ r \in Seq(Txs) /\ Draws(r, Append(mempool, t))
      /\ ToSet(r) = ToSet(mempool) \cup {t}
  BY <1>1, SortedFacts
<1> DEFINE n == IF Len(r) < MempoolMax THEN Len(r) ELSE MempoolMax
<1>4. n \in 0..Len(r)
  BY <1>3, LedgerAssumption
<1>5. Draws(SubSeq(r, 1, n), r)
  BY <1>3, <1>4, PrefixDraws
<1>6. ToSet(SubSeq(r, 1, n)) \subseteq ToSet(r)
  BY <1>5, DrawsElements
<1>7. mempool' = SubSeq(r, 1, n) /\ sMempool' = mempool'
      /\ dropped' = (dropped \ {t}) \cup (ToSet(r) \ ToSet(mempool'))
  BY <1>2
<1> HIDE DEF n
<1>8. Draws(mempool', Append(mempool, t))
  BY <1>3, <1>5, <1>7, DrawsTransitive
<1> QED BY <1>3, <1>6, <1>7, <1>8

LEMMA ConflictInvInit == Init => ConflictInv
BY DEF Init, ConflictInv, NoConflict

LEMMA WriteBlockConflict ==
    ASSUME TypeOK, ChainInv, ConflictInv, pc = "loop", NEW b \in Block, WriteBlock(b),
           NoConflict(b.txs)
    PROVE  ConflictInv'
<1>1. UNCHANGED <<mempool, sMempool>>
  BY DEF WriteBlock
<1>2. \A h \in DOMAIN stored' : NoConflict(stored'[h].txs)
  BY WriteBlockFacts DEF ConflictInv
<1> QED BY <1>1, <1>2 DEF ConflictInv, NoConflict

LEMMA ConflictInvStep == TypeOK /\ ChainInv /\ ConflictInv /\ [Next]_vars => ConflictInv'
<1> SUFFICES ASSUME TypeOK, ChainInv, ConflictInv, [Next]_vars PROVE ConflictInv'
  OBVIOUS
<1> USE DEF ConflictInv
<1>0. NoConflict(<<>>)
  BY DEF NoConflict
<1>1. CASE UNCHANGED <<stored, mempool, sMempool>>
  BY <1>1 DEF NoConflict
<1>2. ASSUME NEW t \in Txs, SubmitTx(t) PROVE ConflictInv'
  <2>1. InputSet(t) \cap SpentBy(ToSet(mempool)) = {} /\ UNCHANGED stored
    BY <1>2 DEF SubmitTx, Admissible
  <2>2. NoConflict(Append(mempool, t))
    BY <2>1, AppendNoConflict DEF TypeOK
  <2>3. NoConflict(mempool') /\ NoConflict(sMempool')
    BY <1>2, <2>2, SubmitFacts, DrawsNoConflict
  <2> QED BY <2>1, <2>3 DEF NoConflict
<1>3. CASE MineBlock
  <2>1. Draws(BlockTemplate, mempool)
    BY TemplateFacts DEF TypeOK
  <2>2. NoConflict(BlockTemplate)
    BY <2>1, DrawsNoConflict
  <2> QED BY <1>3, <2>2, MineFacts, WriteBlockConflict
<1>4. ASSUME NEW ts \in PeerBlockTxs, PeerBlock(ts) PROVE ConflictInv'
  <2>1. NoConflict(ts)
    BY DEF PeerBlockTxs, NoConflict
  <2>2. PICK b \in Block : b.txs = ts /\ pc = "loop" /\ WriteBlock(b)
    BY <1>4, PeerFacts
  <2>3. NoConflict(b.txs) /\ b \in Block /\ pc = "loop" /\ WriteBlock(b)
    BY <2>1, <2>2
  <2> HIDE DEF ConflictInv
  <2> QED BY <2>3, WriteBlockConflict
<1>5. CASE ClearMempool
  <2>1. mempool' = <<>> /\ sMempool' = <<>> /\ UNCHANGED stored
    BY <1>5 DEF ClearMempool
  <2> QED BY <1>0, <2>1
<1>6. CASE RetainMempool
  <2>1. /\ mempool' = Retain(mempool, Txs \ Ordinary(ToSet(Last(blocks).txs)))
        /\ UNCHANGED <<stored, sMempool>>
    BY <1>6 DEF RetainMempool, disk
  <2>2. Txs \ Ordinary(ToSet(Last(blocks).txs)) \in SUBSET Txs
    OBVIOUS
  <2>3. Draws(mempool', mempool)
    BY <2>1, <2>2, RetainFacts DEF TypeOK
  <2>4. NoConflict(mempool')
    BY <2>3, DrawsNoConflict
  <2> QED BY <2>1, <2>4 DEF NoConflict
<1>7. CASE SavePeerMempool
  BY <1>7 DEF SavePeerMempool, memory, NoConflict
<1>8. CASE Kill
  <2>1. mempool' = <<>> /\ UNCHANGED <<stored, sMempool>>
    BY <1>8 DEF Kill, disk
  <2> QED BY <1>0, <2>1
<1>9. CASE Restart
  <2>1. (mempool' = <<>> \/ mempool' = sMempool) /\ UNCHANGED <<stored, sMempool>>
    BY <1>9 DEF Restart
  <2> QED BY <1>0, <2>1
<1>10. UpdateUtxo \/ PayReward \/ EndEpoch \/ SaveHeight \/ SaveEpoch \/ EnterLoop \/ UNCHANGED vars
         => UNCHANGED <<stored, mempool, sMempool>>
  BY DEF UpdateUtxo, PayReward, EndEpoch, SaveHeight, SaveEpoch, EnterLoop, vars, disk, memory
<1> QED
  BY <1>1, <1>2, <1>3, <1>4, <1>5, <1>6, <1>7, <1>8, <1>9, <1>10 DEF Next

(* The mempool never holds two transactions that spend the same outpoint,    *)
(* whatever requests, blocks of other nodes, kills and restarts come         *)
(* between, so no block ever spends one twice.                               *)
THEOREM BlocksSpendOnce == Spec => []BlockSpendsOnce
<1>1. ConflictInv => BlockSpendsOnce
  BY DEF ConflictInv, NoConflict, BlockSpendsOnce
<1>2. /\ Init => TypeOK /\ ChainInv /\ ConflictInv
      /\ TypeOK /\ ChainInv /\ ConflictInv /\ [Next]_vars => (TypeOK /\ ChainInv /\ ConflictInv)'
  BY TypeOKInit, ChainInvInit, ConflictInvInit, TypeOKStep, ChainInvStep, ConflictInvStep
<1> QED BY <1>1, <1>2, PTL DEF Spec

(* When the mempool in memory and the saved one agree: between blocks, and   *)
(* in mine_block from the write of the emptied mempool on.                   *)
MempoolInv ==
    /\ (Running /\ height > 0) => mempool = sMempool
    /\ pc \in {"reward", "epoch", "save_epoch"} => mempool = sMempool
    /\ (pc = "height" /\ Last(blocks).maker = "self") => mempool = sMempool

LEMMA MempoolInvInit == Init => MempoolInv
BY DEF Init, MempoolInv, Running

LEMMA MempoolInvStep == TypeOK /\ MempoolInv /\ [Next]_vars => MempoolInv'
<1> SUFFICES ASSUME TypeOK, MempoolInv, [Next]_vars PROVE MempoolInv'
  OBVIOUS
<1> USE DEF MempoolInv, Running
<1>1. CASE UNCHANGED vars
  BY <1>1 DEF vars, disk, memory
<1>2. ASSUME NEW t \in Txs, SubmitTx(t) PROVE MempoolInv'
  <2>1. sMempool' = mempool'
    BY <1>2, SubmitFacts
  <2> QED BY <2>1
<1>3. MineBlock => pc' = "utxo"
  BY DEF MineBlock, WriteBlock
<1>4. ASSUME NEW ts \in PeerBlockTxs, PeerBlock(ts) PROVE pc' = "utxo"
  BY <1>4 DEF PeerBlock, WriteBlock
<1>5. CASE pc' = "utxo" \/ pc' = "down"
  BY <1>5
<1>6. CASE UpdateUtxo
  BY <1>5, <1>6 DEF UpdateUtxo
<1>7. CASE ClearMempool
  BY <1>7 DEF ClearMempool
<1>8. CASE PayReward
  BY <1>8 DEF PayReward, memory
<1>9. CASE EndEpoch
  BY <1>9 DEF EndEpoch
<1>10. CASE SaveHeight
  BY <1>10 DEF SaveHeight, memory
<1>11. CASE SaveEpoch
  BY <1>11 DEF SaveEpoch, memory
<1>12. CASE RetainMempool
  BY <1>12 DEF RetainMempool, disk
<1>13. CASE SavePeerMempool
  BY <1>13 DEF SavePeerMempool, memory
<1>14. Kill => pc' = "down"
  BY DEF Kill
<1>15. CASE Restart
  <2>1. height' = sHeight /\ pc' = "boot" /\ sMempool' = sMempool
        /\ mempool' = IF sHeight = 0 THEN <<>> ELSE sMempool
    BY <1>15 DEF Restart
  <2>2. height' > 0 => sHeight # 0
    BY <2>1 DEF TypeOK
  <2> QED BY <2>1, <2>2
<1>16. CASE EnterLoop
  BY <1>16 DEF EnterLoop, disk, memory
<1> QED
  BY <1>1, <1>2, <1>3, <1>4, <1>5, <1>6, <1>7, <1>8, <1>9, <1>10, <1>11, <1>12,
     <1>13, <1>14, <1>15, <1>16 DEF Next

(* Whenever requests are handled or a block may be mined, what a restart     *)
(* would read back is exactly what is pending in memory.                     *)
THEOREM RestartKeepsMempool == Spec => []MempoolIsSaved
<1>1. MempoolInv => MempoolIsSaved
  BY DEF MempoolInv, MempoolIsSaved
<1>2. /\ Init => TypeOK /\ ChainInv /\ MempoolInv
      /\ TypeOK /\ ChainInv /\ MempoolInv /\ [Next]_vars => (TypeOK /\ ChainInv /\ MempoolInv)'
  BY TypeOKInit, ChainInvInit, MempoolInvInit, TypeOKStep, ChainInvStep, MempoolInvStep
<1> QED BY <1>1, <1>2, PTL DEF Spec

-----------------------------------------------------------------------------
(* The epochs, in memory and on disk, against the height that is or is about *)
(* to be saved.                                                              *)
Lead == ((IF pc = "height" THEN height ELSE sHeight) \div EpochBlocks) + 1 + crashes

LeadInv ==
    /\ sEpoch <= Lead /\ epoch <= Lead
    /\ pc \in {"reward", "epoch"} => height % EpochBlocks = 0

LEMMA NextQuotient ==
    ASSUME NEW E \in Nat \ {0}, NEW a \in Nat
    PROVE  /\ a \div E \in Nat
           /\ a \div E <= (a + 1) \div E /\ (a + 1) \div E <= (a \div E) + 1
           /\ (a + 1) % E = 0 => (a + 1) \div E = (a \div E) + 1
<1> DEFINE q == a \div E
           r == a % E
           p == (a + 1) \div E
           s == (a + 1) % E
<1>1. /\ q \in Nat /\ r \in 0..(E - 1) /\ a = E * q + r
      /\ p \in Nat /\ s \in 0..(E - 1) /\ a + 1 = E * p + s
  OBVIOUS
<1> HIDE DEF q, r, p, s
<1>2. \A x, y \in Nat : x < y => E * x + E <= E * y
  <2> TAKE x, y \in Nat
  <2> HAVE x < y
  <2>1. PICK z \in Nat : y = x + 1 + z
    <3>1. y - x - 1 \in Nat /\ y = x + 1 + (y - x - 1)
      OBVIOUS
    <3> QED BY <3>1
  <2>2. E * y = E * x + E + E * z /\ E * z \in Nat /\ E * x \in Nat
    BY <2>1
  <2> QED BY <2>2
<1>3. E * q \in Nat /\ E * p \in Nat /\ E * (q + 1) = E * q + E
  BY <1>1
<1>4. q <= p
  <2> SUFFICES ASSUME p < q PROVE FALSE
    BY <1>1
  <2>1. E * p + E <= E * q
    BY <1>1, <1>2
  <2> QED BY <1>1, <1>3, <2>1
<1>5. p <= q + 1
  <2> SUFFICES ASSUME q + 1 < p PROVE FALSE
    BY <1>1
  <2>1. q + 1 \in Nat /\ E * (q + 1) + E <= E * p
    BY <1>1, <1>2
  <2> QED BY <1>1, <1>3, <2>1
<1>6. s = 0 => p = q + 1
  <2> SUFFICES ASSUME s = 0, p = q PROVE FALSE
    BY <1>1, <1>4, <1>5
  <2> QED BY <1>1, <1>3
<1> QED BY <1>1, <1>4, <1>5, <1>6 DEF q, p, s

LEMMA LeadInvInit == Init => LeadInv
<1>1. EpochBlocks \in Nat \ {0}
  BY LedgerAssumption
<1>2. 0 \div EpochBlocks \in Nat
  BY <1>1
<1> QED BY <1>2 DEF Init, LeadInv, Lead

LEMMA LeadInvStep == TypeOK /\ ChainInv /\ LeadInv /\ [Next]_vars => LeadInv'
<1> SUFFICES ASSUME TypeOK, ChainInv, LeadInv, [Next]_vars PROVE LeadInv'
  OBVIOUS
<1> DEFINE q == sHeight \div EpochBlocks
           p == height \div EpochBlocks
<1>0. /\ EpochBlocks \in Nat \ {0} /\ sHeight \in Nat /\ height \in Nat
      /\ sEpoch \in Nat /\ epoch \in Nat /\ crashes \in Nat
  BY LedgerAssumption DEF TypeOK
<1>1. q \in Nat /\ p \in Nat
  BY <1>0
<1>2. pc \in Writing => /\ height = sHeight + 1
                        /\ q <= p /\ p <= q + 1
                        /\ height % EpochBlocks = 0 => p = q + 1
  <2> SUFFICES ASSUME pc \in Writing
               PROVE  /\ height = sHeight + 1
                      /\ q <= p /\ p <= q + 1
                      /\ height % EpochBlocks = 0 => p = q + 1
    OBVIOUS
  <2>1. height = sHeight + 1
    BY DEF ChainInv
  <2> QED BY <1>0, <2>1, NextQuotient
<1>3. /\ pc = "height" => sEpoch <= p + 1 + crashes /\ epoch <= p + 1 + crashes
      /\ pc # "height" => sEpoch <= q + 1 + crashes /\ epoch <= q + 1 + crashes
      /\ pc \in {"reward", "epoch"} => height % EpochBlocks = 0
  BY DEF LeadInv, Lead
<1>4. ASSUME UNCHANGED <<sHeight, crashes, sEpoch, epoch>>, pc # "height", pc' # "height",
             pc' \in {"reward", "epoch"} => height' % EpochBlocks = 0
      PROVE  LeadInv'
  BY <1>3, <1>4 DEF LeadInv, Lead
<1>5. CASE UNCHANGED vars
  BY <1>5 DEF vars, disk, memory, history, LeadInv, Lead
<1>6. ASSUME NEW t \in Txs, SubmitTx(t) PROVE LeadInv'
  BY <1>6 DEF SubmitTx, LeadInv, Lead
<1>7. CASE MineBlock
  BY <1>4, <1>7 DEF MineBlock, WriteBlock
<1>8. ASSUME NEW ts \in PeerBlockTxs, PeerBlock(ts) PROVE LeadInv'
  BY <1>4, <1>8 DEF PeerBlock, WriteBlock
<1>9. CASE UpdateUtxo
  BY <1>4, <1>9 DEF UpdateUtxo, memory, history
<1>10. ASSUME pc = "utxo", UNCHANGED <<sHeight, sEpoch, height, epoch, crashes>>,
              pc' = IF height % EpochBlocks = 0 THEN "reward" ELSE "height"
       PROVE  LeadInv'
  <2>1. q <= p
    BY <1>2, <1>10 DEF Writing
  <2>2. sEpoch <= q + 1 + crashes /\ epoch <= q + 1 + crashes
    BY <1>3, <1>10
  <2>3. sEpoch <= p + 1 + crashes /\ epoch <= p + 1 + crashes
    <3> HIDE DEF p, q
    <3> QED BY <1>0, <1>1, <2>1, <2>2
  <2> QED BY <1>10, <2>2, <2>3 DEF LeadInv, Lead
<1>11. CASE ClearMempool
  BY <1>10, <1>11 DEF ClearMempool
<1>12. CASE PayReward
  BY <1>3, <1>4, <1>12 DEF PayReward, memory, history
<1>13. CASE EndEpoch
  <2>1. /\ pc = "epoch" /\ pc' = "height" /\ epoch' = epoch + 1 /\ sEpoch' = epoch + 1
        /\ UNCHANGED <<sHeight, height, crashes>>
    BY <1>13 DEF EndEpoch, history
  <2>2. p = q + 1
    BY <1>2, <1>3, <2>1 DEF Writing
  <2>3. epoch <= q + 1 + crashes
    BY <1>3, <2>1
  <2>4. epoch + 1 <= p + 1 + crashes
    <3> HIDE DEF p, q
    <3> QED BY <1>0, <1>1, <2>2, <2>3
  <2> QED BY <2>1, <2>4 DEF LeadInv, Lead
<1>14. CASE SaveHeight
  BY <1>3, <1>14 DEF SaveHeight, memory, history, LeadInv, Lead
<1>15. CASE SaveEpoch
  BY <1>3, <1>15 DEF SaveEpoch, memory, history, LeadInv, Lead
<1>16. CASE RetainMempool
  <2>1. /\ pc = "utxo" /\ pc' = "height" /\ UNCHANGED <<sHeight, sEpoch, height, epoch, crashes>>
    BY <1>16 DEF RetainMempool, disk, history
  <2>2. q <= p
    BY <1>2, <2>1 DEF Writing
  <2>3. sEpoch <= q + 1 + crashes /\ epoch <= q + 1 + crashes
    BY <1>3, <2>1
  <2>4. sEpoch <= p + 1 + crashes /\ epoch <= p + 1 + crashes
    <3> HIDE DEF p, q
    <3> QED BY <1>0, <1>1, <2>2, <2>3
  <2> QED BY <2>1, <2>4 DEF LeadInv, Lead
<1>17. CASE SavePeerMempool
  BY <1>4, <1>17 DEF SavePeerMempool, memory, history
<1>18. CASE Kill
  <2>1. /\ pc' = "down" /\ epoch' = 0 /\ UNCHANGED <<sHeight, sEpoch>>
        /\ crashes' = IF Running THEN crashes ELSE crashes + 1
    BY <1>18 DEF Kill, disk
  <2>2. sEpoch <= q + 1 + crashes'
    <3>1. CASE pc = "height"
      <4>1. p <= q + 1 /\ sEpoch <= p + 1 + crashes /\ crashes' = crashes + 1
        BY <1>2, <1>3, <2>1, <3>1 DEF Writing, Running
      <4> HIDE DEF p, q
      <4> QED BY <1>0, <1>1, <4>1
    <3>2. CASE pc # "height"
      <4>1. sEpoch <= q + 1 + crashes /\ (crashes' = crashes \/ crashes' = crashes + 1)
        BY <1>3, <2>1, <3>2
      <4> HIDE DEF p, q
      <4> QED BY <1>0, <1>1, <4>1
    <3> QED BY <3>1, <3>2
  <2>3. 0 <= q + 1 + crashes'
    <3> HIDE DEF p, q
    <3> QED BY <1>0, <1>1, <2>1
  <2> QED BY <2>1, <2>2, <2>3 DEF LeadInv, Lead
<1>19. CASE Restart
  <2>1. /\ pc = "down" /\ pc' = "boot" /\ epoch' = sEpoch /\ UNCHANGED <<sHeight, crashes>>
        /\ sEpoch' = IF sHeight = 0 THEN 1 ELSE sEpoch
    BY <1>19 DEF Restart, InitGenesis, Down
  <2>2. sEpoch <= q + 1 + crashes
    BY <1>3, <2>1
  <2>3. 1 <= q + 1 + crashes
    <3> HIDE DEF p, q
    <3> QED BY <1>0, <1>1
  <2> QED BY <2>1, <2>2, <2>3 DEF LeadInv, Lead
<1>20. CASE EnterLoop
  BY <1>4, <1>20 DEF EnterLoop, disk, memory, history
<1> QED
  BY <1>5, <1>6, <1>7, <1>8, <1>9, <1>11, <1>12, <1>13, <1>14, <1>15, <1>16,
     <1>17, <1>18, <1>19, <1>20 DEF Next

(* However many kills fall between the write of an epoch and that of its     *)
(* height, each puts the saved epoch at most one further ahead.              *)
THEOREM EpochLead == Spec => []EpochLeadBounded
<1>1. LeadInv => EpochLeadBounded
  BY DEF LeadInv, Lead, EpochLeadBounded, AtRest
<1>2. /\ Init => TypeOK /\ ChainInv /\ LeadInv
      /\ TypeOK /\ ChainInv /\ LeadInv /\ [Next]_vars => (TypeOK /\ ChainInv /\ LeadInv)'
  BY TypeOKInit, ChainInvInit, LeadInvInit, TypeOKStep, ChainInvStep, LeadInvStep
<1> QED BY <1>1, <1>2, PTL DEF Spec

-----------------------------------------------------------------------------
(* The UTXO set against the chain.                                           *)

(* What a chain makes, the rewards it may have paid included, and what it    *)
(* may leave unspent.                                                        *)
Source(c) == Made(c) \cup Rewarded(c)
Possible(c) == Unspent(Source(c), Spent(c))

(* The part of them that block h contributes. *)
BlockMade(b, h) == {<< <<h, i>>, OutputOf(b, h, i) >> : i \in 0..Len(b.txs)}
BlockRewarded(b, h) ==
    {x \in {<< <<h, Len(b.txs) + 1>>, RewardOut(h, b.epoch) >>} :
        b.maker = "self" /\ h % EpochBlocks = 0}
BlockSpent(b, h) == UNION {{<< <<h, i>>, o >> : o \in InputSet(b.txs[i])} : i \in 1..Len(b.txs)}

(* Making an outpoint where all else was spent before, and spending one      *)
(* where nothing is made later, are what an addition to the UTXO set and a   *)
(* deletion do.                                                              *)
Plus(D, C, x) == D = C \cup {x}
Minus(D, C, x) == D = C \ {x}
AllBefore(S, p) == \A s \in S : Before(s[1], p)
NoneAfter(M, p) == \A m \in M : ~Before(p, m[1])

LEMMA MakeStep ==
    ASSUME NEW M, NEW N, NEW S, NEW p, NEW o, Plus(N, M, <<p, o>>), AllBefore(S, p)
    PROVE  Plus(Unspent(N, S), Unspent(M, S), o)
<1> DEFINE x == <<p, o>>
           Free(m) == \A s \in S : s[2] = m[2] => Before(s[1], m[1])
<1>1. x[1] = p /\ x[2] = o
  OBVIOUS
<1> HIDE DEF x
<1>2. Free(x)
  BY <1>1 DEF AllBefore
<1> HIDE DEF Free
<1>3. {m[2] : m \in {n \in M \cup {x} : Free(n)}} = {m[2] : m \in {n \in M : Free(n)}} \cup {o}
  BY <1>1, <1>2
<1> QED BY <1>3 DEF Unspent, Plus, Free, x

LEMMA SpendStep ==
    ASSUME NEW M, NEW S, NEW T, NEW p, NEW o, Plus(T, S, <<p, o>>), NoneAfter(M, p)
    PROVE  Minus(Unspent(M, T), Unspent(M, S), o)
<1> DEFINE x == <<p, o>>
           Free(m) == \A s \in S : s[2] = m[2] => Before(s[1], m[1])
           FreeX(m) == \A s \in S \cup {x} : s[2] = m[2] => Before(s[1], m[1])
<1>1. x[1] = p /\ x[2] = o
  OBVIOUS
<1> HIDE DEF x
<1>2. \A m \in M : FreeX(m) <=> Free(m) /\ m[2] # o
  BY <1>1 DEF NoneAfter
<1> HIDE DEF Free, FreeX
<1>3. {m[2] : m \in {n \in M : FreeX(n)}} = {m[2] : m \in {n \in M : Free(n)}} \ {o}
  BY <1>2
<1> QED BY <1>3 DEF Unspent, Plus, Minus, Free, FreeX, x

LEMMA MoreMade ==
    ASSUME NEW M, NEW N, NEW S, M \subseteq N
    PROVE  Unspent(M, S) \subseteq Unspent(N, S)
BY DEF Unspent

(* A chain that is one block longer. *)
LEMMA LongerChain ==
    ASSUME NEW c \in Seq(Block), NEW b \in Block
    PROVE  LET d == Append(c, b)
               h == Len(c) + 1
           IN  /\ Made(d) = Made(c) \cup BlockMade(b, h)
               /\ Rewarded(d) = Rewarded(c) \cup BlockRewarded(b, h)
               /\ Spent(d) = Spent(c) \cup BlockSpent(b, h)
               /\ TxsOf(d) = TxsOf(c) \cup ToSet(b.txs)
               /\ Places(d) = Places(c) \cup {<<h, i>> : i \in 1..Len(b.txs)}
               /\ \A p \in Places(c) : TxAt(d, p) = TxAt(c, p)
               /\ \A i \in 1..Len(b.txs) : TxAt(d, <<h, i>>) = b.txs[i]
<1> DEFINE d == Append(c, b)
           h == Len(c) + 1
           n == Len(b.txs)
           At(i) == <<h, i>>
<1>1. /\ DOMAIN d = DOMAIN c \cup {h} /\ h \notin DOMAIN c /\ h \in Nat /\ h # 0
      /\ \A g \in DOMAIN c : d[g] = c[g]
      /\ d[h] = b /\ DOMAIN c = 1..Len(c)
  BY AppendFacts
<1>2. b.txs \in Seq(Txs) /\ DOMAIN b.txs = 1..n /\ n \in Nat
  BY DEF Block
<1> HIDE DEF d, h, n
<1>3. Places(d) = Places(c) \cup {At(i) : i \in 1..n}
  BY <1>1, <1>2 DEF Places
<1>4. \A p \in Places(c) : p[1] \in DOMAIN c /\ p[2] \in DOMAIN c[p[1]].txs /\ p = <<p[1], p[2]>>
  BY DEF Places
<1>5. /\ \A p \in Places(c) : TxAt(d, p) = TxAt(c, p)
      /\ \A i \in 1..n : TxAt(d, At(i)) = b.txs[i]
  BY <1>1, <1>4 DEF TxAt
<1>6. Made(d) = Made(c) \cup BlockMade(b, h)
  <2> DEFINE Own(ch) == {<< <<g, 0>>, CoinbaseOut(g, ch[g].maker) >> : g \in DOMAIN ch}
             Out(ch) == {<< p, Output[TxAt(ch, p)] >> : p \in Places(ch)}
             Gen == {<< <<0, 0>>, GenesisOut >>}
             Mine == {<< At(i), Output[b.txs[i]] >> : i \in 1..n}
  <2>1. Own(d) = Own(c) \cup {<< At(0), CoinbaseOut(h, b.maker) >>}
    BY <1>1
  <2>2. Out(d) = Out(c) \cup Mine
    BY <1>3, <1>5
  <2>3. BlockMade(b, h) = {<< At(0), CoinbaseOut(h, b.maker) >>} \cup Mine
    <3>1. 0..n = {0} \cup 1..n /\ \A i \in 1..n : i # 0
      BY <1>2
    <3>2. /\ OutputOf(b, h, 0) = CoinbaseOut(h, b.maker)
          /\ \A i \in 1..n : OutputOf(b, h, i) = Output[b.txs[i]]
      BY <3>1 DEF OutputOf, Coinbase
    <3>3. BlockMade(b, h) = {<< At(i), OutputOf(b, h, i) >> : i \in 0..n}
      BY DEF BlockMade, n
    <3> HIDE DEF At
    <3> QED BY <3>1, <3>2, <3>3
  <2>4. \A ch : Made(ch) = Gen \cup Own(ch) \cup Out(ch)
    BY DEF Made
  <2> HIDE DEF Own, Out, Gen, Mine
  <2> QED BY <2>1, <2>2, <2>3, <2>4
<1>7. Rewarded(d) = Rewarded(c) \cup BlockRewarded(b, h)
  <2> DEFINE Pays(ch) == {g \in DOMAIN ch : ch[g].maker = "self" /\ g % EpochBlocks = 0}
             R(bl, g) == << <<g, Len(bl.txs) + 1>>, RewardOut(g, bl.epoch) >>
  <2>1. Pays(d) = Pays(c) \cup {g \in {h} : b.maker = "self" /\ g % EpochBlocks = 0}
    BY <1>1
  <2>2. \A g \in Pays(c) : d[g] = c[g]
    BY <1>1
  <2>3. \A ch : Rewarded(ch) = {R(ch[g], g) : g \in Pays(ch)}
    BY DEF Rewarded
  <2>4. BlockRewarded(b, h) =
          {R(b, g) : g \in {g \in {h} : b.maker = "self" /\ g % EpochBlocks = 0}}
    BY DEF BlockRewarded
  <2> HIDE DEF Pays, R
  <2> QED BY <1>1, <2>1, <2>2, <2>3, <2>4
<1>8. Spent(d) = Spent(c) \cup BlockSpent(b, h)
  <2> DEFINE Of(p, t) == {<< p, o >> : o \in InputSet(t)}
  <2>1. /\ \A ch : Spent(ch) = UNION {Of(p, TxAt(ch, p)) : p \in Places(ch)}
        /\ BlockSpent(b, h) = UNION {Of(At(i), b.txs[i]) : i \in 1..n}
    BY DEF Spent, BlockSpent, n
  <2> HIDE DEF Of, At
  <2>2. {Of(p, TxAt(d, p)) : p \in Places(d)} =
          {Of(p, TxAt(c, p)) : p \in Places(c)} \cup {Of(At(i), b.txs[i]) : i \in 1..n}
    BY <1>3, <1>5
  <2> QED BY <2>1, <2>2
<1>9. TxsOf(d) = TxsOf(c) \cup ToSet(b.txs)
  <2>1. {ToSet(d[g].txs) : g \in DOMAIN d} = {ToSet(c[g].txs) : g \in DOMAIN c} \cup {ToSet(b.txs)}
    BY <1>1
  <2> QED BY <2>1 DEF TxsOf
<1> QED BY <1>3, <1>5, <1>6, <1>7, <1>8, <1>9 DEF d, h, n

(* Where a chain makes and spends. *)
LEMMA BookPlaces ==
    ASSUME NEW c \in Seq(Block)
    PROVE  /\ \A p \in Places(c) : /\ p[1] \in 1..Len(c) /\ p[2] \in Nat \ {0}
                                   /\ p = <<p[1], p[2]>> /\ TxAt(c, p) \in TxsOf(c)
           /\ TxsOf(c) = {TxAt(c, p) : p \in Places(c)}
           /\ TxsOf(c) \subseteq Txs
           /\ \A m \in Source(c) : m[1][1] \in 0..Len(c) /\ m[1][2] \in Nat
           /\ \A s \in Spent(c) : s[1] \in Places(c) /\ s[2] \in InputSet(TxAt(c, s[1]))
           /\ \A p \in Places(c) : \A o \in InputSet(TxAt(c, p)) : <<p, o>> \in Spent(c)
<1>1. \A h \in DOMAIN c :
         /\ h \in 1..Len(c) /\ h \in 0..Len(c) /\ h \in Nat
         /\ c[h].txs \in Seq(Txs) /\ Len(c[h].txs) \in Nat
         /\ DOMAIN c[h].txs = 1..Len(c[h].txs)
  <2>1. DOMAIN c = 1..Len(c) /\ Len(c) \in Nat /\ \A h \in DOMAIN c : c[h] \in Block
    OBVIOUS
  <2>2. \A b \in Block : b.txs \in Seq(Txs)
    BY DEF Block
  <2> QED BY <2>1, <2>2
<1>2. \A p \in Places(c) : /\ p[1] \in DOMAIN c /\ p[2] \in DOMAIN c[p[1]].txs
                           /\ p = <<p[1], p[2]>>
  BY DEF Places
<1>3. \A p \in Places(c) : p[1] \in 1..Len(c) /\ p[1] \in 0..Len(c) /\ p[2] \in Nat \ {0}
  <2> TAKE p \in Places(c)
  <2>1. p[2] \in 1..Len(c[p[1]].txs) /\ Len(c[p[1]].txs) \in Nat
    BY <1>1, <1>2
  <2> QED BY <1>1, <1>2, <2>1
<1>4. \A h \in DOMAIN c : \A i \in DOMAIN c[h].txs : <<h, i>> \in Places(c)
  BY DEF Places
<1>5. TxsOf(c) = {TxAt(c, p) : p \in Places(c)}
  <2>1. \A h \in DOMAIN c : \A i \in DOMAIN c[h].txs : TxAt(c, <<h, i>>) = c[h].txs[i]
    BY DEF TxAt
  <2>2. \A p \in Places(c) : TxAt(c, p) \in ToSet(c[p[1]].txs)
    BY <1>2 DEF TxAt, ToSet
  <2>3. TxsOf(c) \subseteq {TxAt(c, p) : p \in Places(c)}
    <3> SUFFICES ASSUME NEW h \in DOMAIN c, NEW i \in DOMAIN c[h].txs
                 PROVE  c[h].txs[i] \in {TxAt(c, p) : p \in Places(c)}
      BY DEF TxsOf, ToSet
    <3>1. <<h, i>> \in Places(c) /\ TxAt(c, <<h, i>>) = c[h].txs[i]
      BY <1>4, <2>1
    <3> DEFINE q == <<h, i>>
    <3> HIDE DEF q
    <3> QED BY <3>1 DEF q
  <2>4. {TxAt(c, p) : p \in Places(c)} \subseteq TxsOf(c)
    BY <1>2, <2>2 DEF TxsOf
  <2> QED BY <2>3, <2>4
<1>6. TxsOf(c) \subseteq Txs
  BY <1>1 DEF TxsOf, ToSet
<1>7. \A m \in Source(c) : m[1][1] \in 0..Len(c) /\ m[1][2] \in Nat
  <2> TAKE m \in Source(c)
  <2>1. Len(c) \in Nat /\ 0 \in 0..Len(c)
    OBVIOUS
  <2>2. CASE m = << <<0, 0>>, GenesisOut >>
    BY <2>1, <2>2
  <2>3. CASE \E h \in DOMAIN c : m[1] = <<h, 0>> \/ m[1] = <<h, Len(c[h].txs) + 1>>
    BY <1>1, <2>3
  <2>4. CASE \E p \in Places(c) : m[1] = p
    BY <1>3, <2>4
  <2>5. \/ m = << <<0, 0>>, GenesisOut >>
        \/ \E h \in DOMAIN c : m = << <<h, 0>>, CoinbaseOut(h, c[h].maker) >>
        \/ \E p \in Places(c) : m = << p, Output[TxAt(c, p)] >>
        \/ \E h \in DOMAIN c : m = << <<h, Len(c[h].txs) + 1>>, RewardOut(h, c[h].epoch) >>
    BY DEF Source, Made, Rewarded
  <2> QED BY <2>2, <2>3, <2>4, <2>5
<1>8. \A s \in Spent(c) : s[1] \in Places(c) /\ s[2] \in InputSet(TxAt(c, s[1]))
  BY DEF Spent
<1>9. \A p \in Places(c) : \A o \in InputSet(TxAt(c, p)) : <<p, o>> \in Spent(c)
  BY DEF Spent
<1> QED BY <1>2, <1>3, <1>5, <1>6, <1>7, <1>8, <1>9

(* Rewards aside, a chain leaves what it is said to: no transaction makes    *)
(* the output of a reward.                                                   *)
LEMMA ReplayIsPossible ==
    ASSUME NEW c \in Seq(Block)
    PROVE  /\ Replay(c) = {o \in Possible(c) : o[1] # "reward"}
           /\ \A m \in Made(c) : m[2][1] # "reward"
           /\ \A m \in Rewarded(c) : m[2][1] = "reward"
<1>1. \A m \in Made(c) : m[2][1] # "reward"
  <2> TAKE m \in Made(c)
  <2>1. \/ m[2] = GenesisOut
        \/ \E h \in DOMAIN c : m[2] = CoinbaseOut(h, c[h].maker)
        \/ \E p \in Places(c) : m[2] = Output[TxAt(c, p)]
    BY DEF Made
  <2>2. \A p \in Places(c) : Output[TxAt(c, p)][1] # "reward"
    <3>1. \A p \in Places(c) : TxAt(c, p) \in Txs
      BY BookPlaces
    <3> QED BY <3>1, LedgerAssumption
  <2>3. GenesisOut[1] # "reward" /\ \A h \in DOMAIN c : CoinbaseOut(h, c[h].maker)[1] # "reward"
    BY DEF GenesisOut, CoinbaseOut
  <2> QED BY <2>1, <2>2, <2>3
<1>2. \A m \in Rewarded(c) : m[2][1] = "reward"
  BY DEF Rewarded, RewardOut
<1>3. Replay(c) = {o \in Possible(c) : o[1] # "reward"}
  <2> DEFINE Free(m) == \A s \in Spent(c) : s[2] = m[2] => Before(s[1], m[1])
  <2>1. /\ Replay(c) = {m[2] : m \in {n \in Made(c) : Free(n)}}
        /\ Possible(c) = {m[2] : m \in {n \in Made(c) \cup Rewarded(c) : Free(n)}}
    BY DEF Replay, Possible, Source, Unspent
  <2> HIDE DEF Free
  <2> QED BY <1>1, <1>2, <2>1
<1> QED BY <1>1, <1>2, <1>3

-----------------------------------------------------------------------------
(* The part of a block's writes that lies before the cursor.                 *)
Done(c, i, k) == i < c[1] \/ (i = c[1] /\ k < c[2])
HandMade(b, h, c) ==
    {<< <<h, i>>, OutputOf(b, h, i) >> : i \in {n \in 0..Len(b.txs) : Done(c, n, 0)}}
HandSpent(b, h, c) ==
    UNION {{<< <<h, i>>, InputsOf(b, i)[k] >> : k \in {n \in DOMAIN InputsOf(b, i) : Done(c, i, n)}} :
             i \in 0..Len(b.txs)}
HandPossible(ch, b, c) ==
    Unspent(Source(ch) \cup HandMade(b, Len(ch) + 1, c), Spent(ch) \cup HandSpent(b, Len(ch) + 1, c))

CursorFits(b, c) ==
    /\ c \in Nat \X Nat
    /\ c[1] <= Len(b.txs) + 1
    /\ IF c[1] <= Len(b.txs) THEN c[2] <= Len(InputsOf(b, c[1])) ELSE c[2] = 0

(* The cursor after the write it names. *)
Following(b, c) ==
    IF c[2] < Len(InputsOf(b, c[1])) THEN <<c[1], c[2] + 1>> ELSE <<c[1] + 1, 0>>

LEMMA InputsType ==
    ASSUME NEW b \in Block, NEW i \in 0..Len(b.txs)
    PROVE  /\ InputsOf(b, i) \in Seq(Outpoints) /\ DOMAIN InputsOf(b, i) = 1..Len(InputsOf(b, i))
           /\ Len(InputsOf(b, i)) \in Nat
           /\ ToSet(InputsOf(b, i)) = IF i = 0 THEN {} ELSE InputSet(b.txs[i])
<1>1. b.txs \in Seq(Txs)
  BY DEF Block
<1>2. CASE i = 0
  BY <1>2 DEF InputsOf, Coinbase, ToSet
<1>3. CASE i # 0
  <2>1. b.txs[i] \in Txs
    BY <1>1, <1>3
  <2>2. InputsOf(b, i) = Inputs[b.txs[i]] /\ InputsOf(b, i) \in Seq(Outpoints)
    BY <1>3, <2>1, LedgerAssumption DEF InputsOf, Coinbase
  <2> QED BY <1>3, <2>2 DEF InputSet
<1> QED BY <1>2, <1>3

LEMMA HandStart ==
    ASSUME NEW b \in Block, NEW h
    PROVE  /\ CursorFits(b, <<0, 0>>)
           /\ HandMade(b, h, <<0, 0>>) = {} /\ HandSpent(b, h, <<0, 0>>) = {}
<1>1. b.txs \in Seq(Txs) /\ Len(b.txs) \in Nat
  BY DEF Block
<1>2. \A i \in 0..Len(b.txs) : \A k \in Nat : ~Done(<<0, 0>>, i, k)
  BY <1>1 DEF Done
<1>3. CursorFits(b, <<0, 0>>)
  <2>1. 0 \in 0..Len(b.txs)
    BY <1>1
  <2>2. Len(InputsOf(b, 0)) \in Nat
    BY <2>1, InputsType
  <2> QED BY <1>1, <2>2 DEF CursorFits
<1>4. \A i \in 0..Len(b.txs) : \A k \in DOMAIN InputsOf(b, i) : k \in Nat
  BY InputsType
<1> QED BY <1>2, <1>3, <1>4 DEF HandMade, HandSpent

LEMMA HandEnd ==
    ASSUME NEW b \in Block, NEW h, NEW c, CursorFits(b, c), c[1] > Len(b.txs)
    PROVE  HandMade(b, h, c) = BlockMade(b, h) /\ HandSpent(b, h, c) = BlockSpent(b, h)
<1>1. b.txs \in Seq(Txs) /\ Len(b.txs) \in Nat
  BY DEF Block
<1>2. \A i \in 0..Len(b.txs) : \A k : Done(c, i, k)
  BY <1>1 DEF Done, CursorFits
<1>3. HandMade(b, h, c) = BlockMade(b, h)
  BY <1>2 DEF HandMade, BlockMade
<1>4. HandSpent(b, h, c) = BlockSpent(b, h)
  <2> DEFINE n == Len(b.txs)
             Of(i, S) == {<< <<h, i>>, o >> : o \in S}
  <2>1. HandSpent(b, h, c) = UNION {Of(i, ToSet(InputsOf(b, i))) : i \in 0..n}
    <3>1. HandSpent(b, h, c) =
            UNION {{<< <<h, i>>, InputsOf(b, i)[k] >> : k \in DOMAIN InputsOf(b, i)} : i \in 0..n}
      BY <1>2 DEF HandSpent
    <3>2. \A i \in 0..n : {<< <<h, i>>, InputsOf(b, i)[k] >> : k \in DOMAIN InputsOf(b, i)}
                            = Of(i, ToSet(InputsOf(b, i)))
      BY DEF ToSet
    <3> HIDE DEF n, Of
    <3> QED BY <3>1, <3>2
  <2>2. BlockSpent(b, h) = UNION {Of(i, InputSet(b.txs[i])) : i \in 1..n}
    BY DEF BlockSpent
  <2>3. /\ 0..n = {0} \cup 1..n /\ \A i \in 1..n : i # 0
        /\ Of(0, {}) = {}
    BY <1>1
  <2>4. /\ ToSet(InputsOf(b, 0)) = {}
        /\ \A i \in 1..n : ToSet(InputsOf(b, i)) = InputSet(b.txs[i])
    BY <2>3, InputsType
  <2> HIDE DEF n, Of
  <2>5. \A x : x \in HandSpent(b, h, c) <=> \E i \in 0..n : x \in Of(i, ToSet(InputsOf(b, i)))
    BY <2>1
  <2>6. \A x : x \in BlockSpent(b, h) <=> \E i \in 1..n : x \in Of(i, InputSet(b.txs[i]))
    BY <2>2
  <2>7. \A x : x \in HandSpent(b, h, c) <=> \E i \in 1..n : x \in Of(i, ToSet(InputsOf(b, i)))
    BY <2>3, <2>4, <2>5
  <2>8. \A i \in 1..n : Of(i, ToSet(InputsOf(b, i))) = Of(i, InputSet(b.txs[i]))
    BY <2>4
  <2>9. \A x : x \in HandSpent(b, h, c) <=> x \in BlockSpent(b, h)
    BY <2>6, <2>7, <2>8
  <2> QED BY <2>9
<1> QED BY <1>3, <1>4

(* The write at the cursor is the next one of the block.                     *)
LEMMA HandStep ==
    ASSUME NEW b \in Block, NEW h, NEW c, CursorFits(b, c), ~ (c[1] > Len(b.txs))
    PROVE  LET d == Following(b, c)
           IN  /\ CursorFits(b, d)
               /\ c[2] = 0 =>
                    /\ HandMade(b, h, d) =
                         HandMade(b, h, c) \cup {<< <<h, c[1]>>, OutputOf(b, h, c[1]) >>}
                    /\ HandSpent(b, h, d) = HandSpent(b, h, c)
               /\ c[2] # 0 =>
                    /\ HandMade(b, h, d) = HandMade(b, h, c)
                    /\ HandSpent(b, h, d) =
                         HandSpent(b, h, c) \cup {<< <<h, c[1]>>, InputsOf(b, c[1])[c[2]] >>}
<1> DEFINE d == Following(b, c)
           n == Len(b.txs)
           i == c[1]
           j == c[2]
           In(x) == InputsOf(b, x)
<1>1. /\ n \in Nat /\ i \in 0..n /\ j \in 0..Len(In(i)) /\ c \in Nat \X Nat
      /\ \A x \in 0..n : DOMAIN In(x) = 1..Len(In(x)) /\ Len(In(x)) \in Nat
  <2>1. n \in Nat
    BY DEF Block
  <2>2. i \in 0..n /\ j \in Nat /\ j <= Len(In(i)) /\ c \in Nat \X Nat
    BY <2>1 DEF CursorFits
  <2>3. \A x \in 0..n : DOMAIN In(x) = 1..Len(In(x)) /\ Len(In(x)) \in Nat
    BY InputsType
  <2> QED BY <2>1, <2>2, <2>3
<1>2. d = IF j < Len(In(i)) THEN <<i, j + 1>> ELSE <<i + 1, 0>>
  BY DEF Following
<1> HIDE DEF d
<1>3. CursorFits(b, d)
  <2> HIDE DEF n, i, j
  <2>1. CASE j < Len(In(i))
    BY <1>1, <1>2, <2>1 DEF CursorFits, n
  <2>2. CASE ~ (j < Len(In(i)))
    <3>1. d = <<i + 1, 0>> /\ i + 1 <= n + 1 /\ (i + 1 <= n => i + 1 \in 0..n)
      BY <1>1, <1>2, <2>2
    <3>2. i + 1 <= n => 0 <= Len(In(i + 1))
      BY <1>1, <3>1
    <3> HIDE DEF In
    <3> QED BY <1>1, <3>1, <3>2 DEF CursorFits, n, In
  <2> QED BY <2>1, <2>2
<1>4. \A x \in 0..n : \A k \in 0..Len(In(x)) : Done(d, x, k) <=> Done(c, x, k) \/ (x = i /\ k = j)
  <2> TAKE x \in 0..n
  <2> TAKE k \in 0..Len(In(x))
  <2>1. Done(c, x, k) <=> x < i \/ (x = i /\ k < j)
    BY DEF Done
  <2> HIDE DEF n, i, j
  <2>2. x \in Nat /\ k \in Nat /\ i \in Nat /\ j \in Nat /\ (x = i => k <= Len(In(i))) /\ Len(In(i)) \in Nat
    BY <1>1
  <2> HIDE DEF In
  <2>3. CASE j < Len(In(i))
    <3>1. Done(d, x, k) <=> x < i \/ (x = i /\ k < j + 1)
      BY <1>2, <2>3 DEF Done
    <3> QED BY <2>1, <2>2, <3>1
  <2>4. CASE ~ (j < Len(In(i)))
    <3>1. Done(d, x, k) <=> x < i + 1 \/ (x = i + 1 /\ k < 0)
      BY <1>2, <2>4 DEF Done
    <3>2. j = Len(In(i))
      BY <1>1, <2>2, <2>4
    <3> QED BY <2>1, <2>2, <3>1, <3>2
  <2> QED BY <2>3, <2>4
<1>5. \A x \in 0..n : /\ 0 \in 0..Len(In(x))
                      /\ \A k \in DOMAIN In(x) : k \in 0..Len(In(x)) /\ k # 0
  BY <1>1
<1> DEFINE M(x) == << <<h, x>>, OutputOf(b, h, x) >>
           S(x, k) == << <<h, x>>, In(x)[k] >>
<1>6. \A e : /\ HandMade(b, h, e) = {M(x) : x \in {y \in 0..n : Done(e, y, 0)}}
             /\ HandSpent(b, h, e) =
                  UNION {{S(x, k) : k \in {z \in DOMAIN In(x) : Done(e, x, z)}} : x \in 0..n}
  BY DEF HandMade, HandSpent
<1> HIDE DEF M, S, n
<1> DEFINE K(e, x) == {z \in DOMAIN In(x) : Done(e, x, z)}
           Row(e, x) == {S(x, k) : k \in K(e, x)}
<1>7. \A e : HandSpent(b, h, e) = UNION {Row(e, x) : x \in 0..n}
  BY <1>6
<1>8. ASSUME j = 0
      PROVE  /\ HandMade(b, h, d) = HandMade(b, h, c) \cup {M(i)}
             /\ HandSpent(b, h, d) = HandSpent(b, h, c)
  <2> HIDE DEF In, i, j
  <2>1. {y \in 0..n : Done(d, y, 0)} = {y \in 0..n : Done(c, y, 0)} \cup {i}
    BY <1>1, <1>4, <1>5, <1>8
  <2>2. HandMade(b, h, d) = HandMade(b, h, c) \cup {M(i)}
    BY <1>6, <2>1
  <2>3. \A x \in 0..n : Row(d, x) = Row(c, x)
    <3>1. \A x \in 0..n : K(d, x) = K(c, x)
      BY <1>4, <1>5, <1>8
    <3> HIDE DEF K
    <3> QED BY <3>1
  <2> HIDE DEF Row, K
  <2>4. {Row(d, x) : x \in 0..n} = {Row(c, x) : x \in 0..n}
    BY <2>3
  <2>5. HandSpent(b, h, d) = HandSpent(b, h, c)
    <3>1. HandSpent(b, h, d) = UNION {Row(d, x) : x \in 0..n}
      BY <1>7
    <3>2. HandSpent(b, h, c) = UNION {Row(c, x) : x \in 0..n}
      BY <1>7
    <3> QED BY <2>4, <3>1, <3>2
  <2> QED BY <2>2, <2>5
<1>9. ASSUME j # 0
      PROVE  /\ HandMade(b, h, d) = HandMade(b, h, c)
             /\ HandSpent(b, h, d) = HandSpent(b, h, c) \cup {S(i, j)}
  <2>1. j \in DOMAIN In(i)
    BY <1>1, <1>9
  <2> HIDE DEF In, i, j
  <2>2. {y \in 0..n : Done(d, y, 0)} = {y \in 0..n : Done(c, y, 0)}
    BY <1>4, <1>5, <1>9
  <2>3. HandMade(b, h, d) = HandMade(b, h, c)
    BY <1>6, <2>2
  <2>4. /\ \A x \in 0..n : x # i => Row(d, x) = Row(c, x)
        /\ Row(d, i) = Row(c, i) \cup {S(i, j)}
    <3>1. /\ \A x \in 0..n : x # i => K(d, x) = K(c, x)
          /\ K(d, i) = K(c, i) \cup {j}
      BY <1>1, <1>4, <1>5, <2>1
    <3> HIDE DEF K
    <3> QED BY <3>1
  <2> HIDE DEF Row, K
  <2>5. \A y : (\E x \in 0..n : y \in Row(d, x)) <=> (\E x \in 0..n : y \in Row(c, x)) \/ y = S(i, j)
    <3>1. i \in 0..n
      BY <1>1
    <3> QED BY <2>4, <3>1
  <2> DEFINE all(e) == UNION {Row(e, x) : x \in 0..n}
  <2>6. \A y, e : y \in all(e) <=> \E x \in 0..n : y \in Row(e, x)
    OBVIOUS
  <2>7. HandSpent(b, h, d) = all(d) /\ HandSpent(b, h, c) = all(c)
    BY <1>7
  <2> HIDE DEF all
  <2>8. all(d) = all(c) \cup {S(i, j)}
    BY <2>5, <2>6
  <2> QED BY <2>3, <2>7, <2>8, Zenon
<1>10. M(i) = << <<h, i>>, OutputOf(b, h, i) >> /\ S(i, j) = << <<h, i>>, In(i)[j] >>
  BY DEF M, S
<1> HIDE DEF M, S
<1> QED BY <1>3, <1>8, <1>9, <1>10 DEF d

-----------------------------------------------------------------------------
(* A UTXO set that holds nothing but what may be unspent, and lacks nothing  *)
(* but rewards.                                                              *)
Kept(utxo, possible) ==
    /\ utxo \subseteq possible
    /\ \A o \in possible : o[1] # "reward" => o \in utxo

LEMMA HandFirst ==
    ASSUME NEW ch \in Seq(Block), NEW b \in Block
    PROVE  CursorFits(b, <<0, 0>>) /\ HandPossible(ch, b, <<0, 0>>) = Possible(ch)
BY HandStart DEF HandPossible, Possible

(* Each write of a block takes the UTXO set to what the writes so far allow. *)
LEMMA WriteStep ==
    ASSUME NEW ch \in Seq(Block), NEW b \in Block, NEW c, NEW utxo,
           CursorFits(b, c), ~ (c[1] > Len(b.txs)), Kept(utxo, HandPossible(ch, b, c))
    PROVE  LET d == Following(b, c)
           IN  /\ CursorFits(b, d)
               /\ c[2] = 0 => Kept(utxo \cup {OutputOf(b, Len(ch) + 1, c[1])}, HandPossible(ch, b, d))
               /\ c[2] # 0 => Kept(utxo \ {InputsOf(b, c[1])[c[2]]}, HandPossible(ch, b, d))
<1> DEFINE d == Following(b, c)
           h == Len(ch) + 1
           M(e) == Source(ch) \cup HandMade(b, h, e)
           S(e) == Spent(ch) \cup HandSpent(b, h, e)
           p == <<h, c[1]>>
<1>1. /\ CursorFits(b, d)
      /\ c[2] = 0 =>
           /\ HandMade(b, h, d) = HandMade(b, h, c) \cup {<< p, OutputOf(b, h, c[1]) >>}
           /\ HandSpent(b, h, d) = HandSpent(b, h, c)
      /\ c[2] # 0 =>
           /\ HandMade(b, h, d) = HandMade(b, h, c)
           /\ HandSpent(b, h, d) = HandSpent(b, h, c) \cup {<< p, InputsOf(b, c[1])[c[2]] >>}
  <2> HIDE DEF h
  <2> QED BY HandStep
<1>2. h \in Nat /\ c \in Nat \X Nat /\ Len(ch) \in Nat /\ p[1] = h /\ p[2] = c[1]
  BY DEF CursorFits
<1>3. /\ \A m \in Source(ch) : m[1][1] \in 0..Len(ch)
      /\ \A s \in Spent(ch) : s[1][1] \in 1..Len(ch)
  BY BookPlaces
<1>4. \A m \in HandMade(b, h, c) : m[1][1] = h /\ m[1][2] \in Nat /\ m[1][2] <= c[1]
  <2> SUFFICES ASSUME NEW n \in 0..Len(b.txs), Done(c, n, 0) PROVE n \in Nat /\ n <= c[1]
    BY DEF HandMade
  <2>1. n \in Nat
    BY DEF Block
  <2> QED BY <1>2, <2>1 DEF Done
<1>5. \A s \in HandSpent(b, h, c) : /\ s[1][1] = h /\ s[1][2] \in Nat
                                    /\ c[2] = 0 => s[1][2] < c[1]
  <2> SUFFICES ASSUME NEW n \in 0..Len(b.txs), NEW k \in DOMAIN InputsOf(b, n), Done(c, n, k)
               PROVE  n \in Nat /\ (c[2] = 0 => n < c[1])
    BY DEF HandSpent
  <2>1. n \in Nat /\ k \in Nat
    BY InputsType DEF Block
  <2> QED BY <1>2, <2>1 DEF Done
<1>6. HandPossible(ch, b, c) = Unspent(M(c), S(c)) /\ HandPossible(ch, b, d) = Unspent(M(d), S(d))
  BY DEF HandPossible
<1> HIDE DEF d, h, p
<1>7. ASSUME c[2] = 0
      PROVE  Kept(utxo \cup {OutputOf(b, h, c[1])}, HandPossible(ch, b, d))
  <2> DEFINE o == OutputOf(b, h, c[1])
  <2>1. Plus(M(d), M(c), <<p, o>>) /\ S(d) = S(c)
    BY <1>1, <1>7 DEF Plus
  <2>2. AllBefore(S(c), p)
    BY <1>2, <1>3, <1>5, <1>7 DEF AllBefore, Before, h
  <2> HIDE DEF M, S, o
  <2>3. Plus(Unspent(M(d), S(c)), Unspent(M(c), S(c)), o)
    BY <2>1, <2>2, MakeStep
  <2>4. HandPossible(ch, b, d) = HandPossible(ch, b, c) \cup {o}
    BY <1>6, <2>1, <2>3 DEF Plus
  <2> QED BY <2>4 DEF Kept, o
<1>8. ASSUME c[2] # 0
      PROVE  Kept(utxo \ {InputsOf(b, c[1])[c[2]]}, HandPossible(ch, b, d))
  <2> DEFINE o == InputsOf(b, c[1])[c[2]]
  <2>1. M(d) = M(c) /\ Plus(S(d), S(c), <<p, o>>)
    BY <1>1, <1>8 DEF Plus
  <2>2. NoneAfter(M(c), p)
    BY <1>2, <1>3, <1>4 DEF NoneAfter, Before, h
  <2> HIDE DEF M, S, o
  <2>3. Minus(Unspent(M(c), S(d)), Unspent(M(c), S(c)), o)
    BY <2>1, <2>2, SpendStep
  <2>4. HandPossible(ch, b, d) = HandPossible(ch, b, c) \ {o}
    BY <1>6, <2>1, <2>3 DEF Minus
  <2> QED BY <2>4 DEF Kept, o
<1> QED BY <1>1, <1>7, <1>8 DEF d, h

LEMMA HandLast ==
    ASSUME NEW ch \in Seq(Block), NEW b \in Block, NEW c, NEW utxo,
           CursorFits(b, c), c[1] > Len(b.txs), Kept(utxo, HandPossible(ch, b, c))
    PROVE  Kept(utxo, Possible(Append(ch, b)))
<1> DEFINE h == Len(ch) + 1
           d == Append(ch, b)
           M == Source(ch) \cup BlockMade(b, h)
           S == Spent(d)
           R == BlockRewarded(b, h)
<1>1. HandPossible(ch, b, c) = Unspent(M, S)
  <2>1. h \in Nat /\ HandMade(b, h, c) = BlockMade(b, h) /\ HandSpent(b, h, c) = BlockSpent(b, h)
    BY HandEnd
  <2>2. Spent(d) = Spent(ch) \cup BlockSpent(b, h)
    BY LongerChain
  <2> QED BY <2>1, <2>2 DEF HandPossible
<1>2. Possible(d) = Unspent(M \cup R, S)
  <2>1. Source(d) = M \cup R
    BY LongerChain DEF Source
  <2> QED BY <2>1 DEF Possible
<1>3. \A m \in R : m[2][1] = "reward"
  BY DEF BlockRewarded, RewardOut
<1> HIDE DEF M, R, S, d
<1>4. Unspent(M, S) \subseteq Unspent(M \cup R, S)
  BY MoreMade
<1>5. \A o \in Unspent(M \cup R, S) : o[1] # "reward" => o \in Unspent(M, S)
  BY <1>3 DEF Unspent
<1> QED BY <1>1, <1>2, <1>4, <1>5 DEF Kept, d

LEMMA RewardIsPossible ==
    ASSUME NEW ch \in Seq(Block), NEW b \in Block,
           b.maker = "self", (Len(ch) + 1) % EpochBlocks = 0
    PROVE  RewardOut(Len(ch) + 1, b.epoch) \in Possible(Append(ch, b))
<1> DEFINE h == Len(ch) + 1
           d == Append(ch, b)
           n == Len(b.txs)
           q == <<h, n + 1>>
           m == <<q, RewardOut(h, b.epoch)>>
<1>1. m \in Source(d)
  <2>1. m \in BlockRewarded(b, h)
    BY DEF BlockRewarded
  <2> HIDE DEF m
  <2> QED BY <2>1, LongerChain DEF Source
<1>2. n \in Nat /\ h \in Nat /\ Len(ch) \in Nat
  BY DEF Block
<1>3. \A s \in Spent(d) : Before(s[1], q)
  <2>1. \A s \in Spent(ch) : s[1][1] \in 1..Len(ch)
    BY BookPlaces
  <2>2. \A s \in BlockSpent(b, h) : s[1][1] = h /\ s[1][2] \in 1..n
    BY DEF BlockSpent
  <2>3. \A s \in Spent(d) : s \in Spent(ch) \/ s \in BlockSpent(b, h)
    BY LongerChain
  <2>4. q[1] = h /\ q[2] = n + 1
    OBVIOUS
  <2> HIDE DEF d, n, q
  <2> QED BY <1>2, <2>1, <2>2, <2>3, <2>4 DEF Before
<1>4. m[1] = q /\ m[2] = RewardOut(h, b.epoch)
  OBVIOUS
<1> HIDE DEF d, m
<1>5. m[2] \in Possible(d)
  BY <1>1, <1>3, <1>4 DEF Possible, Unspent
<1> QED BY <1>4, <1>5 DEF d

(* The block being written is of the epoch in memory, and an epoch's rewards *)
(* are paid at a boundary block of the node's own.                           *)
HandInv ==
    /\ pc \in {"utxo", "reward"} => Last(blocks).epoch = epoch
    /\ pc = "reward" => Last(blocks).maker = "self" /\ height % EpochBlocks = 0

LEMMA HandInvStep == TypeOK /\ ChainInv /\ HandInv /\ [Next]_vars => HandInv'
<1> SUFFICES ASSUME TypeOK, ChainInv, HandInv, [Next]_vars PROVE HandInv'
  OBVIOUS
<1> USE DEF HandInv
<1>1. CASE UNCHANGED vars
  BY <1>1 DEF vars, disk, memory
<1>2. ASSUME NEW b \in Block, pc = "loop", b.epoch = epoch, WriteBlock(b) PROVE HandInv'
  <2>1. Last(blocks') = b /\ pc' = "utxo" /\ epoch' = epoch
    BY <1>2, WriteBlockFacts DEF WriteBlock
  <2> QED BY <1>2, <2>1
<1>3. CASE MineBlock
  BY <1>2, <1>3, MineFacts
<1>4. ASSUME NEW ts \in PeerBlockTxs, PeerBlock(ts) PROVE HandInv'
  BY <1>2, <1>4, PeerFacts
<1>5. ASSUME NEW t \in Txs, SubmitTx(t) PROVE HandInv'
  BY <1>5 DEF SubmitTx
<1>6. CASE UpdateUtxo
  BY <1>6 DEF UpdateUtxo, memory
<1>7. CASE ClearMempool
  BY <1>7 DEF ClearMempool
<1>8. CASE PayReward \/ EndEpoch \/ SaveHeight \/ SaveEpoch \/ RetainMempool
           \/ SavePeerMempool \/ Kill \/ Restart \/ EnterLoop
  BY <1>8 DEF PayReward, EndEpoch, SaveHeight, SaveEpoch, RetainMempool, SavePeerMempool, Kill,
              Restart, EnterLoop
<1> QED BY <1>1, <1>3, <1>4, <1>5, <1>6, <1>7, <1>8 DEF Next

(* The chain the UTXO set stands for between its updates, and the invariant: *)
(* without a kill inside a block's writes the set goes with the chain, write *)
(* by write.                                                                 *)
Book == IF pc \in {"reward", "epoch", "height"} THEN blocks ELSE Chain

UtxoInv ==
    crashes = 0 =>
      /\ pc # "utxo" => Kept(sUtxo, Possible(Book))
      /\ pc = "utxo" => /\ CursorFits(Last(blocks), cursor)
                        /\ Kept(sUtxo, HandPossible(Chain, Last(blocks), cursor))

(* A behaviour without a kill inside a block's writes has had none so far.  *)
LEMMA NoCrashBefore ==
    ASSUME TypeOK, [Next]_vars, crashes' = 0
    PROVE  crashes = 0 /\ (Kill => Running)
<1>1. crashes \in Nat
  BY DEF TypeOK
<1>2. crashes' = crashes \/ (Kill /\ crashes' = IF Running THEN crashes ELSE crashes + 1)
  BY DEF Next, vars, history, SubmitTx, MineBlock, PeerBlock, WriteBlock, UpdateUtxo, ClearMempool,
         PayReward, EndEpoch, SaveHeight, SaveEpoch, RetainMempool, SavePeerMempool, Kill,
         Restart, EnterLoop
<1>3. Kill => crashes' = IF Running THEN crashes ELSE crashes + 1
  BY DEF Kill
<1> QED BY <1>1, <1>2, <1>3

LEMMA EmptyChain ==
    /\ Source(<<>>) = {<< <<0, 0>>, GenesisOut >>} /\ Spent(<<>>) = {} /\ TxsOf(<<>>) = {}
    /\ Places(<<>>) = {} /\ Possible(<<>>) = {GenesisOut}
<1>1. DOMAIN <<>> = {}
  OBVIOUS
<1> DEFINE c == <<>>
           g == << <<0, 0>>, GenesisOut >>
<1> HIDE DEF c
<1>2. Places(c) = {} /\ TxsOf(c) = {}
  BY <1>1 DEF Places, TxsOf, c
<1>3. Spent(c) = {} /\ Made(c) = {g} /\ Rewarded(c) = {}
  BY <1>1, <1>2 DEF Spent, Made, Rewarded, c
<1>4. Source(c) = {g}
  BY <1>3 DEF Source
<1>5. Possible(c) = {GenesisOut}
  <2>1. g[2] = GenesisOut
    OBVIOUS
  <2> HIDE DEF g
  <2> QED BY <1>3, <1>4, <2>1 DEF Possible, Unspent
<1> QED BY <1>2, <1>3, <1>4, <1>5 DEF c

LEMMA NoChain ==
    ASSUME TypeOK, ChainInv, sHeight = 0
    PROVE  Chain = <<>>
BY ChainFacts

LEMMA UtxoInvInit == Init => UtxoInv
<1> SUFFICES ASSUME Init PROVE UtxoInv
  OBVIOUS
<1>1. Book = <<>> /\ sUtxo = {GenesisOut} /\ pc = "boot"
  BY DEF Init, Book, Chain
<1> QED BY <1>1, EmptyChain DEF UtxoInv, Kept

LEMMA UtxoInvStep == TypeOK /\ ChainInv /\ HandInv /\ UtxoInv /\ [Next]_vars => UtxoInv'
<1> SUFFICES ASSUME TypeOK, ChainInv, HandInv, UtxoInv, [Next]_vars, crashes' = 0
             PROVE  /\ pc' # "utxo" => Kept(sUtxo', Possible(Book'))
                    /\ pc' = "utxo" => /\ CursorFits(Last(blocks'), cursor')
                                       /\ Kept(sUtxo', HandPossible(Chain', Last(blocks'), cursor'))
  BY DEF UtxoInv
<1> DEFINE Goal == /\ pc' # "utxo" => Kept(sUtxo', Possible(Book'))
                   /\ pc' = "utxo" => /\ CursorFits(Last(blocks'), cursor')
                                      /\ Kept(sUtxo', HandPossible(Chain', Last(blocks'), cursor'))
<1>0. /\ Chain \in Seq(Block) /\ Len(Chain) = sHeight
      /\ pc \in Writing => /\ Last(blocks) \in Block /\ blocks = Append(Chain, Last(blocks))
                           /\ height = Len(Chain) + 1
  BY ChainFacts DEF ChainInv
<1>1. crashes = 0 /\ (Kill => Running)
  BY NoCrashBefore
<1>2. /\ pc # "utxo" => Kept(sUtxo, Possible(Book))
      /\ pc = "utxo" => /\ CursorFits(Last(blocks), cursor)
                        /\ Kept(sUtxo, HandPossible(Chain, Last(blocks), cursor))
  BY <1>1 DEF UtxoInv
<1>3. ASSUME pc # "utxo", pc' # "utxo", Book' = Book, sUtxo' = sUtxo PROVE Goal
  BY <1>2, <1>3
<1>4. CASE UNCHANGED vars
  BY <1>2, <1>4 DEF vars, disk, memory, Book, Chain
<1>5. ASSUME NEW t \in Txs, SubmitTx(t) PROVE Goal
  BY <1>3, <1>5 DEF SubmitTx, LockFree, Book, Chain
<1>6. ASSUME NEW b \in Block, pc = "loop", WriteBlock(b) PROVE Goal
  <2>1. Chain' = Chain /\ Last(blocks') = b /\ sUtxo' = sUtxo /\ cursor' = <<0, 0>> /\ pc' = "utxo"
    BY <1>6, WriteBlockFacts DEF WriteBlock
  <2>2. Book = Chain
    BY <1>6 DEF Book
  <2> QED BY <1>0, <1>2, <1>6, <2>1, <2>2, HandFirst
<1>7. CASE MineBlock
  BY <1>6, <1>7, MineFacts
<1>8. ASSUME NEW ts \in PeerBlockTxs, PeerBlock(ts) PROVE Goal
  BY <1>6, <1>8, PeerFacts
<1>9. CASE UpdateUtxo
  <2> DEFINE b == Last(blocks)
             i == cursor[1]
             j == cursor[2]
  <2>1. /\ pc = "utxo" /\ ~ (i > Len(b.txs)) /\ pc' = pc /\ blocks' = blocks /\ Chain' = Chain
        /\ sUtxo' = IF j = 0 THEN sUtxo \cup {OutputOf(b, height, i)} ELSE sUtxo \ {InputsOf(b, i)[j]}
        /\ cursor' = Following(b, cursor)
    BY <1>9 DEF UpdateUtxo, UtxoWritten, Following, memory, Chain
  <2>2. b \in Block /\ height = Len(Chain) + 1
    BY <1>0, <2>1 DEF Writing
  <2>3. CursorFits(b, cursor) /\ Kept(sUtxo, HandPossible(Chain, b, cursor))
    BY <1>2, <2>1
  <2> HIDE DEF b
  <2>4. /\ CursorFits(b, cursor')
        /\ j = 0 => Kept(sUtxo \cup {OutputOf(b, Len(Chain) + 1, i)}, HandPossible(Chain, b, cursor'))
        /\ j # 0 => Kept(sUtxo \ {InputsOf(b, i)[j]}, HandPossible(Chain, b, cursor'))
    BY <1>0, <2>1, <2>2, <2>3, WriteStep
  <2>5. Kept(sUtxo', HandPossible(Chain, b, cursor'))
    BY <2>1, <2>2, <2>4
  <2> QED BY <2>1, <2>4, <2>5 DEF b
<1>10. ASSUME pc = "utxo", UtxoWritten, pc' \in {"reward", "height"}, sUtxo' = sUtxo, blocks' = blocks
       PROVE  Goal
  <2>1. /\ Last(blocks) \in Block /\ blocks = Append(Chain, Last(blocks))
        /\ CursorFits(Last(blocks), cursor) /\ Kept(sUtxo, HandPossible(Chain, Last(blocks), cursor))
    BY <1>0, <1>2, <1>10 DEF Writing
  <2>2. Kept(sUtxo, Possible(Append(Chain, Last(blocks))))
    BY <1>0, <1>10, <2>1, HandLast DEF UtxoWritten
  <2>3. Book' = Append(Chain, Last(blocks))
    BY <1>10, <2>1 DEF Book
  <2> QED BY <1>10, <2>2, <2>3
<1>11. CASE ClearMempool
  BY <1>10, <1>11 DEF ClearMempool
<1>12. CASE RetainMempool
  BY <1>10, <1>12 DEF RetainMempool, disk
<1>13. CASE PayReward
  <2>1. /\ pc = "reward" /\ pc' = "epoch" /\ blocks' = blocks
        /\ sUtxo' \in {sUtxo, sUtxo \cup {RewardOut(height, epoch)}}
    BY <1>13 DEF PayReward, memory
  <2>2. /\ Last(blocks).maker = "self" /\ Last(blocks).epoch = epoch
        /\ (Len(Chain) + 1) % EpochBlocks = 0 /\ height = Len(Chain) + 1
        /\ Last(blocks) \in Block /\ blocks = Append(Chain, Last(blocks))
    BY <1>0, <2>1 DEF HandInv, Writing
  <2>3. RewardOut(height, epoch) \in Possible(Append(Chain, Last(blocks)))
    BY <1>0, <2>2, RewardIsPossible
  <2>4. Book = blocks /\ Book' = blocks
    BY <2>1 DEF Book
  <2> QED BY <1>2, <2>1, <2>2, <2>3, <2>4 DEF Kept
<1>14. CASE EndEpoch
  BY <1>3, <1>14 DEF EndEpoch, Book
<1>15. CASE SaveHeight
  <2>1. /\ pc = "height" /\ pc' \in {"save_epoch", "save_mempool"} /\ sUtxo' = sUtxo
        /\ stored' = stored /\ sHeight' = height
    BY <1>15 DEF SaveHeight
  <2>2. Book = blocks /\ Book' = Chain'
    BY <2>1 DEF Book
  <2>3. Chain' = blocks
    BY <2>1 DEF Chain, ChainInv, Down
  <2> QED BY <1>3, <2>1, <2>2, <2>3
<1>16. CASE SaveEpoch \/ SavePeerMempool \/ EnterLoop
  BY <1>3, <1>16 DEF SaveEpoch, SavePeerMempool, EnterLoop, disk, Book, Chain
<1>17. CASE Kill
  BY <1>1, <1>3, <1>17 DEF Kill, Running, disk, Book, Chain
<1>18. CASE Restart
  <2>1. /\ pc = "down" /\ pc' = "boot" /\ UNCHANGED <<stored, sHeight>>
        /\ sUtxo' = IF sHeight = 0 THEN sUtxo \cup {GenesisOut} ELSE sUtxo
    BY <1>18 DEF Restart, InitGenesis, Down
  <2>2. Book = Chain /\ Book' = Chain
    BY <2>1 DEF Book, Chain
  <2>3. CASE sHeight = 0
    <3>1. Possible(Chain) = {GenesisOut}
      BY <2>3, NoChain, EmptyChain
    <3> QED BY <1>2, <2>1, <2>2, <3>1 DEF Kept
  <2>4. CASE sHeight # 0
    BY <1>3, <2>1, <2>2, <2>4
  <2> QED BY <2>3, <2>4
<1> QED
  BY <1>4, <1>5, <1>7, <1>8, <1>9, <1>11, <1>12, <1>13, <1>14, <1>15, <1>16, <1>17,
     <1>18 DEF Next

LEMMA HandInvInit == Init => HandInv
BY DEF Init, HandInv

LedgerBase == TypeOK /\ ChainInv /\ HandInv /\ UtxoInv

LEMMA LedgerBaseHolds ==
    /\ Init => LedgerBase
    /\ LedgerBase /\ [Next]_vars => LedgerBase'
BY TypeOKInit, ChainInvInit, HandInvInit, UtxoInvInit, TypeOKStep, ChainInvStep, HandInvStep,
   UtxoInvStep DEF LedgerBase

(* Without a kill inside a block's writes, the UTXO set is the replay of the *)
(* saved chain from the genesis output: of a transaction mined again after a *)
(* restart, and of one whose inputs another block had spent, too.            *)
THEOREM ReplayGivesUtxo == Spec => []UtxoIsReplay
<1>1. LedgerBase => UtxoIsReplay
  <2> SUFFICES ASSUME LedgerBase, AtRest, crashes = 0 PROVE sUtxo \ Rewards = Replay(Chain)
    BY DEF UtxoIsReplay
  <2>1. Kept(sUtxo, Possible(Chain))
    BY DEF LedgerBase, UtxoInv, AtRest, Book
  <2>2. Replay(Chain) = {o \in Possible(Chain) : o[1] # "reward"}
    BY ChainFacts, ReplayIsPossible DEF LedgerBase
  <2> QED BY <2>1, <2>2 DEF Kept, Rewards
<1> QED BY <1>1, LedgerBaseHolds, PTL DEF Spec

-----------------------------------------------------------------------------
(* What is pending in the node, or was saved by it if it is down. *)
Held == IF Down THEN ToSet(sMempool) ELSE ToSet(mempool)

(* What was accepted, while no kill falls inside a block's writes: the       *)
(* node's transactions are pending, in the chain, or counted as dropped; and *)
(* what is pending between blocks is saved (at height 0 with an older one).  *)
LossInv ==
    crashes = 0 =>
      /\ accepted \subseteq Held \cup TxsOf(Book) \cup dropped
      /\ Running => ToSet(mempool) \subseteq ToSet(sMempool)

(* The chain the node works on changes when the mempool is settled after a   *)
(* block's writes, and not in the write of its height.                       *)
LEMMA BookSteps ==
    ASSUME TypeOK, ChainInv, [Next]_vars, Kill => Running
    PROVE  \/ Book' = Book
           \/ pc = "utxo" /\ (ClearMempool \/ RetainMempool)
<1>1. CASE UNCHANGED vars
  BY <1>1 DEF vars, disk, memory, Book, Chain
<1>2. ASSUME NEW b \in Block, pc = "loop", WriteBlock(b) PROVE Book' = Book
  <2>1. Chain' = Chain /\ pc' = "utxo"
    BY <1>2, WriteBlockFacts DEF WriteBlock
  <2> QED BY <1>2, <2>1 DEF Book
<1>3. CASE MineBlock
  BY <1>2, <1>3, MineFacts
<1>4. ASSUME NEW ts \in PeerBlockTxs, PeerBlock(ts) PROVE Book' = Book
  BY <1>2, <1>4, PeerFacts
<1>5. CASE ClearMempool \/ RetainMempool
  BY <1>5 DEF ClearMempool, RetainMempool
<1>6. CASE SaveHeight
  <2>1. pc = "height" /\ pc' \in {"save_epoch", "save_mempool"} /\ stored' = stored /\ sHeight' = height
    BY <1>6 DEF SaveHeight
  <2>2. Chain' = blocks
    BY <2>1 DEF Chain, ChainInv, Down
  <2> QED BY <2>1, <2>2 DEF Book
<1>7. CASE PayReward \/ EndEpoch
  BY <1>7 DEF PayReward, EndEpoch, memory, Book
<1>8. CASE Kill
  BY <1>8 DEF Kill, Running, disk, Book, Chain
<1>9. ASSUME NEW t \in Txs, SubmitTx(t) PROVE Book' = Book
  BY <1>9 DEF SubmitTx, LockFree, Book, Chain
<1>10. CASE UpdateUtxo \/ SaveEpoch \/ SavePeerMempool \/ Restart \/ EnterLoop
  BY <1>10 DEF UpdateUtxo, SaveEpoch, SavePeerMempool, Restart, EnterLoop, Down, disk, Book, Chain
<1> QED
  BY <1>1, <1>3, <1>4, <1>5, <1>6, <1>7, <1>8, <1>9, <1>10 DEF Next

LEMMA LossInvInit == Init => LossInv
BY DEF Init, LossInv, Held

LEMMA LossInvStep == TypeOK /\ ChainInv /\ MempoolInv /\ LossInv /\ [Next]_vars => LossInv'
<1> USE DEF Held
<1> DEFINE Accounted == accepted \subseteq Held \cup TxsOf(Book) \cup dropped
           Saves == Running => ToSet(mempool) \subseteq ToSet(sMempool)
<1> SUFFICES ASSUME TypeOK, ChainInv, MempoolInv, LossInv, [Next]_vars, crashes' = 0
             PROVE  Accounted' /\ Saves'
  BY DEF LossInv
<1>1. /\ crashes = 0 /\ (Kill => Running)
      /\ accepted \subseteq Held \cup TxsOf(Book) \cup dropped
      /\ Running => ToSet(mempool) \subseteq ToSet(sMempool)
  BY NoCrashBefore DEF LossInv
<1>2. \/ Book' = Book
      \/ pc = "utxo" /\ (ClearMempool \/ RetainMempool)
  BY <1>1, BookSteps
<1>3. ASSUME Book' = Book, UNCHANGED <<mempool, sMempool, accepted, dropped>>, ~Down, ~Down',
             Running' => Running
      PROVE  Accounted' /\ Saves'
  BY <1>1, <1>3
<1>4. CASE UNCHANGED vars
  BY <1>1, <1>4 DEF vars, disk, memory, history, Book, Chain, Down, Running
<1>5. ASSUME NEW t \in Txs, SubmitTx(t) PROVE Accounted' /\ Saves'
  <2>1. /\ sMempool' = mempool'
        /\ \A u \in ToSet(mempool) \cup {t} : u \in ToSet(mempool') \cup dropped'
        /\ dropped \ {t} \subseteq dropped'
    BY <1>5, SubmitFacts
  <2>2. accepted' = accepted \cup {t} /\ pc' = pc /\ ~Down /\ Book' = Book
    BY <1>5 DEF SubmitTx, LockFree, Down, Book, Chain
  <2> QED BY <1>1, <2>1, <2>2 DEF Down
<1>6. ASSUME NEW b, pc = "loop", WriteBlock(b), Book' = Book PROVE Accounted' /\ Saves'
  BY <1>3, <1>6 DEF WriteBlock, Down, Running
<1>7. CASE MineBlock
  <2>1. Book' = Book
    BY <1>2, <1>7 DEF MineBlock
  <2> QED BY <1>6, <1>7, <2>1, MineFacts
<1>8. ASSUME NEW ts \in PeerBlockTxs, PeerBlock(ts) PROVE Accounted' /\ Saves'
  <2>1. Book' = Book
    BY <1>2, <1>8 DEF PeerBlock
  <2> QED BY <1>6, <1>8, <2>1, PeerFacts
<1>9. CASE UpdateUtxo \/ PayReward \/ SaveHeight
  <2>1. Book' = Book
    BY <1>2, <1>9 DEF UpdateUtxo, PayReward, SaveHeight, ClearMempool, RetainMempool, disk
  <2> QED BY <1>3, <1>9, <2>1 DEF UpdateUtxo, PayReward, SaveHeight, memory, history, Down, Running
<1>10. CASE EndEpoch
  <2>1. Book' = Book
    BY <1>2, <1>10 DEF EndEpoch
  <2> QED BY <1>3, <1>10, <2>1 DEF EndEpoch, history, Down, Running
<1>11. CASE SaveEpoch
  <2>1. Book' = Book /\ mempool = sMempool
    BY <1>2, <1>11 DEF SaveEpoch, MempoolInv
  <2> QED BY <1>1, <1>11, <2>1 DEF SaveEpoch, memory, history, Down, Running
<1>12. CASE SavePeerMempool
  <2>1. Book' = Book
    BY <1>2, <1>12 DEF SavePeerMempool
  <2> QED BY <1>1, <1>12, <2>1 DEF SavePeerMempool, memory, history, Down, Running
<1>13. CASE EnterLoop
  <2>1. Book' = Book
    BY <1>2, <1>13 DEF EnterLoop
  <2> QED BY <1>3, <1>13, <2>1 DEF EnterLoop, disk, memory, history, Down, Running
<1>14. CASE Kill
  <2>1. Book' = Book /\ Running
    BY <1>1, <1>2, <1>14 DEF Kill, Running
  <2> QED BY <1>1, <1>14, <2>1 DEF Kill, disk, Down, Running
<1>15. CASE Restart
  <2>1. Book' = Book
    BY <1>2, <1>15 DEF Restart, Down
  <2>2. /\ Down /\ ~Down' /\ Running' /\ UNCHANGED <<sMempool, accepted>>
        /\ mempool' = IF sHeight = 0 THEN <<>> ELSE sMempool
        /\ dropped' = IF sHeight = 0 THEN dropped \cup ToSet(sMempool) ELSE dropped
    BY <1>15 DEF Restart, InitGenesis, Down, Running
  <2>3. ToSet(<<>>) = {}
    BY DEF ToSet
  <2> QED BY <1>1, <2>1, <2>2, <2>3
<1>16. CASE ClearMempool \/ RetainMempool
  <2> DEFINE b == Last(blocks)
             mined == ToSet(b.txs)
  <2>1. /\ Book = Chain /\ Book' = Append(Chain, b) /\ b \in Block /\ Len(Chain) = sHeight
        /\ pc = "utxo"
    <3>1. pc = "utxo"
      BY <1>16 DEF ClearMempool, RetainMempool
    <3>2. Book = Chain /\ b \in Block /\ blocks = Append(Chain, b) /\ Len(Chain) = sHeight
      BY <3>1, ChainFacts DEF Book, Writing
    <3>3. pc' \in {"reward", "height"} /\ blocks' = blocks
      BY <1>16 DEF ClearMempool, RetainMempool
    <3> QED BY <3>1, <3>2, <3>3 DEF Book
  <2>2. TxsOf(Book') = TxsOf(Book) \cup mined
    BY <2>1, ChainFacts, LongerChain
  <2>3. /\ ~Down /\ ~Down' /\ ~Running' /\ accepted' = accepted
        /\ dropped \subseteq dropped'
        /\ ToSet(mempool) \subseteq ToSet(mempool') \cup mined \cup dropped'
    <3>1. CASE ClearMempool
      BY <3>1 DEF ClearMempool, Down, Running
    <3>2. CASE RetainMempool
      <4>1. mempool' = Retain(mempool, Txs \ Ordinary(mined)) /\ accepted' = accepted /\ dropped' = dropped
            /\ pc = "utxo" /\ pc' = "height"
        BY <3>2 DEF RetainMempool, history
      <4>2. mempool \in Seq(Txs) /\ Txs \ Ordinary(mined) \in SUBSET Txs
        BY DEF TypeOK
      <4>3. ToSet(mempool') = ToSet(mempool) \cap (Txs \ Ordinary(mined))
        BY <4>1, <4>2, RetainFacts
      <4>4. ToSet(mempool) \subseteq Txs /\ Ordinary(mined) \subseteq mined
        BY <4>2 DEF ToSet, Ordinary
      <4> QED BY <4>1, <4>3, <4>4 DEF Down, Running
    <3> QED BY <1>16, <3>1, <3>2
  <2> HIDE DEF mined
  <2> QED BY <1>1, <2>2, <2>3
<1> QED
  BY <1>4, <1>5, <1>7, <1>8, <1>9, <1>10, <1>11, <1>12, <1>13, <1>14, <1>15, <1>16 DEF Next

(* Without a kill inside a block's writes no accepted transaction is lost    *)
(* but by eviction, in a full block's wake, or at a start at height 0.       *)
THEOREM NothingLost == Spec => []NoSilentLoss
<1> DEFINE Inv == TypeOK /\ ChainInv /\ MempoolInv /\ LossInv
<1>1. Inv => NoSilentLoss
  <2> SUFFICES ASSUME LossInv, AtRest, crashes = 0
               PROVE  accepted \subseteq ToSet(sMempool) \cup TxsOf(Chain) \cup dropped
    BY DEF NoSilentLoss
  <2>1. Book = Chain /\ (Down \/ Running)
    BY DEF AtRest, Book, Down, Running
  <2> QED BY <2>1 DEF LossInv, Held
<1>2. Init => Inv
  BY TypeOKInit, ChainInvInit, MempoolInvInit, LossInvInit
<1>3. Inv /\ [Next]_vars => Inv'
  BY TypeOKStep, ChainInvStep, MempoolInvStep, LossInvStep
<1> HIDE DEF Inv
<1> QED BY <1>1, <1>2, <1>3, PTL DEF Spec

-----------------------------------------------------------------------------
(* Only unspent outpoints are spent, while the main loop keeps the lock and  *)
(* no kill falls inside a block's writes: a block takes what the mempool     *)
(* holds, and nothing pending has lost an input.                             *)
Funded(c) ==
    \A s \in Spent(c) : s[2] \in Unspent({m \in Source(c) : Before(m[1], s[1])},
                                        {r \in Spent(c) : Before(r[1], s[1])})

LEMMA FundedLonger ==
    ASSUME NEW c \in Seq(Block), NEW b \in Block, Funded(c), NoConflict(b.txs),
           SpentBy(ToSet(b.txs)) \subseteq Possible(c)
    PROVE  Funded(Append(c, b))
<1> DEFINE d == Append(c, b)
           h == Len(c) + 1
           MadeFor(e, p) == {m \in Source(e) : Before(m[1], p)}
           SpentFor(e, p) == {r \in Spent(e) : Before(r[1], p)}
<1>1. /\ Source(c) \subseteq Source(d) /\ Spent(d) = Spent(c) \cup BlockSpent(b, h)
      /\ \A m \in Source(d) \ Source(c) : m[1][1] = h
  <2>1. /\ Source(d) = Source(c) \cup BlockMade(b, h) \cup BlockRewarded(b, h)
        /\ Spent(d) = Spent(c) \cup BlockSpent(b, h)
    BY LongerChain DEF Source
  <2>2. \A m \in BlockMade(b, h) \cup BlockRewarded(b, h) : m[1][1] = h
    BY DEF BlockMade, BlockRewarded
  <2> HIDE DEF d, h
  <2> QED BY <2>1, <2>2
<1>2. /\ Len(c) \in Nat /\ h \in Nat /\ h = Len(c) + 1
      /\ \A m \in Source(c) : m[1][1] \in 0..Len(c)
      /\ \A s \in Spent(c) : s[1][1] \in 1..Len(c)
  BY BookPlaces
<1>3. b.txs \in Seq(Txs) /\ DOMAIN b.txs = 1..Len(b.txs) /\ Len(b.txs) \in Nat
  BY DEF Block
<1>4. \A r \in BlockSpent(b, h) : r[1][1] = h
  BY DEF BlockSpent
<1> HIDE DEF h, d
<1>5. ASSUME NEW s \in Spent(c)
      PROVE  s[2] \in Unspent(MadeFor(d, s[1]), SpentFor(d, s[1]))
  <2>1. s[1][1] \in 1..Len(c)
    BY <1>2
  <2>2. MadeFor(d, s[1]) = MadeFor(c, s[1])
    BY <1>1, <1>2, <2>1 DEF Before
  <2>3. SpentFor(d, s[1]) = SpentFor(c, s[1])
    BY <1>1, <1>2, <1>4, <2>1 DEF Before
  <2>4. s[2] \in Unspent(MadeFor(c, s[1]), SpentFor(c, s[1]))
    BY DEF Funded
  <2> HIDE DEF MadeFor, SpentFor
  <2> QED BY <2>2, <2>3, <2>4
<1>6. ASSUME NEW i \in 1..Len(b.txs), NEW o \in InputSet(b.txs[i])
      PROVE  o \in Unspent(MadeFor(d, <<h, i>>), SpentFor(d, <<h, i>>))
  <2> DEFINE p == <<h, i>>
  <2>1. p[1] = h /\ p[2] = i
    OBVIOUS
  <2> HIDE DEF p
  <2>2. o \in Possible(c)
    <3>1. b.txs[i] \in ToSet(b.txs)
      BY <1>3 DEF ToSet
    <3> QED BY <3>1 DEF SpentBy
  <2>3. PICK m \in Source(c) : o = m[2] /\ \A s \in Spent(c) : s[2] = m[2] => Before(s[1], m[1])
    BY <2>2 DEF Possible, Unspent
  <2>4. m \in MadeFor(d, p)
    BY <1>1, <1>2, <2>1 DEF Before
  <2>5. \A s \in SpentFor(d, p) : s[2] = m[2] => Before(s[1], m[1])
    <3> SUFFICES ASSUME NEW s \in BlockSpent(b, h), Before(s[1], p) PROVE s[2] # o
      BY <1>1, <2>3
    <3>1. PICK k \in 1..Len(b.txs) : s[1] = <<h, k>> /\ s[2] \in InputSet(b.txs[k])
      BY DEF BlockSpent
    <3>2. k < i
      BY <1>2, <2>1, <3>1 DEF Before
    <3>3. k # i
      BY <1>3, <3>2
    <3>4. InputSet(b.txs[k]) \cap InputSet(b.txs[i]) = {}
      BY <1>3, <3>3 DEF NoConflict
    <3> QED BY <3>1, <3>4
  <2> HIDE DEF MadeFor, SpentFor
  <2>6. o \in Unspent(MadeFor(d, p), SpentFor(d, p))
    BY <2>3, <2>4, <2>5 DEF Unspent
  <2> QED BY <2>6 DEF p
<1>7. \A s \in BlockSpent(b, h) : s[2] \in Unspent(MadeFor(d, s[1]), SpentFor(d, s[1]))
  <2> TAKE s \in BlockSpent(b, h)
  <2>1. PICK k \in 1..Len(b.txs) : s[1] = <<h, k>> /\ s[2] \in InputSet(b.txs[k])
    BY DEF BlockSpent
  <2> HIDE DEF MadeFor, SpentFor
  <2> QED BY <1>6, <2>1
<1>8. Funded(d)
  BY <1>1, <1>5, <1>7 DEF Funded
<1> QED BY <1>8 DEF d

SpendInv ==
    crashes = 0 =>
      /\ Funded(Chain)
      /\ pc \in Writing => Funded(blocks)
      /\ pc # "utxo" => SpentBy(ToSet(mempool)) \cup SpentBy(ToSet(sMempool)) \subseteq sUtxo

LEMMA SpendInvInit == Init => SpendInv
<1> SUFFICES ASSUME Init PROVE SpendInv
  OBVIOUS
<1>1. Chain = <<>> /\ pc = "boot" /\ ToSet(mempool) = {} /\ ToSet(sMempool) = {}
  BY DEF Init, Chain, ToSet
<1> QED BY <1>1, EmptyChain DEF SpendInv, Funded, SpentBy, Writing

LEMMA SpendInvStep ==
    ASSUME ~SharedLock
    PROVE  LedgerBase /\ EpochInv /\ ConflictInv /\ SpendInv /\ [Next]_vars => SpendInv'
<1> DEFINE Ok == /\ Funded(Chain)
                 /\ pc \in Writing => Funded(blocks)
                 /\ pc # "utxo" =>
                      SpentBy(ToSet(mempool)) \cup SpentBy(ToSet(sMempool)) \subseteq sUtxo
<1> SUFFICES ASSUME LedgerBase, EpochInv, ConflictInv, SpendInv, [Next]_vars, crashes' = 0
             PROVE  Ok'
  BY DEF SpendInv
<1>1. /\ TypeOK /\ ChainInv /\ UtxoInv /\ crashes = 0 /\ (Kill => Running)
      /\ Funded(Chain)
      /\ pc \in Writing => Funded(blocks)
      /\ pc # "utxo" => SpentBy(ToSet(mempool)) \cup SpentBy(ToSet(sMempool)) \subseteq sUtxo
  BY NoCrashBefore DEF LedgerBase, SpendInv
<1>2. SpentBy(ToSet(<<>>)) = {}
  BY DEF SpentBy, ToSet
<1>3. ASSUME Chain' = Chain, blocks' = blocks, pc' \in Writing => pc \in Writing,
             pc # "utxo", UNCHANGED <<mempool, sMempool>>, sUtxo \subseteq sUtxo'
      PROVE  Ok'
  BY <1>1, <1>3
<1>4. CASE UNCHANGED vars
  BY <1>1, <1>4 DEF vars, disk, memory, Chain, SpentBy
<1>5. ASSUME NEW t \in Txs, SubmitTx(t) PROVE Ok'
  <2>1. /\ ToSet(mempool') \subseteq ToSet(mempool) \cup {t} /\ sMempool' = mempool'
    BY <1>1, <1>5, SubmitFacts
  <2>2. InputSet(t) \subseteq sUtxo
    BY <1>5 DEF SubmitTx, Admissible, CoinbaseShaped, InputSet, ToSet
  <2>3. pc' = pc /\ pc = "boot" /\ sUtxo' = sUtxo /\ Chain' = Chain
    BY <1>5 DEF SubmitTx, LockFree, Chain
  <2>4. SpentBy(ToSet(mempool')) \subseteq sUtxo
    BY <1>1, <2>1, <2>2, <2>3 DEF SpentBy
  <2> QED BY <1>1, <2>1, <2>3, <2>4 DEF Writing
<1>6. CASE MineBlock
  <2>1. PICK b \in Block : pc = "loop" /\ b.txs = BlockTemplate /\ WriteBlock(b)
    BY <1>1, <1>6, MineFacts
  <2>2. /\ Chain' = Chain /\ blocks' = Append(Chain, b) /\ pc' = "utxo"
    BY <1>1, <2>1, WriteBlockFacts DEF WriteBlock
  <2>3. NoConflict(b.txs) /\ ToSet(b.txs) \subseteq ToSet(mempool)
    BY <1>1, <2>1, TemplateFacts, DrawsNoConflict, DrawsElements DEF TypeOK, ConflictInv
  <2>4. SpentBy(ToSet(b.txs)) \subseteq Possible(Chain)
    <3>1. sUtxo \subseteq Possible(Chain)
      BY <1>1, <2>1 DEF UtxoInv, Kept, Book
    <3> QED BY <1>1, <2>1, <2>3, <3>1 DEF SpentBy
  <2>5. Funded(blocks')
    BY <1>1, <2>2, <2>3, <2>4, ChainFacts, FundedLonger
  <2> QED BY <1>1, <2>2, <2>5
<1>7. ASSUME NEW ts \in PeerBlockTxs, PeerBlock(ts) PROVE Ok'
  BY <1>7 DEF PeerBlock
<1>8. CASE UpdateUtxo
  BY <1>1, <1>8 DEF UpdateUtxo, memory, Chain, Writing
<1>9. CASE ClearMempool
  BY <1>1, <1>2, <1>9 DEF ClearMempool, Chain, Writing
<1>10. CASE RetainMempool
  BY <1>10 DEF RetainMempool, EpochInv, Writing
<1>11. CASE PayReward
  BY <1>3, <1>11 DEF PayReward, memory, Chain, Writing
<1>12. CASE EndEpoch
  BY <1>1, <1>12 DEF EndEpoch, Chain, Writing
<1>13. CASE SaveHeight
  <2>1. /\ pc = "height" /\ pc' \in {"save_epoch", "save_mempool"} /\ UNCHANGED <<stored, blocks>>
        /\ sHeight' = height /\ UNCHANGED <<mempool, sMempool, sUtxo>>
    BY <1>13 DEF SaveHeight, memory
  <2>2. Chain' = blocks
    BY <1>1, <2>1 DEF Chain, ChainInv, Down
  <2> QED BY <1>1, <2>1, <2>2 DEF Writing
<1>14. CASE SaveEpoch
  BY <1>3, <1>14 DEF SaveEpoch, memory, Chain, Writing
<1>15. CASE SavePeerMempool
  BY <1>1, <1>15 DEF SavePeerMempool, memory, Chain, Writing
<1>16. CASE Kill
  <2>1. /\ pc' = "down" /\ pc # "utxo" /\ UNCHANGED <<stored, sHeight, sUtxo, sMempool>>
        /\ mempool' = <<>>
    BY <1>1, <1>16 DEF Kill, disk, Running
  <2> QED BY <1>1, <1>2, <2>1 DEF Chain, Writing
<1>17. CASE Restart
  <2>1. /\ pc = "down" /\ pc' = "boot" /\ UNCHANGED <<stored, sHeight, sMempool>>
        /\ mempool' \in {<<>>, sMempool} /\ sUtxo \subseteq sUtxo'
    BY <1>17 DEF Restart, InitGenesis, Down
  <2> QED BY <1>1, <1>2, <2>1 DEF Chain, Writing
<1>18. CASE EnterLoop
  BY <1>3, <1>18 DEF EnterLoop, disk, memory, Chain, Writing
<1> QED
  BY <1>4, <1>5, <1>6, <1>7, <1>8, <1>9, <1>10, <1>11, <1>12, <1>13, <1>14, <1>15,
     <1>16, <1>17, <1>18 DEF Next

(* As long as the main loop keeps the lock and no kill falls inside a        *)
(* block's writes, no transaction of the chain spends an outpoint that was   *)
(* not made before it, or was made and spent since.                          *)
THEOREM SpendsOnlyUnspent == ASSUME ~SharedLock PROVE Spec => []SpendsUnspent
<1> DEFINE Inv == LedgerBase /\ EpochInv /\ ConflictInv /\ SpendInv
<1>1. Inv => SpendsUnspent
  <2> SUFFICES ASSUME Funded(Chain) PROVE SpendsUnspent
    BY DEF SpendInv, SpendsUnspent
  <2> QED BY DEF Funded, SpendsUnspent, Source
<1>2. Init => Inv
  BY LedgerBaseHolds, EpochInvInit, ConflictInvInit, SpendInvInit
<1>3. Inv /\ [Next]_vars => Inv'
  BY LedgerBaseHolds, EpochInvStep, ConflictInvStep, SpendInvStep DEF LedgerBase
<1> HIDE DEF Inv
<1> QED BY <1>1, <1>2, <1>3, PTL DEF Spec

-----------------------------------------------------------------------------
(* The chain as the abstract ledger sees it.  What cannot be made again is   *)
(* spent once, so the transactions that spend it are mined once.             *)

(* The transactions pending, in memory and on disk, and those of a block are *)
(* different ones.                                                           *)
DistinctInv ==
    /\ IsInjective(mempool) /\ IsInjective(sMempool)
    /\ pc \in Writing => IsInjective(Last(blocks).txs)

LEMMA DrawsDistinct ==
    ASSUME NEW s, NEW r, IsInjective(s), Draws(r, s)
    PROVE  IsInjective(r)
BY DEF IsInjective, Draws

LEMMA AppendDistinct ==
    ASSUME NEW s \in Seq(Txs), NEW t \in Txs, IsInjective(s), t \notin ToSet(s)
    PROVE  IsInjective(Append(s, t))
<1> DEFINE r == Append(s, t)
           n == Len(s)
<1>1. /\ DOMAIN r = 1..(n + 1) /\ \A i \in 1..n : r[i] = s[i]
      /\ r[n + 1] = t
  BY AppendFacts
<1>2. /\ DOMAIN s = 1..n /\ n \in Nat /\ \A i \in 1..(n + 1) : i \in 1..n \/ i = n + 1
      /\ \A i \in 1..n : s[i] # t
  BY DEF ToSet
<1> HIDE DEF r, n
<1>3. \A i, j \in 1..(n + 1) : r[i] = r[j] => i = j
  BY <1>1, <1>2 DEF IsInjective
<1> QED BY <1>1, <1>3 DEF IsInjective, r

LEMMA DistinctInvStep == TypeOK /\ ChainInv /\ DistinctInv /\ [Next]_vars => DistinctInv'
<1> SUFFICES ASSUME TypeOK, ChainInv, DistinctInv, [Next]_vars PROVE DistinctInv'
  OBVIOUS
<1>0. /\ IsInjective(mempool) /\ IsInjective(sMempool) /\ IsInjective(<<>>)
      /\ pc \in Writing => IsInjective(Last(blocks).txs)
      /\ mempool \in Seq(Txs)
  BY DEF DistinctInv, IsInjective, TypeOK
<1>1. ASSUME UNCHANGED <<mempool, sMempool, blocks>>, pc' \in Writing => pc \in Writing
      PROVE  DistinctInv'
  BY <1>0, <1>1 DEF DistinctInv, IsInjective
<1>2. ASSUME mempool' \in {<<>>, mempool, sMempool}, sMempool' \in {<<>>, mempool, sMempool},
             pc' \in Writing => pc \in Writing /\ blocks' = blocks
      PROVE  DistinctInv'
  BY <1>0, <1>2 DEF DistinctInv, IsInjective
<1>3. ASSUME NEW t \in Txs, SubmitTx(t) PROVE DistinctInv'
  <2>1. /\ Draws(mempool', Append(mempool, t)) /\ sMempool' = mempool'
        /\ t \notin ToSet(mempool) /\ pc' \notin Writing
    BY <1>3, SubmitFacts DEF SubmitTx, Admissible, LockFree, Writing
  <2>2. IsInjective(mempool')
    BY <1>0, <2>1, AppendDistinct, DrawsDistinct
  <2> QED BY <2>1, <2>2 DEF DistinctInv, IsInjective
<1>4. ASSUME NEW b \in Block, pc = "loop", WriteBlock(b), IsInjective(b.txs) PROVE DistinctInv'
  <2>1. Last(blocks') = b /\ UNCHANGED <<mempool, sMempool>>
    BY <1>4, WriteBlockFacts DEF WriteBlock
  <2> QED BY <1>0, <1>4, <2>1 DEF DistinctInv, IsInjective
<1>5. CASE MineBlock
  <2>1. IsInjective(BlockTemplate)
    BY <1>0, TemplateFacts, DrawsDistinct
  <2> QED BY <1>4, <1>5, <2>1, MineFacts
<1>6. ASSUME NEW ts \in PeerBlockTxs, PeerBlock(ts) PROVE DistinctInv'
  <2>1. IsInjective(ts)
    BY DEF PeerBlockTxs
  <2> QED BY <1>4, <1>6, <2>1, PeerFacts
<1>7. CASE RetainMempool
  <2>1. /\ mempool' = Retain(mempool, Txs \ Ordinary(ToSet(Last(blocks).txs)))
        /\ pc = "utxo" /\ UNCHANGED <<sMempool, blocks>>
    BY <1>7 DEF RetainMempool, disk
  <2>2. Txs \ Ordinary(ToSet(Last(blocks).txs)) \in SUBSET Txs
    OBVIOUS
  <2>3. IsInjective(mempool')
    BY <1>0, <2>1, <2>2, RetainFacts, DrawsDistinct
  <2> QED BY <1>0, <2>1, <2>3 DEF DistinctInv, IsInjective, Writing
<1>8. CASE ClearMempool
  BY <1>2, <1>8 DEF ClearMempool, Writing
<1>9. CASE SavePeerMempool
  BY <1>2, <1>9 DEF SavePeerMempool, memory, Writing
<1>10. CASE Kill
  BY <1>2, <1>10 DEF Kill, disk, Writing
<1>11. CASE Restart
  BY <1>2, <1>11 DEF Restart, Writing
<1>12. CASE UNCHANGED vars
  BY <1>1, <1>12 DEF vars, disk, memory
<1>13. CASE UpdateUtxo \/ PayReward \/ EndEpoch \/ SaveHeight \/ SaveEpoch \/ EnterLoop
  BY <1>1, <1>13 DEF UpdateUtxo, PayReward, EndEpoch, SaveHeight, SaveEpoch, EnterLoop, memory, disk,
                     Writing
<1> QED
  BY <1>3, <1>5, <1>6, <1>7, <1>8, <1>9, <1>10, <1>11, <1>12, <1>13 DEF Next

(* Every spent outpoint was made before, and a grounded transaction is at    *)
(* one place only.                                                           *)
Backed(c) == \A s \in Spent(c) : \E m \in Source(c) : m[2] = s[2] /\ Before(m[1], s[1])
MinedOnce(c) ==
    \A p, q \in Places(c) : TxAt(c, p) = TxAt(c, q) /\ TxAt(c, p) \in Grounded => p = q
Outs(c) == {m[2] : m \in Source(c)}

LEMMA GroundedInput ==
    ASSUME NEW t \in Grounded
    PROVE  /\ t \in Txs /\ ~CoinbaseShaped(t)
           /\ \E o \in InputSet(t) : \A u \in Txs : Output[u] = o => u \in Grounded
<1>1. PICK G \in SUBSET Txs :
         t \in G /\ \A u \in G : \E o \in InputSet(u) : \A v \in Txs \ G : Output[v] # o
  BY DEF Grounded
<1>2. G \subseteq Grounded
  BY <1>1 DEF Grounded
<1>3. PICK o \in InputSet(t) : \A v \in Txs \ G : Output[v] # o
  BY <1>1
<1>4. ~CoinbaseShaped(t)
  <2>1. InputSet(t) # {}
    BY <1>3
  <2> QED BY <2>1 DEF InputSet, CoinbaseShaped, ToSet
<1> QED BY <1>1, <1>2, <1>3, <1>4

(* Such an outpoint is made at one place of the chain. *)
LEMMA OneMaker ==
    ASSUME NEW c \in Seq(Block), MinedOnce(c), NEW o,
           \A u \in Txs : Output[u] = o => u \in Grounded,
           NEW m \in Source(c), NEW n \in Source(c), m[2] = o, n[2] = o
    PROVE  m[1] = n[1]
<1>1. \A p \in Places(c) : TxAt(c, p) \in Txs
  BY BookPlaces
<1> DEFINE At(x) ==
             \/ o[1] = "genesis" /\ x[1] = <<0, 0>>
             \/ o[1] = "coinbase" /\ x[1] = <<o[2], 0>>
             \/ o[1] = "reward" /\ x[1] = <<o[2], Len(c[o[2]].txs) + 1>>
             \/ /\ o[1] = "tx" /\ x[1] \in Places(c)
                /\ TxAt(c, x[1]) \in Grounded /\ Output[TxAt(c, x[1])] = o
<1>2. ASSUME NEW x \in Source(c), x[2] = o PROVE At(x)
  <2>1. \/ x = << <<0, 0>>, GenesisOut >>
        \/ \E h \in DOMAIN c : x = << <<h, 0>>, CoinbaseOut(h, c[h].maker) >>
        \/ \E p \in Places(c) : x = << p, Output[TxAt(c, p)] >>
        \/ \E h \in DOMAIN c : x = << <<h, Len(c[h].txs) + 1>>, RewardOut(h, c[h].epoch) >>
    BY DEF Source, Made, Rewarded
  <2>2. CASE x = << <<0, 0>>, GenesisOut >>
    BY <1>2, <2>2 DEF GenesisOut
  <2>3. CASE \E h \in DOMAIN c : x = << <<h, 0>>, CoinbaseOut(h, c[h].maker) >>
    BY <1>2, <2>3 DEF CoinbaseOut
  <2>4. ASSUME NEW p \in Places(c), x = << p, Output[TxAt(c, p)] >> PROVE At(x)
    <3>1. x[1] = p /\ Output[TxAt(c, p)] = o
      BY <1>2, <2>4
    <3>2. TxAt(c, p) \in Txs /\ TxAt(c, p) \in Grounded
      BY <1>1, <3>1
    <3>3. Inputs[TxAt(c, p)] # <<>>
      BY <3>2, GroundedInput DEF CoinbaseShaped
    <3>4. o[1] = "tx"
      BY <3>1, <3>2, <3>3, LedgerAssumption
    <3> QED BY <3>1, <3>2, <3>4
  <2>5. CASE \E h \in DOMAIN c : x = << <<h, Len(c[h].txs) + 1>>, RewardOut(h, c[h].epoch) >>
    BY <1>2, <2>5 DEF RewardOut
  <2> QED BY <2>1, <2>2, <2>3, <2>4, <2>5
<1>3. At(m) /\ At(n)
  BY <1>2
<1>4. CASE o[1] # "tx"
  BY <1>3, <1>4
<1>5. CASE o[1] = "tx"
  <2>1. /\ m[1] \in Places(c) /\ n[1] \in Places(c) /\ TxAt(c, m[1]) \in Grounded
        /\ Output[TxAt(c, m[1])] = Output[TxAt(c, n[1])]
    BY <1>3, <1>5
  <2>2. TxAt(c, m[1]) = TxAt(c, n[1])
    BY <1>1, <2>1, LedgerAssumption
  <2> QED BY <2>1, <2>2 DEF MinedOnce
<1> QED BY <1>4, <1>5

(* A grounded transaction of the chain has lost an input for good. *)
LEMMA OnceMined ==
    ASSUME NEW c \in Seq(Block), Backed(c), MinedOnce(c),
           NEW t \in Grounded, InputSet(t) \subseteq Possible(c)
    PROVE  t \notin TxsOf(c)
<1> SUFFICES ASSUME t \in TxsOf(c) PROVE FALSE
  OBVIOUS
<1>1. PICK p \in Places(c) : TxAt(c, p) = t
  BY BookPlaces
<1>2. PICK o \in InputSet(t) : \A u \in Txs : Output[u] = o => u \in Grounded
  BY GroundedInput
<1>3. PICK s \in Spent(c) : s[1] = p /\ s[2] = o
  <2>1. <<p, o>> \in Spent(c)
    BY <1>1, BookPlaces
  <2> DEFINE s == <<p, o>>
  <2>2. s[1] = p /\ s[2] = o
    OBVIOUS
  <2> HIDE DEF s
  <2> QED BY <2>1, <2>2 DEF s
<1>4. PICK m \in Source(c) : m[2] = o /\ Before(m[1], p)
  BY <1>3 DEF Backed
<1>5. PICK n \in Source(c) : n[2] = o /\ Before(p, n[1])
  BY <1>2, <1>3 DEF Possible, Unspent
<1>6. m[1] = n[1]
  BY <1>2, <1>4, <1>5, OneMaker
<1>7. /\ p[1] \in Nat /\ p[2] \in Nat /\ m[1][1] \in Nat /\ m[1][2] \in Nat
  BY BookPlaces
<1> QED BY <1>4, <1>5, <1>6, <1>7 DEF Before

LEMMA BackedLonger ==
    ASSUME NEW c \in Seq(Block), NEW b \in Block, Backed(c),
           SpentBy(ToSet(b.txs)) \subseteq Outs(c)
    PROVE  Backed(Append(c, b)) /\ Outs(c) \subseteq Outs(Append(c, b))
<1> DEFINE d == Append(c, b)
           h == Len(c) + 1
<1>1. Source(c) \subseteq Source(d) /\ Spent(d) = Spent(c) \cup BlockSpent(b, h)
  BY LongerChain DEF Source
<1>2. Len(c) \in Nat /\ h \in Nat /\ \A m \in Source(c) : m[1][1] \in 0..Len(c)
  BY BookPlaces
<1>3. \A m \in Source(c) : m[1][1] < h
  BY <1>2
<1>4. ASSUME NEW s \in BlockSpent(b, h)
      PROVE  s[1][1] = h /\ s[2] \in SpentBy(ToSet(b.txs))
  <2>1. DOMAIN b.txs = 1..Len(b.txs)
    BY DEF Block
  <2>2. PICK k \in 1..Len(b.txs) : s[1] = <<h, k>> /\ s[2] \in InputSet(b.txs[k])
    BY DEF BlockSpent
  <2> QED BY <2>1, <2>2 DEF SpentBy, ToSet
<1> HIDE DEF d, h
<1>5. \A s \in Spent(d) : \E m \in Source(d) : m[2] = s[2] /\ Before(m[1], s[1])
  <2> TAKE s \in Spent(d)
  <2>1. CASE s \in Spent(c)
    BY <1>1, <2>1 DEF Backed
  <2>2. CASE s \in BlockSpent(b, h)
    <3>1. PICK m \in Source(c) : m[2] = s[2]
      BY <1>4, <2>2 DEF Outs
    <3> QED BY <1>1, <1>3, <1>4, <2>2, <3>1 DEF Before
  <2> QED BY <1>1, <2>1, <2>2
<1>6. Outs(c) \subseteq Outs(d)
  BY <1>1 DEF Outs
<1> QED BY <1>5, <1>6 DEF Backed, d

LEMMA MinedOnceLonger ==
    ASSUME NEW c \in Seq(Block), NEW b \in Block, MinedOnce(c), IsInjective(b.txs),
           ToSet(b.txs) \cap TxsOf(c) \cap Grounded = {}
    PROVE  MinedOnce(Append(c, b))
<1> DEFINE d == Append(c, b)
           h == Len(c) + 1
           New(p) == \E i \in 1..Len(b.txs) : p = <<h, i>> /\ TxAt(d, p) = b.txs[i]
<1>1. /\ \A p \in Places(d) : p \in Places(c) \/ New(p)
      /\ \A p \in Places(c) : TxAt(d, p) = TxAt(c, p) /\ TxAt(c, p) \in TxsOf(c)
  <2>1. /\ Places(d) = Places(c) \cup {<<h, i>> : i \in 1..Len(b.txs)}
        /\ \A p \in Places(c) : TxAt(d, p) = TxAt(c, p)
        /\ \A i \in 1..Len(b.txs) : TxAt(d, <<h, i>>) = b.txs[i]
    BY LongerChain
  <2>2. \A p \in Places(c) : TxAt(c, p) \in TxsOf(c)
    BY BookPlaces
  <2> HIDE DEF d, h
  <2> QED BY <2>1, <2>2
<1>2. DOMAIN b.txs = 1..Len(b.txs)
  BY DEF Block
<1> HIDE DEF d, h
<1>3. ASSUME NEW p \in Places(d), NEW q \in Places(d), TxAt(d, p) = TxAt(d, q), TxAt(d, p) \in Grounded
      PROVE  p = q
  <2>1. CASE p \in Places(c) /\ q \in Places(c)
    BY <1>1, <1>3, <2>1 DEF MinedOnce
  <2>2. CASE New(p) /\ New(q)
    BY <1>2, <1>3, <2>2 DEF IsInjective
  <2>3. ASSUME NEW x \in Places(c), NEW y, New(y), TxAt(d, x) = TxAt(d, y), TxAt(d, x) \in Grounded
        PROVE  FALSE
    <3>1. TxAt(d, y) \in ToSet(b.txs)
      BY <1>2, <2>3 DEF ToSet
    <3> HIDE DEF New
    <3> QED BY <1>1, <2>3, <3>1
  <2> HIDE DEF New
  <2> QED BY <1>1, <1>3, <2>1, <2>2, <2>3
<1> QED BY <1>3 DEF MinedOnce, d

(* What mine_block works on after it emptied the mempool. *)
EmptiedInv ==
    pc \in {"reward", "epoch"} \/ (pc = "height" /\ Last(blocks).maker = "self") => mempool = <<>>

LEMMA EmptiedInvStep == EmptiedInv /\ [Next]_vars => EmptiedInv'
<1> SUFFICES ASSUME EmptiedInv, [Next]_vars PROVE EmptiedInv'
  OBVIOUS
<1> USE DEF EmptiedInv
<1>1. CASE UNCHANGED vars
  BY <1>1 DEF vars, memory
<1>2. ASSUME NEW t \in Txs, SubmitTx(t) PROVE EmptiedInv'
  BY <1>2 DEF SubmitTx, LockFree
<1>3. CASE MineBlock
  BY <1>3 DEF MineBlock, WriteBlock
<1>4. ASSUME NEW ts \in PeerBlockTxs, PeerBlock(ts) PROVE EmptiedInv'
  BY <1>4 DEF PeerBlock, WriteBlock
<1>5. CASE ClearMempool
  BY <1>5 DEF ClearMempool
<1>6. CASE RetainMempool
  BY <1>6 DEF RetainMempool
<1>7. CASE UpdateUtxo \/ PayReward \/ EndEpoch
  BY <1>7 DEF UpdateUtxo, PayReward, EndEpoch, memory
<1>8. CASE SaveHeight \/ SaveEpoch \/ SavePeerMempool \/ Kill \/ Restart \/ EnterLoop
  BY <1>8 DEF SaveHeight, SaveEpoch, SavePeerMempool, Kill, Restart, EnterLoop
<1> QED BY <1>1, <1>2, <1>3, <1>4, <1>5, <1>6, <1>7, <1>8 DEF Next

(* What the node holds, running or not, is new to the chain as far as it is  *)
(* grounded, and has inputs the chain made.                                  *)
GroundInv ==
    /\ Backed(Chain) /\ MinedOnce(Chain)
    /\ pc \in Writing => Backed(blocks) /\ MinedOnce(blocks)
    /\ SpentBy(ToSet(mempool)) \cup SpentBy(ToSet(sMempool)) \subseteq Outs(Chain)
    /\ Held \cap TxsOf(Book) \cap Grounded = {}

LEMMA GroundInvInit == Init => GroundInv
<1> SUFFICES ASSUME Init PROVE GroundInv
  OBVIOUS
<1>1. Chain = <<>> /\ pc = "boot" /\ ToSet(mempool) = {} /\ ToSet(sMempool) = {}
  BY DEF Init, Chain, ToSet
<1>2. Held = {}
  BY <1>1 DEF Held, Down
<1> QED BY <1>1, <1>2, EmptyChain DEF GroundInv, Backed, MinedOnce, SpentBy, Writing

(* An unspent outpoint was made. *)
LEMMA UnspentIsMade ==
    ASSUME LedgerBase, pc \in Saved, crashes = 0
    PROVE  sUtxo \subseteq Possible(Chain) /\ sUtxo \subseteq Outs(Chain)
           /\ Possible(Chain) \subseteq Outs(Chain)
<1>1. sUtxo \subseteq Possible(Chain)
  BY DEF LedgerBase, UtxoInv, Kept, Book, Saved
<1>2. Possible(Chain) \subseteq Outs(Chain)
  BY DEF Possible, Unspent, Outs
<1> QED BY <1>1, <1>2

LEMMA GroundInvStep ==
    LedgerBase /\ MempoolInv /\ DistinctInv /\ GroundInv /\ crashes = 0
      /\ [Next]_vars /\ crashes' = 0 => GroundInv'
<1> SUFFICES ASSUME LedgerBase, MempoolInv, DistinctInv, GroundInv, crashes = 0,
                    [Next]_vars, crashes' = 0
             PROVE  GroundInv'
  OBVIOUS
<1>1. /\ TypeOK /\ ChainInv /\ (Kill => Running)
      /\ Backed(Chain) /\ MinedOnce(Chain)
      /\ pc \in Writing => Backed(blocks) /\ MinedOnce(blocks)
      /\ SpentBy(ToSet(mempool)) \cup SpentBy(ToSet(sMempool)) \subseteq Outs(Chain)
      /\ Held \cap TxsOf(Book) \cap Grounded = {}
      /\ Chain \in Seq(Block) /\ Len(Chain) = sHeight
  BY NoCrashBefore, ChainFacts DEF LedgerBase, GroundInv
<1>2. ToSet(<<>>) = {} /\ SpentBy({}) = {}
  BY DEF SpentBy, ToSet
<1>3. ASSUME Chain' = Chain, Book' = Book, pc' \in Writing => pc \in Writing /\ blocks' = blocks,
             {mempool', sMempool'} \subseteq {<<>>, mempool, sMempool}, Held' \subseteq Held
      PROVE  GroundInv'
  BY <1>1, <1>2, <1>3 DEF GroundInv
<1>4. CASE UNCHANGED vars
  BY <1>3, <1>4 DEF vars, disk, memory, Chain, Book, Held, Down
<1>5. ASSUME NEW t \in Txs, SubmitTx(t) PROVE GroundInv'
  <2>1. /\ ToSet(mempool') \subseteq ToSet(mempool) \cup {t} /\ sMempool' = mempool'
        /\ pc \in Saved /\ pc' = pc /\ pc \notin Writing /\ ~Down /\ ~Down' /\ Book = Chain
        /\ CoinbaseShaped(t) \/ InputSet(t) \subseteq sUtxo
        /\ Chain' = Chain /\ Book' = Book
    BY <1>1, <1>5, SubmitFacts
       DEF SubmitTx, Admissible, LockFree, Chain, Book, Saved, Writing, Down
  <2>2. sUtxo \subseteq Possible(Chain) /\ sUtxo \subseteq Outs(Chain)
    BY <2>1, UnspentIsMade
  <2>3. InputSet(t) \subseteq Outs(Chain)
    BY <2>1, <2>2 DEF CoinbaseShaped, InputSet, ToSet
  <2>4. SpentBy(ToSet(mempool')) \subseteq Outs(Chain)
    BY <1>1, <2>1, <2>3 DEF SpentBy
  <2>5. t \in Grounded => t \notin TxsOf(Chain)
    <3> SUFFICES ASSUME t \in Grounded PROVE t \notin TxsOf(Chain)
      OBVIOUS
    <3>1. InputSet(t) \subseteq Possible(Chain)
      BY <2>1, <2>2, GroundedInput
    <3> QED BY <1>1, <3>1, OnceMined
  <2>6. Held' \cap TxsOf(Chain) \cap Grounded = {}
    BY <1>1, <2>1, <2>5 DEF Held
  <2> QED BY <1>1, <2>1, <2>4, <2>6 DEF GroundInv
<1>6. ASSUME NEW b \in Block, pc = "loop", WriteBlock(b), IsInjective(b.txs),
             SpentBy(ToSet(b.txs)) \subseteq Outs(Chain),
             ToSet(b.txs) \cap TxsOf(Chain) \cap Grounded = {}
      PROVE  GroundInv'
  <2>1. /\ Chain' = Chain /\ blocks' = Append(Chain, b) /\ pc' = "utxo"
        /\ UNCHANGED <<mempool, sMempool>>
    BY <1>1, <1>6, WriteBlockFacts DEF WriteBlock
  <2>2. Backed(blocks') /\ MinedOnce(blocks')
    BY <1>1, <1>6, <2>1, BackedLonger, MinedOnceLonger
  <2>3. Book' = Book /\ Held' = Held
    BY <1>6, <2>1 DEF Book, Held, Down
  <2> QED BY <1>1, <2>1, <2>2, <2>3 DEF GroundInv
<1>7. CASE MineBlock
  <2>1. PICK b \in Block : pc = "loop" /\ b.txs = BlockTemplate /\ WriteBlock(b)
    BY <1>1, <1>7, MineFacts
  <2>2. ToSet(b.txs) \subseteq ToSet(mempool) /\ IsInjective(b.txs)
    BY <1>1, <2>1, TemplateFacts, DrawsElements, DrawsDistinct DEF TypeOK, DistinctInv
  <2>3. SpentBy(ToSet(b.txs)) \subseteq Outs(Chain)
    BY <1>1, <2>2 DEF SpentBy
  <2>4. Held = ToSet(mempool) /\ Book = Chain
    BY <2>1 DEF Held, Down, Book
  <2>5. ToSet(b.txs) \cap TxsOf(Chain) \cap Grounded = {}
    BY <1>1, <2>2, <2>4
  <2> QED BY <1>6, <2>1, <2>2, <2>3, <2>5
<1>8. ASSUME NEW ts \in PeerBlockTxs, PeerBlock(ts) PROVE GroundInv'
  <2>1. PICK b \in Block : pc = "loop" /\ b.txs = ts /\ WriteBlock(b)
    BY <1>1, <1>8, PeerFacts
  <2>2. IsInjective(ts) /\ SpentBy(ToSet(ts)) \subseteq Replay(Chain)
    BY DEF PeerBlockTxs
  <2>3. SpentBy(ToSet(ts)) \subseteq Possible(Chain)
    BY <1>1, <2>2, ReplayIsPossible
  <2>4. Possible(Chain) \subseteq Outs(Chain)
    BY <2>1, UnspentIsMade DEF Saved
  <2>5. ASSUME NEW t \in ToSet(ts) \cap Grounded PROVE t \notin TxsOf(Chain)
    <3>1. InputSet(t) \subseteq Possible(Chain)
      BY <2>3 DEF SpentBy
    <3> QED BY <1>1, <3>1, OnceMined
  <2> QED BY <1>6, <2>1, <2>2, <2>3, <2>4, <2>5
<1>9. CASE UpdateUtxo
  BY <1>3, <1>9 DEF UpdateUtxo, memory, Chain, Book, Held, Down, Writing
<1>10. CASE ClearMempool \/ RetainMempool
  <2> DEFINE b == Last(blocks)
  <2>1. /\ pc = "utxo" /\ pc' \in {"reward", "height"} /\ UNCHANGED <<stored, sHeight, blocks>>
        /\ sMempool' \in {<<>>, sMempool}
    BY <1>10 DEF ClearMempool, RetainMempool, disk
  <2>2. b \in Block /\ blocks = Append(Chain, b) /\ Chain' = Chain
    BY <1>1, <2>1, ChainFacts DEF Writing, Chain
  <2>3. Book = Chain /\ Book' = Append(Chain, b)
    BY <2>1, <2>2 DEF Book
  <2>4. TxsOf(Book') = TxsOf(Chain) \cup ToSet(b.txs)
    BY <1>1, <2>2, <2>3, LongerChain
  <2>5. ToSet(mempool') \subseteq ToSet(mempool) \ Ordinary(ToSet(b.txs))
    <3>1. CASE ClearMempool
      BY <1>2, <3>1 DEF ClearMempool
    <3>2. CASE RetainMempool
      <4>1. mempool' = Retain(mempool, Txs \ Ordinary(ToSet(b.txs)))
        BY <3>2 DEF RetainMempool
      <4>2. mempool \in Seq(Txs) /\ Txs \ Ordinary(ToSet(b.txs)) \in SUBSET Txs
        BY <1>1 DEF TypeOK
      <4>3. ToSet(mempool') = ToSet(mempool) \cap (Txs \ Ordinary(ToSet(b.txs)))
        BY <4>1, <4>2, RetainFacts
      <4> QED BY <4>3
    <3> QED BY <1>10, <3>1, <3>2
  <2>6. ToSet(b.txs) \cap Grounded \subseteq Ordinary(ToSet(b.txs))
    BY GroundedInput DEF Ordinary
  <2>7. Held = ToSet(mempool) /\ Held' = ToSet(mempool')
    BY <2>1 DEF Held, Down
  <2> HIDE DEF b
  <2>8. Held' \cap TxsOf(Book') \cap Grounded = {}
    BY <1>1, <2>3, <2>4, <2>5, <2>6, <2>7
  <2>9. SpentBy(ToSet(mempool')) \cup SpentBy(ToSet(sMempool')) \subseteq Outs(Chain)
    BY <1>1, <1>2, <2>1, <2>5 DEF SpentBy
  <2> QED BY <1>1, <2>1, <2>2, <2>8, <2>9 DEF GroundInv, Writing
<1>11. CASE PayReward \/ EndEpoch
  BY <1>3, <1>11 DEF PayReward, EndEpoch, memory, Chain, Book, Held, Down, Writing
<1>12. CASE SaveHeight
  <2>1. /\ pc = "height" /\ pc' \in {"save_epoch", "save_mempool"} /\ UNCHANGED <<stored, blocks>>
        /\ sHeight' = height /\ UNCHANGED <<mempool, sMempool>>
    BY <1>12 DEF SaveHeight, memory
  <2>2. Chain' = blocks /\ blocks = Append(Chain, Last(blocks)) /\ Last(blocks) \in Block
    BY <1>1, <2>1, ChainFacts DEF Chain, ChainInv, Down, Writing
  <2>3. Book = blocks /\ Book' = Chain' /\ Held' = Held
    BY <2>1 DEF Book, Held, Down
  <2>4. Outs(Chain) \subseteq Outs(blocks)
    <3>1. \A c \in Seq(Block), b \in Block : Outs(c) \subseteq Outs(Append(c, b))
      BY LongerChain DEF Outs, Source
    <3> QED BY <1>1, <2>2, <3>1
  <2> QED BY <1>1, <2>1, <2>2, <2>3, <2>4 DEF GroundInv, Writing
<1>13. CASE SaveEpoch \/ EnterLoop
  BY <1>3, <1>13 DEF SaveEpoch, EnterLoop, disk, memory, Chain, Book, Held, Down, Writing
<1>14. CASE SavePeerMempool
  BY <1>3, <1>14 DEF SavePeerMempool, memory, Chain, Book, Held, Down, Writing
<1>15. CASE Kill
  <2>1. /\ Running /\ pc' = "down" /\ UNCHANGED <<stored, sHeight, sMempool>> /\ mempool' = <<>>
    BY <1>1, <1>15 DEF Kill, disk
  <2>2. Book = Chain /\ Chain' = Chain /\ Book' = Chain
    BY <2>1 DEF Running, Book, Chain
  <2>3. CASE sHeight = 0
    <3>1. TxsOf(Chain) = {}
      BY <1>1, <2>3, NoChain, EmptyChain
    <3> QED BY <1>1, <1>2, <2>1, <2>2, <3>1 DEF GroundInv, Writing
  <2>4. CASE sHeight # 0
    <3>1. height > 0
      BY <1>1, <2>1, <2>4 DEF ChainInv, Running, Saved
    <3>2. mempool = sMempool
      BY <2>1, <3>1 DEF MempoolInv
    <3>3. Held' = Held
      BY <2>1, <3>2 DEF Held, Down, Running
    <3> QED BY <1>3, <2>1, <2>2, <3>3 DEF Writing
  <2> QED BY <2>3, <2>4
<1>16. CASE Restart
  <2>1. /\ pc = "down" /\ pc' = "boot" /\ UNCHANGED <<stored, sHeight, sMempool>>
        /\ mempool' \in {<<>>, sMempool}
    BY <1>16 DEF Restart, Down
  <2>2. Held' \subseteq Held
    BY <1>2, <2>1 DEF Held, Down
  <2> QED BY <1>3, <2>1, <2>2 DEF Chain, Book, Writing
<1> QED
  BY <1>4, <1>5, <1>7, <1>8, <1>9, <1>10, <1>11, <1>12, <1>13, <1>14, <1>15, <1>16 DEF Next

-----------------------------------------------------------------------------
(* The node implements the abstract ledger: each handler's write is a step   *)
(* of it or leaves it as it is.                                              *)
AbsChain == [h \in 1..sHeight |-> stored[h].txs]

LEMMA AbsFacts ==
    ASSUME TypeOK, ChainInv
    PROVE  /\ UNION {ToSet(AbsChain[h]) : h \in DOMAIN AbsChain} = TxsOf(Chain)
           /\ AbsChain \in Seq(Seq(Txs)) /\ Len(AbsChain) = sHeight
           /\ pc \in Saved => Pending = ToSet(mempool)
           /\ pc \in Writing =>
                Pending = ToSet(mempool) \cup IF Last(blocks).maker = "self"
                                              THEN ToSet(Last(blocks).txs) ELSE {}
<1>1. /\ Chain \in Seq(Block) /\ Len(Chain) = sHeight /\ sHeight \in Nat
      /\ \A h \in 1..sHeight : Chain[h] = stored[h]
  BY ChainFacts DEF TypeOK
<1>2. DOMAIN Chain = 1..sHeight
  BY <1>1
<1>3. \A h \in 1..sHeight : Chain[h] \in Block
  BY <1>1, <1>2
<1>4. \A h \in 1..sHeight : AbsChain[h] = Chain[h].txs /\ AbsChain[h] \in Seq(Txs)
  <2> SUFFICES ASSUME NEW h \in 1..sHeight
               PROVE  AbsChain[h] = Chain[h].txs /\ AbsChain[h] \in Seq(Txs)
    OBVIOUS
  <2>1. AbsChain[h] = Chain[h].txs
    BY <1>1 DEF AbsChain
  <2>2. Chain[h].txs \in Seq(Txs)
    BY <1>3 DEF Block
  <2> QED BY <2>1, <2>2
<1>5. DOMAIN AbsChain = 1..sHeight
  BY DEF AbsChain
<1>6. AbsChain \in [1..sHeight -> Seq(Txs)]
  BY <1>4 DEF AbsChain
<1>7. AbsChain \in Seq(Seq(Txs)) /\ Len(AbsChain) = sHeight
  BY <1>1, <1>6
<1>8. UNION {ToSet(AbsChain[h]) : h \in DOMAIN AbsChain} = TxsOf(Chain)
  BY <1>2, <1>4, <1>5 DEF TxsOf
<1>9. pc \in Saved => Pending = ToSet(mempool)
  BY <1>1 DEF Pending, InFlight, ChainInv, Down, Saved
<1>10. pc \in Writing => Pending = ToSet(mempool) \cup IF Last(blocks).maker = "self"
                                                      THEN ToSet(Last(blocks).txs) ELSE {}
  BY <1>1 DEF Pending, InFlight, ChainInv, Down, Writing
<1> QED BY <1>7, <1>8, <1>9, <1>10

LEMMA AbstractOps ==
    /\ \A s : Abstract!ToSet(s) = ToSet(s)
    /\ \A s : Abstract!IsInjective(s) = IsInjective(s)
    /\ \A S, n : Abstract!SeqOf(S, n) = SeqOf(S, n)
    /\ \A S : Abstract!Cardinality(S) = Cardinality(S)
BY DEF Abstract!Cardinality, Cardinality, Abstract!ToSet, ToSet, Abstract!IsInjective, IsInjective,
       Abstract!SeqOf, SeqOf

(* A block's transactions are among the sequences the abstract ledger takes. *)
LEMMA InjectiveIsShort ==
    ASSUME NEW ts \in Seq(Txs), IsInjective(ts)
    PROVE  ts \in SeqOf(Txs, Cardinality(Txs))
<1>1. Len(ts) \in Nat /\ ts \in [1..Len(ts) -> Txs]
  OBVIOUS
<1>2. IsFiniteSet(Txs)
  BY LedgerAssumption
<1>3. ts \in Injection(1..Len(ts), Txs)
  BY <1>1 DEF Injection, IsInjective
<1>4. Cardinality(1..Len(ts)) <= Cardinality(Txs) /\ Cardinality(Txs) \in Nat
  BY <1>2, <1>3, FS_Injection, FS_CardinalityType
<1>5. 1 \in Int /\ Len(ts) \in Int
  BY <1>1
<1>6. Cardinality(1..Len(ts)) = IF 1 > Len(ts) THEN 0 ELSE Len(ts) - 1 + 1
  BY <1>5, FS_Interval
<1>7. Cardinality(1..Len(ts)) = Len(ts)
  BY <1>1, <1>6
<1>8. Len(ts) \in 0..Cardinality(Txs)
  BY <1>1, <1>4, <1>7
<1> QED BY <1>1, <1>8 DEF SeqOf

(* The steps of the abstract ledger, in terms of the node's state. *)
LEMMA AbsAccept ==
    ASSUME TypeOK, ChainInv, AbsChain' = AbsChain, NEW t \in Txs, t \notin Pending,
           t \in Grounded => t \notin TxsOf(Chain), Pending' \subseteq Pending \cup {t}
    PROVE  Abstract!Next
<1>1. Abstract!Confirmed = TxsOf(Chain)
  BY AbsFacts, AbstractOps DEF Abstract!Confirmed, AbsChain
<1>2. Abstract!Accept(t)
  BY <1>1 DEF Abstract!Accept, AbsChain
<1> QED BY <1>2 DEF Abstract!Next

LEMMA AbsGiveUp ==
    ASSUME AbsChain' = AbsChain, Pending' \subseteq Pending
    PROVE  Abstract!Next
<1>1. Abstract!GiveUp
  BY DEF Abstract!GiveUp, AbsChain
<1> QED BY <1>1 DEF Abstract!Next

LEMMA AbsExtend ==
    ASSUME TypeOK, ChainInv, NEW ts \in Seq(Txs),
           IsInjective(ts), ToSet(ts) \cap Grounded \cap TxsOf(Chain) = {},
           AbsChain' = Append(AbsChain, ts),
           Pending' \subseteq Pending \ (ToSet(ts) \cap Grounded), Pending \ ToSet(ts) \subseteq Pending'
    PROVE  Abstract!Next
<1>1. Abstract!Confirmed = TxsOf(Chain)
  BY AbsFacts, AbstractOps DEF Abstract!Confirmed, AbsChain
<1>2. Abstract!IsInjective(ts) /\ Abstract!ToSet(ts) = ToSet(ts)
  BY AbstractOps
<1>3. Abstract!Extend(ts)
  BY <1>1, <1>2 DEF Abstract!Extend, AbsChain
<1>4. ts \in Abstract!SeqOf(Txs, Abstract!Cardinality(Txs))
  BY InjectiveIsShort, AbstractOps
<1> QED BY <1>3, <1>4 DEF Abstract!Next

Whole == LedgerBase /\ MempoolInv /\ DistinctInv /\ EmptiedInv /\ GroundInv /\ crashes = 0

LEMMA SubmitIsAccept ==
    ASSUME Whole, NEW t \in Txs, SubmitTx(t)
    PROVE  Abstract!Next
<1>1. /\ TypeOK /\ ChainInv /\ pc \in Saved /\ pc' = pc /\ Book = Chain
      /\ t \notin ToSet(mempool)
      /\ CoinbaseShaped(t) \/ InputSet(t) \subseteq sUtxo
      /\ UNCHANGED <<stored, sHeight, blocks, height>>
  BY DEF Whole, LedgerBase, SubmitTx, Admissible, LockFree, Saved, Book
<1>2. ToSet(mempool') \subseteq ToSet(mempool) \cup {t}
  BY <1>1, SubmitFacts
<1>3. Pending = ToSet(mempool)
  BY <1>1, AbsFacts
<1>4. Pending' = ToSet(mempool')
  <2>1. height = sHeight /\ sHeight \in Nat /\ ~Down
    BY <1>1 DEF ChainInv, Saved, Down
  <2> QED BY <1>1, <2>1 DEF Pending, InFlight, Down
<1>5. t \in Grounded => t \notin TxsOf(Chain)
  <2> SUFFICES ASSUME t \in Grounded PROVE t \notin TxsOf(Chain)
    OBVIOUS
  <2>1. InputSet(t) \subseteq Possible(Chain)
    BY <1>1, UnspentIsMade, GroundedInput DEF Whole
  <2> QED BY <1>1, <2>1, ChainFacts, OnceMined DEF Whole, GroundInv
<1>6. AbsChain' = AbsChain
  BY <1>1 DEF AbsChain
<1>7. t \notin Pending /\ Pending' \subseteq Pending \cup {t}
  BY <1>1, <1>2, <1>3, <1>4
<1> QED BY <1>1, <1>5, <1>6, <1>7, AbsAccept

(* The write of the height takes the block up. *)
LEMMA SaveHeightIsExtend ==
    ASSUME Whole, SaveHeight
    PROVE  Abstract!Next
<1> DEFINE b == Last(blocks)
           ts == Last(blocks).txs
<1>0. TypeOK /\ ChainInv
  BY DEF Whole, LedgerBase
<1>1. /\ pc = "height" /\ sHeight' = height
      /\ pc' = IF b.maker = "self" THEN "save_epoch" ELSE "save_mempool"
      /\ UNCHANGED <<stored, blocks, height, mempool>>
  BY DEF SaveHeight, memory
<1>2. /\ height = sHeight + 1 /\ sHeight \in Nat /\ blocks = SubSeq(stored, 1, height)
      /\ height <= Len(stored) /\ stored \in Seq(Block)
  BY <1>0, <1>1 DEF ChainInv, Writing, Down, TypeOK
<1>3. /\ b \in Block /\ b.maker \in Makers /\ ts \in Seq(Txs)
      /\ Chain \in Seq(Block) /\ blocks = Append(Chain, b)
  BY <1>0, <1>1, ChainFacts DEF Writing, Block
<1>4. IsInjective(ts) /\ ToSet(ts) \cap Grounded \cap TxsOf(Chain) = {}
  <2>1. IsInjective(ts) /\ MinedOnce(Append(Chain, b))
    BY <1>1, <1>3 DEF Whole, DistinctInv, GroundInv, Writing
  <2> DEFINE c == Chain
             d == Append(c, b)
             h == Len(c) + 1
  <2>2. ASSUME NEW i \in 1..Len(ts), NEW p \in Places(c), TxAt(c, p) = ts[i], ts[i] \in Grounded
        PROVE  FALSE
    <3>1. /\ Places(d) = Places(c) \cup {<<h, k>> : k \in 1..Len(ts)}
          /\ TxAt(d, p) = TxAt(c, p) /\ TxAt(d, <<h, i>>) = ts[i]
      BY <1>3, LongerChain
    <3>2. p[1] \in 1..Len(c) /\ Len(c) \in Nat
      BY <1>3, BookPlaces
    <3>3. p # <<h, i>>
      BY <3>2
    <3> HIDE DEF d, c, h
    <3>4. p \in Places(d) /\ <<h, i>> \in Places(d)
      BY <3>1
    <3> QED BY <2>1, <2>2, <3>1, <3>3, <3>4 DEF MinedOnce, d, c
  <2>3. TxsOf(c) = {TxAt(c, p) : p \in Places(c)} /\ ToSet(ts) = {ts[i] : i \in 1..Len(ts)}
    <3>1. TxsOf(c) = {TxAt(c, p) : p \in Places(c)}
      BY <1>3, BookPlaces
    <3>2. DOMAIN ts = 1..Len(ts)
      BY <1>3
    <3> QED BY <3>1, <3>2 DEF ToSet
  <2> HIDE DEF c
  <2>4. ToSet(ts) \cap Grounded \cap TxsOf(c) = {}
    BY <2>2, <2>3
  <2> QED BY <2>1, <2>4 DEF c
<1>5. stored[sHeight + 1].txs = ts
  <2>1. height \in 0..Len(stored) /\ height \in 1..height
    BY <1>2
  <2>2. Len(blocks) = height /\ blocks[height] = stored[height]
    BY <1>2, <2>1, PrefixFacts
  <2> QED BY <1>2, <2>2 DEF Last
<1>6. AbsChain' = Append(AbsChain, ts)
  <2>1. AbsChain \in Seq(Seq(Txs)) /\ Len(AbsChain) = sHeight
    BY <1>0, AbsFacts
  <2> DEFINE r == Append(AbsChain, ts)
  <2>2. /\ DOMAIN r = 1..(sHeight + 1) /\ r[sHeight + 1] = ts
        /\ \A h \in 1..sHeight : r[h] = AbsChain[h]
        /\ r \in Seq(Seq(Txs))
    BY <1>3, <2>1, AppendFacts
  <2> HIDE DEF r
  <2>3. \A h \in 1..sHeight : r[h] = stored[h].txs
    BY <2>2 DEF AbsChain
  <2>4. \A h \in 1..(sHeight + 1) : h \in 1..sHeight \/ h = sHeight + 1
    BY <1>2
  <2>5. \A h \in 1..(sHeight + 1) : r[h] = stored[h].txs
    BY <1>5, <2>2, <2>3, <2>4
  <2>6. AbsChain' = [h \in 1..(sHeight + 1) |-> stored[h].txs]
    BY <1>1, <1>2 DEF AbsChain
  <2>7. r = [h \in 1..(sHeight + 1) |-> r[h]]
    <3>1. r \in [1..Len(r) -> Seq(Txs)] /\ DOMAIN r = 1..Len(r)
      BY <2>2
    <3> QED BY <2>2, <3>1
  <2>8. AbsChain' = r
    BY <2>5, <2>6, <2>7
  <2> QED BY <2>8 DEF r
<1>7. Pending = ToSet(mempool) \cup IF b.maker = "self" THEN ToSet(ts) ELSE {}
  BY <1>0, <1>1, AbsFacts DEF Writing
<1>8. Pending' = ToSet(mempool)
  BY <1>1, <1>2 DEF Pending, InFlight, Down
<1>9. Pending' \subseteq Pending \ (ToSet(ts) \cap Grounded) /\ Pending \ ToSet(ts) \subseteq Pending'
  <2>1. CASE b.maker = "self"
    <3>1. ToSet(mempool) = {}
      BY <1>1, <2>1 DEF Whole, EmptiedInv, ToSet
    <3> QED BY <1>7, <1>8, <3>1
  <2>2. CASE b.maker = "peer"
    <3>1. ToSet(mempool) \cap TxsOf(blocks) \cap Grounded = {}
      BY <1>1 DEF Whole, GroundInv, Held, Down, Book
    <3>2. ToSet(ts) \subseteq TxsOf(blocks)
      BY <1>3, LongerChain
    <3> QED BY <1>7, <1>8, <2>2, <3>1, <3>2
  <2> QED BY <1>3, <2>1, <2>2 DEF Makers
<1> QED BY <1>0, <1>3, <1>4, <1>6, <1>9, AbsExtend

(* Every other step at most gives something up. *)
LEMMA OthersGiveUp ==
    ASSUME Whole, crashes' = 0, [Next]_vars
    PROVE  \/ \E t \in Txs : SubmitTx(t)
           \/ SaveHeight
           \/ AbsChain' = AbsChain /\ Pending' \subseteq Pending
<1> DEFINE Goal == AbsChain' = AbsChain /\ Pending' \subseteq Pending
<1>1. TypeOK /\ ChainInv /\ sHeight \in Nat /\ (Kill => Running)
  BY NoCrashBefore DEF Whole, LedgerBase, TypeOK
<1>2. ASSUME pc \notin Writing, pc' \notin {"down"} \cup Writing, UNCHANGED <<stored, sHeight>>,
             height' = sHeight, ToSet(mempool') \subseteq Pending
      PROVE  Goal
  BY <1>1, <1>2 DEF AbsChain, Pending, InFlight, Down
<1>3. CASE UNCHANGED vars
  <2>1. UNCHANGED <<stored, sHeight, sMempool, blocks, height, mempool, pc>>
    BY <1>3 DEF vars, disk, memory
  <2> QED BY <2>1 DEF AbsChain, Pending, InFlight, Down
<1>4. ASSUME NEW b \in Block, pc = "loop", WriteBlock(b),
             b.maker = "self" => ToSet(b.txs) \subseteq ToSet(mempool)
      PROVE  Goal
  <2>1. /\ pc' = "utxo" /\ Last(blocks') = b /\ UNCHANGED <<sHeight, mempool>>
        /\ \A h \in 1..sHeight : stored'[h] = stored[h]
    BY <1>1, <1>4, WriteBlockFacts DEF WriteBlock
  <2>2. Pending = ToSet(mempool)
    BY <1>1, <1>4, AbsFacts DEF Saved
  <2>3. Pending' \subseteq ToSet(mempool)
    BY <1>4, <2>1 DEF Pending, InFlight, Down
  <2> QED BY <2>1, <2>2, <2>3 DEF AbsChain
<1>5. CASE MineBlock
  <2>1. PICK b \in Block : pc = "loop" /\ b.txs = BlockTemplate /\ WriteBlock(b)
    BY <1>1, <1>5, MineFacts
  <2>2. ToSet(b.txs) \subseteq ToSet(mempool)
    BY <1>1, <2>1, TemplateFacts, DrawsElements DEF TypeOK
  <2> QED BY <1>4, <2>1, <2>2
<1>6. ASSUME NEW ts \in PeerBlockTxs, PeerBlock(ts) PROVE Goal
  <2>1. PICK b \in Block : pc = "loop" /\ b.maker = "peer" /\ WriteBlock(b)
    BY <1>1, <1>6, PeerFacts
  <2> QED BY <1>4, <2>1
<1>7. ASSUME pc \in Writing, pc' \in Writing, UNCHANGED <<stored, sHeight, blocks, height>>,
             ToSet(mempool') \subseteq ToSet(mempool)
      PROVE  Goal
  BY <1>7 DEF AbsChain, Pending, InFlight, Down, Writing
<1>8. CASE UpdateUtxo \/ PayReward \/ EndEpoch
  BY <1>7, <1>8 DEF UpdateUtxo, PayReward, EndEpoch, Writing, memory, disk
<1>9. CASE ClearMempool
  BY <1>7, <1>9 DEF ClearMempool, Writing, ToSet
<1>10. CASE RetainMempool
  <2>1. /\ mempool' = Retain(mempool, Txs \ Ordinary(ToSet(Last(blocks).txs)))
        /\ pc = "utxo" /\ pc' = "height" /\ UNCHANGED <<stored, sHeight, blocks, height>>
    BY <1>10 DEF RetainMempool, disk
  <2>2. mempool \in Seq(Txs) /\ Txs \ Ordinary(ToSet(Last(blocks).txs)) \in SUBSET Txs
    BY <1>1 DEF TypeOK
  <2>3. ToSet(mempool') \subseteq ToSet(mempool)
    BY <2>1, <2>2, RetainFacts
  <2> QED BY <1>7, <2>1, <2>3 DEF Writing
<1>11. CASE SaveEpoch \/ SavePeerMempool \/ EnterLoop
  <2>1. /\ pc \in Saved /\ pc' = "loop" /\ UNCHANGED <<stored, sHeight, height, mempool>>
    BY <1>11 DEF SaveEpoch, SavePeerMempool, EnterLoop, Saved, memory, disk
  <2>2. height = sHeight /\ Pending = ToSet(mempool)
    BY <1>1, <2>1, AbsFacts DEF ChainInv
  <2> QED BY <1>2, <2>1, <2>2 DEF Saved, Writing
<1>12. CASE Kill
  <2>1. /\ pc \in Saved /\ Running /\ pc' = "down" /\ UNCHANGED <<stored, sHeight, sMempool>>
    BY <1>1, <1>12 DEF Kill, Running, Saved, disk
  <2>2. height = sHeight /\ Pending = ToSet(mempool)
    BY <1>1, <2>1, AbsFacts DEF ChainInv
  <2>3. Pending' = IF sHeight = 0 THEN {} ELSE ToSet(sMempool)
    BY <2>1 DEF Pending, Down
  <2>4. sHeight # 0 => mempool = sMempool
    BY <1>1, <2>1, <2>2 DEF Whole, MempoolInv
  <2> QED BY <2>1, <2>2, <2>3, <2>4 DEF AbsChain
<1>13. CASE Restart
  <2>1. /\ pc = "down" /\ pc' = "boot" /\ height' = sHeight
        /\ mempool' = IF sHeight = 0 THEN <<>> ELSE sMempool
        /\ UNCHANGED <<stored, sHeight>>
    BY <1>13 DEF Restart, Down
  <2>2. Pending = IF sHeight = 0 THEN {} ELSE ToSet(sMempool)
    BY <2>1 DEF Pending, Down
  <2>3. ToSet(mempool') \subseteq Pending
    BY <2>1, <2>2 DEF ToSet
  <2> QED BY <1>2, <2>1, <2>3 DEF Writing
<1> QED
  BY <1>3, <1>5, <1>6, <1>8, <1>9, <1>10, <1>11, <1>12, <1>13 DEF Next

(* While no kill falls inside a block's writes the node implements the       *)
(* abstract ledger: a block takes effect when its height is saved, and every *)
(* other write is a submission, a discarding or invisible.                   *)
THEOREM LedgerRefinement == ASSUME MaxCrashes = 0 PROVE Spec => ImplementsLedgerSpec
<1>1. Init => Whole
  <2>1. Init => DistinctInv /\ EmptiedInv /\ crashes = 0
    BY DEF Init, DistinctInv, EmptiedInv, IsInjective, Writing
  <2> QED BY <2>1, LedgerBaseHolds, MempoolInvInit, GroundInvInit DEF Whole
<1>2. Whole /\ [Next]_vars => crashes' = 0
  <2> SUFFICES ASSUME Whole, [Next]_vars PROVE crashes' = 0
    OBVIOUS
  <2>1. crashes' = crashes \/ Kill
    BY DEF Next, vars, history, SubmitTx, MineBlock, PeerBlock, WriteBlock, UpdateUtxo,
       ClearMempool, PayReward, EndEpoch, SaveHeight, SaveEpoch, RetainMempool,
       SavePeerMempool, Restart, EnterLoop
  <2>2. Kill => crashes' = crashes
    BY DEF Kill, Whole
  <2> QED BY <2>1, <2>2 DEF Whole
<1>3. Whole /\ [Next]_vars => Whole'
  BY <1>2, LedgerBaseHolds, MempoolInvStep, DistinctInvStep, EmptiedInvStep, GroundInvStep
     DEF Whole, LedgerBase
<1>4. Init => Abstract!Init
  <2> SUFFICES ASSUME Init PROVE Abstract!Init
    OBVIOUS
  <2>1. sHeight = 0 /\ mempool = <<>> /\ pc = "boot" /\ height = 0
    BY DEF Init
  <2>2. Pending = {}
    BY <2>1 DEF Pending, InFlight, Down, ToSet
  <2>3. AbsChain = <<>>
    BY <2>1 DEF AbsChain
  <2> QED BY <2>2, <2>3 DEF Abstract!Init, AbsChain
<1>5. Whole /\ [Next]_vars => [Abstract!Next]_<<AbsChain, Pending>>
  BY <1>2, OthersGiveUp, SubmitIsAccept, SaveHeightIsExtend, AbsGiveUp
<1> QED
  BY <1>1, <1>3, <1>4, <1>5, PTL DEF Spec, ImplementsLedgerSpec, Abstract!Spec, AbsChain
=============================================================================
