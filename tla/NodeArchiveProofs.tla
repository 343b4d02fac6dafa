------------------------- MODULE NodeArchiveProofs -------------------------
(***************************************************************************)
(* The database, its backups and the targets of the blocks, wherever kills *)
(* fall, for any block time, targets, factors and intervals of difficulty, *)
(* checkpoints and backups.  ArchiveInv is about the chain on the disk and *)
(* in memory; HistoryInv, which needs it, about what a block is to the one *)
(* before: mine_block waits a block time after each, the block times of an *)
(* interval add up, so Factor is at most one, so no digit of the target    *)
(* grows.                                                                  *)
(***************************************************************************)
EXTENDS NodeArchive, DataLemmas

Running == {"idle", "height", "checkpoint", "backup", "prune"}

(* The chain in memory is that of the database, with the block that has been *)
(* stored and whose height has not been saved.                               *)
MemoryIsStored ==
    /\ height = IF pc = "height" THEN sHeight + 1 ELSE sHeight
    /\ Len(blocks) = height + 1
    /\ \A h \in 0..height : h \in DOMAIN stored /\ blocks[h + 1] = stored[h]
    /\ \A h \in 1..height : stored[h].prev = stored[h - 1].id

(* The inductive invariant.                                                  *)
ArchiveInv ==
    /\ pc \in Running \cup {"off"}
    /\ height \in Nat /\ sHeight \in Nat /\ DOMAIN sCheckpoints \subseteq Nat
    /\ \E S : blocks \in Seq(S)
    /\ pc \in Running => MemoryIsStored
    /\ DatabaseAgrees
    /\ BackupsAgree

-----------------------------------------------------------------------------
LEMMA ArchiveInit == Init => ArchiveInv
<1> SUFFICES ASSUME Init PROVE ArchiveInv
  OBVIOUS
<1>1. blocks \in Seq({Genesis}) /\ Len(blocks) = 1 /\ blocks[1] = Genesis
  BY DEF Init
<1>2. /\ DOMAIN stored = {0} /\ stored[0] = Genesis /\ DOMAIN sCheckpoints = {}
      /\ pc = "idle" /\ height = 0 /\ sHeight = 0 /\ backups = {}
  BY DEF Init
<1>3. MemoryIsStored
  BY <1>1, <1>2 DEF MemoryIsStored
<1> QED BY <1>1, <1>2, <1>3 DEF ArchiveInv, Running, DatabaseAgrees, BackupsAgree, Agrees

LEMMA MineBlockKeeps == ArchiveInv /\ MineBlock => ArchiveInv'
<1> SUFFICES ASSUME ArchiveInv, MineBlock PROVE ArchiveInv'
  OBVIOUS
<1> USE DEF ArchiveInv
<1>1. PICK b : /\ b.prev = Last(blocks).id
               /\ stored' = Put(stored, height + 1, b) /\ blocks' = Append(blocks, b)
  <2> DEFINE c == [id |-> <<life, now>>, prev |-> Last(blocks).id, target |-> LastDifficulty]
  <2>1. c.prev = Last(blocks).id
    OBVIOUS
  <2> QED BY <2>1 DEF MineBlock
<1>2. /\ pc = "idle" /\ pc' = "height" /\ height' = height + 1 /\ height = sHeight
      /\ UNCHANGED <<sHeight, sCheckpoints, backups>> /\ MemoryIsStored
  BY DEF MineBlock, MemoryIsStored, Running
<1>3. PICK S : blocks \in Seq(S)
  OBVIOUS
<1>4. /\ DOMAIN stored' = DOMAIN stored \cup {height + 1} /\ stored'[height + 1] = b
      /\ \A h \in DOMAIN stored : h # height + 1 => stored'[h] = stored[h]
  BY <1>1 DEF Put
<1>5. blocks \in Seq(S \cup {b})
  BY <1>3
<1>6. /\ blocks' \in Seq(S \cup {b}) /\ Len(blocks') = height + 2 /\ blocks'[height + 2] = b
      /\ \A h \in 0..height : blocks'[h + 1] = blocks[h + 1]
  BY <1>1, <1>2, <1>5 DEF MemoryIsStored
<1>7. Last(blocks) = stored[height]
  BY <1>2 DEF MemoryIsStored, Last
<1>8. MemoryIsStored'
  <2>1. \A h \in 0..height' : h \in DOMAIN stored' /\ blocks'[h + 1] = stored'[h]
    <3> SUFFICES ASSUME NEW h \in 0..height' PROVE h \in DOMAIN stored' /\ blocks'[h + 1] = stored'[h]
      OBVIOUS
    <3>1. CASE h = height + 1
      BY <1>4, <1>6, <3>1
    <3>2. CASE h # height + 1
      BY <1>2, <1>4, <1>6, <3>2 DEF MemoryIsStored
    <3> QED BY <3>1, <3>2
  <2>2. \A h \in 1..height' : stored'[h].prev = stored'[h - 1].id
    <3> SUFFICES ASSUME NEW h \in 1..height' PROVE stored'[h].prev = stored'[h - 1].id
      OBVIOUS
    <3>1. h - 1 \in 0..height /\ stored'[h - 1] = stored[h - 1]
      BY <1>2, <1>4 DEF MemoryIsStored
    <3>2. CASE h = height + 1
      BY <1>1, <1>4, <1>7, <3>1, <3>2
    <3>3. CASE h # height + 1
      <4>1. h \in 1..height /\ h \in DOMAIN stored
        BY <1>2, <3>3 DEF MemoryIsStored
      <4> QED BY <1>2, <1>4, <3>1, <3>3, <4>1 DEF MemoryIsStored
    <3> QED BY <3>2, <3>3
  <2> QED BY <1>2, <1>6, <2>1, <2>2 DEF MemoryIsStored
<1>9. DatabaseAgrees'
  <2>1. \A h \in 0..sHeight : h \in DOMAIN stored' /\ stored'[h] = stored[h]
    BY <1>2, <1>4 DEF MemoryIsStored
  <2>2. \A h \in 1..sHeight : h - 1 \in 0..sHeight
    OBVIOUS
  <2>3. \A h \in DOMAIN sCheckpoints : h \in 0..sHeight
    BY DEF DatabaseAgrees, Agrees
  <2> QED BY <1>2, <2>1, <2>2, <2>3 DEF DatabaseAgrees, Agrees
<1>10. BackupsAgree'
  BY <1>2 DEF BackupsAgree, Agrees
<1> QED BY <1>2, <1>6, <1>8, <1>9, <1>10 DEF Running

LEMMA SaveHeightKeeps == ArchiveInv /\ SaveHeight => ArchiveInv'
<1> SUFFICES ASSUME ArchiveInv, SaveHeight PROVE ArchiveInv'
  OBVIOUS
<1> USE DEF ArchiveInv
<1>1. /\ pc = "height" /\ pc' = "checkpoint" /\ sHeight' = height
      /\ UNCHANGED <<blocks, height, stored, sCheckpoints, backups>>
      /\ MemoryIsStored /\ height = sHeight + 1
  BY DEF SaveHeight, memory, Running, MemoryIsStored
<1>2. MemoryIsStored'
  BY <1>1 DEF MemoryIsStored
<1>3. DatabaseAgrees'
  <2>1. \A h \in DOMAIN sCheckpoints : h <= height
    BY <1>1 DEF DatabaseAgrees, Agrees
  <2> QED BY <1>1, <2>1 DEF DatabaseAgrees, Agrees, MemoryIsStored
<1>4. BackupsAgree'
  BY <1>1 DEF BackupsAgree, Agrees
<1> QED BY <1>1, <1>2, <1>3, <1>4 DEF Running

LEMMA CreateCheckpointKeeps == ArchiveInv /\ CreateCheckpoint => ArchiveInv'
<1> SUFFICES ASSUME ArchiveInv, CreateCheckpoint PROVE ArchiveInv'
  OBVIOUS
<1> USE DEF ArchiveInv
<1>1. /\ pc = "checkpoint" /\ pc' = "backup" /\ height = sHeight /\ MemoryIsStored
      /\ UNCHANGED <<blocks, height, stored, sHeight, backups>>
  BY DEF CreateCheckpoint, Running, MemoryIsStored
<1>2. MemoryIsStored'
  BY <1>1 DEF MemoryIsStored
<1>3. Last(blocks) = stored[height]
  BY <1>1 DEF MemoryIsStored, Last
<1>4. sCheckpoints' = sCheckpoints \/ sCheckpoints' = Put(sCheckpoints, height, stored[height].id)
  BY <1>3 DEF CreateCheckpoint, CheckpointHash
<1>5. \A h \in DOMAIN sCheckpoints' :
        h \in Nat /\ h <= sHeight /\ sCheckpoints'[h] = stored[h].id
  BY <1>1, <1>4 DEF Put, DatabaseAgrees, Agrees
<1>6. DatabaseAgrees'
  BY <1>1, <1>5 DEF DatabaseAgrees, Agrees
<1>7. BackupsAgree'
  BY <1>1 DEF BackupsAgree, Agrees
<1> QED BY <1>1, <1>2, <1>5, <1>6, <1>7 DEF Running

(* A backup is of a database that agrees.                                    *)
LEMMA SnapshotAgrees ==
    ASSUME DatabaseAgrees, BackupsAgree, backups' \subseteq backups \cup {Snapshot} PROVE BackupsAgree'
<1>1. Agrees(Snapshot.height, Snapshot.blocks, Snapshot.checkpoints)
  BY DEF Snapshot, DatabaseAgrees
<1>2. \A b \in backups' : Agrees(b.height, b.blocks, b.checkpoints)
  BY <1>1 DEF BackupsAgree
<1> QED BY <1>2 DEF BackupsAgree, Agrees

LEMMA StartKeeps == ArchiveInv /\ Start => ArchiveInv'
<1> SUFFICES ASSUME ArchiveInv, Start PROVE ArchiveInv'
  OBVIOUS
<1> USE DEF ArchiveInv
<1>1. /\ pc' = "idle" /\ blocks' = Loaded /\ height' = sHeight
      /\ UNCHANGED <<stored, sHeight, sCheckpoints, backups>>
  BY DEF Start, disk
<1>2. /\ Loaded \in Seq({stored[h] : h \in 0..sHeight}) /\ Len(Loaded) = sHeight + 1
      /\ \A h \in 0..sHeight : Loaded[h + 1] = stored[h]
  BY DEF Loaded
<1>3. MemoryIsStored'
  BY <1>1, <1>2 DEF MemoryIsStored, DatabaseAgrees, Agrees
<1>4. DatabaseAgrees' /\ BackupsAgree'
  BY <1>1 DEF DatabaseAgrees, BackupsAgree, Agrees
<1> QED BY <1>1, <1>2, <1>3, <1>4 DEF Running

LEMMA ArchiveStep == ArchiveInv /\ [Next]_vars => ArchiveInv'
<1> SUFFICES ASSUME ArchiveInv, [Next]_vars PROVE ArchiveInv'
  OBVIOUS
<1> USE DEF ArchiveInv
<1>1. CASE MaybeBackup
  <2>1. /\ pc = "backup" /\ pc' \in {"prune", "idle"} /\ backups' \subseteq backups \cup {Snapshot}
        /\ UNCHANGED <<blocks, height, stored, sHeight, sCheckpoints>>
    BY <1>1 DEF MaybeBackup, memory, disk
  <2>2. MemoryIsStored' /\ DatabaseAgrees'
    BY <2>1 DEF MemoryIsStored, Running, DatabaseAgrees, Agrees
  <2> QED BY <2>1, <2>2, SnapshotAgrees DEF Running
<1>2. CASE PruneOldBackups
  <2>1. /\ pc = "prune" /\ pc' = "idle" /\ backups' \subseteq backups
        /\ UNCHANGED <<blocks, height, stored, sHeight, sCheckpoints>>
    BY <1>2 DEF PruneOldBackups, memory, disk
  <2>2. MemoryIsStored' /\ DatabaseAgrees'
    BY <2>1 DEF MemoryIsStored, Running, DatabaseAgrees, Agrees
  <2> QED BY <2>1, <2>2, SnapshotAgrees DEF Running
<1>3. CASE Kill
  <2>1. /\ pc' = "off" /\ blocks' = <<>> /\ height' = 0
        /\ UNCHANGED <<stored, sHeight, sCheckpoints, backups>>
    BY <1>3 DEF Kill, disk
  <2>2. DatabaseAgrees' /\ BackupsAgree'
    BY <2>1 DEF DatabaseAgrees, BackupsAgree, Agrees
  <2>3. blocks' \in Seq({})
    BY <2>1
  <2> QED BY <2>1, <2>2, <2>3 DEF Running
<1>4. CASE BackupCommand \/ RestoreCommand
  <2>1. /\ backups' \subseteq backups \cup {Snapshot}
        /\ UNCHANGED <<pc, blocks, height, stored, sHeight, sCheckpoints>>
    BY <1>4 DEF BackupCommand, RestoreCommand, memory, disk
  <2>2. MemoryIsStored' = MemoryIsStored /\ DatabaseAgrees'
    BY <2>1 DEF MemoryIsStored, DatabaseAgrees, Agrees
  <2> QED BY <2>1, <2>2, SnapshotAgrees
<1>5. CASE Tick \/ UNCHANGED vars
  <2>1. UNCHANGED <<pc, blocks, height, stored, sHeight, sCheckpoints, backups>>
    BY <1>5 DEF Tick, vars, memory, disk
  <2>2. MemoryIsStored' = MemoryIsStored /\ DatabaseAgrees' /\ BackupsAgree'
    BY <2>1 DEF MemoryIsStored, DatabaseAgrees, BackupsAgree, Agrees
  <2> QED BY <2>1, <2>2
<1> QED BY <1>1, <1>2, <1>3, <1>4, <1>5, MineBlockKeeps, SaveHeightKeeps, CreateCheckpointKeeps,
           StartKeeps DEF Next

-----------------------------------------------------------------------------
(* Arithmetic of targets.                                                    *)
LEMMA QuotientAtMost ==
    ASSUME NEW s \in Nat \ {0}, NEW a \in Nat, NEW k \in Nat, a < s * (k + 1)
    PROVE  a \div s \in Nat /\ a \div s <= k
<1> DEFINE q == a \div s
           r == a % s
<1>1. q \in Nat /\ r \in 0..(s - 1) /\ a = s * q + r
  OBVIOUS
<1> HIDE DEF q, r
<1>2. q <= k
  <2> SUFFICES ASSUME q > k PROVE FALSE
    BY <1>1
  <2>1. PICK z \in Nat : q = (k + 1) + z
    <3>1. q - (k + 1) \in Nat /\ q = (k + 1) + (q - (k + 1))
      BY <1>1
    <3> QED BY <3>1
  <2>2. s * q = s * (k + 1) + s * z /\ s * z \in Nat /\ s * (k + 1) \in Nat /\ s * q \in Nat
    BY <1>1, <2>1
  <2> QED BY <1>1, <2>2
<1> QED BY <1>1, <1>2 DEF q

LEMMA RemainderType ==
    ASSUME NEW s \in Nat \ {0}, NEW a \in Nat
    PROVE  a % s \in 0..(s - 1) /\ a % s <= a /\ a \div s \in Nat
OBVIOUS

LEMMA TimesType ==
    ASSUME NEW a \in Nat, NEW b \in Nat
    PROVE  a * b \in Nat
OBVIOUS

LEMMA TimesAtMost ==
    ASSUME NEW a \in Nat, NEW b \in Nat, NEW c \in Nat, b <= c
    PROVE  a * b \in Nat /\ a * c \in Nat /\ a * b <= a * c
<1>1. PICK z \in Nat : c = b + z
  <2>1. c - b \in Nat /\ c = b + (c - b)
    OBVIOUS
  <2> QED BY <2>1
<1>2. a * c = a * b + a * z /\ a * z \in Nat /\ a * b \in Nat
  BY <1>1
<1> QED BY <1>2

(* What the assumption says of each constant. *)
LEMMA ConstantFacts ==
    /\ BlockTime \in Nat \ {0} /\ Interval \in Nat \ {0} /\ Base \in Nat \ {0}
    /\ Digits \in Nat \ {0} /\ Scale \in Nat \ {0}
    /\ Change \in 0..Scale /\ FloorFactor \in 0..Scale
    /\ FirstTarget \in Target /\ EasiestTarget \in Target
    /\ \A i \in (Digits \div 2 + 1)..Digits : EasiestTarget[i] = Base - 1
    /\ CheckpointEvery \in Nat \ {0} /\ BackupEvery \in Nat \ {0}
    /\ MaxCheckpoints \in Nat /\ KeepBackups \in Nat
<1>1. BlockTime \in Nat \ {0}
  BY ArchiveAssumption
<1>2. Interval \in Nat \ {0}
  BY ArchiveAssumption
<1>3. Base \in Nat \ {0}
  BY ArchiveAssumption
<1>4. Digits \in Nat \ {0}
  BY ArchiveAssumption
<1>5. Scale \in Nat \ {0}
  BY ArchiveAssumption
<1>6. CheckpointEvery \in Nat \ {0} /\ BackupEvery \in Nat \ {0}
  BY ArchiveAssumption
<1>7. FirstTarget \in Target /\ EasiestTarget \in Target
  BY ArchiveAssumption DEF Target
<1>8. MaxCheckpoints \in Nat /\ KeepBackups \in Nat
  BY ArchiveAssumption
<1> QED BY <1>1, <1>2, <1>3, <1>4, <1>5, <1>6, <1>7, <1>8, ArchiveAssumption

LEMMA DigitType ==
    ASSUME NEW t \in Target, NEW i \in 1..Digits
    PROVE  t[i] \in Nat /\ t[i] \in 0..(Base - 1)
<1>1. t[i] \in 0..(Base - 1)
  BY DEF Target
<1> QED BY <1>1, ConstantFacts

(* The carries of Target::adjust, from the last digit up. *)
Carries(c, t, f) ==
    c = [i \in 1..(Digits + 1) |-> IF i > Digits THEN 0 ELSE (t[i] * f + c[i + 1]) % Scale]

LEMMA CarriesExist ==
    ASSUME NEW t \in Target, NEW f \in Nat
    PROVE  \E c : Carries(c, t, f)
<1>0. Digits \in Nat \ {0} /\ Scale \in Nat \ {0} /\ \A i \in 1..Digits : t[i] \in Nat
  BY ConstantFacts, DigitType
<1> DEFINE digit(j) == t[Digits + 1 - j]
           step == [x \in ((0 + 1)..Digits) \X Nat |-> (digit(x[1]) * f + x[2]) % Scale]
<1>1. \A j \in (0 + 1)..Digits : digit(j) \in Nat
  BY <1>0
<1>2. \A j \in (0 + 1)..Digits, x \in Nat : (digit(j) * f + x) % Scale \in Nat
  <2> TAKE j \in (0 + 1)..Digits, x \in Nat
  <2>1. digit(j) * f \in Nat
    BY <1>1, TimesType
  <2>2. digit(j) * f + x \in Nat
    BY <2>1
  <2> QED BY <1>0, <2>2, RemainderType
<1>3. /\ step \in Steps(0, Digits, Nat)
      /\ \A j \in (0 + 1)..Digits, x \in Nat : step[<<j, x>>] = (digit(j) * f + x) % Scale
  BY <1>2 DEF Steps
<1> HIDE DEF step
<1>4. PICK g \in [0..Digits -> Nat] : Follows(g, 0, Digits, 0, step)
  <2>1. 0 \in Nat /\ 0 <= Digits /\ Digits \in Nat
    BY <1>0
  <2> QED BY <1>3, <2>1, RecursionExists
<1> DEFINE c == [i \in 1..(Digits + 1) |-> g[Digits + 1 - i]]
<1>5. ASSUME NEW i \in 1..(Digits + 1)
      PROVE  c[i] = IF i > Digits THEN 0 ELSE (t[i] * f + c[i + 1]) % Scale
  <2>1. CASE i > Digits
    <3>1. Digits + 1 - i = 0
      BY <1>0, <2>1
    <3> QED BY <1>4, <2>1, <3>1 DEF Follows
  <2>2. CASE ~(i > Digits)
    <3> DEFINE j == Digits + 1 - i
    <3>1. /\ j \in (0 + 1)..Digits /\ j - 1 \in 0..Digits /\ Digits + 1 - j = i
          /\ j - 1 = Digits + 1 - (i + 1) /\ i + 1 \in 1..(Digits + 1)
      BY <1>0, <2>2
    <3>2. g[j - 1] \in Nat /\ g[j] = step[<<j, g[j - 1]>>]
      BY <1>4, <3>1 DEF Follows
    <3>3. g[j] = (t[i] * f + g[j - 1]) % Scale
      BY <1>3, <3>1, <3>2
    <3>4. c[i] = g[j] /\ c[i + 1] = g[j - 1]
      BY <3>1
    <3> QED BY <2>2, <3>3, <3>4
  <2> QED BY <2>1, <2>2
<1>6. c = [i \in 1..(Digits + 1) |-> c[i]]
  OBVIOUS
<1> HIDE DEF c
<1>7. Carries(c, t, f)
  BY <1>5, <1>6 DEF Carries
<1> QED BY <1>7

(* A target adjusted by a factor of at most one has no digit above the       *)
(* target's: what is carried into a digit is less than a unit of it.         *)
LEMMA AdjustedFacts ==
    ASSUME NEW t \in Target, NEW f \in 0..Scale
    PROVE  /\ Adjusted(t, f) \in Target
           /\ \A i \in 1..Digits : Adjusted(t, f)[i] <= t[i]
<1>0. /\ Digits \in Nat \ {0} /\ Scale \in Nat \ {0} /\ Base \in Nat \ {0} /\ f \in Nat
      /\ \A i \in 1..Digits : t[i] \in Nat /\ t[i] \in 0..(Base - 1)
  BY ConstantFacts, DigitType
<1> DEFINE c == CHOOSE x : Carries(x, t, f)
<1>1. Carries(c, t, f)
  BY <1>0, CarriesExist
<1>2. Adjusted(t, f) = [i \in 1..Digits |-> ((t[i] * f + c[i + 1]) \div Scale) % Base]
  BY DEF Adjusted, Carries
<1> HIDE DEF c
<1>3. \A i \in 1..(Digits + 1) :
        c[i] = IF i > Digits THEN 0 ELSE (t[i] * f + c[i + 1]) % Scale
  BY <1>1 DEF Carries
<1> DEFINE T == {j \in 0..Digits : c[Digits + 1 - j] \in 0..(Scale - 1)}
<1>4. 0 \in T
  <2>1. Digits + 1 - 0 \in 1..(Digits + 1) /\ Digits + 1 - 0 > Digits /\ 0 \in 0..(Scale - 1)
    BY <1>0
  <2>2. c[Digits + 1 - 0] = 0
    BY <1>3, <2>1
  <2> QED BY <1>0, <2>1, <2>2
<1>5. ASSUME NEW j \in (0 + 1)..Digits, j - 1 \in T PROVE j \in T
  <2> DEFINE i == Digits + 1 - j
  <2>1. i \in 1..Digits /\ i \in 1..(Digits + 1) /\ ~(i > Digits) /\ i + 1 = Digits + 1 - (j - 1)
    BY <1>0
  <2>2. c[i + 1] \in Nat
    BY <1>5, <2>1
  <2>3. c[i] = (t[i] * f + c[i + 1]) % Scale
    BY <1>3, <2>1
  <2>4. t[i] * f \in Nat
    BY <1>0, <2>1, TimesType
  <2>5. t[i] * f + c[i + 1] \in Nat
    BY <2>2, <2>4
  <2>6. c[i] \in 0..(Scale - 1)
    BY <1>0, <2>3, <2>5, RemainderType
  <2> QED BY <2>6
<1>6. 0..Digits \subseteq T
  <2> HIDE DEF T
  <2>1. 0 \in Nat /\ Digits \in Nat
    BY <1>0
  <2> QED BY <1>4, <1>5, <2>1, IntervalInduction
<1>7. ASSUME NEW i \in 1..Digits
      PROVE  /\ ((t[i] * f + c[i + 1]) \div Scale) % Base \in 0..(Base - 1)
             /\ ((t[i] * f + c[i + 1]) \div Scale) % Base <= t[i]
  <2> DEFINE a == t[i] * f + c[i + 1]
             q == a \div Scale
  <2>1. c[i + 1] \in 0..(Scale - 1)
    <3>1. Digits - i \in 0..Digits /\ Digits + 1 - (Digits - i) = i + 1
      BY <1>0
    <3> QED BY <1>6, <3>1
  <2>2. t[i] \in Nat /\ f <= Scale
    BY <1>0
  <2>3. t[i] * f \in Nat /\ t[i] * Scale \in Nat /\ t[i] * f <= t[i] * Scale
    BY <1>0, <2>2, TimesAtMost
  <2>4. Scale * (t[i] + 1) = t[i] * Scale + Scale
    BY <1>0, <2>2
  <2>5. a \in Nat /\ a < Scale * (t[i] + 1)
    BY <1>0, <2>1, <2>3, <2>4
  <2> HIDE DEF a
  <2>6. q \in Nat /\ q <= t[i]
    BY <1>0, <2>2, <2>5, QuotientAtMost
  <2> HIDE DEF q
  <2>7. q % Base \in 0..(Base - 1) /\ q % Base <= q
    BY <1>0, <2>6, RemainderType
  <2>8. q % Base <= t[i]
    BY <1>0, <2>2, <2>6, <2>7
  <2> QED BY <2>7, <2>8 DEF q, a
<1> QED BY <1>2, <1>7 DEF Target

(* The values of the lower digits, from the middle down.                     *)
Values(v, t) ==
    v = [i \in 0..Digits |-> IF i <= Digits \div 2 THEN 0 ELSE v[i - 1] * Base + t[i]]

LEMMA ValuesExist ==
    ASSUME NEW t \in Target
    PROVE  \E v : Values(v, t)
<1>0. Digits \in Nat /\ Base \in Nat /\ Digits \div 2 \in Nat /\ \A i \in 1..Digits : t[i] \in Nat
  BY ConstantFacts, DigitType
<1> DEFINE step == [x \in ((0 + 1)..Digits) \X Nat |->
                      IF x[1] <= Digits \div 2 THEN 0 ELSE x[2] * Base + t[x[1]]]
<1>1. \A i \in (0 + 1)..Digits, x \in Nat : x * Base + t[i] \in Nat
  <2> TAKE i \in (0 + 1)..Digits, x \in Nat
  <2>1. x * Base \in Nat
    BY <1>0, TimesType
  <2> QED BY <1>0, <2>1
<1>2. /\ step \in Steps(0, Digits, Nat)
      /\ \A i \in (0 + 1)..Digits, x \in Nat :
            step[<<i, x>>] = IF i <= Digits \div 2 THEN 0 ELSE x * Base + t[i]
  BY <1>1 DEF Steps
<1> HIDE DEF step
<1>3. PICK v \in [0..Digits -> Nat] : Follows(v, 0, Digits, 0, step)
  <2>1. 0 \in Nat /\ 0 <= Digits /\ Digits \in Nat
    BY <1>0
  <2> QED BY <1>2, <2>1, RecursionExists
<1>4. \A i \in 0..Digits : v[i] = IF i <= Digits \div 2 THEN 0 ELSE v[i - 1] * Base + t[i]
  <2> TAKE i \in 0..Digits
  <2>1. CASE i = 0
    BY <1>0, <1>3, <2>1 DEF Follows
  <2>2. CASE i # 0
    <3>1. i \in (0 + 1)..Digits /\ i - 1 \in 0..Digits
      BY <1>0, <2>2
    <3>2. v[i - 1] \in Nat
      BY <1>3, <3>1
    <3> QED BY <1>2, <1>3, <3>1, <3>2 DEF Follows
  <2> QED BY <2>1, <2>2
<1>5. Values(v, t)
  BY <1>3, <1>4 DEF Values
<1> QED BY <1>3, <1>5

(* Values determines a function. *)
LEMMA ValuesFacts ==
    ASSUME NEW t \in Target
    PROVE  \E v \in [0..Digits -> Nat] :
              /\ LowHalf(t) = v[Digits]
              /\ \A i \in 0..Digits :
                   v[i] = IF i <= Digits \div 2 THEN 0 ELSE v[i - 1] * Base + t[i]
<1> DEFINE v == CHOOSE x : Values(x, t)
<1>1. Values(v, t)
  BY ValuesExist
<1>2. LowHalf(t) = v[Digits]
  BY DEF LowHalf, Values
<1> HIDE DEF v
<1>0. Digits \in Nat /\ Base \in Nat /\ Digits \div 2 \in Nat /\ \A i \in 1..Digits : t[i] \in Nat
  BY ConstantFacts, DigitType
<1>3. \A i \in 0..Digits : v[i] = IF i <= Digits \div 2 THEN 0 ELSE v[i - 1] * Base + t[i]
  BY <1>1 DEF Values
<1> DEFINE T == {i \in 0..Digits : v[i] \in Nat}
<1>4. 0 \in T
  <2>1. 0 \in 0..Digits /\ 0 <= Digits \div 2
    BY <1>0
  <2>2. v[0] = 0
    BY <1>3, <2>1
  <2> QED BY <2>1, <2>2
<1>5. ASSUME NEW i \in (0 + 1)..Digits, i - 1 \in T PROVE i \in T
  <2>1. i \in 0..Digits /\ i \in 1..Digits /\ v[i - 1] \in Nat
    BY <1>0, <1>5
  <2>2. v[i - 1] * Base \in Nat
    BY <1>0, <2>1, TimesType
  <2>3. v[i - 1] * Base + t[i] \in Nat
    BY <1>0, <2>1, <2>2
  <2> QED BY <1>3, <2>1, <2>3
<1>6. 0..Digits \subseteq T
  <2>1. 0 \in Nat /\ Digits \in Nat
    BY <1>0
  <2> HIDE DEF T
  <2> QED BY <1>4, <1>5, <2>1, IntervalInduction
<1>7. v \in [0..Digits -> Nat]
  <2>1. v = [i \in 0..Digits |-> v[i]]
    BY <1>1, <1>3 DEF Values
  <2>2. \A i \in 0..Digits : v[i] \in Nat
    BY <1>6
  <2> QED BY <2>1, <2>2
<1> QED BY <1>2, <1>3, <1>7

(* No target is easier than EasiestTarget, whose lower digits all are the    *)
(* greatest.                                                                 *)
LEMMA NothingEasier ==
    ASSUME NEW t \in Target
    PROVE  ~EasierThan(t, EasiestTarget)
<1>0. /\ Digits \in Nat /\ Base \in Nat \ {0} /\ Digits \div 2 \in Nat
      /\ EasiestTarget \in Target
      /\ \A i \in (Digits \div 2 + 1)..Digits : EasiestTarget[i] = Base - 1
  BY ConstantFacts
<1>1. PICK v \in [0..Digits -> Nat] :
        /\ LowHalf(t) = v[Digits]
        /\ \A i \in 0..Digits :
             v[i] = IF i <= Digits \div 2 THEN 0 ELSE v[i - 1] * Base + t[i]
  BY ValuesFacts
<1>2. PICK w \in [0..Digits -> Nat] :
        /\ LowHalf(EasiestTarget) = w[Digits]
        /\ \A i \in 0..Digits :
             w[i] = IF i <= Digits \div 2 THEN 0 ELSE w[i - 1] * Base + EasiestTarget[i]
  BY <1>0, ValuesFacts
<1> DEFINE T == {i \in 0..Digits : v[i] <= w[i]}
<1>3. 0 \in T
  <2>1. 0 \in 0..Digits /\ 0 <= Digits \div 2
    BY <1>0
  <2>2. v[0] = 0 /\ w[0] = 0
    BY <1>1, <1>2, <2>1
  <2> QED BY <2>1, <2>2
<1>4. ASSUME NEW i \in (0 + 1)..Digits, i - 1 \in T PROVE i \in T
  <2>1. i \in 0..Digits /\ i \in 1..Digits /\ i - 1 \in 0..Digits /\ v[i - 1] <= w[i - 1]
    BY <1>0, <1>4
  <2>2. CASE i <= Digits \div 2
    <3>1. v[i] = 0 /\ w[i] = 0
      BY <1>1, <1>2, <2>1, <2>2
    <3> QED BY <2>1, <3>1
  <2>3. CASE ~(i <= Digits \div 2)
    <3>1. i \in (Digits \div 2 + 1)..Digits
      BY <1>0, <2>1, <2>3
    <3>2. EasiestTarget[i] = Base - 1 /\ t[i] \in 0..(Base - 1)
      BY <1>0, <2>1, <3>1, DigitType
    <3>3. v[i] = v[i - 1] * Base + t[i]
      BY <1>1, <2>1, <2>3
    <3>4. w[i] = w[i - 1] * Base + (Base - 1)
      BY <1>2, <2>1, <2>3, <3>2
    <3>5. v[i - 1] \in Nat /\ w[i - 1] \in Nat
      BY <2>1
    <3>6. /\ Base * v[i - 1] \in Nat /\ Base * w[i - 1] \in Nat
          /\ Base * v[i - 1] <= Base * w[i - 1]
      BY <1>0, <2>1, <3>5, TimesAtMost
    <3>7. v[i - 1] * Base = Base * v[i - 1] /\ w[i - 1] * Base = Base * w[i - 1]
      BY <1>0, <3>5
    <3>8. v[i] <= w[i]
      BY <1>0, <3>2, <3>3, <3>4, <3>6, <3>7, SMTT(30)
    <3> QED BY <2>1, <3>8
  <2> QED BY <2>2, <2>3
<1>5. 0..Digits \subseteq T
  <2>1. 0 \in Nat /\ Digits \in Nat
    BY <1>0
  <2> HIDE DEF T
  <2> QED BY <1>3, <1>4, <2>1, IntervalInduction
<1>6. v[Digits] \in Nat /\ w[Digits] \in Nat /\ v[Digits] <= w[Digits]
  <2>1. Digits \in 0..Digits
    BY <1>0
  <2>2. Digits \in T
    <3> HIDE DEF T
    <3> QED BY <1>5, <2>1
  <2> QED BY <2>1, <2>2
<1> QED BY <1>1, <1>2, <1>6 DEF EasierThan

LEMMA FloorType == Floor \in Target
BY ConstantFacts, AdjustedFacts DEF Floor

(* A factor for an interval that took at least as long as it should.         *)
LEMMA FactorAtMostOne ==
    ASSUME NEW actual \in Nat \ {0}, actual >= Interval * BlockTime
    PROVE  Factor(actual) \in 0..Scale
<1> DEFINE e == Interval * BlockTime
           q == (Scale * Interval * BlockTime) \div actual
<1>0. /\ Interval \in Nat /\ BlockTime \in Nat /\ Scale \in Nat \ {0} /\ Change \in 0..Scale
  BY ConstantFacts
<1>1. e \in Nat
  BY <1>0, TimesType
<1>2. Scale * Interval * BlockTime = Scale * e
  BY <1>0
<1>3. Scale * e \in Nat /\ Scale * actual \in Nat /\ Scale * e <= Scale * actual
  BY <1>0, <1>1, TimesAtMost
<1>4. actual * (Scale + 1) = Scale * actual + actual
  BY <1>0
<1>5. Scale * e < actual * (Scale + 1)
  BY <1>3, <1>4
<1>6. (Scale * e) \div actual \in Nat /\ (Scale * e) \div actual <= Scale
  BY <1>0, <1>3, <1>5, QuotientAtMost
<1>7. q \in Nat /\ q <= Scale
  BY <1>2, <1>6
<1> HIDE DEF q
<1>8. Clamped(Scale - Change, q, Scale + Change) \in 0..Scale
  BY <1>0, <1>7 DEF Clamped
<1> QED BY <1>8 DEF Factor, q

(* adjust_difficulty, for such an interval: a target that is not above the   *)
(* one before, or Floor.                                                     *)
LEMMA AdjustDifficultyFacts ==
    ASSUME NEW t \in Target, NEW actual \in Nat \ {0}, actual >= Interval * BlockTime
    PROVE  /\ AdjustDifficulty(t, actual) \in Target
           /\ Above(AdjustDifficulty(t, actual), t) => AdjustDifficulty(t, actual) = Floor
<1> DEFINE a == Adjusted(t, Factor(actual))
<1>1. a \in Target /\ \A i \in 1..Digits : a[i] <= t[i]
  BY FactorAtMostOne, AdjustedFacts
<1> HIDE DEF a
<1>2. ~EasierThan(a, EasiestTarget)
  BY <1>1, NothingEasier
<1>3. ~Above(a, t)
  <2>1. \A i \in 1..Digits : a[i] \in Nat /\ t[i] \in Nat
    BY <1>1, DigitType
  <2>2. \A i \in 1..Digits : ~(a[i] > t[i])
    BY <1>1, <2>1
  <2> QED BY <2>2 DEF Above
<1>4. AdjustDifficulty(t, actual) = IF HarderThan(a, Floor) THEN Floor ELSE a
  BY <1>2 DEF AdjustDifficulty, a
<1> QED BY <1>1, <1>3, <1>4, FloorType

-----------------------------------------------------------------------------
(* The blocks of a chain and its checkpoints.                                *)
(* What a block is to the one before: a block time later, and of a target    *)
(* that is not above, or Floor.                                              *)
Succeeds(b, c) ==
    /\ c.id[2] - b.id[2] >= BlockTime
    /\ Above(c.target, b.target) => c.target = Floor

(* The types, the succession of the blocks in the database and in memory,    *)
(* and the checkpoints listed.  The two chains are related by ArchiveInv.    *)
ChainSucceeds ==
    /\ \A h \in 1..sHeight : Succeeds(stored[h - 1], stored[h])
    /\ \A i \in 1..(Len(blocks) - 1) : Succeeds(blocks[i], blocks[i + 1])
ListedAreStored ==
    \A i \in DOMAIN checkpoints :
        /\ checkpoints[i].height \in DOMAIN sCheckpoints
        /\ sCheckpoints[checkpoints[i].height] = checkpoints[i].hash
HistoryInv == ArchiveTypeOK /\ ChainSucceeds /\ ListedAreStored

LEMMA BlockFacts ==
    ASSUME NEW b \in Block
    PROVE  b.id \in BlockId /\ b.id[2] \in Nat /\ b.target \in Target
BY DEF Block, BlockId

(* Over an interval the block times add up.                                  *)
LEMMA IntervalTime ==
    ASSUME NEW bs \in Seq(Block), NEW n \in Nat, Len(bs) = n + 1, n >= Interval,
           \A i \in 1..(Len(bs) - 1) : Succeeds(bs[i], bs[i + 1])
    PROVE  /\ bs[n + 1].id[2] - bs[n - Interval + 1].id[2] \in Nat \ {0}
           /\ bs[n + 1].id[2] - bs[n - Interval + 1].id[2] >= Interval * BlockTime
<1>0. Interval \in Nat \ {0} /\ BlockTime \in Nat \ {0}
  BY ConstantFacts
<1> DEFINE first == n - Interval + 1
           time(k) == bs[first + k].id[2]
           T == {k \in 0..Interval : time(k) - time(0) >= k * BlockTime}
<1>1. \A k \in 0..Interval : time(k) \in Nat
  <2> TAKE k \in 0..Interval
  <2>1. first + k \in 1..Len(bs)
    BY <1>0
  <2>2. bs[first + k] \in Block
    BY <2>1
  <2> QED BY <2>2, BlockFacts
<1>2. \A k \in (0 + 1)..Interval : time(k) - time(k - 1) >= BlockTime
  <2> TAKE k \in (0 + 1)..Interval
  <2>1. first + (k - 1) \in 1..(Len(bs) - 1) /\ first + (k - 1) + 1 = first + k
    BY <1>0
  <2>2. Succeeds(bs[first + (k - 1)], bs[first + k])
    BY <2>1
  <2> QED BY <2>2 DEF Succeeds
<1> HIDE DEF time
<1>3. 0 \in T
  <2>1. 0 \in 0..Interval /\ time(0) \in Nat
    BY <1>0, <1>1
  <2>2. 0 * BlockTime = 0
    BY <1>0
  <2> QED BY <2>1, <2>2
<1>4. ASSUME NEW k \in (0 + 1)..Interval, k - 1 \in T PROVE k \in T
  <2>1. k \in 0..Interval /\ k - 1 \in 0..Interval /\ 0 \in 0..Interval
    BY <1>0
  <2>2. time(k) \in Nat /\ time(k - 1) \in Nat /\ time(0) \in Nat
    BY <1>1, <2>1
  <2>3. time(k - 1) - time(0) >= (k - 1) * BlockTime
    BY <1>4
  <2>4. time(k) - time(k - 1) >= BlockTime
    BY <1>2
  <2>5. (k - 1) * BlockTime \in Int /\ k * BlockTime = (k - 1) * BlockTime + BlockTime
    BY <1>0
  <2>6. time(k) - time(0) >= k * BlockTime
    BY <1>0, <2>2, <2>3, <2>4, <2>5
  <2> QED BY <2>1, <2>6
<1>5. 0..Interval \subseteq T
  <2>1. 0 \in Nat /\ Interval \in Nat
    BY <1>0
  <2> HIDE DEF T
  <2> QED BY <1>3, <1>4, <2>1, IntervalInduction
<1>6. Interval \in 0..Interval /\ 0 \in 0..Interval
  BY <1>0
<1>7. Interval \in T
  <2> HIDE DEF T
  <2> QED BY <1>5, <1>6
<1>8. time(Interval) - time(0) >= Interval * BlockTime /\ time(Interval) \in Nat /\ time(0) \in Nat
  BY <1>1, <1>6, <1>7
<1>9. time(Interval) = bs[n + 1].id[2] /\ time(0) = bs[n - Interval + 1].id[2]
  <2>1. first + Interval = n + 1 /\ first + 0 = n - Interval + 1
    BY <1>0
  <2> QED BY <2>1 DEF time
<1>10. Interval * BlockTime \in Nat /\ Interval * BlockTime >= 1
  <2>1. 1 <= BlockTime /\ 1 \in Nat /\ BlockTime \in Nat /\ Interval \in Nat
    BY <1>0
  <2>2. Interval * 1 <= Interval * BlockTime /\ Interval * BlockTime \in Nat
    BY <2>1, TimesAtMost
  <2> QED BY <1>0, <2>2
<1>11. time(Interval) - time(0) \in Nat \ {0}
  BY <1>8, <1>10
<1> QED BY <1>8, <1>9, <1>11

LEMMA LastDifficultyFacts ==
    ASSUME ArchiveTypeOK, ChainSucceeds, pc # "off"
    PROVE  /\ LastDifficulty \in Target
           /\ Above(LastDifficulty, Last(blocks).target) => LastDifficulty = Floor
<1>1. blocks \in Seq(Block) /\ height \in Nat /\ Len(blocks) = height + 1
  BY DEF ArchiveTypeOK
<1>2. Last(blocks) = blocks[height + 1] /\ blocks[height + 1] \in Block
  BY <1>1 DEF Last
<1>3. Last(blocks).target \in Target
  BY <1>2, BlockFacts
<1> DEFINE t == Last(blocks).target
           actual == blocks[height + 1].id[2] - blocks[height - Interval + 1].id[2]
<1>4. CASE height >= Interval /\ height % Interval = 0
  <2>1. LastDifficulty = AdjustDifficulty(t, actual)
    BY <1>4 DEF LastDifficulty
  <2>2. actual \in Nat \ {0} /\ actual >= Interval * BlockTime
    BY <1>1, <1>4, IntervalTime DEF ChainSucceeds
  <2> HIDE DEF actual, t
  <2>3. t \in Target
    BY <1>3 DEF t
  <2>4. /\ AdjustDifficulty(t, actual) \in Target
        /\ Above(AdjustDifficulty(t, actual), t) => AdjustDifficulty(t, actual) = Floor
    BY <2>2, <2>3, AdjustDifficultyFacts
  <2> QED BY <2>1, <2>4 DEF t
<1>5. CASE ~(height >= Interval /\ height % Interval = 0)
  <2>1. LastDifficulty = t
    BY <1>5 DEF LastDifficulty
  <2>2. \A i \in 1..Digits : t[i] \in Nat
    BY <1>3, DigitType
  <2>3. \A i \in 1..Digits : ~(t[i] > t[i])
    BY <2>2
  <2>4. ~Above(t, t)
    BY <2>3 DEF Above
  <2> QED BY <1>3, <2>1, <2>4
<1> QED BY <1>4, <1>5

LEMMA HistoryInit == Init => HistoryInv
<1> SUFFICES ASSUME Init PROVE HistoryInv
  OBVIOUS
<1>1. Genesis \in Block
  BY ConstantFacts DEF Genesis, Block, BlockId, NoBlock
<1>2. blocks \in Seq(Block) /\ Len(blocks) = 1
  BY <1>1 DEF Init
<1>3. /\ DOMAIN stored = {0} /\ stored[0] = Genesis /\ DOMAIN sCheckpoints = {}
      /\ pc = "idle" /\ height = 0 /\ sHeight = 0 /\ backups = {} /\ checkpoints = <<>>
      /\ now = 0 /\ life = 1
  BY DEF Init
<1>4. checkpoints \in Seq(Checkpoint) /\ DOMAIN checkpoints = {}
  BY <1>3
<1>5. ArchiveTypeOK
  BY <1>1, <1>2, <1>3, <1>4 DEF ArchiveTypeOK
<1>6. ChainSucceeds
  BY <1>2, <1>3 DEF ChainSucceeds
<1>7. ListedAreStored
  BY <1>4 DEF ListedAreStored
<1> QED BY <1>5, <1>6, <1>7 DEF HistoryInv

LEMMA MineBlockHistory == ArchiveInv /\ HistoryInv /\ MineBlock => HistoryInv'
<1> SUFFICES ASSUME ArchiveInv, HistoryInv, MineBlock PROVE HistoryInv'
  OBVIOUS
<1> DEFINE b == [id |-> <<life, now>>, prev |-> Last(blocks).id, target |-> LastDifficulty]
<1>1. /\ pc = "idle" /\ pc' = "height" /\ height' = height + 1
      /\ now - Last(blocks).id[2] >= BlockTime
      /\ stored' = Put(stored, height + 1, b) /\ blocks' = Append(blocks, b)
      /\ UNCHANGED <<now, life, checkpoints, sHeight, sCheckpoints, backups>>
  BY DEF MineBlock, MayMine
<1>2. /\ blocks \in Seq(Block) /\ height \in Nat /\ Len(blocks) = height + 1
      /\ now \in Nat /\ life \in Nat
      /\ sHeight = height
  BY <1>1 DEF HistoryInv, ArchiveTypeOK, ArchiveInv, MemoryIsStored, Running
<1>3. Last(blocks) = blocks[height + 1] /\ Last(blocks) \in Block
  BY <1>2 DEF Last
<1>4. /\ LastDifficulty \in Target
      /\ Above(LastDifficulty, Last(blocks).target) => LastDifficulty = Floor
  BY <1>1, LastDifficultyFacts DEF HistoryInv
<1>5. b \in Block
  BY <1>2, <1>3, <1>4, BlockFacts DEF Block, BlockId
<1>6. Succeeds(Last(blocks), b)
  BY <1>1, <1>4 DEF Succeeds
<1> HIDE DEF b
<1>7. /\ blocks' \in Seq(Block) /\ Len(blocks') = height + 2
      /\ \A i \in 1..(height + 1) : blocks'[i] = blocks[i]
      /\ blocks'[height + 2] = b
  <2>1. Len(blocks) + 1 = height + 2
    BY <1>2
  <2> QED BY <1>1, <1>2, <1>5, <2>1, AppendFacts
<1>8. /\ DOMAIN stored' = DOMAIN stored \cup {height + 1} /\ stored'[height + 1] = b
      /\ \A h \in DOMAIN stored : h # height + 1 => stored'[h] = stored[h]
  BY <1>1 DEF Put
<1>9. ArchiveTypeOK'
  <2>1. \A h \in DOMAIN stored' : h \in Nat /\ stored'[h] \in Block
    <3> TAKE h \in DOMAIN stored'
    <3>1. CASE h = height + 1
      BY <1>2, <1>5, <1>8, <3>1
    <3>2. CASE h # height + 1
      BY <1>8, <3>2 DEF HistoryInv, ArchiveTypeOK
    <3> QED BY <3>1, <3>2
  <2>2. sHeight' \in DOMAIN stored'
    BY <1>1, <1>8 DEF HistoryInv, ArchiveTypeOK
  <2>3. height' \in Nat /\ Len(blocks') = height' + 1
    BY <1>1, <1>2, <1>7
  <2> QED BY <1>1, <1>7, <2>1, <2>2, <2>3 DEF HistoryInv, ArchiveTypeOK
<1>10. \A h \in 1..sHeight' : Succeeds(stored'[h - 1], stored'[h])
  <2> TAKE h \in 1..sHeight'
  <2>1. h \in 0..sHeight /\ h - 1 \in 0..sHeight /\ h # height + 1 /\ h - 1 # height + 1
    BY <1>1, <1>2
  <2>2. h \in DOMAIN stored /\ h - 1 \in DOMAIN stored
    BY <2>1 DEF ArchiveInv, DatabaseAgrees, Agrees
  <2>3. stored'[h] = stored[h] /\ stored'[h - 1] = stored[h - 1]
    BY <1>8, <2>1, <2>2
  <2> QED BY <1>1, <2>3 DEF HistoryInv, ChainSucceeds
<1>11. \A i \in 1..(Len(blocks') - 1) : Succeeds(blocks'[i], blocks'[i + 1])
  <2> TAKE i \in 1..(Len(blocks') - 1)
  <2>1. CASE i = height + 1
    <3>1. blocks'[i] = Last(blocks) /\ blocks'[i + 1] = b
      BY <1>2, <1>3, <1>7, <2>1
    <3> QED BY <1>6, <3>1
  <2>2. CASE i # height + 1
    <3>1. i \in 1..(height + 1) /\ i + 1 \in 1..(height + 1) /\ i \in 1..(Len(blocks) - 1)
      BY <1>2, <1>7, <2>2
    <3> QED BY <1>7, <3>1 DEF HistoryInv, ChainSucceeds
  <2> QED BY <2>1, <2>2
<1>12. ListedAreStored'
  BY <1>1 DEF HistoryInv, ListedAreStored
<1> QED BY <1>9, <1>10, <1>11, <1>12 DEF HistoryInv, ChainSucceeds

LEMMA SaveHeightHistory == ArchiveInv /\ HistoryInv /\ SaveHeight => HistoryInv'
<1> SUFFICES ASSUME ArchiveInv, HistoryInv, SaveHeight PROVE HistoryInv'
  OBVIOUS
<1>1. /\ pc = "height" /\ pc' = "checkpoint" /\ sHeight' = height
      /\ UNCHANGED <<now, life, blocks, height, checkpoints, stored, sCheckpoints, backups>>
  BY DEF SaveHeight, memory
<1>2. /\ MemoryIsStored /\ height \in Nat /\ Len(blocks) = height + 1
  BY <1>1 DEF ArchiveInv, Running, MemoryIsStored
<1>3. ArchiveTypeOK'
  <2>1. height \in DOMAIN stored
    BY <1>2 DEF MemoryIsStored
  <2> QED BY <1>1, <1>2, <2>1 DEF HistoryInv, ArchiveTypeOK
<1>4. \A h \in 1..height : Succeeds(stored[h - 1], stored[h])
  <2> TAKE h \in 1..height
  <2>1. /\ h \in 0..height /\ h - 1 \in 0..height /\ h \in 1..(Len(blocks) - 1)
        /\ (h - 1) + 1 = h
    BY <1>2
  <2>2. blocks[h + 1] = stored[h] /\ blocks[h] = stored[h - 1]
    BY <1>2, <2>1 DEF MemoryIsStored
  <2>3. Succeeds(blocks[h], blocks[h + 1])
    BY <2>1 DEF HistoryInv, ChainSucceeds
  <2> QED BY <2>2, <2>3
<1> QED BY <1>1, <1>3, <1>4 DEF HistoryInv, ChainSucceeds, ListedAreStored

LEMMA CreateCheckpointHistory == ArchiveInv /\ HistoryInv /\ CreateCheckpoint => HistoryInv'
<1> SUFFICES ASSUME ArchiveInv, HistoryInv, CreateCheckpoint PROVE HistoryInv'
  OBVIOUS
<1>1. /\ pc = "checkpoint" /\ pc' = "backup"
      /\ UNCHANGED <<now, life, blocks, height, stored, sHeight, backups>>
  BY DEF CreateCheckpoint
<1>2. /\ MemoryIsStored /\ DatabaseAgrees /\ height = sHeight /\ height \in Nat
      /\ blocks \in Seq(Block) /\ Len(blocks) = height + 1
      /\ checkpoints \in Seq(Checkpoint)
  BY <1>1 DEF ArchiveInv, Running, MemoryIsStored, HistoryInv, ArchiveTypeOK
<1>3. CheckpointHash = stored[height].id /\ CheckpointHash \in BlockId
  <2>1. Last(blocks) = blocks[height + 1] /\ Last(blocks) \in Block
    BY <1>2 DEF Last
  <2>2. blocks[height + 1] = stored[height]
    BY <1>2 DEF MemoryIsStored
  <2> QED BY <2>1, <2>2, BlockFacts DEF CheckpointHash
<1>4. CASE UNCHANGED <<checkpoints, sCheckpoints>>
  BY <1>1, <1>4 DEF HistoryInv, ArchiveTypeOK, ChainSucceeds, ListedAreStored
<1>5. CASE /\ checkpoints' = Listed([height |-> height, hash |-> CheckpointHash])
           /\ sCheckpoints' = Put(sCheckpoints, height, CheckpointHash)
  <2> DEFINE c == [height |-> height, hash |-> CheckpointHash]
             l == Append(checkpoints, c)
  <2>1. /\ DOMAIN sCheckpoints' = DOMAIN sCheckpoints \cup {height}
        /\ sCheckpoints'[height] = CheckpointHash
        /\ \A h \in DOMAIN sCheckpoints : h # height => sCheckpoints'[h] = sCheckpoints[h]
    BY <1>5 DEF Put
  <2>2. \A h \in DOMAIN sCheckpoints : h \in DOMAIN sCheckpoints' /\ sCheckpoints'[h] = sCheckpoints[h]
    BY <1>2, <1>3, <2>1 DEF DatabaseAgrees, Agrees
  <2>3. c \in Checkpoint
    BY <1>2, <1>3 DEF Checkpoint
  <2>4. /\ l \in Seq(Checkpoint) /\ Len(l) = Len(checkpoints) + 1 /\ DOMAIN l = 1..Len(l)
        /\ \A i \in DOMAIN checkpoints : l[i] = checkpoints[i]
        /\ l[Len(l)] = c /\ DOMAIN checkpoints = 1..Len(checkpoints) /\ Len(checkpoints) \in Nat
    BY <1>2, <2>3, AppendFacts
  <2>5. \A i \in DOMAIN l :
          l[i].height \in DOMAIN sCheckpoints' /\ sCheckpoints'[l[i].height] = l[i].hash
    <3> SUFFICES ASSUME NEW i \in DOMAIN l
                 PROVE  l[i].height \in DOMAIN sCheckpoints' /\ sCheckpoints'[l[i].height] = l[i].hash
      OBVIOUS
    <3>1. CASE i = Len(l)
      BY <2>1, <2>4, <3>1
    <3>2. CASE i # Len(l)
      <4>1. i \in DOMAIN checkpoints
        BY <2>4, <3>2
      <4> QED BY <2>2, <2>4, <4>1 DEF HistoryInv, ListedAreStored
    <3> QED BY <3>1, <3>2
  <2> HIDE DEF l
  <2>6. checkpoints' \in {l, Tail(l)}
    BY <1>5 DEF Listed, l
  <2>7. Tail(l) \in Seq(Checkpoint) /\ \A i \in DOMAIN Tail(l) : i + 1 \in DOMAIN l /\ Tail(l)[i] = l[i + 1]
    BY <2>4
  <2>8. checkpoints' \in Seq(Checkpoint)
    BY <2>4, <2>6, <2>7
  <2>9. ListedAreStored'
    <3>1. CASE checkpoints' = l
      BY <2>5, <3>1 DEF ListedAreStored
    <3>2. CASE checkpoints' = Tail(l)
      BY <2>5, <2>7, <3>2 DEF ListedAreStored
    <3> QED BY <2>6, <3>1, <3>2
  <2>10. \A h \in DOMAIN sCheckpoints' : h \in Nat /\ sCheckpoints'[h] \in BlockId
    BY <1>2, <1>3, <2>1 DEF HistoryInv, ArchiveTypeOK
  <2>11. ArchiveTypeOK'
    BY <1>1, <2>8, <2>10 DEF HistoryInv, ArchiveTypeOK
  <2>12. ChainSucceeds'
    BY <1>1 DEF HistoryInv, ChainSucceeds
  <2> QED BY <2>9, <2>11, <2>12 DEF HistoryInv
<1> QED BY <1>4, <1>5 DEF CreateCheckpoint

LEMMA StartHistory == ArchiveInv /\ HistoryInv /\ Start => HistoryInv'
<1> SUFFICES ASSUME ArchiveInv, HistoryInv, Start PROVE HistoryInv'
  OBVIOUS
<1>1. /\ pc' = "idle" /\ life' = life + 1 /\ blocks' = Loaded /\ height' = sHeight
      /\ checkpoints' \in LoadedCheckpoints
      /\ UNCHANGED <<now, stored, sHeight, sCheckpoints, backups>>
  BY DEF Start, disk
<1>2. sHeight \in Nat /\ \A h \in 0..sHeight : h \in DOMAIN stored /\ stored[h] \in Block
  BY DEF ArchiveInv, DatabaseAgrees, Agrees, HistoryInv, ArchiveTypeOK
<1>3. /\ Loaded \in Seq(Block) /\ Len(Loaded) = sHeight + 1
      /\ \A h \in 0..sHeight : Loaded[h + 1] = stored[h]
  <2>1. \A i \in 1..(sHeight + 1) : stored[i - 1] \in Block
    <3> TAKE i \in 1..(sHeight + 1)
    <3>1. i - 1 \in 0..sHeight
      BY <1>2
    <3> QED BY <1>2, <3>1
  <2>2. Loaded \in [1..(sHeight + 1) -> Block]
    BY <2>1 DEF Loaded
  <2>3. sHeight + 1 \in Nat
    BY <1>2
  <2>4. Loaded \in Seq(Block) /\ Len(Loaded) = sHeight + 1
    BY <2>2, <2>3
  <2>5. \A h \in 0..sHeight : h + 1 \in 1..(sHeight + 1) /\ (h + 1) - 1 = h
    BY <1>2
  <2> QED BY <2>4, <2>5 DEF Loaded
<1>4. PICK keys \in InKeyOrder(DOMAIN sCheckpoints) :
        checkpoints' = [i \in DOMAIN keys |-> [height |-> keys[i], hash |-> sCheckpoints[keys[i]]]]
  BY <1>1 DEF LoadedCheckpoints
<1>5. Cardinality(DOMAIN sCheckpoints) \in Nat
  <2>1. DOMAIN sCheckpoints \subseteq 0..sHeight
    BY <1>2 DEF ArchiveInv, DatabaseAgrees, Agrees
  <2>2. IsFiniteSet(0..sHeight)
    BY <1>2, FS_Interval
  <2>3. IsFiniteSet(DOMAIN sCheckpoints)
    BY <2>1, <2>2, FS_Subset
  <2> QED BY <2>3, FS_CardinalityType
<1>6. keys \in [1..Cardinality(DOMAIN sCheckpoints) -> DOMAIN sCheckpoints]
  BY <1>4 DEF InKeyOrder
<1>7. \A i \in DOMAIN keys :
        /\ keys[i] \in DOMAIN sCheckpoints
        /\ [height |-> keys[i], hash |-> sCheckpoints[keys[i]]] \in Checkpoint
  BY <1>6 DEF HistoryInv, ArchiveTypeOK, Checkpoint
<1>8. checkpoints' \in Seq(Checkpoint)
  <2>1. checkpoints' \in [1..Cardinality(DOMAIN sCheckpoints) -> Checkpoint]
    BY <1>4, <1>6, <1>7
  <2> QED BY <1>5, <2>1
<1>9. ListedAreStored'
  BY <1>1, <1>4, <1>7 DEF ListedAreStored
<1>10. ArchiveTypeOK'
  <2>1. life' \in Nat
    BY <1>1 DEF HistoryInv, ArchiveTypeOK
  <2> QED BY <1>1, <1>2, <1>3, <1>8, <2>1 DEF HistoryInv, ArchiveTypeOK
<1>11. ChainSucceeds'
  <2>1. \A h \in 1..sHeight' : Succeeds(stored'[h - 1], stored'[h])
    BY <1>1 DEF HistoryInv, ChainSucceeds
  <2>2. \A i \in 1..(Len(blocks') - 1) : Succeeds(blocks'[i], blocks'[i + 1])
    <3> TAKE i \in 1..(Len(blocks') - 1)
    <3>1. i \in 1..sHeight /\ i \in 0..sHeight /\ i - 1 \in 0..sHeight /\ (i - 1) + 1 = i
      BY <1>1, <1>2, <1>3
    <3>2. blocks'[i] = stored[i - 1] /\ blocks'[i + 1] = stored[i]
      BY <1>1, <1>3, <3>1
    <3> QED BY <3>1, <3>2 DEF HistoryInv, ChainSucceeds
  <2> QED BY <2>1, <2>2 DEF ChainSucceeds
<1> QED BY <1>9, <1>10, <1>11 DEF HistoryInv

(* A step that leaves the chains and the checkpoints alone.                  *)
LEMMA QuietHistory ==
    ASSUME HistoryInv,
           UNCHANGED <<life, blocks, height, checkpoints, stored, sHeight, sCheckpoints>>,
           pc \in Running \/ pc = pc', pc' \in Running \cup {"off"},
           now' \in Nat, now' >= now,
           \A b \in backups' : b \in backups \/ b = Snapshot
    PROVE  HistoryInv'
<1>1. ChainSucceeds' /\ ListedAreStored'
  BY DEF HistoryInv, ChainSucceeds, ListedAreStored
<1>2. now \in Nat /\ sHeight \in Nat
  BY DEF HistoryInv, ArchiveTypeOK
<1>3. \A b \in backups' : b.time \in 0..now' /\ b.height \in Nat
  <2> SUFFICES ASSUME NEW b \in backups' PROVE b.time \in 0..now' /\ b.height \in Nat
    OBVIOUS
  <2>1. CASE b \in backups
    BY <1>2, <2>1 DEF HistoryInv, ArchiveTypeOK
  <2>2. CASE b = Snapshot
    BY <1>2, <2>2 DEF Snapshot
  <2> QED BY <2>1, <2>2
<1>4. pc' \in {"idle", "height", "checkpoint", "backup", "prune", "off"}
  BY DEF Running
<1>5. (pc' # "off" => Len(blocks') = height' + 1)
  BY DEF HistoryInv, ArchiveTypeOK, Running
<1>6. ArchiveTypeOK'
  BY <1>3, <1>4, <1>5 DEF HistoryInv, ArchiveTypeOK
<1> QED BY <1>1, <1>6 DEF HistoryInv

LEMMA KillHistory == HistoryInv /\ Kill => HistoryInv'
<1> SUFFICES ASSUME HistoryInv, Kill PROVE HistoryInv'
  OBVIOUS
<1>1. /\ pc' = "off" /\ blocks' = <<>> /\ height' = 0 /\ checkpoints' = <<>>
      /\ UNCHANGED <<now, life, stored, sHeight, sCheckpoints, backups>>
  BY DEF Kill, disk
<1>2. blocks' \in Seq(Block) /\ Len(blocks') = 0 /\ checkpoints' \in Seq(Checkpoint) /\ DOMAIN checkpoints' = {}
  BY <1>1
<1>3. ArchiveTypeOK'
  BY <1>1, <1>2 DEF HistoryInv, ArchiveTypeOK
<1>4. ChainSucceeds'
  BY <1>1, <1>2 DEF HistoryInv, ChainSucceeds
<1>5. ListedAreStored'
  BY <1>2 DEF ListedAreStored
<1> QED BY <1>3, <1>4, <1>5 DEF HistoryInv

LEMMA HistoryStep == ArchiveInv /\ HistoryInv /\ [Next]_vars => HistoryInv'
<1> SUFFICES ASSUME ArchiveInv, HistoryInv, [Next]_vars PROVE HistoryInv'
  OBVIOUS
<1>0. now \in Nat /\ now >= now /\ pc \in Running \cup {"off"}
  BY DEF HistoryInv, ArchiveTypeOK, ArchiveInv
<1>1. CASE MaybeBackup
  <2>1. /\ UNCHANGED <<now, life, blocks, height, checkpoints, stored, sHeight, sCheckpoints>>
        /\ pc \in Running /\ pc' \in Running \cup {"off"}
        /\ \A b \in backups' : b \in backups \/ b = Snapshot
    BY <1>1 DEF MaybeBackup, memory, disk, Running
  <2> QED BY <1>0, <2>1, QuietHistory
<1>2. CASE PruneOldBackups
  <2>1. /\ UNCHANGED <<now, life, blocks, height, checkpoints, stored, sHeight, sCheckpoints>>
        /\ pc \in Running /\ pc' \in Running \cup {"off"}
        /\ \A b \in backups' : b \in backups \/ b = Snapshot
    BY <1>2 DEF PruneOldBackups, memory, disk, Running
  <2> QED BY <1>0, <2>1, QuietHistory
<1>3. CASE BackupCommand \/ RestoreCommand
  <2>1. /\ UNCHANGED <<now, pc, life, blocks, height, checkpoints, stored, sHeight, sCheckpoints>>
        /\ \A b \in backups' : b \in backups \/ b = Snapshot
    BY <1>3 DEF BackupCommand, RestoreCommand, memory, disk
  <2> QED BY <1>0, <2>1, QuietHistory
<1>4. CASE Tick
  <2>1. /\ UNCHANGED <<pc, life, blocks, height, checkpoints, stored, sHeight, sCheckpoints, backups>>
        /\ now' = now + 1
    BY <1>4 DEF Tick, memory, disk
  <2>2. now' \in Nat /\ now' >= now
    BY <1>0, <2>1
  <2> QED BY <1>0, <2>1, <2>2, QuietHistory
<1>5. CASE UNCHANGED vars
  <2>1. UNCHANGED <<now, pc, life, blocks, height, checkpoints, stored, sHeight, sCheckpoints, backups>>
    BY <1>5 DEF vars, memory, disk
  <2> QED BY <1>0, <2>1, QuietHistory
<1> QED BY <1>1, <1>2, <1>3, <1>4, <1>5, MineBlockHistory, SaveHeightHistory,
           CreateCheckpointHistory, StartHistory, KillHistory DEF Next

LEMMA HistoryAlways == Spec => [](ArchiveInv /\ HistoryInv)
BY ArchiveInit, ArchiveStep, HistoryInit, HistoryStep, PTL DEF Spec

(* For any constants: the types, through every kill, restart and backup      *)
(* command; in particular load_checkpoints lists checkpoints, and no backup  *)
(* is of a later second than the present.                                    *)
THEOREM ArchiveTypeCorrect == Spec => []ArchiveTypeOK
<1>1. HistoryInv => ArchiveTypeOK
  BY DEF HistoryInv
<1> QED BY HistoryAlways, <1>1, PTL

(* For any intervals, targets and number of kills: the database, every       *)
(* backup and the list of checkpoints of the node agree (mine_block,         *)
(* create_checkpoint, backup, load_state, load_checkpoints).                 *)
THEOREM ArchiveCorrect == Spec => []ArchiveAgrees
<1>1. ArchiveInv /\ HistoryInv => ArchiveAgrees
  BY DEF ArchiveInv, HistoryInv, ListedAreStored, ArchiveAgrees
<1> QED BY HistoryAlways, <1>1, PTL

(* For any digits, scale and factors, and any interval: last_difficulty,     *)
(* adjust_difficulty and Target::adjust never give a block a target above    *)
(* the one before, other than Floor.  The code's factor is the expected time *)
(* over the actual one, where the README has the inverse, and mine_block     *)
(* waits a block time after each block: so no interval, however slow, ever   *)
(* eases mining (SlowIntervalEases), but for the floor.                      *)
TargetOnlyFalls ==
    \A i \in 1..(Len(blocks) - 1) :
        Above(blocks[i + 1].target, blocks[i].target) => blocks[i + 1].target = Floor
THEOREM NoIntervalEases == Spec => []TargetOnlyFalls
<1>1. HistoryInv => TargetOnlyFalls
  BY DEF HistoryInv, ChainSucceeds, Succeeds, TargetOnlyFalls
<1> QED BY HistoryAlways, <1>1, PTL
=============================================================================
