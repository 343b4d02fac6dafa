---------------------------- MODULE NodeArchive ----------------------------
(***************************************************************************)
(* What a mining node keeps beside its ledger: the target each block is    *)
(* mined for, the checkpoints it signs and the backups it takes of its     *)
(* database, through kills, restarts and the backup commands.              *)
(* Every step is one write to the database or one backup, so a kill falls  *)
(* between any two of them.                                                *)
(*                                                                         *)
(* A target is its digits, the most significant first; a block's identity  *)
(* is the life of the process that mined it and its time: within one life  *)
(* no two blocks have the same time.                                       *)
(***************************************************************************)
EXTENDS Integers, Sequences, FiniteSets, SequencesExt

CONSTANTS
    BlockTime,          \* TARGET_BLOCK_TIME
    Interval,           \* DIFFICULTY_ADJUSTMENT_INTERVAL
    Base,               \* values of a digit: 256
    Digits,             \* digits of a target: 32
    Scale,              \* the 1 of a fixed point factor: 1_000_000
    Change,             \* MAX_DIFFICULTY_CHANGE, in parts of Scale
    FloorFactor,        \* 0.001, in parts of Scale
    FirstTarget,        \* the target of the genesis block
    EasiestTarget,      \* Target::genesis
    CheckpointEvery,    \* checkpoint_interval
    MaxCheckpoints,     \* max_checkpoints
    BackupEvery,        \* backup_interval_blocks
    KeepBackups,        \* backups that prune_old_backups keeps: 10
    MaxNow, MaxHeight, MaxLives,    \* bounds
    MaxBackups          \* bound on the directories that commands add to

ASSUME ArchiveAssumption ==
    /\ {BlockTime, Interval, Base, Digits, Scale} \subseteq Nat \ {0}
    /\ Change \in 0..Scale /\ FloorFactor \in 0..Scale
    /\ {FirstTarget, EasiestTarget} \subseteq [1..Digits -> 0..(Base - 1)]
    /\ \A i \in (Digits \div 2 + 1)..Digits : EasiestTarget[i] = Base - 1
    /\ {CheckpointEvery, BackupEvery} \subseteq Nat \ {0}
    /\ {MaxCheckpoints, KeepBackups, MaxNow, MaxHeight, MaxLives, MaxBackups} \subseteq Nat

VARIABLES
    now,          \* current_timestamp, in seconds since GENESIS_TIMESTAMP
    pc,           \* where mine_block is; "off" when no process runs
    life,         \* processes started so far
    blocks,       \* Node.blocks, and with it Node.timestamps
    height,       \* Node.height
    checkpoints,  \* Node.checkpoints
    stored,       \* the blocks of the database by height
    sHeight,      \* the height of the database
    sCheckpoints, \* the checkpoints of the database by height
    backups       \* the directories of `backups`, each a whole database

memory == <<blocks, height, checkpoints>>
disk == <<stored, sHeight, sCheckpoints>>
vars == <<now, pc, life, blocks, height, checkpoints, stored, sHeight, sCheckpoints, backups>>

Target == [1..Digits -> 0..(Base - 1)]
BlockId == Nat \X Nat
Block == [id : BlockId, prev : BlockId, target : Target]
Checkpoint == [height : Nat, hash : BlockId]
Backup == [time : Nat, height : Nat]
NoBlock == <<0, 0>>
Genesis == [id |-> <<0, 0>>, prev |-> NoBlock, target |-> FirstTarget]

Put(f, k, v) == [j \in DOMAIN f \cup {k} |-> IF j = k THEN v ELSE f[j]]

-----------------------------------------------------------------------------
(* Difficulty.                                                               *)

(* Target::adjust: the remainder of a digit is carried to the digit above.   *)
Adjusted(t, factor) ==
    LET carry[i \in 1..(Digits + 1)] ==
            IF i > Digits THEN 0 ELSE (t[i] * factor + carry[i + 1]) % Scale
    IN  [i \in 1..Digits |-> ((t[i] * factor + carry[i + 1]) \div Scale) % Base]

(* Target::to_difficulty sees the lower half of the digits only.  Of two     *)
(* targets the one with the greater half has the lesser difficulty; a half   *)
(* of zeroes has an infinite one.                                            *)
LowHalf(t) ==
    LET value[i \in 0..Digits] ==
            IF i <= Digits \div 2 THEN 0 ELSE value[i - 1] * Base + t[i]
    IN  value[Digits]
EasierThan(t, u) == LowHalf(t) > LowHalf(u)
HarderThan(t, u) == LowHalf(u) > LowHalf(t)

Floor == Adjusted(EasiestTarget, FloorFactor)

(* adjust_difficulty, for the time the last Interval blocks took.            *)
Clamped(low, x, high) == IF x < low THEN low ELSE IF x > high THEN high ELSE x
Factor(actual) ==
    Clamped(Scale - Change, (Scale * Interval * BlockTime) \div actual, Scale + Change)

AdjustDifficulty(t, actual) ==
    IF actual = 0 THEN t
    ELSE LET adjusted == Adjusted(t, Factor(actual))
         IN  CASE EasierThan(adjusted, EasiestTarget) -> EasiestTarget
               [] HarderThan(adjusted, Floor) -> Floor
               [] OTHER -> adjusted

(* last_difficulty, whose timestamps are those of the blocks in memory.      *)
LastDifficulty ==
    IF height >= Interval /\ height % Interval = 0
    THEN AdjustDifficulty(Last(blocks).target,
            blocks[height + 1].id[2] - blocks[height - Interval + 1].id[2])
    ELSE Last(blocks).target

-----------------------------------------------------------------------------
(* mine_block, from the block to its checkpoint and its backup.              *)

MayMine == now - Last(blocks).id[2] >= BlockTime

MineBlock ==
    /\ pc = "idle" /\ height < MaxHeight
    /\ MayMine
    /\ LET b == [id |-> <<life, now>>, prev |-> Last(blocks).id, target |-> LastDifficulty] IN
         /\ stored' = Put(stored, height + 1, b)
         /\ blocks' = Append(blocks, b)
    /\ height' = height + 1
    /\ pc' = "height"
    /\ UNCHANGED <<now, life, checkpoints, sHeight, sCheckpoints, backups>>

(* Variant: the height is only kept in memory.                               *)
SaveHeightLate ==
    /\ pc = "height" /\ pc' = "checkpoint"
    /\ UNCHANGED <<now, life, memory, disk, backups>>
SaveHeight ==
    /\ pc = "height" /\ pc' = "checkpoint"
    /\ sHeight' = height
    /\ UNCHANGED <<now, life, memory, stored, sCheckpoints, backups>>

(* create_checkpoint.  The signature and the state root, which nothing ever  *)
(* reads, are left out.                                                      *)
Listed(c) == LET l == Append(checkpoints, c)
             IN  IF Len(l) > MaxCheckpoints THEN Tail(l) ELSE l
CheckpointHash == Last(blocks).id

CreateCheckpoint ==
    /\ pc = "checkpoint" /\ pc' = "backup"
    /\ IF height % CheckpointEvery = 0
       THEN /\ checkpoints' = Listed([height |-> height, hash |-> CheckpointHash])
            /\ sCheckpoints' = Put(sCheckpoints, height, CheckpointHash)
       ELSE UNCHANGED <<checkpoints, sCheckpoints>>
    /\ UNCHANGED <<now, life, blocks, height, stored, sHeight, backups>>

(* backup fails if there is a directory of the same second.                  *)
Snapshot == [time |-> now, height |-> sHeight, blocks |-> stored, checkpoints |-> sCheckpoints]
MayBackup == \A b \in backups : b.time # now

(* maybe_backup, which prunes only after a backup.                           *)
MaybeBackup ==
    /\ pc = "backup"
    /\ IF height % BackupEvery = 0 /\ MayBackup
       THEN backups' = backups \cup {Snapshot} /\ pc' = "prune"
       ELSE UNCHANGED backups /\ pc' = "idle"
    /\ UNCHANGED <<now, life, memory, disk>>

NewerThan(b) == {c \in backups : c.time > b.time}
PruneOldBackups ==
    /\ pc = "prune" /\ pc' = "idle"
    /\ backups' = {b \in backups : Cardinality(NewerThan(b)) < KeepBackups}
    /\ UNCHANGED <<now, life, memory, disk>>

-----------------------------------------------------------------------------
(* A kill, or a shutdown, which saves the same again.                        *)
Kill ==
    /\ pc # "off" /\ pc' = "off"
    /\ blocks' = <<>> /\ height' = 0 /\ checkpoints' = <<>>
    /\ UNCHANGED <<now, life, disk, backups>>

(* `accum backup`, which does not prune; MaxBackups bounds the model only.   *)
BackupCommand ==
    /\ pc = "off" /\ MayBackup
    /\ Cardinality(backups) < MaxBackups
    /\ backups' = backups \cup {Snapshot}
    /\ UNCHANGED <<now, pc, life, memory, disk>>

(* `accum restore` of a backup that exists: it takes another one and puts    *)
(* nothing back.                                                             *)
RestoreCommand ==
    /\ backups # {}
    /\ BackupCommand

(* Node::new: load_state reads the blocks up to the saved height, and        *)
(* load_checkpoints every checkpoint, by key.  The keys are little-endian.   *)
KeyBefore(g, h) ==
    \E n \in 0..7 :
        /\ (g \div Base^n) % Base < (h \div Base^n) % Base
        /\ \A k \in 0..(n - 1) : (g \div Base^k) % Base = (h \div Base^k) % Base
(* Variant: one block too few is read.                                       *)
LoadedShort == [i \in 1..sHeight |-> stored[i - 1]]
Loaded == [i \in 1..(sHeight + 1) |-> stored[i - 1]]
InKeyOrder(S) ==
    {keys \in [1..Cardinality(S) -> S] :
        \A i, j \in DOMAIN keys : i < j => KeyBefore(keys[i], keys[j])}
LoadedCheckpoints ==
    {[i \in DOMAIN keys |-> [height |-> keys[i], hash |-> sCheckpoints[keys[i]]]] :
        keys \in InKeyOrder(DOMAIN sCheckpoints)}

Start ==
    /\ pc = "off" /\ life < MaxLives
    /\ pc' = "idle" /\ life' = life + 1
    /\ blocks' = Loaded /\ height' = sHeight
    /\ checkpoints' \in LoadedCheckpoints
    /\ UNCHANGED <<now, disk, backups>>

Tick == now < MaxNow /\ now' = now + 1 /\ UNCHANGED <<pc, life, memory, disk, backups>>

(* A first start has stored the genesis block.                               *)
Init ==
    /\ now = 0 /\ pc = "idle" /\ life = 1
    /\ blocks = <<Genesis>> /\ height = 0 /\ checkpoints = <<>>
    /\ stored = [h \in {0} |-> Genesis] /\ sHeight = 0 /\ sCheckpoints = <<>>
    /\ backups = {}

Next ==
    \/ MineBlock \/ SaveHeight \/ CreateCheckpoint \/ MaybeBackup \/ PruneOldBackups
    \/ Kill \/ BackupCommand \/ RestoreCommand \/ Start \/ Tick

Spec == Init /\ [][Next]_vars

-----------------------------------------------------------------------------
(* Properties.                                                               *)

(* The values each variable takes.                                           *)
ArchiveTypeOK ==
    /\ now \in Nat /\ life \in Nat
    /\ pc \in {"idle", "height", "checkpoint", "backup", "prune", "off"}
    /\ blocks \in Seq(Block) /\ (pc # "off" => Len(blocks) = height + 1)
    /\ checkpoints \in Seq(Checkpoint)
    /\ \A h \in DOMAIN stored : h \in Nat /\ stored[h] \in Block
    /\ height \in Nat /\ sHeight \in DOMAIN stored
    /\ \A h \in DOMAIN sCheckpoints : h \in Nat /\ sCheckpoints[h] \in BlockId
    /\ \A b \in backups : b.time \in 0..now /\ b.height \in Nat

(* A database with blocks bs up to height n and checkpoints cs: the chain is *)
(* there and linked, and each checkpoint is that of its block.               *)
Agrees(n, bs, cs) ==
    /\ \A h \in 0..n : h \in DOMAIN bs
    /\ \A h \in 1..n : bs[h].prev = bs[h - 1].id
    /\ \A h \in DOMAIN cs : h <= n /\ cs[h] = bs[h].id

(* Wherever kills fell, and although the block above the saved height is     *)
(* overwritten by that of a later process: the database and every backup     *)
(* ever taken of it, by the loop or by a command between two processes, hold *)
(* a whole chain with the checkpoints of its own blocks, and the node lists  *)
(* no checkpoint that it has not stored.                                     *)
DatabaseAgrees == Agrees(sHeight, stored, sCheckpoints)
BackupsAgree == \A b \in backups : Agrees(b.height, b.blocks, b.checkpoints)
ArchiveAgrees ==
    /\ DatabaseAgrees
    /\ BackupsAgree
    /\ \A i \in DOMAIN checkpoints :
         /\ checkpoints[i].height \in DOMAIN sCheckpoints
         /\ sCheckpoints[checkpoints[i].height] = checkpoints[i].hash

(* A target as a number is above another one.                                *)
Above(t, u) ==
    \E i \in 1..Digits : t[i] > u[i] /\ \A j \in 1..(i - 1) : t[j] = u[j]

(* An interval that took longer than it should makes mining easier, as the   *)
(* node's README says: new_target is old_target times the actual time over   *)
(* the expected one.                                                         *)
SlowIntervalEases ==
    \A h \in 1..(Len(blocks) - 1) :
        /\ h > Interval /\ (h - 1) % Interval = 0
        /\ blocks[h].id[2] - blocks[h - Interval].id[2] > Interval * BlockTime
        => ~Above(blocks[h].target, blocks[h + 1].target)
=============================================================================
