----------------------------- MODULE LedgerSpec -----------------------------
(***************************************************************************)
(* What a node promises about transactions, without databases, locks or    *)
(* restarts: a transaction is pending, then part of a block, some of them  *)
(* at most once, and a block takes effect in one step.                     *)
(***************************************************************************)
EXTENDS Naturals, SequencesExt

CONSTANTS Txs,
          Once      \* transactions that no chain may hold twice

VARIABLES chain,    \* the blocks' transactions, oldest block first
          pending   \* accepted transactions not yet in a block

Confirmed == UNION {ToSet(chain[h]) : h \in DOMAIN chain}

Init == chain = <<>> /\ pending = {}

(* A transaction becomes pending; others may make way.                     *)
Accept(t) ==
    /\ t \notin pending
    /\ t \in Once => t \notin Confirmed
    /\ pending' \in SUBSET (pending \cup {t})
    /\ UNCHANGED chain

(* A block of different transactions, pending here or not.  Of those that  *)
(* may come again some stay pending.                                       *)
Extend(ts) ==
    /\ IsInjective(ts)
    /\ ToSet(ts) \cap Once \cap Confirmed = {}
    /\ chain' = Append(chain, ts)
    /\ pending' \in SUBSET (pending \ (ToSet(ts) \cap Once))
    /\ pending \ ToSet(ts) \subseteq pending'

(* Pending transactions are given up. *)
GiveUp ==
    /\ pending' \in SUBSET pending
    /\ UNCHANGED chain

Next ==
    \/ \E t \in Txs : Accept(t)
    \/ \E ts \in SeqOf(Txs, Cardinality(Txs)) : Extend(ts)
    \/ GiveUp

Spec == Init /\ [][Next]_<<chain, pending>>
=============================================================================
