------------------------------ MODULE BlockSync ------------------------------
(***************************************************************************)
(* How a node fetches the chain of its peers: the table of peers and the   *)
(* session of SyncManager, the requests of the main loop, the answers and  *)
(* their verification, and what else moves the height meanwhile.           *)
(* A handler is taken to get the node lock it asks for; NodeLock shows     *)
(* what happens in the program, where the main loop holds it.              *)
(*                                                                         *)
(* A block is the sequence of its ancestors' labels and its own, so the    *)
(* block before it is its Front, and the genesis block is << >>.  Which of *)
(* the code's deadlines have passed is left open at each step.             *)
(***************************************************************************)
EXTENDS Integers, Sequences, FiniteSets

CONSTANTS
    Peers,      \* other nodes
    Chain,      \* the chain each peer comes to have
    ZeroFirst,  \* first blocks that name the zero hash, not the genesis block
    Echo,       \* peers that announce the id this node gave the connection
    Skewed,     \* peers some of whose blocks are from a clock far ahead
    Own,        \* the label of the node's own blocks
    Batch,      \* SYNC_BATCH_SIZE
    RetryLimit, \* timeouts after which the table bans a peer: 3
    MaxAsked,   \* bound: unanswered requests of a connection
    MaxHeight   \* bound: height and ancestors of a single block

ASSUME SyncAssumption ==
    /\ Chain \in [Peers -> Seq(STRING) \ {<<>>}]
    /\ Echo \subseteq Peers /\ Skewed \subseteq Peers
    /\ "gone" \notin Peers
    /\ Own \in STRING
    /\ Batch \in Nat \ {0} /\ RetryLimit \in Nat /\ MaxAsked \in Nat /\ MaxHeight \in Nat

VARIABLES
    conn,       \* peers with a connection
    doomed,     \* connections banned, not yet removed
    table,      \* SyncManager.peers: what each known peer announced
    session,    \* SyncManager.active_session
    inProgress, \* SyncManager.sync_in_progress
    local,      \* length of SyncManager.local_chain
    height,     \* Node.height
    tip,        \* last element of Node.blocks
    stored,     \* the blocks of the database by height
    sHeight,    \* the height of the database
    asked       \* requests a peer has not answered yet

link == <<conn, doomed, asked>>
sync == <<table, session, inProgress, local>>
node == <<height, tip, stored, sHeight>>
vars == <<conn, doomed, table, session, inProgress, local,
          height, tip, stored, sHeight, asked>>

None == [peer |-> "none"]
Gone == "gone"  \* the id of a connection that is no more
Entry == [height : Nat, retries : Nat, banned : BOOLEAN]
Session == [peer : Peers \cup {Gone}, current : Nat, target : Nat,
            status : {"requesting", "receiving", "completed"}]
Request == [from : Nat, count : Nat]

NoHash == <<"zeroes">>
Before(b) == SubSeq(b, 1, Len(b) - 1)
Prev(b) == IF b \in ZeroFirst THEN NoHash ELSE Before(b)
LesserOf(a, b) == IF a <= b THEN a ELSE b

(* The blocks of a peer from a height on, as GetBlocks answers them.         *)
Answer(p, r) ==
    [i \in 1..(LesserOf(r.from + r.count - 1, Len(Chain[p])) - r.from + 1)
        |-> SubSeq(Chain[p], 1, r.from + i - 1)]

-----------------------------------------------------------------------------
(* Connections.  Both sides send Version once, when the connection is made;  *)
(* its handler enters the peer in the table, under the id it announces,      *)
(* which is new: an entry that an earlier connection left is not looked at.  *)
Announced(p, n) ==
    [q \in DOMAIN table \cup {p} |->
        IF q = p THEN [height |-> n, retries |-> 0, banned |-> FALSE] ELSE table[q]]

Connect(p) ==
  \E n \in 0..Len(Chain[p]) :
    /\ p \notin conn
    /\ conn' = conn \cup {p}
    /\ table' = Announced(p, n)
    /\ UNCHANGED <<doomed, asked, session, inProgress, local, node>>

(* process_messages drops a connection that is banned, stale or broken.  The *)
(* table loses the entry of the connection's own id: that of another id,     *)
(* which the peer announced, stays.  A session keeps the id it has.          *)
Disconnect(p) ==
    /\ p \in conn
    /\ conn' = conn \ {p}
    /\ doomed' = doomed \ {p}
    /\ asked' = [asked EXCEPT ![p] = <<>>]
    /\ table' = [q \in DOMAIN table \ ({p} \cap Echo) |-> table[q]]
    /\ session' = IF session # None /\ session.peer \in {p} \cap Echo
                  THEN [session EXCEPT !.peer = Gone] ELSE session
    /\ UNCHANGED <<inProgress, local, node>>

-----------------------------------------------------------------------------
(* Steps 3 to 5 of the main loop.                                            *)

(* needs_sync, best_peer and start_sync.  A session that is there is         *)
(* replaced once the last attempt is long ago.                               *)
(* Variant: starts at the block after the next.                              *)
StartSessionSkipping(p) ==
    /\ p \in DOMAIN table /\ ~table[p].banned /\ table[p].height > local
    /\ ~inProgress
    /\ session' = [peer |-> p, current |-> local + 1, target |-> table[p].height,
                   status |-> "requesting"]
    /\ inProgress' = TRUE
    /\ UNCHANGED <<link, table, local, node>>
StartSession(p) ==
    /\ p \in DOMAIN table /\ ~table[p].banned /\ table[p].height > local
    /\ ~inProgress
    /\ session' = [peer |-> p, current |-> local, target |-> table[p].height,
                   status |-> "requesting"]
    /\ inProgress' = TRUE
    /\ UNCHANGED <<link, table, local, node>>

(* check_timeouts looks at the last activity only, whatever the status, so   *)
(* it also counts against the peer of a session that is completed.           *)
(* Variant: sync_in_progress stays set.                                      *)
TimedOut == [table EXCEPT ![session.peer].retries = @ + 1,
                          ![session.peer].banned = @ \/ table[session.peer].retries + 1 >= RetryLimit]
CheckTimeoutsKeepsFlag ==
    /\ session # None
    /\ table' = IF session.peer \in DOMAIN table THEN TimedOut ELSE table
    /\ session' = None
    /\ UNCHANGED <<link, inProgress, local, node>>
CheckTimeouts ==
    /\ session # None
    /\ table' = IF session.peer \in DOMAIN table THEN TimedOut ELSE table
    /\ session' = None
    /\ inProgress' = FALSE
    /\ UNCHANGED <<link, local, node>>

(* request_blocks_from_peer, by the callback that looks for the connection   *)
(* with the peer's id.  What is sent to a banned connection is dropped.      *)
Reachable(p) == p \in DOMAIN table /\ ~table[p].banned /\ p \in conn \cap Echo
NextRequest ==
    LET from == session.current + 1
    IN  [from |-> from,
         count |-> LesserOf(from + Batch - 1, table[session.peer].height) - from + 1]

RequestBlocks ==
    /\ session # None /\ session.status = "requesting"
    /\ Reachable(session.peer)
    /\ session.current < session.target
    /\ Len(asked[session.peer]) < MaxAsked
    /\ asked' = IF session.peer \in doomed THEN asked
                ELSE [asked EXCEPT ![session.peer] = Append(@, NextRequest)]
    /\ session' = [session EXCEPT !.status = "receiving"]
    /\ UNCHANGED <<conn, doomed, table, inProgress, local, node>>

(* No such peer, a banned one, or less than 5 seconds since the request      *)
(* before: the session is dropped, and may start again at once.              *)
RequestFails ==
    /\ session # None /\ session.status = "requesting"
    /\ session' = None
    /\ inProgress' = FALSE
    /\ UNCHANGED <<link, table, local, node>>

-----------------------------------------------------------------------------
(* The Blocks handler.                                                       *)

(* verify_and_accept_blocks: the first block must name the one stored below  *)
(* it, or the zero hash at height 1; the others follow it by construction.   *)
(* The first k blocks pass the checks of difficulty, time and merkle root.   *)
(* Variants: the link is not looked at; the blocks go where they were asked  *)
(* for, and not where the link was looked up.                                *)
LinksAlways(bs) == Len(bs) > 0
Links(bs) ==
    LET expected == local + 1
    IN  IF expected = 1 THEN Prev(bs[1]) = NoHash
        ELSE expected - 1 \in DOMAIN stored /\ Prev(bs[1]) = stored[expected - 1]

StoreFirstSkipping(bs, k) ==
    [h \in DOMAIN stored \cup (local + 2)..(local + k + 1) |->
        IF h \in (local + 2)..(local + k + 1) THEN bs[h - local - 1] ELSE stored[h]]
StoreFirst(bs, k) ==
    [h \in DOMAIN stored \cup (local + 1)..(local + k) |->
        IF h \in (local + 1)..(local + k) THEN bs[h - local] ELSE stored[h]]

(* on_blocks_received pushes the blocks verification has pushed already.     *)
(* Variant: a session that has all its blocks stays under way.               *)
ReceivedNotCompleted(n) ==
    /\ session' = [session EXCEPT !.current = @ + n, !.status =
                     IF session.current + n >= session.target THEN "completed" ELSE "requesting"]
    /\ UNCHANGED inProgress
    /\ local' = local + 2 * n
Received(n) ==
    /\ session' = [session EXCEPT !.current = @ + n, !.status =
                     IF session.current + n >= session.target THEN "completed" ELSE "requesting"]
    /\ inProgress' = (inProgress /\ session.current + n < session.target)
    /\ local' = local + 2 * n

(* All blocks pass.  The height is not saved, Node.blocks does not grow.     *)
AcceptBlocks(p) ==
    /\ asked[p] # <<>>
    /\ LET bs == Answer(p, Head(asked[p])) IN
         /\ Links(bs)
         /\ stored' = StoreFirst(bs, Len(bs))
         /\ height' = local + Len(bs)
         /\ IF session # None /\ session.peer = p
            THEN Received(Len(bs))
            ELSE local' = local + Len(bs) /\ UNCHANGED <<session, inProgress>>
    /\ asked' = [asked EXCEPT ![p] = Tail(@)]
    /\ UNCHANGED <<conn, doomed, table, tip, sHeight>>

(* The block after the first k fails: its link, or its time.                 *)
FailsAfter(p, bs, k) == IF Links(bs) THEN p \in Skewed ELSE k = 0

(* A block fails: those before it stay stored and in local_chain, and the    *)
(* connection is banned.                                                     *)
RejectBlocks(p) ==
    /\ asked[p] # <<>>
    /\ LET bs == Answer(p, Head(asked[p])) IN
         \E k \in 0..(Len(bs) - 1) :
            /\ FailsAfter(p, bs, k)
            /\ stored' = StoreFirst(bs, k)
            /\ local' = local + k
    /\ doomed' = doomed \cup {p}
    /\ asked' = [asked EXCEPT ![p] = Tail(@)]
    /\ UNCHANGED <<conn, table, session, inProgress, height, tip, sHeight>>

-----------------------------------------------------------------------------
(* What else moves the height: a block that a peer has found since it        *)
(* announced its height, or one of the node itself, on top of Node.blocks    *)
(* and stored at the height after Node.height.                               *)
Extend(b) ==
    /\ height < MaxHeight /\ Len(b) <= MaxHeight
    /\ stored' = [h \in DOMAIN stored \cup {height + 1} |->
                    IF h = height + 1 THEN b ELSE stored[h]]
    /\ height' = height + 1 /\ sHeight' = height + 1
    /\ tip' = b
    /\ UNCHANGED <<link, sync>>

PeerBlock(p) ==
    /\ p \in conn
    /\ \E n \in (table[p].height + 1)..Len(Chain[p]) :
         LET b == SubSeq(Chain[p], 1, n)
         IN  Prev(b) = tip /\ Extend(b)

NotBehind == \A p \in DOMAIN table : ~table[p].banned => table[p].height <= height

(* The loop mines when no session is under way and the height is not behind  *)
(* the best peer's.                                                          *)
Mine ==
    /\ ~inProgress
    /\ NotBehind
    /\ Extend(Append(tip, Own))

(* A kill, and the next start: the chain is read up to the saved height, and *)
(* local_chain is set to the empty chain.                                    *)
Restart ==
    /\ conn' = {} /\ doomed' = {} /\ asked' = [p \in Peers |-> <<>>]
    /\ table' = <<>> /\ session' = None /\ inProgress' = FALSE /\ local' = 0
    /\ height' = sHeight /\ tip' = stored[sHeight]
    /\ UNCHANGED <<stored, sHeight>>

Init ==
    /\ conn = {} /\ doomed = {} /\ asked = [p \in Peers |-> <<>>]
    /\ table = <<>> /\ session = None /\ inProgress = FALSE /\ local = 0
    /\ height = 0 /\ sHeight = 0 /\ tip = <<>> /\ stored = [h \in {0} |-> <<>>]

Next ==
    \/ \E p \in Peers :
         \/ Connect(p) \/ Disconnect(p)
         \/ StartSession(p)
         \/ AcceptBlocks(p) \/ RejectBlocks(p)
         \/ PeerBlock(p)
    \/ CheckTimeouts
    \/ RequestBlocks \/ RequestFails
    \/ Mine
    \/ Restart

Spec == Init /\ [][Next]_vars

(* The main loop runs for ever, and a session without activity is checked    *)
(* once its deadline has passed.  Peers need never answer.                   *)
FairSpec == Spec /\ WF_vars(CheckTimeouts)

-----------------------------------------------------------------------------
(* Properties.                                                               *)

(* The values each variable takes; the database has the heights 0 to n.      *)
SyncTypeOK ==
    /\ conn \subseteq Peers /\ doomed \subseteq conn
    /\ DOMAIN table \subseteq Peers /\ conn \subseteq DOMAIN table
    /\ \A p \in DOMAIN table : table[p] \in Entry
    /\ session = None \/ session \in Session
    /\ inProgress \in BOOLEAN /\ local \in Nat
    /\ height \in Nat /\ sHeight \in Nat
    /\ \E n \in DOMAIN stored : n \in Nat /\ DOMAIN stored = 0..n
    /\ \A p \in Peers : asked[p] \in Seq(Request)

(* Whatever answers come late, fail half way or overlap the node's own       *)
(* blocks, the database has every block up to the height in memory and up to *)
(* the height it would restart with: verify_and_accept_blocks stores where   *)
(* it has checked the link, and never above a hole.                          *)
HeightIsStored ==
    /\ 0..height \subseteq DOMAIN stored
    /\ 0..sHeight \subseteq DOMAIN stored

(* sync_in_progress, which stops mining, is set exactly while a session is   *)
(* there that has not completed: it is cleared by on_blocks_received, by     *)
(* check_timeouts and by a failed request, and set by start_sync alone.      *)
SessionMatches ==
    inProgress <=> session # None /\ session.status \in {"requesting", "receiving"}

(* Every request under way starts no higher than the block after local_chain,*)
(* whatever sessions were given up or finished by the late answer of another *)
(* one: there is no block between that nobody asks for again.                *)
NoGapAsked ==
    \A p \in Peers : \A i \in DOMAIN asked[p] : asked[p][i].from <= local + 1

(* A node does not stay in sync for ever, which would stop it from mining:   *)
(* a peer that never answers is given up.                                    *)
SyncEnds == inProgress ~> ~inProgress
=============================================================================
