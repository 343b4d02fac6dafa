-------------------------- MODULE BlockSyncProofs --------------------------
(***************************************************************************)
(* What late, repeated and failing answers leave intact, for any peers,    *)
(* chains, clocks and batch size.                                          *)
(***************************************************************************)
EXTENDS BlockSync, TLAPS

(* A request; that its count is not negative is not needed.                   *)
AnyRequest == [from : Nat, count : Int]

(* The values that the argument needs.                                       *)
Types ==
    /\ local \in Nat /\ height \in Nat /\ sHeight \in Nat /\ inProgress \in BOOLEAN
    /\ \A p \in DOMAIN table : table[p].height \in Nat
    /\ session = None \/ session \in Session
    /\ asked \in [Peers -> Seq(AnyRequest)]

(* The database has no hole, and reaches both heights.                       *)
StoredToTop == \E n \in Nat : DOMAIN stored = 0..n /\ height <= n /\ sHeight <= n

(* A completed session has all it wanted; none is ahead of local_chain.      *)
SessionWithin ==
    session # None =>
        /\ session.current <= local
        /\ session.status = "completed" => session.current >= session.target

(* The inductive invariant.                                                  *)
SyncInv == Types /\ StoredToTop /\ SessionWithin /\ SessionMatches /\ NoGapAsked

-----------------------------------------------------------------------------
(* An answer has a length; so has the database after some of its blocks.     *)
LEMMA AnswerLength ==
    ASSUME NEW p \in Peers, NEW r \in AnyRequest
    PROVE  Len(Answer(p, r)) \in Nat
<1>1. Len(Chain[p]) \in Nat
  BY SyncAssumption DEF SyncAssumption
<1> DEFINE n == LesserOf(r.from + r.count - 1, Len(Chain[p])) - r.from + 1
           e(i) == SubSeq(Chain[p], 1, r.from + i - 1)
           m == IF n < 0 THEN 0 ELSE n
<1>2. n \in Int
  BY <1>1 DEF LesserOf, AnyRequest
<1> HIDE DEF n
<1>3. m \in Nat /\ 1..n = 1..m
  BY <1>2
<1> HIDE DEF m, e
<1>4. [i \in 1..m |-> e(i)] \in Seq({e(i) : i \in 1..m}) /\ Len([i \in 1..m |-> e(i)]) = m
  BY <1>3
<1>5. Answer(p, r) = [i \in 1..m |-> e(i)]
  BY <1>3 DEF Answer, n, e
<1> QED BY <1>3, <1>4, <1>5

LEMMA StoreReaches ==
    ASSUME Types, StoredToTop, NEW bs, NEW k \in Nat, Links(bs) \/ k = 0,
           stored' = StoreFirst(bs, k), UNCHANGED sHeight,
           height' \in Nat, height' = height \/ (height' = local + k /\ Links(bs))
    PROVE  StoredToTop'
<1> PICK n \in Nat : DOMAIN stored = 0..n /\ height <= n /\ sHeight <= n
  BY DEF StoredToTop
<1>1. DOMAIN stored' = 0..n \cup (local + 1)..(local + k)
  BY DEF StoreFirst
<1>2. CASE Links(bs)
  <2>1. local = 0 \/ local \in 0..n
    BY <1>2 DEF Links, Types
  <2> DEFINE top == IF n < local + k THEN local + k ELSE n
  <2>2. top \in Nat /\ DOMAIN stored' = 0..top /\ height' <= top /\ sHeight' <= top
    BY <1>1, <2>1 DEF Types
  <2> QED BY <2>2 DEF StoredToTop
<1>3. CASE ~Links(bs)
  <2>1. DOMAIN stored' = 0..n /\ height' = height
    BY <1>1, <1>3 DEF Types
  <2> QED BY <2>1 DEF StoredToTop
<1> QED BY <1>2, <1>3

(* The oldest request is answered, local_chain does not shrink.              *)
LEMMA AnsweredKeeps ==
    ASSUME Types, NoGapAsked, NEW p \in Peers, asked[p] # <<>>,
           asked' = [asked EXCEPT ![p] = Tail(@)], local' \in Nat, local <= local'
    PROVE  asked' \in [Peers -> Seq(AnyRequest)] /\ NoGapAsked'
<1>1. asked[p] \in Seq(AnyRequest)
  BY DEF Types
<1>2. /\ Tail(asked[p]) \in Seq(AnyRequest)
      /\ \A i \in DOMAIN Tail(asked[p]) : i + 1 \in DOMAIN asked[p] /\ Tail(asked[p])[i] = asked[p][i + 1]
  BY <1>1
<1>3. asked' \in [Peers -> Seq(AnyRequest)]
  BY <1>2 DEF Types
<1>4. ASSUME NEW q \in Peers, NEW i \in DOMAIN asked'[q] PROVE asked'[q][i].from <= local' + 1
  <2>1. CASE q = p
    <3>1. asked'[q] = Tail(asked[p])
      BY <2>1 DEF Types
    <3>2. i + 1 \in DOMAIN asked[p] /\ asked'[q][i] = asked[p][i + 1]
      BY <1>2, <1>4, <3>1
    <3>3. asked[p][i + 1].from <= local + 1 /\ asked[p][i + 1] \in AnyRequest
      BY <1>1, <3>2 DEF NoGapAsked
    <3> QED BY <3>2, <3>3, SMTT(30) DEF Types, AnyRequest
  <2>2. CASE q # p
    <3>1. asked'[q] = asked[q] /\ asked[q] \in Seq(AnyRequest)
      BY <2>2 DEF Types
    <3>2. asked[q][i].from <= local + 1 /\ asked[q][i] \in AnyRequest
      BY <1>4, <3>1 DEF NoGapAsked
    <3> QED BY <3>1, <3>2, SMTT(30) DEF Types, AnyRequest
  <2> QED BY <2>1, <2>2
<1> QED BY <1>3, <1>4 DEF NoGapAsked

-----------------------------------------------------------------------------
LEMMA SyncInit == Init => SyncInv
<1> SUFFICES ASSUME Init PROVE SyncInv
  OBVIOUS
<1>1. Types
  <2>1. <<>> \in Seq(AnyRequest) /\ DOMAIN <<>> = {}
    OBVIOUS
  <2>2. asked \in [Peers -> Seq(AnyRequest)] /\ DOMAIN table = {}
    BY <2>1 DEF Init
  <2> QED BY <2>2 DEF Init, Types
<1>2. StoredToTop
  <2>1. DOMAIN stored = 0..0
    BY DEF Init
  <2> QED BY <2>1 DEF Init, StoredToTop
<1>3. SessionWithin /\ SessionMatches /\ NoGapAsked
  BY DEF Init, SessionWithin, SessionMatches, NoGapAsked
<1> QED BY <1>1, <1>2, <1>3 DEF SyncInv

(* What is not touched stays.                                                *)
LEMMA NodeKept ==
    ASSUME StoredToTop, UNCHANGED <<stored, height, sHeight>> PROVE StoredToTop'
BY DEF StoredToTop

LEMMA AskedKept ==
    ASSUME NoGapAsked, UNCHANGED <<asked, local>> PROVE NoGapAsked'
BY DEF NoGapAsked

LEMMA RequestBlocksKeeps ==
    ASSUME SyncInv, RequestBlocks PROVE SyncInv'
<1> USE DEF SyncInv
<1> DEFINE q == session.peer
<1>1. q \in Peers /\ q \in DOMAIN table /\ session \in Session
  BY SyncAssumption DEF SyncAssumption, RequestBlocks, Reachable, Types
<1>2. NextRequest \in AnyRequest /\ NextRequest.from = session.current + 1
  BY <1>1, SyncAssumption DEF SyncAssumption, NextRequest, AnyRequest, LesserOf, Types, Session
<1>3. session' = [session EXCEPT !.status = "receiving"] /\ session.status = "requesting"
  BY DEF RequestBlocks
<1>4. session' \in Session /\ session' # None /\ session # None
  BY <1>1, <1>3 DEF Session, None
<1>5. asked[q] \in Seq(AnyRequest)
  BY <1>1 DEF Types
<1>6. asked' \in [Peers -> Seq(AnyRequest)]
  BY <1>1, <1>2, <1>5 DEF RequestBlocks, Types
<1>7. Types'
  BY <1>4, <1>6 DEF Types, RequestBlocks, node
<1>8. NoGapAsked'
  <2>1. ASSUME NEW p \in Peers, NEW i \in DOMAIN asked'[p] PROVE asked'[p][i].from <= local + 1
    <3>1. CASE asked'[p] = asked[p]
      BY <2>1, <3>1 DEF NoGapAsked
    <3>2. CASE asked'[p] # asked[p]
      <4>1. p = q /\ asked'[p] = Append(asked[q], NextRequest)
        BY <1>1, <3>2 DEF RequestBlocks, Types
      <4>2. \/ i \in DOMAIN asked[q] /\ asked'[p][i] = asked[q][i]
            \/ asked'[p][i] = NextRequest
        BY <1>2, <1>5, <2>1, <4>1
      <4>3. session.current + 1 <= local + 1
        BY <1>1, <1>4 DEF SessionWithin, Types, Session
      <4> QED BY <1>1, <1>2, <4>2, <4>3 DEF NoGapAsked
    <3> QED BY <3>1, <3>2
  <2> QED BY <2>1 DEF NoGapAsked, RequestBlocks
<1>9. SessionWithin' /\ SessionMatches'
  <2>1. session'.current = session.current /\ session'.status = "receiving"
    BY <1>1, <1>3 DEF Session
  <2> QED BY <1>3, <1>4, <2>1 DEF SessionWithin, SessionMatches, RequestBlocks
<1>10. StoredToTop'
  BY NodeKept DEF RequestBlocks, node
<1> QED BY <1>7, <1>8, <1>9, <1>10

LEMMA AcceptBlocksKeeps ==
    ASSUME SyncInv, NEW p \in Peers, AcceptBlocks(p) PROVE SyncInv'
<1> USE DEF SyncInv
<1> DEFINE bs == Answer(p, Head(asked[p]))
           n == Len(bs)
<1>1. /\ asked[p] # <<>> /\ Links(bs) /\ stored' = StoreFirst(bs, n) /\ height' = local + n
      /\ asked' = [asked EXCEPT ![p] = Tail(@)] /\ UNCHANGED <<table, sHeight>>
  BY DEF AcceptBlocks
<1>2. n \in Nat
  <2>1. Head(asked[p]) \in AnyRequest
    BY <1>1 DEF Types
  <2> QED BY <2>1, AnswerLength
<1>3. IF session # None /\ session.peer = p
      THEN Received(n) ELSE local' = local + n /\ UNCHANGED <<session, inProgress>>
  BY DEF AcceptBlocks
<1> HIDE DEF n, bs
<1>4. StoredToTop'
  BY <1>1, <1>2, StoreReaches DEF Types
<1>5. local' \in Nat /\ local <= local'
  BY <1>2, <1>3 DEF Types, Received
<1>6. asked' \in [Peers -> Seq(AnyRequest)] /\ NoGapAsked'
  BY <1>1, <1>5, AnsweredKeeps
<1>7. /\ session' = None \/ session' \in Session
      /\ inProgress' \in BOOLEAN /\ SessionWithin' /\ SessionMatches'
  <2>1. CASE session # None /\ session.peer = p
    <3> DEFINE c == session.current + n
               s == IF c >= session.target THEN "completed" ELSE "requesting"
    <3>1. session \in Session /\ session.current \in Nat /\ session.target \in Nat /\ c \in Nat
      BY <1>2, <2>1 DEF Types, Session
    <3>2. /\ session' = [session EXCEPT !.current = @ + n, !.status = s]
          /\ inProgress' = (inProgress /\ c < session.target) /\ local' = local + 2 * n
      BY <1>3, <2>1 DEF Received
    <3>3. session' = [peer |-> session.peer, current |-> c, target |-> session.target, status |-> s]
      BY <3>1, <3>2 DEF Session
    <3>4. session' \in Session /\ session' # None
      BY <3>1, <3>3 DEF Session, None
    <3>5. c <= local'
      BY <1>2, <2>1, <3>1, <3>2 DEF SessionWithin, Types
    <3>6. s = "completed" <=> ~(c < session.target)
      BY <3>1
    <3>7. ~inProgress => session.current >= session.target
      BY <2>1, <3>1 DEF SessionMatches, SessionWithin, Session
    <3>8. ~inProgress => c >= session.target
      BY <1>2, <3>1, <3>7
    <3>9. s \in {"completed", "requesting"} /\ inProgress \in BOOLEAN
      BY DEF Types
    <3> HIDE DEF c, s
    <3>10. SessionWithin'
      BY <3>1, <3>3, <3>5, <3>6 DEF SessionWithin
    <3>11. inProgress' <=> s = "requesting"
      <4>1. s = "requesting" <=> c < session.target
        BY <3>6, <3>9
      <4>2. c < session.target => inProgress
        BY <3>1, <3>8
      <4> QED BY <3>2, <4>1, <4>2, Zenon
    <3>12. SessionMatches'
      BY <3>3, <3>4, <3>9, <3>11 DEF SessionMatches
    <3> QED BY <3>2, <3>4, <3>10, <3>12
  <2>2. CASE ~(session # None /\ session.peer = p)
    <3>1. UNCHANGED <<session, inProgress>>
      BY <1>3, <2>2
    <3>2. session # None => session.current \in Nat
      BY DEF Types, Session
    <3> QED BY <1>5, <3>1, <3>2 DEF Types, SessionWithin, SessionMatches
  <2> QED BY <2>1, <2>2
<1>8. Types'
  BY <1>1, <1>2, <1>5, <1>6, <1>7 DEF Types
<1> QED BY <1>4, <1>6, <1>7, <1>8

LEMMA RejectBlocksKeeps ==
    ASSUME SyncInv, NEW p \in Peers, RejectBlocks(p) PROVE SyncInv'
<1> USE DEF SyncInv
<1> DEFINE bs == Answer(p, Head(asked[p]))
<1>1. /\ asked[p] # <<>> /\ asked' = [asked EXCEPT ![p] = Tail(@)]
      /\ UNCHANGED <<table, session, inProgress, height, sHeight>>
  BY DEF RejectBlocks
<1>2. Len(bs) \in Nat
  <2>1. Head(asked[p]) \in AnyRequest
    BY <1>1 DEF Types
  <2> QED BY <2>1, AnswerLength
<1>3. PICK k \in 0..(Len(bs) - 1) :
        FailsAfter(p, bs, k) /\ stored' = StoreFirst(bs, k) /\ local' = local + k
  BY DEF RejectBlocks
<1> HIDE DEF bs
<1>4. k \in Nat /\ (Links(bs) \/ k = 0) /\ local' \in Nat /\ local <= local'
  BY <1>2, <1>3 DEF FailsAfter, Types
<1>5. StoredToTop'
  BY <1>1, <1>3, <1>4, StoreReaches DEF Types
<1>6. asked' \in [Peers -> Seq(AnyRequest)] /\ NoGapAsked'
  BY <1>1, <1>4, AnsweredKeeps
<1>7. SessionWithin' /\ SessionMatches'
  <2>1. session # None => session.current \in Nat
    BY DEF Types, Session
  <2> QED BY <1>1, <1>4, <2>1 DEF Types, SessionWithin, SessionMatches
<1>8. Types'
  BY <1>1, <1>4, <1>6 DEF Types
<1> QED BY <1>5, <1>6, <1>7, <1>8

-----------------------------------------------------------------------------
LEMMA SyncStep == SyncInv /\ [Next]_vars => SyncInv'
<1> SUFFICES ASSUME SyncInv, [Next]_vars PROVE SyncInv'
  OBVIOUS
<1> USE DEF SyncInv
<1>1. ASSUME NEW p \in Peers, Connect(p) PROVE SyncInv'
  <2>1. PICK n \in 0..Len(Chain[p]) : table' = Announced(p, n)
    BY <1>1 DEF Connect
  <2>2. n \in Nat
    BY <2>1, SyncAssumption DEF SyncAssumption
  <2>3. UNCHANGED <<asked, session, inProgress, local, height, tip, stored, sHeight>>
    BY <1>1 DEF Connect, node
  <2>4. \A q \in DOMAIN table' : table'[q].height \in Nat
    BY <2>1, <2>2 DEF Announced, Types
  <2>5. Types'
    BY <2>3, <2>4 DEF Types
  <2> QED BY <2>3, <2>5, NodeKept, AskedKept DEF SessionWithin, SessionMatches
<1>2. ASSUME NEW p \in Peers, Disconnect(p) PROVE SyncInv'
  <2>1. UNCHANGED <<inProgress, local, height, tip, stored, sHeight>>
    BY <1>2 DEF Disconnect, node
  <2>2. asked' = [asked EXCEPT ![p] = <<>>]
    BY <1>2 DEF Disconnect
  <2>3. session' = session \/ (session # None /\ session' = [session EXCEPT !.peer = Gone])
    BY <1>2 DEF Disconnect
  <2>4. session # None =>
          /\ session' \in Session /\ session' # None
          /\ session'.current = session.current /\ session'.target = session.target
          /\ session'.status = session.status
    BY <2>3 DEF Types, Session, None
  <2>5. asked' \in [Peers -> Seq(AnyRequest)]
    BY <2>2 DEF Types
  <2>6. \A q \in DOMAIN table' : table'[q].height \in Nat
    BY <1>2 DEF Disconnect, Types
  <2>7. Types'
    BY <2>1, <2>3, <2>4, <2>5, <2>6 DEF Types
  <2>8. NoGapAsked'
    BY <2>1, <2>2 DEF NoGapAsked, Types
  <2> QED BY <2>1, <2>3, <2>4, <2>7, <2>8, NodeKept DEF SessionWithin, SessionMatches
<1>3. ASSUME NEW p \in Peers, StartSession(p) PROVE SyncInv'
  <2>1. UNCHANGED <<asked, table, local, height, tip, stored, sHeight>>
    BY <1>3 DEF StartSession, link, node
  <2>2. /\ p \in DOMAIN table /\ inProgress'
        /\ session' = [peer |-> p, current |-> local, target |-> table[p].height,
                       status |-> "requesting"]
    BY <1>3 DEF StartSession
  <2>3. session' \in Session /\ session' # None
    BY <1>3, <2>2 DEF Types, Session, None
  <2>4. Types'
    BY <1>3, <2>1, <2>3 DEF Types, StartSession
  <2>5. SessionWithin' /\ SessionMatches'
    BY <2>1, <2>2, <2>3, <2>4 DEF SessionWithin, SessionMatches, Types
  <2> QED BY <2>1, <2>4, <2>5, NodeKept, AskedKept
<1>4. CASE CheckTimeouts
  <2>1. UNCHANGED <<asked, local, height, tip, stored, sHeight>> /\ session' = None /\ ~inProgress'
        /\ inProgress' \in BOOLEAN
    BY <1>4 DEF CheckTimeouts, link, node
  <2>2. \A q \in DOMAIN table' : table'[q].height \in Nat
    BY <1>4 DEF CheckTimeouts, TimedOut, Types
  <2>3. Types'
    BY <2>1, <2>2 DEF Types
  <2> QED BY <2>1, <2>3, NodeKept, AskedKept DEF SessionWithin, SessionMatches
<1>5. CASE RequestFails
  <2>1. UNCHANGED <<asked, table, local, height, tip, stored, sHeight>> /\ session' = None /\ ~inProgress'
        /\ inProgress' \in BOOLEAN
    BY <1>5 DEF RequestFails, link, node
  <2>2. Types'
    BY <2>1 DEF Types
  <2> QED BY <2>1, <2>2, NodeKept, AskedKept DEF SessionWithin, SessionMatches
<1>6. ASSUME NEW b, Extend(b) PROVE SyncInv'
  <2>1. UNCHANGED <<asked, table, session, inProgress, local>>
    BY <1>6 DEF Extend, link, sync
  <2>2. height' = height + 1 /\ sHeight' = height + 1 /\ DOMAIN stored' = DOMAIN stored \cup {height + 1}
    BY <1>6 DEF Extend
  <2>3. PICK n \in Nat : DOMAIN stored = 0..n /\ height <= n /\ sHeight <= n
    BY DEF StoredToTop
  <2> DEFINE top == IF n = height THEN n + 1 ELSE n
  <2>4. top \in Nat /\ DOMAIN stored' = 0..top /\ height' <= top /\ sHeight' <= top
    BY <2>2, <2>3 DEF Types
  <2>5. StoredToTop'
    BY <2>4 DEF StoredToTop
  <2>6. Types'
    BY <2>1, <2>2 DEF Types
  <2> QED BY <2>1, <2>5, <2>6, AskedKept DEF SessionWithin, SessionMatches
<1>7. CASE Restart
  <2>1. /\ asked' = [p \in Peers |-> <<>>] /\ table' = <<>> /\ session' = None /\ inProgress' = FALSE
        /\ local' = 0 /\ height' = sHeight /\ UNCHANGED <<stored, sHeight>>
    BY <1>7 DEF Restart
  <2>2. <<>> \in Seq(AnyRequest) /\ DOMAIN <<>> = {}
    OBVIOUS
  <2>3. asked' \in [Peers -> Seq(AnyRequest)] /\ DOMAIN table' = {}
    BY <2>1, <2>2
  <2>4. Types'
    BY <2>1, <2>3 DEF Types
  <2>5. StoredToTop'
    BY <2>1 DEF StoredToTop
  <2> QED BY <2>1, <2>2, <2>4, <2>5 DEF SessionWithin, SessionMatches, NoGapAsked
<1>8. CASE UNCHANGED vars
  <2>1. UNCHANGED <<asked, table, session, inProgress, local, height, stored, sHeight>>
    BY <1>8 DEF vars
  <2> QED BY <2>1, NodeKept, AskedKept DEF Types, SessionWithin, SessionMatches
<1>9. ASSUME NEW p \in Peers, PeerBlock(p) PROVE SyncInv'
  BY <1>6, <1>9 DEF PeerBlock
<1>10. CASE Mine
  BY <1>6, <1>10 DEF Mine
<1> QED BY <1>1, <1>2, <1>3, <1>4, <1>5, <1>7, <1>8, <1>9, <1>10, RequestBlocksKeeps,
            AcceptBlocksKeeps, RejectBlocksKeeps DEF Next

(* For any peers, chains and clocks: the database never has a hole below the *)
(* height in memory or the saved one (verify_and_accept_blocks, the Block    *)
(* handler, mine_block, a restart).                                          *)
THEOREM DatabaseHasNoHole == Spec => []HeightIsStored
<1>1. SyncInv => HeightIsStored
  <2> SUFFICES ASSUME SyncInv PROVE HeightIsStored
    OBVIOUS
  <2> PICK n \in Nat : DOMAIN stored = 0..n /\ height <= n /\ sHeight <= n
    BY DEF SyncInv, StoredToTop
  <2> QED BY DEF SyncInv, Types, HeightIsStored
<1> QED BY SyncInit, SyncStep, <1>1, PTL DEF Spec

(* For any peers, chains and clocks: sync_in_progress is set exactly while a *)
(* session is under way (start_sync, on_blocks_received, check_timeouts).    *)
THEOREM FlagIsSession == Spec => []SessionMatches
<1>1. SyncInv => SessionMatches
  BY DEF SyncInv
<1> QED BY SyncInit, SyncStep, <1>1, PTL DEF Spec

(* For any peers, chains and clocks: no request leaves a gap above           *)
(* local_chain (continue_sync, get_next_request).                            *)
THEOREM RequestsLeaveNoGap == Spec => []NoGapAsked
<1>1. SyncInv => NoGapAsked
  BY DEF SyncInv
<1> QED BY SyncInit, SyncStep, <1>1, PTL DEF Spec

-----------------------------------------------------------------------------
(* Why no request has a negative count: a session whose peer can be reached  *)
(* has that peer's entry, and no other can be made while it is connected.    *)
SessionReachable ==
    session # None /\ session.peer \in Echo =>
        /\ session.peer \in conn
        /\ session.target = table[session.peer].height
ReachInv ==
    /\ conn \subseteq Peers /\ doomed \subseteq conn
    /\ DOMAIN table \subseteq Peers /\ conn \subseteq DOMAIN table
    /\ DOMAIN table \cap Echo \subseteq conn
    /\ \A p \in DOMAIN table : table[p] \in Entry
    /\ SessionReachable
    /\ \A p \in Peers : asked[p] \in Seq(Request) /\ (asked[p] # <<>> => p \in conn)

LEMMA TailAsked ==
    ASSUME NEW p \in Peers, asked \in [Peers -> Seq(AnyRequest)], asked[p] # <<>>,
           asked' = [asked EXCEPT ![p] = Tail(@)],
           \A q \in Peers : asked[q] \in Seq(Request) /\ (asked[q] # <<>> => q \in conn),
           UNCHANGED conn
    PROVE  \A q \in Peers : asked'[q] \in Seq(Request) /\ (asked'[q] # <<>> => q \in conn')
<1> TAKE q \in Peers
<1>1. Tail(asked[p]) \in Seq(Request)
  OBVIOUS
<1>2. asked'[q] = IF q = p THEN Tail(asked[p]) ELSE asked[q]
  OBVIOUS
<1> QED BY <1>1, <1>2

LEMMA ReachInit == Init => ReachInv
<1> SUFFICES ASSUME Init PROVE ReachInv
  OBVIOUS
<1>1. <<>> \in Seq(Request) /\ DOMAIN <<>> = {}
  OBVIOUS
<1> QED BY <1>1 DEF Init, ReachInv, SessionReachable

LEMMA ReachStep == SyncInv /\ ReachInv /\ [Next]_vars => ReachInv'
<1> SUFFICES ASSUME SyncInv, ReachInv, [Next]_vars PROVE ReachInv'
  OBVIOUS
<1> USE DEF ReachInv
<1>0. /\ session = None \/ session \in Session
      /\ local \in Nat /\ asked \in [Peers -> Seq(AnyRequest)]
      /\ Echo \subseteq Peers /\ Gone \notin Peers
  BY SyncAssumption DEF SyncAssumption, SyncInv, Types, Gone
<1>1. ASSUME NEW p \in Peers, Connect(p) PROVE ReachInv'
  <2>1. PICK n \in 0..Len(Chain[p]) : table' = Announced(p, n)
    BY <1>1 DEF Connect
  <2>2. n \in Nat
    BY <2>1, SyncAssumption DEF SyncAssumption
  <2>3. p \notin conn /\ conn' = conn \cup {p} /\ UNCHANGED <<doomed, asked, session>>
    BY <1>1 DEF Connect
  <2>4. /\ DOMAIN table' = DOMAIN table \cup {p}
        /\ table'[p] = [height |-> n, retries |-> 0, banned |-> FALSE]
        /\ \A q \in DOMAIN table : q # p => table'[q] = table[q]
    BY <2>1 DEF Announced
  <2>5. ASSUME NEW q \in DOMAIN table' PROVE table'[q] \in Entry
    <3>1. CASE q = p
      <4>1. n \in Nat /\ 0 \in Nat /\ FALSE \in BOOLEAN
        BY <2>2
      <4>2. [height |-> n, retries |-> 0, banned |-> FALSE] \in Entry
        BY <4>1, Zenon DEF Entry
      <4> QED BY <2>4, <3>1, <4>2
    <3>2. CASE q # p
      <4>1. q \in DOMAIN table /\ table[q] \in Entry
        BY <2>4, <2>5, <3>2
      <4> QED BY <2>4, <3>2, <4>1
    <3> QED BY <3>1, <3>2
  <2>6. SessionReachable'
    BY <2>3, <2>4 DEF SessionReachable
  <2> QED BY <2>3, <2>4, <2>5, <2>6
<1>2. ASSUME NEW p \in Peers, Disconnect(p) PROVE ReachInv'
  <2>1. /\ conn' = conn \ {p} /\ doomed' = doomed \ {p}
        /\ asked' = [asked EXCEPT ![p] = <<>>]
        /\ DOMAIN table' = DOMAIN table \ ({p} \cap Echo)
        /\ \A q \in DOMAIN table' : table'[q] = table[q]
    BY <1>2 DEF Disconnect
  <2>2. session' = IF session # None /\ session.peer \in {p} \cap Echo
                   THEN [session EXCEPT !.peer = Gone] ELSE session
    BY <1>2 DEF Disconnect
  <2>3. \A q \in Peers : asked'[q] \in Seq(Request) /\ (asked'[q] # <<>> => q \in conn')
    <3> TAKE q \in Peers
    <3>1. asked'[q] = IF q = p THEN <<>> ELSE asked[q]
      BY <1>0, <2>1
    <3>2. <<>> \in Seq(Request)
      OBVIOUS
    <3> QED BY <2>1, <3>1, <3>2
  <2>4. SessionReachable'
    <3>1. CASE session # None /\ session.peer \in {p} \cap Echo
      <4>1. session'.peer = Gone
        BY <1>0, <2>2, <3>1 DEF Session
      <4> QED BY <1>0, <4>1 DEF SessionReachable
    <3>2. CASE ~(session # None /\ session.peer \in {p} \cap Echo)
      <4>1. session' = session
        BY <2>2, <3>2
      <4> QED BY <2>1, <3>2, <4>1 DEF SessionReachable
    <3> QED BY <3>1, <3>2
  <2> QED BY <2>1, <2>3, <2>4
<1>3. ASSUME NEW p \in Peers, StartSession(p) PROVE ReachInv'
  <2>1. /\ p \in DOMAIN table /\ UNCHANGED <<conn, doomed, asked, table>>
        /\ session'.peer = p /\ session'.target = table[p].height
    BY <1>3 DEF StartSession, link
  <2> QED BY <2>1 DEF SessionReachable
<1>4. CASE CheckTimeouts
  <2>1. UNCHANGED <<conn, doomed, asked>> /\ session' = None
    BY <1>4 DEF CheckTimeouts, link
  <2>2. /\ DOMAIN table' = DOMAIN table
        /\ \A q \in DOMAIN table' : table'[q] \in Entry
    <3>1. CASE session.peer \in DOMAIN table
      <4>1. table' = TimedOut /\ table[session.peer] \in Entry
        BY <1>4, <3>1 DEF CheckTimeouts
      <4>2. table[session.peer].retries + 1 \in Nat /\ table[session.peer].banned \in BOOLEAN
            /\ table[session.peer].height \in Nat
        BY <4>1 DEF Entry
      <4> DEFINE b == table[session.peer].banned \/ table[session.peer].retries + 1 >= RetryLimit
                 e == [height |-> table[session.peer].height,
                       retries |-> table[session.peer].retries + 1, banned |-> b]
      <4>3. b \in BOOLEAN
        OBVIOUS
      <4> HIDE DEF b
      <4>4. e \in Entry
        BY <4>2, <4>3 DEF Entry
      <4>5. DOMAIN TimedOut = DOMAIN table
        BY DEF TimedOut
      <4>6. \A q \in DOMAIN table : q # session.peer => TimedOut[q] = table[q]
        BY DEF TimedOut
      <4>7. TimedOut[session.peer] = [table[session.peer] EXCEPT !.retries = @ + 1, !.banned = b]
        BY <3>1 DEF TimedOut, b
      <4>8. TimedOut[session.peer] = e
        BY <4>1, <4>7 DEF Entry
      <4> HIDE DEF e
      <4> QED BY <4>1, <4>4, <4>5, <4>6, <4>8
    <3>2. CASE session.peer \notin DOMAIN table
      BY <1>4, <3>2 DEF CheckTimeouts
    <3> QED BY <3>1, <3>2
  <2> QED BY <2>1, <2>2 DEF SessionReachable
<1>5. CASE RequestFails
  <2>1. UNCHANGED <<conn, doomed, asked, table>> /\ session' = None
    BY <1>5 DEF RequestFails, link
  <2> QED BY <2>1 DEF SessionReachable
<1>6. CASE RequestBlocks
  <2> DEFINE q == session.peer
  <2>1. /\ session # None /\ q \in DOMAIN table /\ q \in conn /\ q \in Echo /\ q \in Peers
        /\ session.current < session.target /\ session \in Session
        /\ session' = [session EXCEPT !.status = "receiving"]
        /\ UNCHANGED <<conn, doomed, table>>
    BY <1>0, <1>6 DEF RequestBlocks, Reachable
  <2>2. session.current \in Nat /\ session.target \in Nat /\ session.target = table[q].height
    BY <2>1 DEF Session, SessionReachable
  <2>3. NextRequest \in Request
    <3>1. Batch \in Nat \ {0}
      BY SyncAssumption DEF SyncAssumption
    <3> DEFINE f == session.current + 1
               m == LesserOf(f + Batch - 1, table[q].height)
    <3>2. f \in Nat /\ m \in Nat /\ m - f + 1 \in Nat
      BY <2>1, <2>2, <3>1 DEF LesserOf
    <3> HIDE DEF f, m
    <3>3. NextRequest = [from |-> f, count |-> m - f + 1]
      BY DEF NextRequest, f, m
    <3> QED BY <3>2, <3>3 DEF Request
  <2>4. \A p \in Peers : asked'[p] \in Seq(Request) /\ (asked'[p] # <<>> => p \in conn')
    <3> TAKE p \in Peers
    <3>1. asked'[p] = asked[p] \/ (p = q /\ asked'[p] = Append(asked[q], NextRequest))
      BY <1>0, <1>6, <2>1 DEF RequestBlocks
    <3>2. Append(asked[q], NextRequest) \in Seq(Request)
      BY <2>1, <2>3
    <3> QED BY <2>1, <3>1, <3>2
  <2>5. SessionReachable'
    <3>1. session'.peer = q /\ session'.target = session.target
      BY <2>1 DEF Session
    <3> QED BY <2>1, <2>2, <3>1 DEF SessionReachable
  <2> QED BY <2>1, <2>4, <2>5
<1>7. ASSUME NEW p \in Peers, AcceptBlocks(p) PROVE ReachInv'
  <2>1. /\ asked[p] # <<>> /\ asked' = [asked EXCEPT ![p] = Tail(@)]
        /\ UNCHANGED <<conn, doomed, table>>
    BY <1>7 DEF AcceptBlocks
  <2>2. \A q \in Peers : asked'[q] \in Seq(Request) /\ (asked'[q] # <<>> => q \in conn')
    BY <1>0, <2>1, TailAsked
  <2>3. \/ session' = session
        \/ session # None /\ session'.peer = session.peer /\ session'.target = session.target
    BY <1>0, <1>7 DEF AcceptBlocks, Received, Session
  <2>4. SessionReachable'
    BY <2>1, <2>3 DEF SessionReachable
  <2> QED BY <2>1, <2>2, <2>4
<1>8. ASSUME NEW p \in Peers, RejectBlocks(p) PROVE ReachInv'
  <2>1. /\ asked[p] # <<>> /\ asked' = [asked EXCEPT ![p] = Tail(@)]
        /\ doomed' = doomed \cup {p} /\ UNCHANGED <<conn, table, session>>
    BY <1>8 DEF RejectBlocks
  <2>2. \A q \in Peers : asked'[q] \in Seq(Request) /\ (asked'[q] # <<>> => q \in conn')
    BY <1>0, <2>1, TailAsked
  <2>3. p \in conn
    BY <2>1
  <2> QED BY <2>1, <2>2, <2>3 DEF SessionReachable
<1>9. CASE Mine \/ \E p \in Peers : PeerBlock(p)
  <2>1. UNCHANGED <<conn, doomed, asked, table, session>>
    BY <1>9 DEF Mine, PeerBlock, Extend, link, sync
  <2> QED BY <2>1 DEF SessionReachable
<1>10. CASE Restart
  <2>1. /\ conn' = {} /\ doomed' = {} /\ DOMAIN table' = {} /\ session' = None
        /\ asked' = [p \in Peers |-> <<>>]
    BY <1>10 DEF Restart
  <2>2. <<>> \in Seq(Request)
    OBVIOUS
  <2> QED BY <2>1, <2>2 DEF SessionReachable
<1>11. CASE UNCHANGED vars
  <2>1. UNCHANGED <<conn, doomed, asked, table, session>>
    BY <1>11 DEF vars
  <2> QED BY <2>1 DEF SessionReachable
<1> QED BY <1>1, <1>2, <1>3, <1>4, <1>5, <1>6, <1>7, <1>8, <1>9, <1>10, <1>11 DEF Next

(* For any peers, chains and clocks: the types; among them, that a request   *)
(* never asks for a negative number of blocks, whatever a peer announces     *)
(* when it connects again (get_next_request), and that only connections are  *)
(* banned.                                                                   *)
THEOREM SyncTypeCorrect == Spec => []SyncTypeOK
<1>1. SyncInv /\ ReachInv => SyncTypeOK
  <2> SUFFICES ASSUME SyncInv, ReachInv PROVE SyncTypeOK
    OBVIOUS
  <2>1. \E n \in DOMAIN stored : n \in Nat /\ DOMAIN stored = 0..n
    <3>1. PICK n \in Nat : DOMAIN stored = 0..n
      BY DEF SyncInv, StoredToTop
    <3>2. n \in DOMAIN stored
      BY <3>1
    <3> QED BY <3>1, <3>2
  <2> QED BY <2>1 DEF SyncInv, Types, ReachInv, SyncTypeOK
<1>2. Spec => [](SyncInv /\ ReachInv)
  BY SyncInit, SyncStep, ReachInit, ReachStep, PTL DEF Spec
<1> QED BY <1>1, <1>2, PTL
=============================================================================
