-------------------------- MODULE PeerTableProofs --------------------------
(***************************************************************************)
(* The number of connections and the blacklist, for any addresses, limits, *)
(* windows and order of messages.  PeersInv is about how many connections  *)
(* there are and which are dropped; TurnInv about what a turn refers to;   *)
(* HeardInv relates the counts of check_rate_limit, whose windows are      *)
(* reset lazily, to the messages that came.                                *)
(***************************************************************************)
EXTENDS PeerTable, FiniteSetTheorems, TLAPS

(* While a turn is under way, the listed addresses that are still connected  *)
(* are among those it drops.                                                 *)
ListedAreDropped == pc \in {"collect", "handle"} => blacklist \cap DOMAIN peers \subseteq gone

(* The inductive invariant.                                                  *)
PeersInv ==
    /\ pc \in {"idle", "collect", "handle", "accept"}
    /\ DOMAIN peers \subseteq Addrs
    /\ PeersBounded
    /\ ListedAreDropped
    /\ BlacklistedNotConnected

-----------------------------------------------------------------------------
(* Connections: a set of addresses is finite, and grows by one at most.      *)
LEMMA FewerPeers ==
    ASSUME NEW S, NEW T, T \subseteq S, S \subseteq Addrs
    PROVE  Cardinality(T) <= Cardinality(S) /\ Cardinality(S) \in Nat /\ Cardinality(T) \in Nat
<1>1. IsFiniteSet(S) /\ IsFiniteSet(T)
  BY FS_Subset, PeerAssumption DEF PeerAssumption
<1> QED BY <1>1, FS_Subset, FS_CardinalityType

LEMMA OneMorePeer ==
    ASSUME DOMAIN peers \subseteq Addrs, NEW p \in Addrs,
           Cardinality(DOMAIN peers) < MaxPeers, NEW c
    PROVE  /\ DOMAIN Put(peers, p, c) = DOMAIN peers \cup {p}
           /\ Cardinality(DOMAIN Put(peers, p, c)) <= MaxPeers
<1>1. IsFiniteSet(DOMAIN peers)
  BY FS_Subset, PeerAssumption DEF PeerAssumption
<1>2. Cardinality(DOMAIN peers) \in Nat /\ MaxPeers \in Nat
  BY <1>1, FS_CardinalityType, PeerAssumption DEF PeerAssumption
<1>3. Cardinality(DOMAIN peers \cup {p}) =
        IF p \in DOMAIN peers THEN Cardinality(DOMAIN peers) ELSE Cardinality(DOMAIN peers) + 1
  BY <1>1, FS_AddElement
<1> QED BY <1>2, <1>3 DEF Put

(* A step that keeps the connections, or drops some, keeps the bound.        *)
LEMMA BoundKept ==
    ASSUME DOMAIN peers \subseteq Addrs, PeersBounded,
           DOMAIN peers' \subseteq DOMAIN peers
    PROVE  DOMAIN peers' \subseteq Addrs /\ PeersBounded'
<1>1. MaxPeers \in Nat
  BY PeerAssumption DEF PeerAssumption
<1> QED BY <1>1, FewerPeers DEF PeersBounded

-----------------------------------------------------------------------------
LEMMA PeersInit == Init => PeersInv
<1> SUFFICES ASSUME Init PROVE PeersInv
  OBVIOUS
<1>1. DOMAIN peers = known /\ known \subseteq Bootnodes /\ pc = "idle" /\ blacklist = {}
  BY DEF Init, NewNode
<1>2. Bootnodes \subseteq Addrs /\ Cardinality(Bootnodes) <= MaxPeers /\ MaxPeers \in Nat
  BY PeerAssumption DEF PeerAssumption
<1>3. PeersBounded
  BY <1>1, <1>2, FewerPeers DEF PeersBounded
<1> QED BY <1>1, <1>2, <1>3 DEF PeersInv, ListedAreDropped, BlacklistedNotConnected

(* A new connection is made to an address that is not listed.                *)
LEMMA LearnKeeps ==
    ASSUME PeersInv, pc = "handle", NEW p \in Addrs, LearnAddress(p),
           UNCHANGED <<pc, gone, blacklist>>
    PROVE  PeersInv'
<1>1. CASE UNCHANGED peers
  BY <1>1 DEF PeersInv, PeersBounded, ListedAreDropped, BlacklistedNotConnected
<1>2. CASE ~UNCHANGED peers
  <2>1. MayConnect(p) /\ Cardinality(DOMAIN peers) < MaxPeers
    BY <1>2 DEF LearnAddress, ConnectTo
  <2>2. peers' = Put(peers, p, NewConnection)
    BY <1>2 DEF LearnAddress, ConnectTo
  <2>3. DOMAIN peers' = DOMAIN peers \cup {p} /\ PeersBounded'
    BY <2>1, <2>2, OneMorePeer DEF PeersInv, PeersBounded
  <2>4. p \notin blacklist
    BY <2>1 DEF MayConnect
  <2> QED BY <2>3, <2>4 DEF PeersInv, ListedAreDropped, BlacklistedNotConnected
<1> QED BY <1>1, <1>2

LEMMA AcceptKeeps ==
    ASSUME PeersInv, NEW a, Accept(a)
    PROVE  PeersInv'
<1>1. pc = "accept" /\ pc' = "idle" /\ a \in Addrs /\ UNCHANGED blacklist
  BY PeerAssumption DEF Accept, PeerAssumption
<1>2. CASE UNCHANGED peers
  BY <1>1, <1>2 DEF PeersInv, PeersBounded, ListedAreDropped, BlacklistedNotConnected
<1>3. CASE ~UNCHANGED peers
  <2>1. /\ MayConnect(a) /\ Cardinality(DOMAIN peers) < MaxPeers
        /\ peers' = Put(peers, a, NewConnection)
    BY <1>3 DEF Accept
  <2>2. DOMAIN peers' = DOMAIN peers \cup {a} /\ PeersBounded'
    BY <1>1, <2>1, OneMorePeer DEF PeersInv, PeersBounded
  <2>3. a \notin blacklist
    BY <2>1 DEF MayConnect
  <2> QED BY <1>1, <2>2, <2>3 DEF PeersInv, ListedAreDropped, BlacklistedNotConnected
<1> QED BY <1>2, <1>3

LEMMA PeersStep == PeersInv /\ [Next]_vars => PeersInv'
<1> SUFFICES ASSUME PeersInv, [Next]_vars PROVE PeersInv'
  OBVIOUS
<1> USE DEF PeersInv, ListedAreDropped, BlacklistedNotConnected
<1>1. CASE StartTurn
  <2>1. DOMAIN peers' = DOMAIN peers /\ pc = "idle" /\ pc' = "collect" /\ UNCHANGED blacklist
    BY <1>1 DEF StartTurn, ddos
  <2> QED BY <2>1, BoundKept
<1>2. CASE NothingMore
  <2>1. UNCHANGED <<peers, gone, blacklist>> /\ pc = "collect" /\ pc' = "handle"
    BY <1>2 DEF NothingMore, ddos
  <2> QED BY <2>1, BoundKept
<1>3. CASE Handle
  <2>1. pc = "handle" /\ UNCHANGED <<pc, gone, blacklist>>
    BY <1>3 DEF Handle
  <2>2. CASE DOMAIN peers' = DOMAIN peers
    BY <2>1, <2>2, BoundKept
  <2>3. CASE DOMAIN peers' # DOMAIN peers
    <3>1. PICK p \in Addrs : LearnAddress(p)
      BY <1>3, <2>3 DEF Handle
    <3> QED BY <2>1, <3>1, LearnKeeps
  <2> QED BY <2>2, <2>3
<1>4. CASE DropGone
  <2>1. DOMAIN peers' = DOMAIN peers \ gone /\ pc = "handle" /\ pc' = "accept" /\ UNCHANGED blacklist
    BY <1>4 DEF DropGone, ddos
  <2> QED BY <2>1, BoundKept
<1>5. CASE AcceptNone
  <2>1. UNCHANGED <<peers, blacklist>> /\ pc = "accept" /\ pc' = "idle"
    BY <1>5 DEF AcceptNone, ddos
  <2> QED BY <2>1, BoundKept
<1>6. CASE Broadcast
  <2>1. DOMAIN peers' \subseteq DOMAIN peers /\ pc = "idle" /\ UNCHANGED <<pc, blacklist>>
    BY <1>6 DEF Broadcast, ddos
  <2> QED BY <2>1, BoundKept
<1>7. CASE Tick
  <2>1. UNCHANGED <<peers, blacklist, pc, gone>>
    BY <1>7 DEF Tick, ddos
  <2> QED BY <2>1, BoundKept
<1>8. ASSUME NEW a \in Addrs, NEW m \in Message, Receive(a, m) PROVE PeersInv'
  <2>1. DOMAIN peers' = DOMAIN peers /\ pc = "collect" /\ UNCHANGED pc
    BY <1>8 DEF Receive
  <2>2. (blacklist' = blacklist \cup {a} /\ gone' = gone \cup {a}) \/ UNCHANGED <<blacklist, gone>>
    BY <1>8 DEF Receive, DropLoud
  <2> QED BY <2>1, <2>2, BoundKept
<1>9. ASSUME NEW a \in Addrs, Refuse(a) PROVE PeersInv'
  <2>1. DOMAIN peers' = DOMAIN peers /\ pc = "collect" /\ UNCHANGED <<pc, gone, blacklist>>
    BY <1>9 DEF Refuse, ddos
  <2> QED BY <2>1, BoundKept
<1>10. ASSUME NEW a \in Addrs, Fail(a) PROVE PeersInv'
  <2>1. /\ UNCHANGED <<peers, pc>> /\ pc = "collect" /\ gone' = gone \cup {a}
        /\ blacklist' \subseteq blacklist \cup {a}
    BY <1>10 DEF Fail
  <2> QED BY <2>1, BoundKept
<1>11. ASSUME NEW a \in Addrs, Accept(a) PROVE PeersInv'
  BY <1>11, AcceptKeeps
<1>12. CASE UNCHANGED vars
  <2>1. UNCHANGED <<peers, blacklist, pc, gone>>
    BY <1>12 DEF vars
  <2> QED BY <2>1, BoundKept
<1> QED BY <1>1, <1>2, <1>3, <1>4, <1>5, <1>6, <1>7, <1>8, <1>9, <1>10, <1>11, <1>12 DEF Next

(* For any addresses, limits and windows: connections made and accepted stay *)
(* within MAX_PEERS together (P2PNode::connect_to, accept_connections).      *)
THEOREM PeersStayBounded == Spec => []PeersBounded
<1>1. PeersInv => PeersBounded
  BY DEF PeersInv
<1> QED BY PeersInit, PeersStep, <1>1, PTL DEF Spec

(* For any addresses, limits and windows: process_messages leaves no         *)
(* connection to an address that is on the blacklist.                        *)
THEOREM ListedAreNotConnected == Spec => []BlacklistedNotConnected
<1>1. PeersInv => BlacklistedNotConnected
  BY DEF PeersInv
<1> QED BY PeersInit, PeersStep, <1>1, PTL DEF Spec

-----------------------------------------------------------------------------
(* Where a turn is: what it reads, handles and drops is there while it lasts.*)
TurnInv ==
    /\ PeerTypeOK
    /\ pc # "collect" => todo = {}
    /\ pc \in {"idle", "accept"} => queue = <<>> /\ gone = {}
    /\ queue \in Seq(Message \X Addrs)

LEMMA ConstantFacts ==
    /\ Bootnodes \subseteq Addrs /\ Callers \subseteq Addrs /\ IsFiniteSet(Addrs)
    /\ Minute \in Nat /\ Hour \in Nat /\ Minute <= Hour
    /\ PerMinute \in Nat /\ PerHour \in Nat /\ MaxFailures \in Nat
    /\ MaxHeard \in Nat /\ MaxNow \in Nat
BY PeerAssumption DEF PeerAssumption

(* Connections keep their type.                                              *)
LEMMA ConnectionTypes ==
    ASSUME now \in Nat
    PROVE  /\ NewConnection \in PeerConnection
           /\ \A c \in PeerConnection : Sent(c) \in PeerConnection
           /\ \A c \in PeerConnection : Refreshed(c) \in PeerConnection
<1>1. NewConnection \in PeerConnection
  <2>1. now \in Nat /\ 0 \in Nat /\ FALSE \in BOOLEAN
    OBVIOUS
  <2> QED BY <2>1, Zenon DEF NewConnection, PeerConnection
<1>2. \A c \in PeerConnection : Sent(c) \in PeerConnection
  BY DEF Sent, PeerConnection
<1>3. \A c \in PeerConnection : Refreshed(c) \in PeerConnection
  BY DEF Refreshed, PeerConnection
<1> QED BY <1>1, <1>2, <1>3

LEMMA ReadTypes ==
    ASSUME now \in Nat, NEW c \in PeerConnection, NEW beat \in Nat
    PROVE  /\ [c EXCEPT !.thisHour = @ + 1, !.lastMessage = now, !.lastBeat = beat] \in PeerConnection
           /\ [c EXCEPT !.thisHour = @ + 1, !.lastMessage = now, !.banned = TRUE] \in PeerConnection
           /\ [c EXCEPT !.banned = TRUE] \in PeerConnection
<1>1. c.thisHour + 1 \in Nat
  BY DEF PeerConnection
<1>2. [c EXCEPT !.banned = TRUE] \in PeerConnection
  BY DEF PeerConnection
<1> DEFINE d == [c EXCEPT !.thisHour = c.thisHour + 1]
           e == [d EXCEPT !.lastMessage = now]
<1>3. d \in PeerConnection
  BY <1>1 DEF PeerConnection
<1> HIDE DEF d
<1>4. e \in PeerConnection
  BY <1>3 DEF PeerConnection
<1> HIDE DEF e
<1>5. [e EXCEPT !.banned = TRUE] \in PeerConnection /\ [e EXCEPT !.lastBeat = beat] \in PeerConnection
  BY <1>4 DEF PeerConnection
<1> QED BY <1>2, <1>5 DEF d, e

LEMMA CountTypes ==
    ASSUME TurnInv, NEW a
    PROVE  RateOf(a) \in RateLimit /\ Counted(a) \in RateLimit
<1>1. now \in Nat /\ \A b \in DOMAIN rates : rates[b] \in RateLimit
  BY DEF TurnInv, PeerTypeOK
<1>2. RateOf(a) \in RateLimit
  BY <1>1 DEF RateOf, RateLimit
<1>3. /\ RateOf(a).requests \in Nat /\ RateOf(a).hourStart \in Nat
      /\ RateOf(a).minuteRequests \in Nat /\ RateOf(a).minuteStart \in Nat
  BY <1>2 DEF RateLimit
<1> QED BY <1>1, <1>2, <1>3 DEF Counted, RateLimit

(* check_connection_limit: the failures stay, those of a listed address with *)
(* everything else.                                                          *)
LEMMA LimitAfterFacts ==
    ASSUME TurnInv, NEW p \in Addrs
    PROVE  /\ DOMAIN limits \subseteq DOMAIN LimitAfter(p)
           /\ \A a \in DOMAIN LimitAfter(p) : LimitAfter(p)[a] \in ConnectionLimit
           /\ \A a \in DOMAIN limits : LimitAfter(p)[a].failures = limits[a].failures
           /\ p \notin blacklist => p \in DOMAIN LimitAfter(p)
<1>1. now \in Nat /\ \A b \in DOMAIN limits : limits[b] \in ConnectionLimit
  BY DEF TurnInv, PeerTypeOK
<1> DEFINE l == IF p \in DOMAIN limits THEN limits[p]
                ELSE [connections |-> 0, lastReset |-> now, failures |-> 0]
           u == IF MayConnect(p) THEN [LimitOf(p) EXCEPT !.connections = @ + 1] ELSE LimitOf(p)
<1>2. l \in ConnectionLimit
  BY <1>1 DEF ConnectionLimit
<1>3. LimitOf(p) = IF now - l.lastReset > Minute
                   THEN [l EXCEPT !.connections = 0, !.lastReset = now] ELSE l
  BY DEF LimitOf
<1> HIDE DEF l
<1>4. LimitOf(p) \in ConnectionLimit /\ LimitOf(p).failures = l.failures
  <2>1. /\ [l EXCEPT !.connections = 0, !.lastReset = now] \in ConnectionLimit
        /\ [l EXCEPT !.connections = 0, !.lastReset = now].failures = l.failures
    BY <1>1, <1>2 DEF ConnectionLimit
  <2> QED BY <1>2, <1>3, <2>1
<1>5. u \in ConnectionLimit /\ u.failures = l.failures
  BY <1>4 DEF ConnectionLimit
<1>6. p \in DOMAIN limits => l = limits[p]
  BY DEF l
<1>7. LimitAfter(p) = IF p \in blacklist THEN limits ELSE Put(limits, p, u)
  BY DEF LimitAfter
<1> HIDE DEF u
<1>8. CASE p \in blacklist
  BY <1>1, <1>7, <1>8
<1>9. CASE p \notin blacklist
  <2>1. /\ DOMAIN LimitAfter(p) = DOMAIN limits \cup {p} /\ LimitAfter(p)[p] = u
        /\ \A b \in DOMAIN limits : b # p => LimitAfter(p)[b] = limits[b]
    BY <1>7, <1>9 DEF Put
  <2> QED BY <1>1, <1>5, <1>6, <2>1
<1> QED BY <1>8, <1>9

LEMMA TurnInit == Init => TurnInv
<1> SUFFICES ASSUME Init PROVE TurnInv
  OBVIOUS
<1>1. /\ now = 0 /\ pc = "idle" /\ todo = {} /\ queue = <<>> /\ gone = {} /\ blacklist = {}
      /\ DOMAIN rates = {} /\ known \subseteq Bootnodes /\ DOMAIN peers = known
      /\ DOMAIN limits = Bootnodes
  BY DEF Init, NewNode
<1>2. \A a \in DOMAIN peers : peers[a] \in PeerConnection
  BY <1>1, ConnectionTypes DEF Init
<1>3. \A a \in DOMAIN limits : limits[a] \in ConnectionLimit
  BY <1>1 DEF Init, ConnectionLimit
<1>4. queue \in Seq(Message \X Addrs) /\ DOMAIN queue = {}
  BY <1>1
<1> QED BY <1>1, <1>2, <1>3, <1>4, ConstantFacts DEF TurnInv, PeerTypeOK

(* A new connection, or none.                                                *)
LEMMA LearnTurn ==
    ASSUME TurnInv, NEW p \in Addrs, LearnAddress(p)
    PROVE  /\ \A a \in DOMAIN peers' : a \in known' /\ peers'[a] \in PeerConnection
           /\ known' \subseteq Addrs /\ DOMAIN peers \subseteq DOMAIN peers'
           /\ DOMAIN peers' \subseteq DOMAIN limits' /\ DOMAIN limits \subseteq DOMAIN limits'
           /\ \A a \in DOMAIN limits' : limits'[a] \in ConnectionLimit
           /\ \A a \in DOMAIN limits : limits'[a].failures = limits[a].failures
<1>0. /\ now \in Nat /\ \A a \in DOMAIN peers : a \in known /\ peers[a] \in PeerConnection
      /\ known \subseteq Addrs /\ DOMAIN peers \subseteq DOMAIN limits
      /\ \A a \in DOMAIN limits : limits[a] \in ConnectionLimit
  BY DEF TurnInv, PeerTypeOK
<1>1. CASE UNCHANGED <<known, limits, peers>>
  BY <1>0, <1>1
<1>2. CASE known' = known \cup {p} /\ UNCHANGED <<limits, peers>>
  BY <1>0, <1>2
<1>3. CASE known' = known \cup {p} /\ ConnectTo(p)
  <2>1. limits' = LimitAfter(p)
    BY <1>3 DEF ConnectTo
  <2>2. CASE UNCHANGED peers
    BY <1>0, <1>3, <2>1, <2>2, LimitAfterFacts
  <2>3. CASE MayConnect(p) /\ peers' = Put(peers, p, NewConnection)
    <3>1. /\ DOMAIN peers' = DOMAIN peers \cup {p} /\ peers'[p] = NewConnection
          /\ \A b \in DOMAIN peers : b # p => peers'[b] = peers[b]
      BY <2>3 DEF Put
    <3>2. p \in DOMAIN LimitAfter(p)
      BY <2>3, LimitAfterFacts DEF MayConnect
    <3>3. \A a \in DOMAIN peers' : a \in known' /\ peers'[a] \in PeerConnection
      BY <1>0, <1>3, <3>1, ConnectionTypes
    <3> QED BY <1>0, <1>3, <2>1, <3>1, <3>2, <3>3, LimitAfterFacts
  <2> QED BY <1>3, <2>2, <2>3 DEF ConnectTo
<1> QED BY <1>1, <1>2, <1>3 DEF LearnAddress

LEMMA AcceptTurn ==
    ASSUME TurnInv, NEW a \in Addrs, Accept(a)
    PROVE  TurnInv'
<1>0. /\ now \in Nat /\ \A b \in DOMAIN peers : b \in known /\ peers[b] \in PeerConnection
      /\ known \subseteq Addrs /\ DOMAIN peers \subseteq DOMAIN limits
      /\ \A b \in DOMAIN limits : limits[b] \in ConnectionLimit
      /\ \A b \in DOMAIN rates : rates[b] \in RateLimit
      /\ blacklist \subseteq Addrs
  BY DEF TurnInv, PeerTypeOK
<1>1. /\ pc = "accept" /\ pc' = "idle" /\ limits' = LimitAfter(a)
      /\ UNCHANGED <<now, todo, queue, gone, rates, blacklist>>
  BY DEF Accept
<1>2. todo = {} /\ queue = <<>> /\ gone = {} /\ queue \in Seq(Message \X Addrs) /\ DOMAIN queue = {}
  BY <1>1 DEF TurnInv
<1>3. /\ \A b \in DOMAIN peers' : b \in known' /\ peers'[b] \in PeerConnection
      /\ known' \subseteq Addrs /\ DOMAIN peers' \subseteq DOMAIN limits'
  <2>1. CASE UNCHANGED <<peers, known>>
    BY <1>0, <1>1, <2>1, LimitAfterFacts
  <2>2. CASE /\ MayConnect(a) /\ peers' = Put(peers, a, NewConnection) /\ known' = known \cup {a}
    <3>1. /\ DOMAIN peers' = DOMAIN peers \cup {a} /\ peers'[a] = NewConnection
          /\ \A b \in DOMAIN peers : b # a => peers'[b] = peers[b]
      BY <2>2 DEF Put
    <3>2. a \in DOMAIN LimitAfter(a)
      BY <2>2, LimitAfterFacts DEF MayConnect
    <3>3. \A b \in DOMAIN peers' : b \in known' /\ peers'[b] \in PeerConnection
      BY <1>0, <2>2, <3>1, ConnectionTypes
    <3> QED BY <1>0, <1>1, <2>2, <3>1, <3>2, <3>3, LimitAfterFacts
  <2> QED BY <2>1, <2>2 DEF Accept
<1>4. \A b \in DOMAIN limits' : limits'[b] \in ConnectionLimit
  BY <1>1, LimitAfterFacts
<1> QED BY <1>0, <1>1, <1>2, <1>3, <1>4 DEF TurnInv, PeerTypeOK

LEMMA ReceiveTurn ==
    ASSUME TurnInv, NEW a \in Addrs, NEW m \in Message, Receive(a, m)
    PROVE  TurnInv'
<1> DEFINE c == Refreshed(peers[a])
<1>0. /\ now \in Nat /\ \A b \in DOMAIN peers : b \in known /\ peers[b] \in PeerConnection
      /\ known \subseteq Addrs /\ todo \subseteq DOMAIN peers /\ gone \subseteq DOMAIN peers
      /\ \A b \in DOMAIN rates : rates[b] \in RateLimit
      /\ blacklist \subseteq Addrs /\ queue \in Seq(Message \X Addrs)
      /\ \A i \in DOMAIN queue : queue[i] \in Message \X DOMAIN peers
  BY DEF TurnInv, PeerTypeOK
<1>1. /\ pc = "collect" /\ pc' = "collect" /\ a \in todo /\ a \in DOMAIN peers
      /\ rates' = Put(rates, a, Counted(a)) /\ UNCHANGED <<now, known, limits>>
  BY <1>0 DEF Receive
<1>2. \A b \in DOMAIN rates' : rates'[b] \in RateLimit
  BY <1>0, <1>1, CountTypes DEF Put
<1>3. c \in PeerConnection
  BY <1>0, <1>1, ConnectionTypes
<1>4. CASE TooMany(Counted(a))
  <2>1. /\ peers' = [peers EXCEPT ![a] =
                        [c EXCEPT !.thisHour = @ + 1, !.lastMessage = now, !.banned = TRUE]]
        /\ blacklist' = blacklist \cup {a} /\ gone' = gone \cup {a} /\ todo' = todo \ {a}
        /\ UNCHANGED queue
    BY <1>4 DEF Receive, DropLoud
  <2>2. [c EXCEPT !.thisHour = @ + 1, !.lastMessage = now, !.banned = TRUE] \in PeerConnection
    BY <1>0, <1>3, ReadTypes
  <2>3. DOMAIN peers' = DOMAIN peers /\ \A b \in DOMAIN peers' : peers'[b] \in PeerConnection
    BY <1>0, <2>1, <2>2
  <2> QED BY <1>0, <1>1, <1>2, <2>1, <2>3 DEF TurnInv, PeerTypeOK
<1>5. CASE ~TooMany(Counted(a))
  <2>1. PICK beat \in {c.lastBeat, now} : peers' = [peers EXCEPT ![a] =
            [c EXCEPT !.thisHour = @ + 1, !.lastMessage = now, !.lastBeat = beat]]
    BY <1>5 DEF Receive
  <2>2. queue' = Append(queue, <<m, a>>) /\ UNCHANGED <<blacklist, gone, todo>>
    BY <1>5 DEF Receive
  <2>3. beat \in Nat
    BY <1>0, <1>3 DEF PeerConnection
  <2>4. [c EXCEPT !.thisHour = @ + 1, !.lastMessage = now, !.lastBeat = beat] \in PeerConnection
    BY <1>0, <1>3, <2>3, ReadTypes
  <2>5. DOMAIN peers' = DOMAIN peers /\ \A b \in DOMAIN peers' : peers'[b] \in PeerConnection
    BY <1>0, <2>1, <2>4
  <2>6. <<m, a>> \in Message \X Addrs /\ <<m, a>> \in Message \X DOMAIN peers
    BY <1>1
  <2>7. /\ queue' \in Seq(Message \X Addrs)
        /\ \A i \in DOMAIN queue' : queue'[i] \in Message \X DOMAIN peers'
    BY <1>0, <2>2, <2>5, <2>6
  <2> QED BY <1>0, <1>1, <1>2, <2>2, <2>5, <2>7 DEF TurnInv, PeerTypeOK
<1> QED BY <1>4, <1>5

LEMMA HandleTurn ==
    ASSUME TurnInv, Handle
    PROVE  TurnInv'
<1>0. /\ now \in Nat /\ \A b \in DOMAIN peers : b \in known /\ peers[b] \in PeerConnection
      /\ known \subseteq Addrs /\ DOMAIN peers \subseteq DOMAIN limits
      /\ gone \subseteq DOMAIN peers
      /\ \A b \in DOMAIN limits : limits[b] \in ConnectionLimit
      /\ \A b \in DOMAIN rates : rates[b] \in RateLimit
      /\ blacklist \subseteq Addrs /\ queue \in Seq(Message \X Addrs)
      /\ \A i \in DOMAIN queue : queue[i] \in Message \X DOMAIN peers
  BY DEF TurnInv, PeerTypeOK
<1>1. /\ pc = "handle" /\ pc' = "handle" /\ queue # <<>> /\ queue' = Tail(queue)
      /\ todo = {} /\ UNCHANGED <<now, todo, gone, rates, blacklist>>
  BY DEF Handle, TurnInv
<1>2. /\ queue' \in Seq(Message \X Addrs)
      /\ \A i \in DOMAIN queue' : i + 1 \in DOMAIN queue /\ queue'[i] = queue[i + 1]
  BY <1>0, <1>1
<1>3. Head(queue) \in Message \X DOMAIN peers /\ Sender \in DOMAIN peers
  <2>1. Head(queue) = queue[1] /\ 1 \in DOMAIN queue
    BY <1>0, <1>1
  <2>2. Head(queue) \in Message \X DOMAIN peers
    BY <1>0, <2>1
  <2> QED BY <2>2 DEF Sender
<1>4. /\ \A a \in DOMAIN peers' : a \in known' /\ peers'[a] \in PeerConnection
      /\ known' \subseteq Addrs /\ DOMAIN peers \subseteq DOMAIN peers'
      /\ DOMAIN peers' \subseteq DOMAIN limits'
      /\ \A a \in DOMAIN limits' : limits'[a] \in ConnectionLimit
  <2>1. CASE \E p \in Addrs : LearnAddress(p)
    BY <2>1, LearnTurn
  <2>2. CASE /\ UNCHANGED <<known, limits>>
             /\ \E told \in {{}, {Sender}, DOMAIN peers \ {Sender}} :
                  peers' = [b \in DOMAIN peers |-> IF b \in told THEN Sent(peers[b]) ELSE peers[b]]
    <3>1. DOMAIN peers' = DOMAIN peers /\ \A b \in DOMAIN peers' : peers'[b] \in PeerConnection
      BY <1>0, <2>2, ConnectionTypes
    <3> QED BY <1>0, <2>2, <3>1
  <2>3. CASE /\ UNCHANGED <<known, limits>> /\ peers' = [peers EXCEPT ![Sender].banned = TRUE]
    <3>1. [peers[Sender] EXCEPT !.banned = TRUE] \in PeerConnection
      BY <1>0, <1>3 DEF PeerConnection
    <3>2. DOMAIN peers' = DOMAIN peers /\ \A b \in DOMAIN peers' : peers'[b] \in PeerConnection
      BY <1>0, <2>3, <3>1
    <3> QED BY <1>0, <2>3, <3>2
  <2> QED BY <2>1, <2>2, <2>3 DEF Handle
<1>5. \A i \in DOMAIN queue' : queue'[i] \in Message \X DOMAIN peers'
  BY <1>0, <1>2, <1>4
<1>6. gone' \subseteq DOMAIN peers' /\ todo' \subseteq DOMAIN peers'
  BY <1>0, <1>1, <1>4
<1> QED BY <1>0, <1>1, <1>2, <1>4, <1>5, <1>6 DEF TurnInv, PeerTypeOK

LEMMA TurnStep == TurnInv /\ [Next]_vars => TurnInv'
<1> SUFFICES ASSUME TurnInv, [Next]_vars PROVE TurnInv'
  OBVIOUS
<1>0. /\ now \in Nat /\ \A b \in DOMAIN peers : b \in known /\ peers[b] \in PeerConnection
      /\ known \subseteq Addrs /\ DOMAIN peers \subseteq DOMAIN limits
      /\ todo \subseteq DOMAIN peers /\ gone \subseteq DOMAIN peers
      /\ \A b \in DOMAIN limits : limits[b] \in ConnectionLimit
      /\ \A b \in DOMAIN rates : rates[b] \in RateLimit
      /\ blacklist \subseteq Addrs /\ queue \in Seq(Message \X Addrs)
      /\ \A i \in DOMAIN queue : queue[i] \in Message \X DOMAIN peers
      /\ pc # "collect" => todo = {}
      /\ pc \in {"idle", "accept"} => queue = <<>> /\ gone = {}
      /\ pc \in {"idle", "collect", "handle", "accept"}
  BY DEF TurnInv, PeerTypeOK
<1>1. CASE StartTurn
  <2>1. PICK skipped \in SUBSET (DOMAIN peers) :
          /\ gone' = skipped /\ todo' = DOMAIN peers \ skipped
          /\ peers' = [a \in DOMAIN peers |->
                        IF a \notin skipped /\ now - peers[a].lastBeat > Heartbeat
                        THEN Sent(peers[a]) ELSE peers[a]]
    BY <1>1 DEF StartTurn
  <2>2. DOMAIN peers' = DOMAIN peers /\ \A b \in DOMAIN peers' : peers'[b] \in PeerConnection
    BY <1>0, <2>1, ConnectionTypes
  <2>3. pc = "idle" /\ pc' = "collect" /\ UNCHANGED <<now, known, queue, rates, limits, blacklist>>
    BY <1>1 DEF StartTurn, ddos
  <2> QED BY <1>0, <2>1, <2>2, <2>3 DEF TurnInv, PeerTypeOK
<1>2. CASE NothingMore
  <2>1. /\ pc = "collect" /\ pc' = "handle" /\ todo' = {}
        /\ UNCHANGED <<now, peers, known, queue, gone, rates, limits, blacklist>>
    BY <1>2 DEF NothingMore, ddos
  <2> QED BY <1>0, <2>1 DEF TurnInv, PeerTypeOK
<1>3. CASE DropGone
  <2>1. /\ pc = "handle" /\ pc' = "accept" /\ queue = <<>> /\ gone' = {}
        /\ peers' = [a \in DOMAIN peers \ gone |-> peers[a]]
        /\ UNCHANGED <<now, known, todo, queue, rates, limits, blacklist>>
    BY <1>3 DEF DropGone, ddos
  <2>2. DOMAIN queue' = {}
    BY <2>1
  <2>3. DOMAIN peers' \subseteq DOMAIN peers /\ \A b \in DOMAIN peers' : peers'[b] \in PeerConnection
    BY <1>0, <2>1
  <2> QED BY <1>0, <2>1, <2>2, <2>3 DEF TurnInv, PeerTypeOK
<1>4. CASE AcceptNone
  <2>1. /\ pc = "accept" /\ pc' = "idle"
        /\ UNCHANGED <<now, peers, known, todo, queue, gone, rates, limits, blacklist>>
    BY <1>4 DEF AcceptNone, ddos
  <2> QED BY <1>0, <2>1 DEF TurnInv, PeerTypeOK
<1>5. CASE Broadcast
  <2>1. /\ pc = "idle"
        /\ peers' = [a \in {b \in DOMAIN peers : ~Stale(peers[b])} |-> Sent(peers[a])]
        /\ UNCHANGED <<now, pc, known, todo, queue, gone, rates, limits, blacklist>>
    BY <1>5 DEF Broadcast, ddos
  <2>2. DOMAIN queue' = {} /\ todo' = {} /\ gone' = {}
    BY <1>0, <2>1
  <2>3. DOMAIN peers' \subseteq DOMAIN peers /\ \A b \in DOMAIN peers' : peers'[b] \in PeerConnection
    BY <1>0, <2>1, ConnectionTypes
  <2> QED BY <1>0, <2>1, <2>2, <2>3 DEF TurnInv, PeerTypeOK
<1>6. CASE Tick
  <2>1. /\ now' = now + 1
        /\ UNCHANGED <<pc, peers, known, todo, queue, gone, rates, limits, blacklist>>
    BY <1>6 DEF Tick, ddos
  <2> QED BY <1>0, <2>1 DEF TurnInv, PeerTypeOK
<1>7. ASSUME NEW a \in Addrs, Refuse(a) PROVE TurnInv'
  <2>1. /\ pc = "collect" /\ a \in todo /\ todo' = todo \ {a}
        /\ UNCHANGED <<now, pc, known, queue, gone, rates, limits, blacklist>>
    BY <1>7 DEF Refuse, ddos
  <2> DEFINE c == Refreshed(peers[a])
  <2>2. c \in PeerConnection
    BY <1>0, <2>1, ConnectionTypes
  <2>3. \/ peers' = [peers EXCEPT ![a] = [c EXCEPT !.banned = TRUE]]
        \/ peers' = [peers EXCEPT ![a] =
              [c EXCEPT !.thisHour = @ + 1, !.lastMessage = now, !.banned = TRUE]]
    BY <1>7 DEF Refuse
  <2> HIDE DEF c
  <2>4. DOMAIN peers' = DOMAIN peers /\ \A b \in DOMAIN peers' : peers'[b] \in PeerConnection
    <3>1. /\ [c EXCEPT !.banned = TRUE] \in PeerConnection
          /\ [c EXCEPT !.thisHour = @ + 1, !.lastMessage = now, !.banned = TRUE] \in PeerConnection
      BY <1>0, <2>2, ReadTypes
    <3> QED BY <1>0, <2>3, <3>1
  <2> QED BY <1>0, <2>1, <2>4 DEF TurnInv, PeerTypeOK
<1>8. ASSUME NEW a \in Addrs, Fail(a) PROVE TurnInv'
  <2>1. /\ pc = "collect" /\ a \in todo /\ todo' = todo \ {a} /\ gone' = gone \cup {a}
        /\ limits' = [limits EXCEPT ![a] = FailureOf(a)]
        /\ blacklist' \subseteq blacklist \cup {a}
        /\ UNCHANGED <<now, pc, peers, known, queue, rates>>
    BY <1>8 DEF Fail
  <2>2. FailureOf(a) \in ConnectionLimit
    <3>1. limits[a] \in ConnectionLimit
      BY <1>0, <2>1
    <3> QED BY <3>1 DEF FailureOf, ConnectionLimit
  <2>3. DOMAIN limits' = DOMAIN limits /\ \A b \in DOMAIN limits' : limits'[b] \in ConnectionLimit
    BY <1>0, <2>1, <2>2
  <2> QED BY <1>0, <2>1, <2>3 DEF TurnInv, PeerTypeOK
<1>9. CASE UNCHANGED vars
  <2>1. UNCHANGED <<now, pc, peers, known, todo, queue, gone, rates, limits, blacklist>>
    BY <1>9 DEF vars
  <2> QED BY <1>0, <2>1 DEF TurnInv, PeerTypeOK
<1> QED BY <1>1, <1>2, <1>3, <1>4, <1>5, <1>6, <1>7, <1>8, <1>9, HandleTurn, ReceiveTurn,
           AcceptTurn DEF Next

-----------------------------------------------------------------------------
(* The rate limits never count more than was heard: a window that is not     *)
(* over has at most as many requests as there were messages since it began;  *)
(* what is forgotten of the history is from before every such window.        *)
Heard(r, a, s, t) ==
    /\ r.minuteStart <= t /\ r.hourStart <= t
    /\ t - r.minuteStart <= Minute =>
         r.minuteRequests <= Cardinality(From(s, a, r.minuteStart))
    /\ t - r.hourStart <= Hour => r.requests <= Cardinality(From(s, a, r.hourStart))
HeardInv ==
    /\ heard \subseteq Addrs \X Nat \X Nat /\ IsFiniteSet(heard)
    /\ \A a \in DOMAIN rates : Heard(rates[a], a, heard, now)

(* Why an address is listed.                                                 *)
ListedInv ==
    \A a \in blacklist :
        \/ a \in loud
        \/ a \in DOMAIN limits /\ limits[a].failures > MaxFailures

LEMMA FromFacts ==
    ASSUME NEW s, IsFiniteSet(s), NEW a, NEW t
    PROVE  /\ IsFiniteSet(From(s, a, t)) /\ Cardinality(From(s, a, t)) \in Nat
           /\ \A u : From(s, a, u) \subseteq From(s, a, t) =>
                Cardinality(From(s, a, u)) <= Cardinality(From(s, a, t))
<1>1. From(s, a, t) \subseteq s
  BY DEF From
<1>2. IsFiniteSet(From(s, a, t))
  BY <1>1, FS_Subset
<1> QED BY <1>2, FS_Subset, FS_CardinalityType

(* There is a number left for another message.                               *)
LEMMA NewMessageFacts ==
    ASSUME HeardInv, Cardinality(heard) < MaxHeard, NEW a \in Addrs, now \in Nat
    PROVE  /\ NewMessage(a) \notin heard /\ NewMessage(a) \in Addrs \X Nat \X Nat
           /\ NewMessage(a)[1] = a /\ NewMessage(a)[2] = now
<1> DEFINE M == {a} \X {now} \X (0..MaxHeard)
<1>1. IsFiniteSet(heard) /\ Cardinality(heard) \in Nat /\ MaxHeard \in Nat
  BY ConstantFacts, FS_CardinalityType DEF HeardInv
<1>2. \E m \in M : m \notin heard
  <2> SUFFICES ASSUME M \subseteq heard PROVE FALSE
    OBVIOUS
  <2> DEFINE f == [n \in 0..MaxHeard |-> <<a, now, n>>]
  <2>1. f \in Injection(0..MaxHeard, M)
    BY DEF Injection, IsInjective
  <2>2. IsFiniteSet(0..MaxHeard) /\ Cardinality(0..MaxHeard) = MaxHeard + 1
    BY <1>1, FS_Interval
  <2>3. IsFiniteSet(M) /\ Cardinality(M) <= Cardinality(heard)
    BY <1>1, FS_Subset
  <2> HIDE DEF M, f
  <2>4. Cardinality(0..MaxHeard) <= Cardinality(M)
    BY <2>1, <2>3, FS_Injection
  <2>5. Cardinality(M) \in Nat
    BY <2>3, FS_CardinalityType
  <2> QED BY <1>1, <2>2, <2>3, <2>4, <2>5
<1>3. NewMessage(a) \in M /\ NewMessage(a) \notin heard
  BY <1>2 DEF NewMessage
<1> QED BY <1>1, <1>3

(* A message of another address.                                             *)
LEMMA OtherFrom ==
    ASSUME NEW s, NEW a, NEW m, m[1] # a, NEW t
    PROVE  From(s \cup {m}, a, t) = From(s, a, t)
BY DEF From

(* check_rate_limit counts the message; its windows are not over.            *)
LEMMA CountedHeard ==
    ASSUME TurnInv, HeardInv, NEW a \in Addrs,
           NEW m, m \notin heard, m[1] = a, m[2] = now
    PROVE  LET c == Counted(a)
               s == heard \cup {m}
           IN  /\ Heard(c, a, s, now)
               /\ now - c.minuteStart <= Minute /\ now - c.hourStart <= Hour
<1> DEFINE r == RateOf(a)
           c == Counted(a)
           s == heard \cup {m}
<1>0. /\ now \in Nat /\ IsFiniteSet(heard) /\ Minute \in Nat /\ Hour \in Nat
      /\ r \in RateLimit /\ c \in RateLimit
  BY CountTypes, ConstantFacts DEF TurnInv, PeerTypeOK, HeardInv
<1>1. /\ r.requests \in Nat /\ r.hourStart \in Nat /\ r.minuteRequests \in Nat /\ r.minuteStart \in Nat
  BY <1>0 DEF RateLimit
<1>2. Heard(r, a, heard, now)
  <2>1. CASE a \in DOMAIN rates
    BY <2>1 DEF HeardInv, RateOf
  <2>2. CASE a \notin DOMAIN rates
    <3>1. r = [requests |-> 0, hourStart |-> now, minuteRequests |-> 0, minuteStart |-> now]
      BY <2>2 DEF RateOf
    <3>2. /\ r.requests = 0 /\ r.hourStart = now /\ r.minuteRequests = 0 /\ r.minuteStart = now
      BY <3>1
    <3>3. Cardinality(From(heard, a, now)) \in Nat
      BY <1>0, FromFacts
    <3> QED BY <1>0, <3>2, <3>3 DEF Heard
  <2> QED BY <2>1, <2>2
<1>3. /\ c.requests = IF now - r.hourStart > Hour THEN 1 ELSE r.requests + 1
      /\ c.hourStart = IF now - r.hourStart > Hour THEN now ELSE r.hourStart
      /\ c.minuteRequests = IF now - r.minuteStart > Minute THEN 1 ELSE r.minuteRequests + 1
      /\ c.minuteStart = IF now - r.minuteStart > Minute THEN now ELSE r.minuteStart
  BY DEF Counted
<1> HIDE DEF r, c
<1>11. ASSUME NEW t \in Nat, t <= now
       PROVE  /\ Cardinality(From(s, a, t)) = Cardinality(From(heard, a, t)) + 1
              /\ Cardinality(From(heard, a, t)) \in Nat
  <2>1. m[2] \in Nat /\ t <= m[2]
    BY <1>0, <1>11
  <2>2. From(s, a, t) = From(heard, a, t) \cup {m} /\ m \notin From(heard, a, t)
    BY <2>1 DEF From
  <2>3. IsFiniteSet(From(heard, a, t)) /\ Cardinality(From(heard, a, t)) \in Nat
    BY <1>0, FromFacts
  <2> QED BY <2>2, <2>3, FS_AddElement
<1> HIDE DEF s
<1>4. /\ c.minuteStart <= now /\ now - c.minuteStart <= Minute
      /\ c.minuteRequests <= Cardinality(From(s, a, c.minuteStart))
  <2>1. CASE now - r.minuteStart > Minute
    <3>1. Cardinality(From(s, a, now)) = Cardinality(From(heard, a, now)) + 1
      BY <1>0, <1>11
    <3>2. Cardinality(From(heard, a, now)) \in Nat
      BY <1>0, FromFacts
    <3>3. c.minuteStart = now /\ c.minuteRequests = 1
      BY <1>3, <2>1
    <3> QED BY <1>0, <3>1, <3>2, <3>3
  <2>2. CASE ~(now - r.minuteStart > Minute)
    <3>1. r.minuteStart <= now /\ now - r.minuteStart <= Minute
      BY <1>0, <1>1, <1>2, <2>2 DEF Heard
    <3>2. r.minuteRequests <= Cardinality(From(heard, a, r.minuteStart))
      BY <1>2, <3>1 DEF Heard
    <3>3. Cardinality(From(s, a, r.minuteStart)) = Cardinality(From(heard, a, r.minuteStart)) + 1
      BY <1>0, <1>1, <3>1, <1>11
    <3>4. Cardinality(From(heard, a, r.minuteStart)) \in Nat
      BY <1>0, FromFacts
    <3>5. c.minuteStart = r.minuteStart /\ c.minuteRequests = r.minuteRequests + 1
      BY <1>3, <2>2
    <3> QED BY <1>1, <3>1, <3>2, <3>3, <3>4, <3>5
  <2> QED BY <2>1, <2>2
<1>5. /\ c.hourStart <= now /\ now - c.hourStart <= Hour
      /\ c.requests <= Cardinality(From(s, a, c.hourStart))
  <2>1. CASE now - r.hourStart > Hour
    <3>1. Cardinality(From(s, a, now)) = Cardinality(From(heard, a, now)) + 1
      BY <1>0, <1>11
    <3>2. Cardinality(From(heard, a, now)) \in Nat
      BY <1>0, FromFacts
    <3>3. c.hourStart = now /\ c.requests = 1
      BY <1>3, <2>1
    <3> QED BY <1>0, <3>1, <3>2, <3>3
  <2>2. CASE ~(now - r.hourStart > Hour)
    <3>1. r.hourStart <= now /\ now - r.hourStart <= Hour
      BY <1>0, <1>1, <1>2, <2>2 DEF Heard
    <3>2. r.requests <= Cardinality(From(heard, a, r.hourStart))
      BY <1>2, <3>1 DEF Heard
    <3>3. Cardinality(From(s, a, r.hourStart)) = Cardinality(From(heard, a, r.hourStart)) + 1
      BY <1>0, <1>1, <3>1, <1>11
    <3>4. Cardinality(From(heard, a, r.hourStart)) \in Nat
      BY <1>0, FromFacts
    <3>5. c.hourStart = r.hourStart /\ c.requests = r.requests + 1
      BY <1>3, <2>2
    <3> QED BY <1>1, <3>1, <3>2, <3>3, <3>4, <3>5
  <2> QED BY <2>1, <2>2
<1> QED BY <1>4, <1>5 DEF Heard, c, s

(* An address that is counted too often was too loud.                        *)
LEMMA TooManyIsLoud ==
    ASSUME NEW c \in RateLimit, NEW a, NEW s, IsFiniteSet(s), now \in Nat,
           \A m \in s : m[2] \in Nat, Heard(c, a, s, now), now - c.minuteStart <= Minute, now - c.hourStart <= Hour,
           TooMany(c)
    PROVE  \/ Cardinality(From(s, a, now - Hour)) > PerHour
           \/ Cardinality(From(s, a, now - Minute)) > PerMinute
<1>0. /\ c.requests \in Nat /\ c.hourStart \in Nat /\ c.minuteRequests \in Nat /\ c.minuteStart \in Nat
      /\ Minute \in Nat /\ Hour \in Nat /\ PerMinute \in Nat /\ PerHour \in Nat
  BY ConstantFacts DEF RateLimit
<1>1. CASE c.requests > PerHour
  <2>1. c.requests <= Cardinality(From(s, a, c.hourStart))
    BY DEF Heard
  <2>2. From(s, a, c.hourStart) \subseteq From(s, a, now - Hour)
    <3> SUFFICES ASSUME NEW m \in s, m[1] = a, m[2] >= c.hourStart PROVE m[2] >= now - Hour
      BY DEF From
    <3> QED BY <1>0
  <2>3. /\ Cardinality(From(s, a, c.hourStart)) <= Cardinality(From(s, a, now - Hour))
        /\ Cardinality(From(s, a, c.hourStart)) \in Nat
        /\ Cardinality(From(s, a, now - Hour)) \in Nat
    BY <2>2, FromFacts
  <2> QED BY <1>0, <1>1, <2>1, <2>3
<1>2. CASE c.minuteRequests > PerMinute
  <2>1. c.minuteRequests <= Cardinality(From(s, a, c.minuteStart))
    BY DEF Heard
  <2>2. From(s, a, c.minuteStart) \subseteq From(s, a, now - Minute)
    <3> SUFFICES ASSUME NEW m \in s, m[1] = a, m[2] >= c.minuteStart PROVE m[2] >= now - Minute
      BY DEF From
    <3> QED BY <1>0
  <2>3. /\ Cardinality(From(s, a, c.minuteStart)) <= Cardinality(From(s, a, now - Minute))
        /\ Cardinality(From(s, a, c.minuteStart)) \in Nat
        /\ Cardinality(From(s, a, now - Minute)) \in Nat
    BY <2>2, FromFacts
  <2> QED BY <1>0, <1>2, <2>1, <2>3
<1> QED BY <1>1, <1>2 DEF TooMany

LEMMA ReceiveHeard ==
    ASSUME TurnInv, HeardInv, ListedInv, NEW a \in Addrs, NEW k \in Message, Receive(a, k)
    PROVE  HeardInv' /\ ListedInv'
<1> DEFINE m == NewMessage(a)
           c == Counted(a)
<1>0. /\ now \in Nat /\ now' = now /\ limits' = limits /\ rates' = Put(rates, a, c)
      /\ heard' = heard \cup {m} /\ loud \subseteq loud'
      /\ Cardinality(heard) < MaxHeard
  BY DEF TurnInv, PeerTypeOK, Receive, Hear
<1>1. m \notin heard /\ m \in Addrs \X Nat \X Nat /\ m[1] = a /\ m[2] = now
  BY <1>0, NewMessageFacts
<1>2. c \in RateLimit
  BY CountTypes
<1> HIDE DEF m
<1>3. Heard(c, a, heard', now) /\ now - c.minuteStart <= Minute /\ now - c.hourStart <= Hour
  BY <1>0, <1>1, CountedHeard
<1> HIDE DEF c
<1>4. heard' \subseteq Addrs \X Nat \X Nat /\ IsFiniteSet(heard')
  BY <1>0, <1>1, FS_AddElement DEF HeardInv
<1>5. ASSUME NEW b \in DOMAIN rates' PROVE Heard(rates'[b], b, heard', now')
  <2>1. CASE b = a
    BY <1>0, <1>3, <2>1 DEF Put
  <2>2. CASE b # a
    <3>1. b \in DOMAIN rates /\ rates'[b] = rates[b]
      BY <1>0, <1>5, <2>2 DEF Put
    <3>2. Heard(rates[b], b, heard, now)
      BY <3>1 DEF HeardInv
    <3>3. \A t : From(heard', b, t) = From(heard, b, t)
      BY <1>0, <1>1, <2>2, OtherFrom
    <3> QED BY <1>0, <3>1, <3>2, <3>3 DEF Heard
  <2> QED BY <2>1, <2>2
<1>6. TooMany(c) => a \in loud'
  <2> SUFFICES ASSUME TooMany(c) PROVE a \in loud'
    OBVIOUS
  <2>0. \A x \in heard' : x[2] \in Nat
    BY <1>4
  <2>1. \/ Cardinality(From(heard', a, now - Hour)) > PerHour
        \/ Cardinality(From(heard', a, now - Minute)) > PerMinute
    BY <1>0, <1>2, <1>3, <1>4, <2>0, TooManyIsLoud
  <2> QED BY <2>1 DEF Receive, Hear
<1>7. blacklist' \subseteq blacklist \cup {a} /\ (TooMany(c) \/ blacklist' = blacklist)
  BY DEF Receive, DropLoud, c
<1>8. ListedInv'
  BY <1>0, <1>6, <1>7 DEF ListedInv
<1> QED BY <1>4, <1>5, <1>8 DEF HeardInv

LEMMA FailListed ==
    ASSUME TurnInv, ListedInv, NEW a \in Addrs, Fail(a)
    PROVE  ListedInv'
<1>1. /\ limits' = [limits EXCEPT ![a] = FailureOf(a)]
      /\ blacklist' = IF limits[a].failures + 1 > MaxFailures
                      THEN blacklist \cup {a} ELSE blacklist
      /\ UNCHANGED loud
  BY DEF Fail, history
<1>2. a \in DOMAIN limits /\ limits[a] \in ConnectionLimit
  BY DEF Fail, TurnInv, PeerTypeOK
<1>3. limits[a].failures \in Nat /\ FailureOf(a).failures = limits[a].failures + 1
  BY <1>2 DEF FailureOf, ConnectionLimit
<1>4. DOMAIN limits' = DOMAIN limits /\ limits'[a].failures = limits[a].failures + 1
  BY <1>1, <1>2, <1>3
<1>5. \A b \in DOMAIN limits : b # a => limits'[b] = limits[b]
  BY <1>1
<1> SUFFICES ASSUME NEW b \in blacklist'
             PROVE  b \in loud' \/ (b \in DOMAIN limits' /\ limits'[b].failures > MaxFailures)
  BY DEF ListedInv
<1>6. MaxFailures \in Nat
  BY ConstantFacts
<1>7. CASE b \in blacklist
  <2>1. CASE b = a
    BY <1>1, <1>2, <1>3, <1>4, <1>6, <1>7, <2>1 DEF ListedInv
  <2>2. CASE b # a
    BY <1>1, <1>4, <1>5, <1>7, <2>2 DEF ListedInv
  <2> QED BY <2>1, <2>2
<1>8. CASE b \notin blacklist
  BY <1>1, <1>2, <1>4, <1>8
<1> QED BY <1>7, <1>8

LEMMA TickHeard ==
    ASSUME TurnInv, HeardInv, ListedInv, Tick
    PROVE  HeardInv' /\ ListedInv'
<1>1. /\ now' = now + 1 /\ heard' = {m \in heard : now' - m[2] <= Hour}
      /\ UNCHANGED <<rates, limits, blacklist, loud>>
      /\ now \in Nat /\ now' \in Nat
  BY DEF Tick, ddos, TurnInv, PeerTypeOK
<1>2. heard' \subseteq heard /\ IsFiniteSet(heard')
  BY <1>1, FS_Subset DEF HeardInv
<1>3. \A b : \A t \in Nat : now' - t <= Hour => From(heard', b, t) = From(heard, b, t)
  <2> SUFFICES ASSUME NEW b, NEW t \in Nat, now' - t <= Hour, NEW m \in heard, m[2] >= t
               PROVE  now' - m[2] <= Hour
    BY <1>1 DEF From
  <2>1. m[2] \in Nat
    BY DEF HeardInv
  <2> QED BY <1>1, <2>1, ConstantFacts
<1>4. ASSUME NEW b \in DOMAIN rates PROVE Heard(rates[b], b, heard', now')
  <2> DEFINE r == rates[b]
  <2>1. Heard(r, b, heard, now) /\ r \in RateLimit
    BY DEF HeardInv, TurnInv, PeerTypeOK
  <2> HIDE DEF r
  <2>2. r.minuteStart \in Nat /\ r.hourStart \in Nat
    BY <2>1 DEF RateLimit
  <2>3. r.minuteStart <= now' /\ r.hourStart <= now'
    BY <1>1, <2>1, <2>2 DEF Heard
  <2>4. ASSUME now' - r.minuteStart <= Minute
        PROVE  r.minuteRequests <= Cardinality(From(heard', b, r.minuteStart))
    <3>1. now - r.minuteStart <= Minute /\ now' - r.minuteStart <= Hour
      BY <1>1, <2>2, <2>4, ConstantFacts
    <3>2. From(heard', b, r.minuteStart) = From(heard, b, r.minuteStart)
      BY <1>3, <2>2, <3>1
    <3> QED BY <2>1, <3>1, <3>2 DEF Heard
  <2>5. ASSUME now' - r.hourStart <= Hour
        PROVE  r.requests <= Cardinality(From(heard', b, r.hourStart))
    <3>1. now - r.hourStart <= Hour
      BY <1>1, <2>2, <2>5, ConstantFacts
    <3>2. From(heard', b, r.hourStart) = From(heard, b, r.hourStart)
      BY <1>3, <2>2, <2>5
    <3> QED BY <2>1, <3>1, <3>2 DEF Heard
  <2> QED BY <2>3, <2>4, <2>5 DEF Heard, r
<1> QED BY <1>1, <1>2, <1>4 DEF HeardInv, ListedInv

(* What counts no message and lists nobody.                                  *)
LEMMA QuietHeard ==
    ASSUME TurnInv, HeardInv, ListedInv, UNCHANGED <<now, rates, heard, loud, blacklist>>,
           DOMAIN limits \subseteq DOMAIN limits',
           \A a \in DOMAIN limits : limits'[a].failures = limits[a].failures
    PROVE  HeardInv' /\ ListedInv'
BY DEF HeardInv, ListedInv

LEMMA HeardStep == TurnInv /\ HeardInv /\ ListedInv /\ [Next]_vars => HeardInv' /\ ListedInv'
<1> SUFFICES ASSUME TurnInv, HeardInv, ListedInv, [Next]_vars PROVE HeardInv' /\ ListedInv'
  OBVIOUS
<1>1. CASE Handle
  <2>1. UNCHANGED <<now, rates, heard, loud, blacklist>>
    BY <1>1 DEF Handle, history
  <2>2. UNCHANGED limits \/ \E p \in Addrs : LearnAddress(p)
    BY <1>1 DEF Handle
  <2> QED BY <2>1, <2>2, LearnTurn, QuietHeard
<1>2. ASSUME NEW a \in Addrs, Accept(a) PROVE HeardInv' /\ ListedInv'
  <2>1. UNCHANGED <<now, rates, heard, loud, blacklist>> /\ limits' = LimitAfter(a)
    BY <1>2 DEF Accept, history
  <2> QED BY <2>1, LimitAfterFacts, QuietHeard
<1>3. CASE \/ StartTurn \/ NothingMore \/ DropGone \/ AcceptNone \/ Broadcast
           \/ UNCHANGED vars \/ \E a \in Addrs : Refuse(a)
  <2>1. UNCHANGED <<now, rates, heard, loud, blacklist, limits>>
    BY <1>3 DEF StartTurn, NothingMore, DropGone, AcceptNone, Broadcast, Refuse, vars, ddos, history
  <2> QED BY <2>1, QuietHeard
<1>4. ASSUME NEW a \in Addrs, Fail(a) PROVE HeardInv' /\ ListedInv'
  <2>1. UNCHANGED <<now, rates, heard, loud>>
    BY <1>4 DEF Fail, history
  <2> QED BY <1>4, <2>1, FailListed DEF HeardInv
<1> QED BY <1>1, <1>2, <1>3, <1>4, ReceiveHeard, TickHeard DEF Next

LEMMA HeardInit == Init => HeardInv /\ ListedInv
<1> SUFFICES ASSUME Init PROVE HeardInv /\ ListedInv
  OBVIOUS
<1>1. heard = {} /\ DOMAIN rates = {} /\ blacklist = {}
  BY DEF Init, NewNode
<1> QED BY <1>1, FS_EmptySet DEF HeardInv, ListedInv

(* For any addresses, limits, windows and order of messages: the types; what *)
(* a turn reads, handles and drops are connections until it drops them       *)
(* (process_messages, handle_message, accept_connections).                   *)
THEOREM PeerTypeCorrect == Spec => []PeerTypeOK
<1>1. TurnInv => PeerTypeOK
  BY DEF TurnInv
<1> QED BY TurnInit, TurnStep, <1>1, PTL DEF Spec

(* For any addresses, limits and windows, of which the minute is not the     *)
(* longer one: check_rate_limit and record_failure never list an address     *)
(* that kept to the limits and whose streams did not break too often.        *)
THEOREM CompliantSafe == Spec => []CompliantNotBlacklisted
<1>1. ListedInv => CompliantNotBlacklisted
  BY DEF ListedInv, CompliantNotBlacklisted
<1> QED BY TurnInit, TurnStep, HeardInit, HeardStep, <1>1, PTL DEF Spec
=============================================================================
