----------------------------- MODULE PeerTable -----------------------------
(***************************************************************************)
(* The connections of a node: PeerConnection, P2PNode and DDoSProtection.  *)
(* One turn of the main loop collects the messages of every connection,    *)
(* handles them, drops the connections noted while collecting, and accepts *)
(* one connection; then time passes and the node may broadcast.  A handler *)
(* is taken to get the node lock, as in BlockSync.                         *)
(*                                                                         *)
(* What arrives from a peer is one of: "data", a message that may be       *)
(* answered or relayed; an address, for Peers; "bad", which its handler    *)
(* bans for; "refused", which receive_message bans for; "error", a broken  *)
(* stream or frame.  attack_mode and ip_whitelist never change, and        *)
(* banned_peers stays empty.                                               *)
(***************************************************************************)
EXTENDS Integers, Sequences, FiniteSets

CONSTANTS
    Addrs,       \* addresses, of type SocketAddr
    Bootnodes,   \* addresses connected to at the start
    Callers,     \* addresses that connections come from
    MaxPeers,    \* MAX_PEERS
    Minute, Hour,            \* 60 and 3600 seconds
    PerMinute, PerHour,      \* messages DDoSProtection allows an address
    PerConnection,           \* MAX_MESSAGES_PER_HOUR of one connection
    MaxConnections,          \* connections of an address in a minute
    MaxFailures,             \* broken streams before the blacklist
    PeerTimeout, Heartbeat,  \* PEER_TIMEOUT_SECS, 30 seconds
    MaxNow,      \* bound: the clock
    MaxHeard     \* bound: messages in an hour, of all addresses together

ASSUME PeerAssumption ==
    /\ Bootnodes \subseteq Addrs /\ Callers \subseteq Addrs /\ IsFiniteSet(Addrs)
    /\ MaxPeers \in Nat /\ Cardinality(Bootnodes) <= MaxPeers
    /\ {Minute, Hour, PerMinute, PerHour, PerConnection, MaxConnections, MaxFailures,
        PeerTimeout, Heartbeat, MaxNow, MaxHeard} \subseteq Nat
    /\ Minute <= Hour

VARIABLES
    now,       \* current_timestamp
    pc,        \* where the main loop is
    peers,     \* P2PNode.peers
    known,     \* P2PNode.known_peers
    todo,      \* connections not read yet in this turn
    queue,     \* messages_to_handle
    gone,      \* disconnected
    rates,     \* DDoSProtection.rate_limits
    limits,    \* DDoSProtection.connection_limits
    blacklist, \* DDoSProtection.ip_blacklist
    heard,     \* history: the messages of the last hour, each with the address
               \* it came from, its time and a number
    loud       \* history: addresses that sent more than is allowed

ddos == <<rates, limits, blacklist>>
history == <<heard, loud>>
vars == <<now, pc, peers, known, todo, queue, gone, rates, limits, blacklist, heard, loud>>

PeerConnection == [lastMessage : Nat, lastBeat : Nat, hourStart : Nat, thisHour : Nat,
                   banned : BOOLEAN]
RateLimit == [requests : Nat, hourStart : Nat, minuteRequests : Nat, minuteStart : Nat]
ConnectionLimit == [connections : Nat, lastReset : Nat, failures : Nat]

NewConnection == [lastMessage |-> now, lastBeat |-> now, hourStart |-> now,
                  thisHour |-> 0, banned |-> FALSE]
Message == {"data", "bad"} \cup Addrs
Put(f, a, v) == [b \in DOMAIN f \cup {a} |-> IF b = a THEN v ELSE f[b]]
Stale(c) == now - c.lastMessage > PeerTimeout
Sent(c) == IF c.banned THEN c ELSE [c EXCEPT !.lastMessage = now]

-----------------------------------------------------------------------------
(* DDoSProtection.                                                           *)

(* check_rate_limit, for an address that is not on the blacklist.            *)
(* Variant: the minute's count is never reset.                               *)
RateOf(a) == IF a \in DOMAIN rates THEN rates[a]
             ELSE [requests |-> 0, hourStart |-> now, minuteRequests |-> 0, minuteStart |-> now]
CountedNoMinute(a) ==
    LET r == RateOf(a) IN
    [requests    |-> IF now - r.hourStart > Hour THEN 1 ELSE r.requests + 1,
     hourStart   |-> IF now - r.hourStart > Hour THEN now ELSE r.hourStart,
     minuteRequests |-> r.minuteRequests + 1,
     minuteStart |-> r.minuteStart]
Counted(a) ==
    LET r == RateOf(a) IN
    [requests    |-> IF now - r.hourStart > Hour THEN 1 ELSE r.requests + 1,
     hourStart   |-> IF now - r.hourStart > Hour THEN now ELSE r.hourStart,
     minuteRequests |-> IF now - r.minuteStart > Minute THEN 1 ELSE r.minuteRequests + 1,
     minuteStart |-> IF now - r.minuteStart > Minute THEN now ELSE r.minuteStart]
TooMany(r) == r.requests > PerHour \/ r.minuteRequests > PerMinute

(* check_connection_limit.                                                   *)
LimitOf(a) ==
    LET l == IF a \in DOMAIN limits THEN limits[a]
             ELSE [connections |-> 0, lastReset |-> now, failures |-> 0]
    IN  IF now - l.lastReset > Minute
        THEN [l EXCEPT !.connections = 0, !.lastReset = now] ELSE l
MayConnect(a) == a \notin blacklist /\ LimitOf(a).connections < MaxConnections
LimitAfter(a) ==
    IF a \in blacklist THEN limits
    ELSE Put(limits, a, IF MayConnect(a) THEN [LimitOf(a) EXCEPT !.connections = @ + 1]
                        ELSE LimitOf(a))

(* record_failure; a connected address has an entry.                         *)
FailureOf(a) == [limits[a] EXCEPT !.failures = @ + 1]

-----------------------------------------------------------------------------
(* process_messages: the messages of each connection.                        *)

(* A banned or stale connection is not read.  A ping renews lastMessage too. *)
StartTurn ==
    /\ pc = "idle"
    /\ LET skipped == {a \in DOMAIN peers : peers[a].banned \/ Stale(peers[a])} IN
         /\ gone' = skipped
         /\ todo' = DOMAIN peers \ skipped
         /\ peers' = [a \in DOMAIN peers |->
                        IF a \notin skipped /\ now - peers[a].lastBeat > Heartbeat
                        THEN Sent(peers[a]) ELSE peers[a]]
    /\ pc' = "collect"
    /\ UNCHANGED <<now, known, queue, ddos, history>>

(* PeerConnection::check_rate_limit.                                         *)
Refreshed(c) == IF now - c.hourStart > Hour
                THEN [c EXCEPT !.thisHour = 0, !.hourStart = now] ELSE c

(* A message that the connection's own limit lets through counts for the     *)
(* address; if that is too much the address is on the blacklist.             *)
(* Variant: the connection stays.                                            *)
From(s, a, t) == {m \in s : m[1] = a /\ m[2] >= t}
NewMessage(a) == CHOOSE m \in {a} \X {now} \X (0..MaxHeard) : m \notin heard
Hear(a) ==
    /\ Cardinality(heard) < MaxHeard
    /\ heard' = heard \cup {NewMessage(a)}
    /\ loud' = IF \/ Cardinality(From(heard', a, now - Hour)) > PerHour
                  \/ Cardinality(From(heard', a, now - Minute)) > PerMinute
               THEN loud \cup {a} ELSE loud
DropLoudKept(a) ==
    /\ blacklist' = blacklist \cup {a}
    /\ todo' = todo \ {a}
    /\ UNCHANGED gone
DropLoud(a) ==
    /\ blacklist' = blacklist \cup {a}
    /\ gone' = gone \cup {a} /\ todo' = todo \ {a}

Receive(a, m) ==
    /\ pc = "collect" /\ a \in todo
    /\ LET c == Refreshed(peers[a]) IN
         /\ c.thisHour < PerConnection
         /\ rates' = Put(rates, a, Counted(a))
         /\ IF TooMany(Counted(a))
            THEN /\ peers' = [peers EXCEPT ![a] =
                        [c EXCEPT !.thisHour = @ + 1, !.lastMessage = now, !.banned = TRUE]]
                 /\ DropLoud(a)
                 /\ UNCHANGED queue
            ELSE /\ \E beat \in {c.lastBeat} \cup IF m = "data" THEN {now} ELSE {} :
                      peers' = [peers EXCEPT ![a] =
                        [c EXCEPT !.thisHour = @ + 1, !.lastMessage = now, !.lastBeat = beat]]
                 /\ queue' = Append(queue, <<m, a>>)
                 /\ UNCHANGED <<blacklist, gone, todo>>
    /\ Hear(a)
    /\ UNCHANGED <<now, pc, known, limits>>

(* The connection's limit, or what it sent, has it banned and read no more.  *)
(* It is dropped in the next turn.                                           *)
Refuse(a) ==
    /\ pc = "collect" /\ a \in todo
    /\ LET c == Refreshed(peers[a]) IN
         \/ /\ c.thisHour >= PerConnection
            /\ peers' = [peers EXCEPT ![a] = [c EXCEPT !.banned = TRUE]]
         \/ /\ c.thisHour < PerConnection
            /\ peers' = [peers EXCEPT ![a] =
                  [c EXCEPT !.thisHour = @ + 1, !.lastMessage = now, !.banned = TRUE]]
    /\ todo' = todo \ {a}
    /\ UNCHANGED <<now, pc, known, queue, gone, ddos, history>>

(* A broken stream.  Variant: the connection is removed at once.             *)
FailAtOnce(a) ==
    /\ pc = "collect" /\ a \in todo
    /\ limits' = [limits EXCEPT ![a] = FailureOf(a)]
    /\ blacklist' = IF limits[a].failures + 1 > MaxFailures
                    THEN blacklist \cup {a} ELSE blacklist
    /\ peers' = [b \in DOMAIN peers \ {a} |-> peers[b]] /\ todo' = todo \ {a}
    /\ UNCHANGED <<now, pc, known, queue, gone, rates, history>>
Fail(a) ==
    /\ pc = "collect" /\ a \in todo
    /\ limits' = [limits EXCEPT ![a] = FailureOf(a)]
    /\ blacklist' = IF limits[a].failures + 1 > MaxFailures
                    THEN blacklist \cup {a} ELSE blacklist
    /\ gone' = gone \cup {a} /\ todo' = todo \ {a}
    /\ UNCHANGED <<now, pc, peers, known, queue, rates, history>>

-----------------------------------------------------------------------------
(* handle_message, on what was collected; then the connections are dropped.  *)

Sender == Head(queue)[2]

(* connect_to, which may fail after check_connection_limit has counted it.   *)
ConnectTo(p) ==
    /\ limits' = LimitAfter(p)
    /\ \/ MayConnect(p) /\ peers' = Put(peers, p, NewConnection)
       \/ UNCHANGED peers

(* Peers: an address is tried once, when it is first heard of.               *)
(* Variant: MAX_PEERS is not looked at.                                      *)
LearnAddressAny(p) ==
    IF p \in known \cup DOMAIN peers THEN UNCHANGED <<known, limits, peers>>
    ELSE known' = known \cup {p} /\ ConnectTo(p)
LearnAddress(p) ==
    IF p \in known \cup DOMAIN peers THEN UNCHANGED <<known, limits, peers>>
    ELSE /\ known' = known \cup {p}
         /\ IF Cardinality(DOMAIN peers) < MaxPeers THEN ConnectTo(p)
            ELSE UNCHANGED <<limits, peers>>

(* No connection has more to read.                                           *)
NothingMore ==
    /\ pc = "collect" /\ pc' = "handle" /\ todo' = {}
    /\ UNCHANGED <<now, peers, known, queue, gone, ddos, history>>

Handle ==
    /\ pc = "handle" /\ queue # <<>>
    /\ LET m == Head(queue)[1] IN
         \/ /\ m = "data"
            /\ \E told \in {{}, {Sender}, DOMAIN peers \ {Sender}} :
                 peers' = [b \in DOMAIN peers |-> IF b \in told THEN Sent(peers[b]) ELSE peers[b]]
            /\ UNCHANGED <<known, limits>>
         \/ /\ m = "bad"
            /\ peers' = [peers EXCEPT ![Sender].banned = TRUE]
            /\ UNCHANGED <<known, limits>>
         \/ /\ m \in Addrs
            /\ LearnAddress(m)
    /\ queue' = Tail(queue)
    /\ UNCHANGED <<now, pc, todo, gone, rates, blacklist, history>>

DropGone ==
    /\ pc = "handle" /\ queue = <<>>
    /\ peers' = [a \in DOMAIN peers \ gone |-> peers[a]]
    /\ gone' = {} /\ pc' = "accept"
    /\ UNCHANGED <<now, known, todo, queue, ddos, history>>

-----------------------------------------------------------------------------
(* accept_connections: one connection, if one waits.                         *)
Accept(a) ==
    /\ pc = "accept" /\ a \in Callers \ DOMAIN peers
    /\ limits' = LimitAfter(a)
    /\ IF MayConnect(a) /\ Cardinality(DOMAIN peers) < MaxPeers
       THEN peers' = Put(peers, a, NewConnection) /\ known' = known \cup {a}
       ELSE UNCHANGED <<peers, known>>
    /\ pc' = "idle"
    /\ UNCHANGED <<now, todo, queue, gone, rates, blacklist, history>>

AcceptNone == pc = "accept" /\ pc' = "idle"
              /\ UNCHANGED <<now, peers, known, todo, queue, gone, ddos, history>>

(* broadcast, of a block or a share of the node's own.                       *)
Broadcast ==
    /\ pc = "idle"
    /\ peers' = [a \in {b \in DOMAIN peers : ~Stale(peers[b])} |-> Sent(peers[a])]
    /\ UNCHANGED <<now, pc, known, todo, queue, gone, ddos, history>>

Tick ==
    /\ pc = "idle" /\ now < MaxNow
    /\ now' = now + 1
    /\ heard' = {m \in heard : now' - m[2] <= Hour}
    /\ UNCHANGED <<pc, peers, known, todo, queue, gone, ddos, loud>>

NewNode == /\ pc = "idle" /\ todo = {} /\ queue = <<>> /\ gone = {}
           /\ rates = <<>> /\ blacklist = {}

(* connect_to_bootnodes; some may be out of reach.                           *)
Init ==
    /\ now = 0 /\ NewNode
    /\ known \in SUBSET Bootnodes
    /\ peers = [a \in known |-> NewConnection]
    /\ limits = [a \in Bootnodes |-> [connections |-> 1, lastReset |-> now, failures |-> 0]]
    /\ heard = {} /\ loud = {}

Next ==
    \/ StartTurn \/ NothingMore \/ Handle \/ DropGone \/ AcceptNone \/ Broadcast \/ Tick
    \/ \E a \in Addrs :
         \/ \E m \in Message : Receive(a, m)
         \/ Refuse(a) \/ Fail(a)
         \/ Accept(a)

Spec == Init /\ [][Next]_vars

-----------------------------------------------------------------------------
(* Properties.                                                               *)

(* The values each variable takes: what is read, handled and dropped in a    *)
(* turn are connections, until the turn drops them.                          *)
PeerTypeOK ==
    /\ now \in Nat /\ pc \in {"idle", "collect", "handle", "accept"}
    /\ \A a \in DOMAIN peers : a \in known /\ peers[a] \in PeerConnection
    /\ known \subseteq Addrs /\ DOMAIN peers \subseteq DOMAIN limits
    /\ todo \subseteq DOMAIN peers /\ gone \subseteq DOMAIN peers
    /\ \A i \in DOMAIN queue : queue[i] \in Message \X DOMAIN peers
    /\ \A a \in DOMAIN rates : rates[a] \in RateLimit
    /\ \A a \in DOMAIN limits : limits[a] \in ConnectionLimit
    /\ blacklist \subseteq Addrs

(* Connections accepted and connections made to addresses that peers tell    *)
(* of, in whatever order the messages of a turn are handled, stay within     *)
(* MAX_PEERS together.                                                       *)
PeersBounded == Cardinality(DOMAIN peers) <= MaxPeers

(* Between two turns no address on the blacklist is connected, though an     *)
(* address is listed while messages of its connection wait to be handled and *)
(* other connections tell of it.                                             *)
BlacklistedNotConnected ==
    pc \in {"idle", "accept"} => blacklist \cap DOMAIN peers = {}

(* An address that kept to the limits in every minute and every hour, over   *)
(* all its connections, and whose streams did not break too often is never   *)
(* on the blacklist, which nothing is ever taken from.                       *)
CompliantNotBlacklisted ==
    \A a \in blacklist : a \in loud \/ limits[a].failures > MaxFailures
=============================================================================
