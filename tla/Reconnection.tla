---------------------------- MODULE Reconnection ----------------------------
(***************************************************************************)
(* Connections to peers and their reconnection (Network of                 *)
(* rust/libp2p-glue/src/lib.rs). A process may run several networks, each  *)
(* with an event loop of its own; the queue of reconnections and the       *)
(* attempts under way are shared by all of them. The swarm is external: a  *)
(* dial ends in a connection or an error, peers may dial this node, and a  *)
(* connection may close at any time.                                       *)
(***************************************************************************)
EXTENDS Naturals

CONSTANTS
  Networks,               \* the networks of the process
  Peers,                  \* the peers of a network
  Conns,                  \* the connections there can be with one peer at a time
  MAX_RECONNECT_ATTEMPTS

ASSUME AttemptsAssumption == MAX_RECONNECT_ATTEMPTS \in Nat \ {0}

\* A peer as one network sees it: the key of the shared maps.
Links == Networks \X Peers

Directions == {"inbound", "outbound"}

VARIABLES
  addrs,     \* links with an address in peer_addr_map
  queue,     \* RECONNECT_QUEUE: number of the attempt that waits, or 0
  attempts,  \* RECONNECT_ATTEMPTS: number of the attempt under way, or 0
  conns,     \* CONNECTION_DIRECTIONS, "none" for a connection that is not open
  peers,     \* connected_peers of the node behind each network
  starting,  \* dials of start_network that have not ended
  dialing,   \* dials by peer id that have not ended
  known,     \* history: links that have been connected
  failures,  \* history: failed attempts since the link was last connected
  stolen     \* history: links whose turn came up in another network's loop

maps == <<addrs, queue, attempts>>
history == <<known, failures, stolen>>
vars == <<maps, conns, peers, starting, dialing, history>>

\* swarm.is_connected
Connected(l) == \E c \in Conns : conns[l][c] # "none"

\* start_network: every configured address is dialled without its peer id, and
\* recorded if it has one.
Init ==
  /\ starting = Links /\ addrs \in SUBSET Links
  /\ queue = [l \in Links |-> 0] /\ attempts = [l \in Links |-> 0]
  /\ conns = [l \in Links |-> [c \in Conns |-> "none"]]
  /\ peers = {} /\ dialing = {} /\ known = {} /\ stolen = {}
  /\ failures = [l \in Links |-> 0]

\* onPeerConnected and onPeerDisconnected of the node behind the link's network.
connectPeer(l) == peers' = peers \cup {l}
disconnectPeer(l) == peers' = peers \ {l}

Without(map, l) == [map EXCEPT ![l] = 0]

\* Variant: giving up is decided one attempt too early.
ScheduleOneLess(l, attempt, q, a) ==
  IF attempt >= MAX_RECONNECT_ATTEMPTS
  THEN addrs' = addrs \ {l} /\ queue' = q /\ attempts' = Without(a, l)
  ELSE queue' = [q EXCEPT ![l] = attempt] /\ attempts' = a /\ UNCHANGED addrs

\* Variant: one attempt more than there are delays.
ScheduleOneMore(l, attempt, q, a) ==
  IF attempt > MAX_RECONNECT_ATTEMPTS + 1
  THEN addrs' = addrs \ {l} /\ queue' = q /\ attempts' = Without(a, l)
  ELSE queue' = [q EXCEPT ![l] = attempt] /\ attempts' = a /\ UNCHANGED addrs

\* q and a are the queue and the attempts as the caller left them.
schedule_reconnection(l, attempt, q, a) ==
  IF attempt > MAX_RECONNECT_ATTEMPTS
  THEN addrs' = addrs \ {l} /\ queue' = q /\ attempts' = Without(a, l)
  ELSE queue' = [q EXCEPT ![l] = attempt] /\ attempts' = a /\ UNCHANGED addrs

\* The ConnectionEstablished event, up to onPeerConnected of the node.
Established(l, c, direction) ==
  /\ conns' = [conns EXCEPT ![l][c] = direction]
  /\ addrs' = IF direction = "outbound" THEN addrs \cup {l} ELSE addrs
  /\ queue' = Without(queue, l)
  /\ attempts' = Without(attempts, l)
  /\ connectPeer(l)
  /\ known' = known \cup {l} /\ stolen' = stolen \ {l}
  /\ failures' = [failures EXCEPT ![l] = 0]

\* The peer dials this node.
Accepted(l, c) ==
  /\ conns[l][c] = "none"
  /\ Established(l, c, "inbound")
  /\ UNCHANGED <<starting, dialing>>

\* A dial of start_network succeeds, or fails without any follow-up: its error
\* event names no peer.
StartDialEnds(l) ==
  /\ l \in starting
  /\ starting' = starting \ {l}
  /\ \/ \E c \in Conns : conns[l][c] = "none" /\ Established(l, c, "outbound")
     \/ UNCHANGED <<maps, conns, peers, history>>
  /\ UNCHANGED dialing

\* A dial by peer id succeeds.
DialSucceeds(l, c) ==
  /\ l \in dialing /\ conns[l][c] = "none"
  /\ dialing' = dialing \ {l}
  /\ Established(l, c, "outbound")
  /\ UNCHANGED starting

\* Variant: the error of a tracked attempt is not followed by another attempt.
ErrorNotRescheduled(l) ==
  /\ l \in dialing
  /\ dialing' = dialing \ {l}
  /\ attempts' = Without(attempts, l)
  /\ UNCHANGED <<addrs, queue, conns, peers, starting, history>>

\* OutgoingConnectionError: a tracked attempt is followed by the next one.
OutgoingConnectionError(l) ==
  /\ l \in dialing
  /\ dialing' = dialing \ {l}
  /\ IF attempts[l] > 0
     THEN /\ schedule_reconnection(l, attempts[l] + 1, queue, Without(attempts, l))
          /\ failures' = [failures EXCEPT ![l] = @ + 1]
     ELSE UNCHANGED <<maps, failures>>
  /\ UNCHANGED <<conns, peers, starting, known, stolen>>

\* Variant: every closed connection counts as the last one.
ClosedNotLast(l, c) ==
  /\ conns[l][c] # "none"
  /\ conns' = [conns EXCEPT ![l][c] = "none"]
  /\ disconnectPeer(l)
  /\ IF l \in addrs THEN schedule_reconnection(l, 1, queue, attempts) ELSE UNCHANGED maps
  /\ UNCHANGED <<starting, dialing, history>>

\* ConnectionClosed: the node is told, and a reconnection scheduled, only for
\* the last connection of the peer.
ConnectionClosed(l, c) ==
  /\ conns[l][c] # "none"
  /\ conns' = [conns EXCEPT ![l][c] = "none"]
  /\ IF \E d \in Conns \ {c} : conns[l][d] # "none" THEN UNCHANGED <<maps, peers>>
     ELSE /\ disconnectPeer(l)
          /\ IF l \in addrs THEN schedule_reconnection(l, 1, queue, attempts) ELSE UNCHANGED maps
  /\ UNCHANGED <<starting, dialing, history>>

\* The dial of a reconnection starts, or is refused at once: always if the swarm
\* is dialling the peer already.
Dial(l) ==
  \/ /\ l \notin dialing
     /\ dialing' = dialing \cup {l}
     /\ attempts' = [attempts EXCEPT ![l] = queue[l]]
     /\ queue' = Without(queue, l)
     /\ UNCHANGED <<addrs, failures>>
  \/ /\ schedule_reconnection(l, queue[l] + 1, Without(queue, l), Without(attempts, l))
     /\ failures' = [failures EXCEPT ![l] = @ + 1]
     /\ UNCHANGED dialing

\* The entry of l is due and the event loop of network n takes it from the
\* queue; only the loop of its own network acts on it.
ReconnectDue(n, l) ==
  /\ queue[l] > 0
  /\ IF n = l[1] /\ ~Connected(l)
     THEN Dial(l) /\ UNCHANGED stolen
     ELSE /\ queue' = Without(queue, l)
          /\ stolen' = IF n = l[1] THEN stolen ELSE stolen \cup {l}
          /\ UNCHANGED <<addrs, attempts, dialing, failures>>
  /\ UNCHANGED <<conns, peers, starting, known>>

Next ==
  \E l \in Links :
    \/ StartDialEnds(l)
    \/ OutgoingConnectionError(l)
    \/ \E c \in Conns : Accepted(l, c) \/ DialSucceeds(l, c) \/ ConnectionClosed(l, c)
    \/ \E n \in Networks : ReconnectDue(n, l)

Spec == Init /\ [][Next]_vars

\* A due entry is taken by some loop, and a dial ends one way or the other.
FairSpec ==
  /\ Spec
  /\ \A l \in Links :
       /\ WF_vars(\E n \in Networks : ReconnectDue(n, l))
       /\ WF_vars(OutgoingConnectionError(l) \/ \E c \in Conns : DialSucceeds(l, c))

----------------------------------------------------------------------------
(* Properties.                                                             *)

\* Type invariant: attempts are numbered 1 to MAX_RECONNECT_ATTEMPTS, so that
\* each has a delay of its own in RECONNECT_DELAYS_SECS.
TypeOK ==
  /\ addrs \subseteq Links /\ peers \subseteq Links
  /\ starting \subseteq Links /\ dialing \subseteq Links
  /\ known \subseteq Links /\ stolen \subseteq Links
  /\ queue \in [Links -> 0 .. MAX_RECONNECT_ATTEMPTS]
  /\ attempts \in [Links -> 0 .. MAX_RECONNECT_ATTEMPTS]
  /\ failures \in [Links -> 0 .. MAX_RECONNECT_ATTEMPTS]
  /\ conns \in [Links -> [Conns -> Directions \cup {"none"}]]

\* The node's connected_peers are exactly the peers with an open connection,
\* however many connections a peer has and in whatever order they close.
PeersMatchSwarm == peers = {l \in Links : Connected(l)}

\* Nothing is left of a reconnection once the peer is connected: no dial is
\* started to a connected peer (the check of is_connected when an entry is due
\* never fires).
NoRetryWhileConnected == \A l \in Links : Connected(l) => queue[l] = 0 /\ attempts[l] = 0

\* A peer that was lost and is not given up always has its next attempt waiting
\* or a tracked dial under way, never both: no sequence of failed dials, crossing
\* inbound connections and closes drops it. The exception is an entry that
\* another network's event loop took from the shared queue.
LostPeersRetried ==
  \A l \in Links :
    l \in (known \cap addrs) \ stolen /\ ~Connected(l) =>
      \/ queue[l] > 0 /\ attempts[l] = 0
      \/ queue[l] = 0 /\ attempts[l] > 0 /\ l \in dialing

\* An address is forgotten only after MAX_RECONNECT_ATTEMPTS failures in a row
\* (schedule_reconnection).
NoEarlyGiveUp ==
  [][\A l \in addrs : l \notin addrs' => failures'[l] = MAX_RECONNECT_ATTEMPTS]_vars

\* A lost peer is reached again or given up; the retries do not go on for ever
\* without an outcome.
Settles ==
  \A l \in Links :
    (l \in known \cap addrs /\ ~Connected(l))
      ~> (Connected(l) \/ l \notin addrs \/ l \in stolen)
=============================================================================
