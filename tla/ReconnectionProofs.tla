------------------------- MODULE ReconnectionProofs -------------------------
(***************************************************************************)
(* Proofs that reconnection loses no peer and disturbs no connection, for  *)
(* any number of networks, peers, connections and attempts.                *)
(***************************************************************************)
EXTENDS Reconnection, TLAPS

USE DEF connectPeer, disconnectPeer

\* What holds of one link: the queue and the attempts exclude each other, and
\* their number is one more than the failures since the last connection.
LinkInv(l) ==
  /\ l \in peers <=> Connected(l)
  /\ Connected(l) => queue[l] = 0 /\ attempts[l] = 0 /\ failures[l] = 0
  /\ queue[l] > 0 => attempts[l] = 0 /\ failures[l] = queue[l] - 1
  /\ attempts[l] > 0 => l \in dialing /\ failures[l] = attempts[l] - 1
  /\ l \in (known \cap addrs) \ stolen /\ ~Connected(l) => queue[l] > 0 \/ attempts[l] > 0

IInv == TypeOK /\ \A l \in Links : LinkInv(l)

----------------------------------------------------------------------------
(* Facts about one step.                                                   *)

\* A new connection makes its peer connected and no other.
LEMMA OpenConnection ==
  ASSUME TypeOK, NEW l \in Links, NEW c \in Conns, NEW d \in Directions,
         conns' = [conns EXCEPT ![l][c] = d]
  PROVE  /\ Connected(l)'
         /\ \A k \in Links \ {l} : Connected(k)' <=> Connected(k)
         /\ conns' \in [Links -> [Conns -> Directions \cup {"none"}]]
<1>1. /\ conns'[l] = [conns[l] EXCEPT ![c] = d]
      /\ \A k \in Links \ {l} : conns'[k] = conns[k]
  BY DEF TypeOK
<1>2. conns'[l][c] = d /\ d # "none"
  BY <1>1 DEF TypeOK, Directions
<1>3. conns' \in [Links -> [Conns -> Directions \cup {"none"}]]
  BY DEF TypeOK
<1> QED
  BY <1>1, <1>2, <1>3 DEF Connected

\* A closed connection leaves its peer connected if it has another one.
LEMMA CloseConnection ==
  ASSUME TypeOK, NEW l \in Links, NEW c \in Conns,
         conns' = [conns EXCEPT ![l][c] = "none"]
  PROVE  /\ Connected(l)' <=> \E d \in Conns \ {c} : conns[l][d] # "none"
         /\ \A k \in Links \ {l} : Connected(k)' <=> Connected(k)
         /\ conns' \in [Links -> [Conns -> Directions \cup {"none"}]]
<1>1. /\ conns'[l] = [conns[l] EXCEPT ![c] = "none"]
      /\ \A k \in Links \ {l} : conns'[k] = conns[k]
  BY DEF TypeOK
<1>2. /\ conns'[l][c] = "none"
      /\ \A d \in Conns \ {c} : conns'[l][d] = conns[l][d]
  BY <1>1 DEF TypeOK
<1>3. conns' \in [Links -> [Conns -> Directions \cup {"none"}]]
  BY DEF TypeOK
<1> QED
  BY <1>1, <1>2, <1>3 DEF Connected

\* Without connection changes every peer is connected as before.
LEMMA SameConnections ==
  ASSUME UNCHANGED conns
  PROVE  \A k \in Links : Connected(k)' <=> Connected(k)
BY DEF Connected

\* A step that changes nothing about a link keeps what holds of it.
LEMMA OtherLink ==
  ASSUME NEW k \in Links, LinkInv(k),
         Connected(k)' <=> Connected(k),
         queue'[k] = queue[k], attempts'[k] = attempts[k], failures'[k] = failures[k],
         k \in peers' <=> k \in peers, k \in dialing => k \in dialing',
         k \in known' <=> k \in known, k \in addrs' <=> k \in addrs,
         k \in stolen' <=> k \in stolen
  PROVE  LinkInv(k)'
BY DEF LinkInv

----------------------------------------------------------------------------
(* The events.                                                             *)

\* A connection is established, in either direction.
LEMMA EstablishedStep ==
  ASSUME IInv, NEW l \in Links, NEW c \in Conns, NEW d \in Directions,
         Established(l, c, d),
         starting' \subseteq Links, dialing' \subseteq Links,
         \A k \in Links \ {l} : k \in dialing => k \in dialing'
  PROVE  IInv'
<1>1. TypeOK
  BY DEF IInv
<1>2. /\ Connected(l)'
      /\ \A k \in Links \ {l} : Connected(k)' <=> Connected(k)
      /\ conns' \in [Links -> [Conns -> Directions \cup {"none"}]]
  BY <1>1, OpenConnection DEF Established
<1>3. TypeOK'
  BY <1>1, <1>2, AttemptsAssumption DEF TypeOK, Established, Without
<1>4. queue'[l] = 0 /\ attempts'[l] = 0 /\ failures'[l] = 0 /\ l \in peers'
  BY <1>1 DEF TypeOK, Established, Without
<1>5. LinkInv(l)'
  BY <1>2, <1>4 DEF LinkInv
<1>6. ASSUME NEW k \in Links \ {l} PROVE LinkInv(k)'
  <2>1. /\ queue'[k] = queue[k] /\ attempts'[k] = attempts[k] /\ failures'[k] = failures[k]
        /\ k \in peers' <=> k \in peers
        /\ k \in known' <=> k \in known
        /\ k \in addrs' <=> k \in addrs
        /\ k \in stolen' <=> k \in stolen
    BY <1>1 DEF TypeOK, Established, Without
  <2> QED
    BY <1>2, <2>1, OtherLink DEF IInv
<1> QED
  BY <1>3, <1>5, <1>6 DEF IInv

\* schedule_reconnection, from maps without the entries of l: the next attempt
\* waits, or the address is forgotten after the last failure.
LEMMA ScheduleProperties ==
  ASSUME TypeOK, NEW l \in Links, NEW attempt \in 1 .. MAX_RECONNECT_ATTEMPTS + 1,
         NEW q \in [Links -> 0 .. MAX_RECONNECT_ATTEMPTS],
         NEW a \in [Links -> 0 .. MAX_RECONNECT_ATTEMPTS],
         q[l] = 0, a[l] = 0,
         schedule_reconnection(l, attempt, q, a)
  PROVE  /\ queue' \in [Links -> 0 .. MAX_RECONNECT_ATTEMPTS]
         /\ attempts' \in [Links -> 0 .. MAX_RECONNECT_ATTEMPTS]
         /\ addrs' \subseteq Links
         /\ attempts'[l] = 0
         /\ \/ queue'[l] = attempt
            \/ queue'[l] = 0 /\ l \notin addrs' /\ attempt = MAX_RECONNECT_ATTEMPTS + 1
         /\ \A k \in Links \ {l} : /\ queue'[k] = q[k] /\ attempts'[k] = a[k]
                                   /\ k \in addrs' <=> k \in addrs
<1>1. CASE attempt > MAX_RECONNECT_ATTEMPTS
  BY <1>1, AttemptsAssumption DEF TypeOK, schedule_reconnection, Without
<1>2. CASE ~(attempt > MAX_RECONNECT_ATTEMPTS)
  BY <1>2, AttemptsAssumption DEF TypeOK, schedule_reconnection, Without
<1> QED
  BY <1>1, <1>2

\* An attempt of l fails: the next one waits, or l is given up.
LEMMA FailedAttempt ==
  ASSUME IInv, NEW l \in Links, NEW attempt \in 1 .. MAX_RECONNECT_ATTEMPTS,
         NEW q \in [Links -> 0 .. MAX_RECONNECT_ATTEMPTS],
         NEW a \in [Links -> 0 .. MAX_RECONNECT_ATTEMPTS],
         q = Without(queue, l), a = Without(attempts, l),
         schedule_reconnection(l, attempt + 1, q, a),
         failures[l] = attempt - 1, failures' = [failures EXCEPT ![l] = @ + 1],
         ~Connected(l), UNCHANGED <<conns, peers, starting, known, stolen>>,
         dialing' \subseteq Links, \A k \in Links \ {l} : k \in dialing => k \in dialing'
  PROVE  IInv' /\ (l \notin addrs' => failures'[l] = MAX_RECONNECT_ATTEMPTS \/ l \notin addrs)
<1>1. TypeOK
  BY DEF IInv
<1>2. \A k \in Links : Connected(k)' <=> Connected(k)
  BY SameConnections
<1>3. q[l] = 0 /\ a[l] = 0 /\ \A k \in Links \ {l} : q[k] = queue[k] /\ a[k] = attempts[k]
  BY <1>1 DEF TypeOK, Without
<1>4. /\ queue' \in [Links -> 0 .. MAX_RECONNECT_ATTEMPTS]
      /\ attempts' \in [Links -> 0 .. MAX_RECONNECT_ATTEMPTS]
      /\ addrs' \subseteq Links
      /\ attempts'[l] = 0
      /\ \/ queue'[l] = attempt + 1
         \/ queue'[l] = 0 /\ l \notin addrs' /\ attempt = MAX_RECONNECT_ATTEMPTS
      /\ \A k \in Links \ {l} : /\ queue'[k] = q[k] /\ attempts'[k] = a[k]
                                /\ k \in addrs' <=> k \in addrs
  <2>1. attempt + 1 \in 1 .. MAX_RECONNECT_ATTEMPTS + 1
    BY AttemptsAssumption
  <2>2. attempt + 1 = MAX_RECONNECT_ATTEMPTS + 1 => attempt = MAX_RECONNECT_ATTEMPTS
    BY AttemptsAssumption
  <2> QED
    BY <1>1, <1>3, <2>1, <2>2, ScheduleProperties
<1>5. /\ failures'[l] = attempt
      /\ failures' \in [Links -> 0 .. MAX_RECONNECT_ATTEMPTS]
      /\ \A k \in Links \ {l} : failures'[k] = failures[k]
  BY <1>1, AttemptsAssumption DEF TypeOK
<1>6. TypeOK'
  BY <1>1, <1>4, <1>5 DEF TypeOK
<1>7. LinkInv(l)'
  <2>1. ~Connected(l)' /\ l \notin peers'
    BY <1>2 DEF IInv, LinkInv
  <2>2. queue'[l] > 0 => failures'[l] = queue'[l] - 1
    BY <1>4, <1>5, AttemptsAssumption
  <2> QED
    BY <1>4, <2>1, <2>2, AttemptsAssumption DEF LinkInv
<1>8. ASSUME NEW k \in Links \ {l} PROVE LinkInv(k)'
  BY <1>2, <1>3, <1>4, <1>5, <1>8, OtherLink DEF IInv
<1>9. l \notin addrs' => failures'[l] = MAX_RECONNECT_ATTEMPTS \/ l \notin addrs
  BY <1>1, <1>4, <1>5, AttemptsAssumption DEF schedule_reconnection
<1> QED
  BY <1>6, <1>7, <1>8, <1>9 DEF IInv

\* The last connection of a peer closes, or another one remains.
LEMMA ClosedStep ==
  ASSUME IInv, NEW l \in Links, NEW c \in Conns, ConnectionClosed(l, c)
  PROVE  IInv' /\ addrs' = addrs
<1>1. TypeOK /\ Connected(l)
  BY DEF IInv, ConnectionClosed, Connected
<1>2. /\ Connected(l)' <=> \E d \in Conns \ {c} : conns[l][d] # "none"
      /\ \A k \in Links \ {l} : Connected(k)' <=> Connected(k)
      /\ conns' \in [Links -> [Conns -> Directions \cup {"none"}]]
  BY <1>1, CloseConnection DEF ConnectionClosed
<1>3. queue[l] = 0 /\ attempts[l] = 0 /\ failures[l] = 0 /\ l \in peers
  BY <1>1 DEF IInv, LinkInv
<1>4. UNCHANGED <<starting, dialing, known, failures, stolen>>
  BY DEF ConnectionClosed, history
<1>5. CASE UNCHANGED <<maps, peers>>
           /\ \E d \in Conns \ {c} : conns[l][d] # "none"
  <2>1. TypeOK'
    BY <1>1, <1>2, <1>4, <1>5 DEF TypeOK, maps
  <2>2. LinkInv(l)'
    BY <1>2, <1>3, <1>4, <1>5 DEF LinkInv, maps
  <2>3. ASSUME NEW k \in Links \ {l} PROVE LinkInv(k)'
    BY <1>2, <1>4, <1>5, <2>3, OtherLink DEF IInv, maps
  <2> QED
    BY <1>5, <2>1, <2>2, <2>3 DEF IInv, maps
<1>6. CASE /\ ~\E d \in Conns \ {c} : conns[l][d] # "none"
           /\ peers' = peers \ {l}
           /\ l \in addrs /\ schedule_reconnection(l, 1, queue, attempts)
  <2>1. 1 \in 1 .. MAX_RECONNECT_ATTEMPTS + 1 /\ 1 # MAX_RECONNECT_ATTEMPTS + 1
        /\ ~(1 > MAX_RECONNECT_ATTEMPTS)
    BY AttemptsAssumption
  <2>2. /\ queue \in [Links -> 0 .. MAX_RECONNECT_ATTEMPTS]
        /\ attempts \in [Links -> 0 .. MAX_RECONNECT_ATTEMPTS]
    BY <1>1 DEF TypeOK
  <2>3. /\ queue' \in [Links -> 0 .. MAX_RECONNECT_ATTEMPTS]
        /\ attempts' \in [Links -> 0 .. MAX_RECONNECT_ATTEMPTS]
        /\ addrs' \subseteq Links
        /\ attempts'[l] = 0 /\ queue'[l] = 1
        /\ \A k \in Links \ {l} : /\ queue'[k] = queue[k] /\ attempts'[k] = attempts[k]
                                  /\ k \in addrs' <=> k \in addrs
    BY <1>1, <1>3, <1>6, <2>1, <2>2, ScheduleProperties
  <2>4. TypeOK'
    BY <1>1, <1>2, <1>4, <1>6, <2>3 DEF TypeOK
  <2>5. LinkInv(l)'
    BY <1>2, <1>3, <1>4, <1>6, <2>3 DEF LinkInv
  <2>6. ASSUME NEW k \in Links \ {l} PROVE LinkInv(k)'
    BY <1>2, <1>4, <1>6, <2>3, <2>6, OtherLink DEF IInv
  <2>7. addrs' = addrs
    BY <1>6, <2>1 DEF schedule_reconnection
  <2> QED
    BY <2>4, <2>5, <2>6, <2>7 DEF IInv
<1>7. CASE /\ ~\E d \in Conns \ {c} : conns[l][d] # "none"
           /\ peers' = peers \ {l}
           /\ l \notin addrs /\ UNCHANGED maps
  <2>1. TypeOK'
    BY <1>1, <1>2, <1>4, <1>7 DEF TypeOK, maps
  <2>2. LinkInv(l)'
    BY <1>2, <1>3, <1>4, <1>7 DEF LinkInv, maps
  <2>3. ASSUME NEW k \in Links \ {l} PROVE LinkInv(k)'
    BY <1>2, <1>4, <1>7, <2>3, OtherLink DEF IInv, maps
  <2> QED
    BY <1>7, <2>1, <2>2, <2>3 DEF IInv, maps
<1> QED
  BY <1>5, <1>6, <1>7 DEF ConnectionClosed

\* A step that touches neither maps nor connections nor the node.
LEMMA QuietStep ==
  ASSUME IInv, UNCHANGED <<maps, conns, peers, history>>,
         starting' \subseteq Links, dialing' \subseteq Links,
         \A k \in Links : k \in dialing => k \in dialing' \/ attempts[k] = 0
  PROVE  IInv'
<1>1. TypeOK'
  BY DEF IInv, TypeOK, maps, history
<1>2. \A k \in Links : Connected(k)' <=> Connected(k)
  BY SameConnections
<1>3. ASSUME NEW k \in Links PROVE LinkInv(k)'
  <2>1. attempts[k] \in Nat
    BY AttemptsAssumption DEF IInv, TypeOK
  <2> QED
    BY <1>2, <1>3, <2>1 DEF IInv, LinkInv, maps, history
<1> QED
  BY <1>1, <1>3 DEF IInv

\* A dial of l ends with an error.
LEMMA ErrorStep ==
  ASSUME IInv, NEW l \in Links, OutgoingConnectionError(l)
  PROVE  IInv' /\ (l \notin addrs' => failures'[l] = MAX_RECONNECT_ATTEMPTS \/ l \notin addrs)
               /\ \A k \in Links \ {l} : k \in addrs => k \in addrs'
<1>1. TypeOK /\ attempts[l] \in 0 .. MAX_RECONNECT_ATTEMPTS
  BY DEF IInv, TypeOK
<1>2. CASE attempts[l] > 0
  <2>1. /\ queue[l] = 0 /\ ~Connected(l) /\ failures[l] = attempts[l] - 1
    <3>1. queue[l] \in Nat
      BY <1>1, AttemptsAssumption DEF TypeOK
    <3> QED
      BY <1>1, <1>2, <3>1, AttemptsAssumption DEF IInv, LinkInv
  <2>2. queue = Without(queue, l)
    BY <1>1, <2>1 DEF TypeOK, Without
  <2>3. /\ queue \in [Links -> 0 .. MAX_RECONNECT_ATTEMPTS]
        /\ Without(attempts, l) \in [Links -> 0 .. MAX_RECONNECT_ATTEMPTS]
    BY <1>1, AttemptsAssumption DEF TypeOK, Without
  <2>4. /\ schedule_reconnection(l, attempts[l] + 1, queue, Without(attempts, l))
        /\ failures' = [failures EXCEPT ![l] = @ + 1]
        /\ dialing' = dialing \ {l}
        /\ UNCHANGED <<conns, peers, starting, known, stolen>>
    BY <1>2 DEF OutgoingConnectionError
  <2>5. attempts[l] \in 1 .. MAX_RECONNECT_ATTEMPTS
    BY <1>1, <1>2, AttemptsAssumption
  <2>6. dialing' \subseteq Links /\ \A k \in Links \ {l} : k \in dialing => k \in dialing'
    BY <1>1, <2>4 DEF TypeOK
  <2>7. IInv' /\ (l \notin addrs' => failures'[l] = MAX_RECONNECT_ATTEMPTS \/ l \notin addrs)
    BY <2>1, <2>2, <2>3, <2>4, <2>5, <2>6, FailedAttempt
  <2> QED
    BY <2>4, <2>7 DEF schedule_reconnection
<1>3. CASE ~(attempts[l] > 0)
  <2>1. UNCHANGED <<maps, conns, peers, history>> /\ dialing' = dialing \ {l}
        /\ UNCHANGED starting
    BY <1>3 DEF OutgoingConnectionError, history
  <2>2. attempts[l] = 0
    BY <1>1, <1>3, AttemptsAssumption
  <2>3. /\ starting' \subseteq Links /\ dialing' \subseteq Links
        /\ \A k \in Links : k \in dialing => k \in dialing' \/ attempts[k] = 0
    BY <1>1, <2>1, <2>2 DEF TypeOK
  <2>4. IInv'
    BY <2>1, <2>3, QuietStep
  <2> QED
    BY <2>1, <2>4 DEF maps
<1> QED
  BY <1>2, <1>3

\* An entry of the queue is due, in the loop of its own network or of another.
LEMMA DueStep ==
  ASSUME IInv, NEW n \in Networks, NEW l \in Links, ReconnectDue(n, l)
  PROVE  IInv' /\ (l \notin addrs' => failures'[l] = MAX_RECONNECT_ATTEMPTS \/ l \notin addrs)
               /\ \A k \in Links \ {l} : k \in addrs => k \in addrs'
<1>1. /\ TypeOK /\ queue[l] \in 1 .. MAX_RECONNECT_ATTEMPTS
      /\ attempts[l] \in 0 .. MAX_RECONNECT_ATTEMPTS
  BY AttemptsAssumption DEF IInv, TypeOK, ReconnectDue
<1>2. attempts[l] = 0 /\ failures[l] = queue[l] - 1 /\ ~Connected(l) /\ l \notin peers
  BY <1>1, AttemptsAssumption DEF IInv, LinkInv
<1>3. \A k \in Links : Connected(k)' <=> Connected(k)
  BY SameConnections DEF ReconnectDue
<1>4. UNCHANGED <<conns, peers, starting, known>>
  BY DEF ReconnectDue
<1>5. CASE n = l[1] /\ Dial(l) /\ UNCHANGED stolen
  <2>1. CASE /\ l \notin dialing
             /\ dialing' = dialing \cup {l}
             /\ attempts' = [attempts EXCEPT ![l] = queue[l]]
             /\ queue' = Without(queue, l)
             /\ UNCHANGED <<addrs, failures>>
    <3>1. /\ attempts'[l] = queue[l] /\ queue'[l] = 0
          /\ \A k \in Links \ {l} : queue'[k] = queue[k] /\ attempts'[k] = attempts[k]
      BY <1>1, <2>1 DEF TypeOK, Without
    <3>2. TypeOK'
      BY <1>1, <1>4, <1>5, <2>1, AttemptsAssumption DEF TypeOK, Without
    <3>3. LinkInv(l)'
      BY <1>1, <1>2, <1>3, <1>4, <1>5, <2>1, <3>1, AttemptsAssumption DEF LinkInv
    <3>4. ASSUME NEW k \in Links \ {l} PROVE LinkInv(k)'
      BY <1>3, <1>4, <1>5, <2>1, <3>1, <3>4, OtherLink DEF IInv
    <3> QED
      BY <2>1, <3>2, <3>3, <3>4 DEF IInv
  <2>2. CASE /\ schedule_reconnection(l, queue[l] + 1, Without(queue, l), Without(attempts, l))
             /\ failures' = [failures EXCEPT ![l] = @ + 1]
             /\ UNCHANGED dialing
    <3>1. /\ Without(queue, l) \in [Links -> 0 .. MAX_RECONNECT_ATTEMPTS]
          /\ Without(attempts, l) \in [Links -> 0 .. MAX_RECONNECT_ATTEMPTS]
      BY <1>1, AttemptsAssumption DEF TypeOK, Without
    <3>2. dialing' \subseteq Links /\ \A k \in Links \ {l} : k \in dialing => k \in dialing'
      BY <1>1, <2>2 DEF TypeOK
    <3>3. IInv' /\ (l \notin addrs' => failures'[l] = MAX_RECONNECT_ATTEMPTS \/ l \notin addrs)
      BY <1>1, <1>2, <1>4, <1>5, <2>2, <3>1, <3>2, FailedAttempt
    <3> QED
      BY <2>2, <3>3 DEF schedule_reconnection
  <2> QED
    BY <1>5, <2>1, <2>2 DEF Dial
<1>6. CASE /\ n # l[1]
           /\ queue' = Without(queue, l)
           /\ stolen' = stolen \cup {l}
           /\ UNCHANGED <<addrs, attempts, dialing, failures>>
  <2>1. queue'[l] = 0 /\ \A k \in Links \ {l} : queue'[k] = queue[k]
    BY <1>1, <1>6 DEF TypeOK, Without
  <2>2. TypeOK'
    BY <1>1, <1>4, <1>6, AttemptsAssumption DEF TypeOK, Without
  <2>3. LinkInv(l)'
    BY <1>2, <1>3, <1>4, <1>6, <2>1 DEF LinkInv
  <2>4. ASSUME NEW k \in Links \ {l} PROVE LinkInv(k)'
    BY <1>3, <1>4, <1>6, <2>1, <2>4, OtherLink DEF IInv
  <2> QED
    BY <1>6, <2>2, <2>3, <2>4 DEF IInv
<1> QED
  BY <1>2, <1>5, <1>6 DEF ReconnectDue

----------------------------------------------------------------------------
(* The theorems.                                                           *)

\* start_network leaves nothing to retry and no connection.
LEMMA InitIInv == Init => IInv
<1> SUFFICES ASSUME Init PROVE IInv
  OBVIOUS
<1>1. TypeOK
  BY AttemptsAssumption DEF Init, TypeOK, Links
<1>2. ASSUME NEW l \in Links PROVE LinkInv(l)
  BY <1>2 DEF Init, LinkInv, Connected
<1> QED
  BY <1>1, <1>2 DEF IInv

\* What every step keeps, and that it gives up a peer only after the last
\* attempt failed.
LEMMA NextIInv ==
  ASSUME IInv, [Next]_vars
  PROVE  IInv' /\ \A l \in addrs : l \notin addrs' => failures'[l] = MAX_RECONNECT_ATTEMPTS
<1>1. TypeOK
  BY DEF IInv
<1>2. CASE UNCHANGED vars
  <2>1. UNCHANGED <<maps, conns, peers, history, starting, dialing>>
    BY <1>2 DEF vars
  <2>2. IInv'
    BY <1>1, <2>1, QuietStep DEF TypeOK
  <2> QED
    BY <2>1, <2>2 DEF maps
<1>3. ASSUME NEW l \in Links, StartDialEnds(l)
      PROVE  IInv' /\ addrs \subseteq addrs'
  <2>1. starting' \subseteq Links /\ dialing' = dialing /\ dialing \subseteq Links
    BY <1>1, <1>3 DEF StartDialEnds, TypeOK
  <2>2. CASE \E c \in Conns : conns[l][c] = "none" /\ Established(l, c, "outbound")
    <3>1. PICK c \in Conns : Established(l, c, "outbound")
      BY <2>2
    <3>2. "outbound" \in Directions
      BY DEF Directions
    <3>3. IInv'
      BY <2>1, <3>1, <3>2, EstablishedStep
    <3> QED
      BY <3>1, <3>3 DEF Established
  <2>3. CASE UNCHANGED <<maps, conns, peers, history>>
    BY <2>1, <2>3, QuietStep DEF maps
  <2> QED
    BY <1>3, <2>2, <2>3 DEF StartDialEnds
<1>4. ASSUME NEW l \in Links, NEW c \in Conns, Accepted(l, c)
      PROVE  IInv' /\ addrs \subseteq addrs'
  <2>1. Established(l, c, "inbound") /\ starting' = starting /\ dialing' = dialing
        /\ "inbound" \in Directions
    BY <1>4 DEF Accepted, Directions
  <2>2. IInv'
    BY <1>1, <2>1, EstablishedStep DEF TypeOK
  <2> QED
    BY <2>1, <2>2 DEF Established
<1>5. ASSUME NEW l \in Links, NEW c \in Conns, DialSucceeds(l, c)
      PROVE  IInv' /\ addrs \subseteq addrs'
  <2>1. Established(l, c, "outbound") /\ starting' = starting /\ dialing' = dialing \ {l}
        /\ "outbound" \in Directions
    BY <1>5 DEF DialSucceeds, Directions
  <2>2. IInv'
    BY <1>1, <2>1, EstablishedStep DEF TypeOK
  <2> QED
    BY <2>1, <2>2 DEF Established
<1>6. addrs \subseteq Links
  BY <1>1 DEF TypeOK
<1> QED
  BY <1>2, <1>3, <1>4, <1>5, <1>6, ErrorStep, ClosedStep, DueStep DEF Next

\* The inductive invariant holds throughout.
LEMMA Invariance == Spec => []IInv
<1>1. IInv /\ [Next]_vars => IInv'
  BY NextIInv
<1> QED
  BY InitIInv, <1>1, PTL DEF Spec

\* Attempts are numbered within the table of delays, for any bound.
THEOREM TypeCorrect == Spec => []TypeOK
<1>1. IInv => TypeOK
  BY DEF IInv
<1> QED
  BY Invariance, <1>1, PTL

\* The node behind a network knows exactly the peers its swarm is connected to.
THEOREM PeersCorrect == Spec => []PeersMatchSwarm
<1>1. IInv => PeersMatchSwarm
  BY DEF IInv, LinkInv, PeersMatchSwarm, TypeOK
<1> QED
  BY Invariance, <1>1, PTL

\* A connected peer is never dialled again.
THEOREM NoNeedlessRetry == Spec => []NoRetryWhileConnected
<1>1. IInv => NoRetryWhileConnected
  BY DEF IInv, LinkInv, NoRetryWhileConnected
<1> QED
  BY Invariance, <1>1, PTL

\* No lost peer is forgotten between two attempts.
THEOREM RetriesContinue == Spec => []LostPeersRetried
<1>1. ASSUME IInv, NEW l \in Links, l \in (known \cap addrs) \ stolen, ~Connected(l)
      PROVE  \/ queue[l] > 0 /\ attempts[l] = 0
             \/ queue[l] = 0 /\ attempts[l] > 0 /\ l \in dialing
  <2>1. queue[l] \in Nat /\ attempts[l] \in Nat
    BY <1>1, AttemptsAssumption DEF IInv, TypeOK
  <2> QED
    BY <1>1, <2>1 DEF IInv, LinkInv
<1>2. IInv => LostPeersRetried
  BY <1>1 DEF LostPeersRetried
<1> QED
  BY Invariance, <1>2, PTL

\* A peer is given up only after the last attempt has failed.
THEOREM GiveUpCorrect == Spec => NoEarlyGiveUp
<1>1. IInv /\ [Next]_vars =>
        [\A l \in addrs : l \notin addrs' => failures'[l] = MAX_RECONNECT_ATTEMPTS]_vars
  BY NextIInv
<1> QED
  BY Invariance, <1>1, PTL DEF Spec, NoEarlyGiveUp
=============================================================================
