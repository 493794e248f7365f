------------------------------- MODULE Gossip -------------------------------
(***************************************************************************)
(* How votes reach the relayer, and how it asks for them again.  Either    *)
(* the relayer joins the gossip mesh itself                                *)
(* (src/message-relayer/src/p2p/mod.rs), or it holds one WebSocket session *)
(* (observer_client.rs) with an observer node that has joined it           *)
(* (src/observer-node/src: swarm.rs, hub.rs, ws.rs, events.rs).            *)
(*                                                                         *)
(* One chain, and one vote on each of its two topics: a vote for a message *)
(* is gossiped once, and again when a reobservation request reaches the    *)
(* attestors; a vote for the next attestor set is gossiped every cycle.    *)
(* Every hand-off on the way may shed what it is given.                    *)
(***************************************************************************)
EXTENDS Naturals, FiniteSets, Sequences, SequencesExt

CONSTANTS
  Peers,       \* the attestors in the mesh
  MaxConns,    \* connections libp2p holds with one peer at most
  RingCap,     \* HUB_CAPACITY
  SocketCap,   \* frames on their way to the relayer
  ChannelCap,  \* VOTE_CHANNEL_CAP, of either topic
  ReobsCap,    \* REOBS_CHANNEL_CAP
  PublishCap,  \* PUBLISH_CHANNEL_CAP
  MaxClients,  \* max_clients
  MaxFaults,   \* bound: connections, sessions and messages lost, restarts
  MaxBursts    \* bound: times a reader is outrun and something is shed

ASSUME GossipAssumption ==
  /\ IsFiniteSet(Peers)
  /\ {MaxConns, RingCap, SocketCap, ChannelCap, ReobsCap, PublishCap, MaxClients} \subseteq Nat \ {0}
  /\ MaxFaults \in Nat /\ MaxBursts \in Nat

VARIABLES
  source,     \* what is configured: "swarm" or "observer"
  conns,      \* established connections with each peer
  told,       \* peers whose subscription gossipsub knows of
  subscribed, \* subscribed_peers: the observer's set
  count,      \* peer_counts: the relayer's own counter
  inflight,   \* votes on their way through the mesh
  reobs,      \* requests of the pool not yet taken by the vote source
  link,       \* the session: "down", "up", or "closed" by the observer
  stale,      \* client loops of sessions the relayer has given up
  filter,     \* the loop's filter: "all", or "ours" once subscribed
  ring,       \* published and not yet read by the loop
  lagged,     \* an event was overwritten before the loop read it
  inbox,      \* frames on their way to the observer
  socket,     \* frames on their way to the relayer
  requests,   \* publish requests queued for the observer's swarm
  channel,    \* votes in the channel of the pool, and of the set-update aggregator
  taken,      \* votes taken from their channel
  gauge,      \* relayer_p2p_peer_count
  current,    \* history: the session was there when the peers last changed
  faults,
  bursts

swarm == <<conns, told, subscribed, count>>
session == <<link, stale, filter, lagged, inbox, socket>>
hub == <<ring, lagged>>
pool == <<reobs, channel, taken, gauge>>
gossipVars == <<source, swarm, inflight, reobs, link, stale, filter, hub, inbox, socket,
                requests, channel, taken, gauge, current, faults, bursts>>

Topics == {"message", "set"}
Vote(t) == [kind |-> "vote", topic |-> t]
PeerStatus(n) == [kind |-> "peer_status", peers |-> n]
Request == [kind |-> "reobservation"]

Fault == faults < MaxFaults /\ faults' = faults + 1
\* Something is shed if a reader was outrun.
Shed(full) == (full => bursts < MaxBursts) /\ bursts' = IF full THEN bursts + 1 ELSE bursts

-----------------------------------------------------------------------------
(* The hub: one ring, read by every client loop at its own pace.           *)

\* Filter::matches, for the filter the relayer subscribes with.
Matches(e) == filter = "ours" => e.kind # "reobservation"

\* Hub::publish: a loop that reads too slowly loses the oldest event.  The
\* loops of given-up sessions are not followed: nobody reads what they send.
Publish(e) ==
  IF link = "up"
  THEN /\ ring' = (IF Len(ring) = RingCap THEN Tail(ring) ELSE ring) \o <<e>>
       /\ lagged' = (lagged \/ Len(ring) = RingCap)
       /\ Shed(Len(ring) = RingCap)
  ELSE UNCHANGED <<hub, bursts>>

\* The end of a loop, and of what it had not read.
DropReader ==
  /\ ring' = <<>> /\ lagged' = FALSE /\ filter' = "all" /\ inbox' = <<>>
  /\ current' = FALSE

-----------------------------------------------------------------------------
(* Peers come and go.                                                      *)

NoteSubscribed(p) == subscribed \cup {p}
NoteUnsubscribed(p) == subscribed \ {p}
\* Only the last connection of a peer takes its subscription with it.
NoteDisconnected(p) == IF conns[p] = 1 THEN subscribed \ {p} ELSE subscribed

\* report_peer_count, when the handler changed the set.
Report(peers) ==
  /\ subscribed' = peers
  /\ IF peers = subscribed
     THEN UNCHANGED <<hub, current, bursts>>
     ELSE /\ Publish(PeerStatus(Cardinality(peers)))
          /\ current' = (link = "up")

\* The embedded swarm counts subscriptions up and down instead.
Counted(n) == count' = n /\ gauge' = n /\ UNCHANGED <<subscribed, hub, current, bursts>>

Dial(p) ==
  /\ conns[p] < MaxConns
  /\ conns' = [conns EXCEPT ![p] = @ + 1]
  /\ UNCHANGED <<source, told, subscribed, count, inflight, pool, session, ring, requests, current, faults, bursts>>

\* gossipsub::Event::Subscribed.
PeerSubscribed(p) ==
  /\ conns[p] > 0 /\ p \notin told
  /\ told' = told \cup {p}
  /\ IF source = "swarm" THEN Counted(count + 1)
     ELSE Report(NoteSubscribed(p)) /\ UNCHANGED <<count, gauge>>
  /\ UNCHANGED <<source, conns, inflight, reobs, link, stale, filter, inbox, socket, requests,
                 channel, taken, faults>>

\* gossipsub::Event::Unsubscribed; the counter saturates at zero.
PeerUnsubscribed(p) ==
  /\ p \in told /\ Fault
  /\ told' = told \ {p}
  /\ IF source = "swarm" THEN Counted(IF count = 0 THEN 0 ELSE count - 1)
     ELSE Report(NoteUnsubscribed(p)) /\ UNCHANGED <<count, gauge>>
  /\ UNCHANGED <<source, conns, inflight, reobs, link, stale, filter, inbox, socket, requests,
                 channel, taken>>

\* SwarmEvent::ConnectionClosed.  gossipsub forgets the subscriptions of a
\* peer that is gone and says nothing; the embedded swarm does not look.
ConnectionClosed(p) ==
  /\ conns[p] > 0 /\ Fault
  /\ conns' = [conns EXCEPT ![p] = @ - 1]
  /\ told' = IF conns[p] = 1 THEN told \ {p} ELSE told
  /\ IF source = "swarm" THEN UNCHANGED <<subscribed, hub, current, bursts>>
     ELSE Report(NoteDisconnected(p))
  /\ UNCHANGED <<source, count, gauge, inflight, reobs, link, stale, filter, inbox, socket,
                 requests, channel, taken>>

-----------------------------------------------------------------------------
(* Votes.                                                                  *)

\* try_send: a vote for a full channel is dropped.
Offer(t) ==
  LET full == channel[t] = ChannelCap IN
  /\ channel' = IF full THEN channel ELSE [channel EXCEPT ![t] = @ + 1]
  /\ Shed(full)

\* The observer streams what it hears.  (A frame that does not decode, or
\* names another chain than its topic, is rejected and changes nothing.)
ObserveVote == Publish(Vote("message"))
ObserveSetUpdate == Publish(Vote("set"))
ObserveReobservation == Publish(Request)

\* A vote arrives: handle_swarm_event of either crate.
Hear(t) ==
  /\ t \in inflight /\ told # {}
  /\ inflight' = inflight \ {t}
  /\ IF source = "swarm" THEN Offer(t) /\ UNCHANGED hub
     ELSE /\ IF t = "message" THEN ObserveVote ELSE ObserveSetUpdate
          /\ UNCHANGED channel
  /\ UNCHANGED <<source, swarm, reobs, link, stale, filter, inbox, socket, requests, taken,
                 gauge, current, faults>>

\* The mesh loses a vote: nobody who had it was connected.
Vanish(t) ==
  /\ t \in inflight /\ Fault
  /\ inflight' = inflight \ {t}
  /\ UNCHANGED <<source, swarm, pool, session, ring, requests, current, bursts>>

\* The proposers' cycle.
Propose ==
  /\ "set" \notin inflight
  /\ inflight' = inflight \cup {"set"}
  /\ UNCHANGED <<source, swarm, pool, session, ring, requests, current, faults, bursts>>

\* Another relayer's request passes through; the observer streams it.
OthersRequest ==
  /\ told # {} /\ "message" \notin inflight
  /\ inflight' = inflight \cup {"message"}
  /\ IF source = "swarm" THEN UNCHANGED <<hub, bursts>> ELSE ObserveReobservation
  /\ UNCHANGED <<source, swarm, pool, link, stale, filter, inbox, socket, requests, current, faults>>

\* The consumers: the pool, and the set-update aggregator.
Take(t) ==
  /\ channel[t] > 0
  /\ taken' = taken \cup {t}
  /\ channel' = [channel EXCEPT ![t] = @ - 1]
  /\ UNCHANGED <<source, swarm, inflight, reobs, gauge, session, ring, requests, current, faults, bursts>>

-----------------------------------------------------------------------------
(* Requests for the votes that are missing.                                *)

\* The pool asks for a stalled message at every tick; a full channel drops
\* the request.
Ask ==
  /\ "message" \notin taken /\ reobs < ReobsCap
  /\ reobs' = reobs + 1
  /\ UNCHANGED <<source, swarm, inflight, channel, taken, gauge, session, ring, requests,
                 current, faults, bursts>>

\* gossipsub publish: it fails, and the request is gone, without a peer on
\* the topic.
Reached == IF told = {} THEN inflight ELSE inflight \cup {"message"}

\* The embedded swarm's reobs_rx arm.
Gossip ==
  /\ source = "swarm" /\ reobs > 0
  /\ reobs' = reobs - 1
  /\ inflight' = Reached
  /\ UNCHANGED <<source, swarm, channel, taken, gauge, session, ring, requests, current, faults, bursts>>

\* The client's reobs_rx arm.  Between sessions nobody takes the requests; one
\* sent into a closed session is lost.
SendRequest ==
  /\ link # "down" /\ reobs > 0 /\ Len(inbox) < SocketCap
  /\ reobs' = reobs - 1
  /\ inbox' = IF link = "up" THEN Append(inbox, "publish_reobservation") ELSE inbox
  /\ UNCHANGED <<source, swarm, inflight, channel, taken, gauge, link, stale, filter, hub,
                 socket, requests, current, faults, bursts>>

\* publish_reobservation: a full queue refuses the request.
Queued == IF requests < PublishCap THEN requests + 1 ELSE requests

\* handle_client_frame.
ClientFrame ==
  /\ link = "up" /\ inbox # <<>>
  /\ inbox' = Tail(inbox)
  /\ IF Head(inbox) = "subscribe" THEN filter' = "ours" /\ UNCHANGED requests
     ELSE requests' = Queued /\ UNCHANGED filter
  /\ UNCHANGED <<source, swarm, inflight, pool, link, stale, hub, socket, current, faults, bursts>>

\* The observer's publish_rx arm.
PublishRequest ==
  /\ requests > 0
  /\ requests' = requests - 1
  /\ inflight' = Reached
  /\ UNCHANGED <<source, swarm, pool, session, ring, current, faults, bursts>>

-----------------------------------------------------------------------------
(* The session.                                                            *)

\* ws_handler: the loops of given-up sessions count as clients.
Admits == stale < MaxClients

\* A session begins with the client's subscription.  The observer's loop reads
\* what is published from now on, and sends everything until that arrives.
Connect ==
  /\ source = "observer" /\ link = "down" /\ Admits
  /\ link' = "up"
  /\ inbox' = <<"subscribe">>
  /\ UNCHANGED <<source, swarm, inflight, pool, stale, filter, hub, socket, requests,
                 current, faults, bursts>>

\* client_loop, rx.recv(): Ok.
Forward ==
  /\ link = "up" /\ ~lagged /\ ring # <<>>
  /\ Matches(Head(ring)) => Len(socket) < SocketCap
  /\ ring' = Tail(ring)
  /\ socket' = IF Matches(Head(ring)) THEN Append(socket, Head(ring)) ELSE socket
  /\ UNCHANGED <<source, swarm, inflight, pool, link, stale, filter, lagged, inbox,
                 requests, current, faults, bursts>>

\* A mutant of Lagged: the loop goes on with the oldest event it can get.
LaggedGoesOn ==
  /\ link = "up" /\ lagged
  /\ lagged' = FALSE
  /\ UNCHANGED <<source, swarm, inflight, pool, link, stale, filter, ring, inbox, socket,
                 requests, current, faults, bursts>>

\* client_loop, rx.recv(): Lagged.  What is on its way still arrives.
Lagged ==
  /\ link = "up" /\ lagged
  /\ link' = "closed"
  /\ DropReader
  /\ UNCHANGED <<source, swarm, inflight, pool, stale, socket, requests, faults, bursts>>

\* handle_event of the client.
Receive ==
  /\ socket # <<>>
  /\ socket' = Tail(socket)
  /\ CASE Head(socket).kind = "vote" -> Offer(Head(socket).topic) /\ UNCHANGED gauge
       [] Head(socket).kind = "peer_status" -> gauge' = Head(socket).peers /\ UNCHANGED <<channel, bursts>>
       [] OTHER -> UNCHANGED <<gauge, channel, bursts>>
  /\ UNCHANGED <<source, swarm, inflight, reobs, taken, link, stale, filter, hub, inbox,
                 requests, current, faults>>

\* A mutant of Closed: the client passes over the close like any other frame.
ClosedUnnoticed == link = "closed" /\ socket = <<>> /\ UNCHANGED gossipVars

\* The client reads the close and its session ends.
Closed ==
  /\ link = "closed" /\ socket = <<>>
  /\ link' = "down"
  /\ UNCHANGED <<source, swarm, inflight, pool, stale, filter, hub, inbox, socket, requests,
                 current, faults, bursts>>

\* A send or a receive of the client fails; the observer's loop finds out
\* later.
SessionLost ==
  /\ link = "up" /\ Fault
  /\ link' = "down" /\ stale' = stale + 1
  /\ DropReader
  /\ socket' = <<>>
  /\ UNCHANGED <<source, swarm, inflight, pool, requests, bursts>>

\* client_loop of a given-up session: its next send or receive fails.
LoopEnds ==
  /\ stale > 0
  /\ stale' = stale - 1
  /\ UNCHANGED <<source, swarm, inflight, pool, link, filter, hub, inbox, socket, requests,
                 current, faults, bursts>>

\* A worker of the observer exits, or it is restarted: everything it had is
\* in memory.
ObserverRestart ==
  /\ source = "observer" /\ Fault
  /\ link' = "down" /\ stale' = 0
  /\ DropReader
  /\ socket' = <<>> /\ requests' = 0
  /\ conns' = [p \in Peers |-> 0] /\ told' = {} /\ subscribed' = {}
  /\ UNCHANGED <<source, count, inflight, pool, bursts>>

-----------------------------------------------------------------------------
GossipInit ==
  /\ source \in {"swarm", "observer"}
  /\ conns = [p \in Peers |-> 0] /\ told = {} /\ subscribed = {} /\ count = 0
  /\ inflight = {"message"}
  /\ reobs = 0 /\ requests = 0
  /\ link = "down" /\ stale = 0 /\ filter = "all"
  /\ ring = <<>> /\ lagged = FALSE
  /\ inbox = <<>> /\ socket = <<>>
  /\ channel = [t \in Topics |-> 0]
  /\ taken = {} /\ gauge = 0 /\ current = FALSE /\ faults = 0 /\ bursts = 0

GossipNext ==
  \/ \E p \in Peers : Dial(p) \/ PeerSubscribed(p) \/ PeerUnsubscribed(p) \/ ConnectionClosed(p)
  \/ \E t \in Topics : Hear(t) \/ Vanish(t) \/ Take(t)
  \/ Propose \/ OthersRequest \/ Ask \/ Gossip \/ SendRequest \/ ClientFrame \/ PublishRequest
  \/ Connect \/ Forward \/ Lagged \/ Receive \/ Closed \/ SessionLost \/ LoopEnds
  \/ ObserverRestart

GossipSpec == GossipInit /\ [][GossipNext]_gossipVars

\* Every loop goes on turning, the peers come back, and a vote in the mesh is
\* not the one kept waiting behind the others for ever.
GossipFairness ==
  /\ \A p \in Peers : WF_gossipVars(conns[p] = 0 /\ Dial(p)) /\ WF_gossipVars(PeerSubscribed(p))
  /\ \A t \in Topics : SF_gossipVars(Hear(t)) /\ WF_gossipVars(Take(t))
  /\ WF_gossipVars(Propose) /\ WF_gossipVars(Ask) /\ WF_gossipVars(Gossip \/ PublishRequest)
  /\ WF_gossipVars(SendRequest) /\ WF_gossipVars(ClientFrame)
  /\ WF_gossipVars(Connect \/ Closed \/ Lagged) /\ WF_gossipVars(LoopEnds)
  /\ WF_gossipVars(Forward) /\ WF_gossipVars(Receive)

GossipFairSpec == GossipSpec /\ GossipFairness

-----------------------------------------------------------------------------
(* Correctness.                                                            *)

\* A relayer that was connected when the observer's peers last changed, and
\* has read everything since, shows how many attestors are connected and
\* subscribed at this moment: a subscription withdrawn, or ended by the last
\* of several connections, is counted no more, and no session passes over
\* an event it did not read (note_subscribed, note_disconnected, the Lagged
\* arm of client_loop).
GaugeIsFleet ==
  (current /\ ~lagged /\ ~\E e \in ToSet(ring) \cup ToSet(socket) : e.kind = "peer_status")
    => gauge = Cardinality({p \in told : conns[p] > 0})

\* Every vote is taken in the end, whatever was lost or shed before:
\* requests and sessions are retried until it is (session,
\* publish_reobservation, the try_send hand-offs).
VotesArrive == <>(taken = Topics)
=============================================================================
