------------------------------ MODULE Admission ------------------------------
(***************************************************************************)
(* Who may connect to a device.  DiscoveryService (p2p/discovery.rs) knows *)
(* trusted peers, invite tokens and the peers that came with a token.      *)
(* SpotkaBehaviour::new (p2p/behaviour.rs) makes a trust graph of its own, *)
(* which add_trusted_peer fills; P2PNode (p2p/mod.rs) has another one,     *)
(* where an accepted invite makes a peer a guest.                          *)
(*                                                                         *)
(* build_transport (p2p/transport.rs) makes the ConnectionGuard that is    *)
(* asked, in strict mode as by default, over the graph it is given; that   *)
(* is the graph of P2PNode, the one a caller can reach.  The guard         *)
(* SpotkaBehaviour::new makes over its own graph is never asked.           *)
(*                                                                         *)
(* Left out: metrics, and the prefix check.  The first two bytes of every  *)
(* Ed25519 PeerId are the same, so seen_peer_prefixes never grows past the *)
(* 100 entries above which check_sybil_cluster may reject.                 *)
(***************************************************************************)
EXTENDS TrustGraphOps, Integers

CONSTANTS Nearby,       \* the peers that come into range
          Pings,        \* the pairs of a peer and a user hash that pings report
          Token,        \* hashes of invite tokens
          MaxClock      \* bound of the clock, and of expiries

ASSUME AdmissionAssumption ==
    Nearby \subseteq PeerId /\ Pings \subseteq PeerId \X User /\ MaxClock \in Nat

VARIABLES trusted_peers,      \* DiscoveryService
          active_invites,     \* token -> (user_hash, expiry)
          pending_peer_map,   \* peer -> user hash
          behaviour_graph,    \* the graph of SpotkaBehaviour
          node_graph,         \* the graph of P2PNode, given to build_transport
          cleared,            \* peers validate_incoming said yes to, not yet connected
          active_connections,
          now

admissionVars == <<trusted_peers, active_invites, pending_peer_map, behaviour_graph, node_graph,
          cleared, active_connections, now>>

discovery == <<trusted_peers, active_invites, pending_peer_map>>

NoInvite == [user |-> NoUser, expiry |-> 0]

AdmissionTypeOK ==
    /\ trusted_peers \subseteq PeerId
    /\ active_invites \in [Token -> [user : User, expiry : 0..MaxClock] \cup {NoInvite}]
    /\ pending_peer_map \in [PeerId -> User \cup {NoUser}]
    /\ behaviour_graph \in TrustGraph /\ node_graph \in TrustGraph
    /\ cleared \subseteq PeerId /\ active_connections \subseteq PeerId
    /\ now \in 0..MaxClock

AdmissionInit ==
    /\ trusted_peers = {}
    /\ active_invites = [t \in Token |-> NoInvite]
    /\ pending_peer_map = [p \in PeerId |-> NoUser]
    /\ behaviour_graph = EmptyGraph /\ node_graph = EmptyGraph
    /\ cleared = {} /\ active_connections = {}
    /\ now = 0

------------------------------------------------------------------------------
(* For the mutation runs: the peer stays a pending guest.                  *)
add_trusted_peer_StillPending(p, u) ==
    /\ trusted_peers' = trusted_peers \cup {p}
    /\ behaviour_graph' = AddVerified(behaviour_graph, p, u)
    /\ UNCHANGED <<active_invites, pending_peer_map, node_graph, cleared,
                   active_connections, now>>

(* A ping, as SpotkaBehaviour takes it: both of its caches learn the peer. *)
add_trusted_peer(p, u) ==
    /\ trusted_peers' = trusted_peers \cup {p}
    /\ pending_peer_map' = [pending_peer_map EXCEPT ![p] = NoUser]
    /\ behaviour_graph' = AddVerified(behaviour_graph, p, u)
    /\ UNCHANGED <<active_invites, node_graph, cleared, active_connections, now>>

register_invite_token(t, u, e) ==
    /\ active_invites' = [active_invites EXCEPT ![t] = [user |-> u, expiry |-> e]]
    /\ UNCHANGED <<trusted_peers, pending_peer_map, behaviour_graph, node_graph, cleared,
                   active_connections, now>>

(* on_peer_discovered with a token.  A peer that is trusted already needs  *)
(* none; every other outcome is a rejection, which changes only metrics.   *)
(* The token is not used up.                                               *)
on_peer_discovered(p, t) ==
    /\ p \notin trusted_peers
    /\ active_invites[t] # NoInvite /\ now < active_invites[t].expiry
    /\ pending_peer_map' = [pending_peer_map EXCEPT ![p] = active_invites[t].user]
    /\ UNCHANGED <<trusted_peers, active_invites, behaviour_graph, node_graph, cleared,
                   active_connections, now>>

cleanup ==
    /\ trusted_peers' = {}
    /\ active_invites' = [t \in Token |-> NoInvite]
    /\ pending_peer_map' = [p \in PeerId |-> NoUser]
    /\ UNCHANGED <<behaviour_graph, node_graph, cleared, active_connections, now>>

(* P2PNode, as the application calls it: a ping, and the confirmation of a *)
(* peer that discovery holds as pending (or, in a mutation run, does not). *)
node_on_ping_success(p, u) ==
    /\ node_graph' = AddVerified(node_graph, p, u)
    /\ UNCHANGED <<discovery, behaviour_graph, cleared, active_connections, now>>

node_on_invite_accepted_Unchecked(p) ==
    /\ node_graph' = AddGuest(node_graph, p, pending_peer_map[p])
    /\ UNCHANGED <<discovery, behaviour_graph, cleared, active_connections, now>>

node_on_invite_accepted(p) ==
    /\ pending_peer_map[p] # NoUser
    /\ node_graph' = AddGuest(node_graph, p, pending_peer_map[p])
    /\ UNCHANGED <<discovery, behaviour_graph, cleared, active_connections, now>>

node_shutdown ==
    /\ node_graph' = EmptyGraph
    /\ UNCHANGED <<discovery, behaviour_graph, cleared, active_connections, now>>

(* A connection: the transport's guard first, the behaviour's callback     *)
(* later, which looks the peer up in its own graph only to log it.         *)
Admitted(p) == GetLevel(node_graph, p) \in {"VerifiedFriend", "InvitedGuest"}

validate_incoming(p) ==
    /\ Admitted(p)
    /\ cleared' = cleared \cup {p}
    /\ UNCHANGED <<discovery, behaviour_graph, node_graph, active_connections, now>>

on_connection_established(p) ==
    /\ p \in cleared /\ cleared' = cleared \ {p}
    /\ active_connections' = active_connections \cup {p}
    /\ UNCHANGED <<discovery, behaviour_graph, node_graph, now>>

on_connection_closed(p) ==
    /\ active_connections' = active_connections \ {p}
    /\ UNCHANGED <<discovery, behaviour_graph, node_graph, cleared, now>>

Tick == /\ now < MaxClock
        /\ now' = now + 1
        /\ UNCHANGED <<discovery, behaviour_graph, node_graph, cleared, active_connections>>

AdmissionNext ==
    \/ \E p \in Nearby : \/ node_on_invite_accepted(p) \/ validate_incoming(p)
                         \/ on_connection_established(p) \/ on_connection_closed(p)
                         \/ \E t \in Token : on_peer_discovered(p, t)
    \/ \E p \in PeerId, u \in User :
          /\ <<p, u>> \in Pings
          /\ add_trusted_peer(p, u) \/ node_on_ping_success(p, u)
    \/ \E t \in Token, u \in User, e \in 0..MaxClock : register_invite_token(t, u, e)
    \/ cleanup \/ node_shutdown \/ Tick

AdmissionSpec == AdmissionInit /\ [][AdmissionNext]_admissionVars

------------------------------------------------------------------------------
(* A friend is never also a pending guest, in whatever order pings and     *)
(* tokens come (add_trusted_peer, on_peer_discovered of discovery.rs).     *)
TrustedNotPending == \A p \in trusted_peers : pending_peer_map[p] = NoUser

(* Whom discovery lets through as a friend, the graph of the behaviour     *)
(* knows as one: add_trusted_peer keeps the two in step.                   *)
FriendsAreVerified ==
    \A p \in trusted_peers : GetLevel(behaviour_graph, p) = "VerifiedFriend"

(* "This implies a temporary guest access via token that hasn't been added *)
(* to graph yet" (behaviour.rs:125, of a connected peer whose level is     *)
(* None): a connected guest that has been added to the graph is known to   *)
(* the behaviour.  The guest was added to the graph of the node, and the   *)
(* behaviour asks its own.                                                 *)
GuestsAreRecognised ==
    \A p \in active_connections :
        GetLevel(node_graph, p) = "InvitedGuest" => Known(behaviour_graph, p)

==============================================================================
