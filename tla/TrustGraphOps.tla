---------------------------- MODULE TrustGraphOps ----------------------------
(***************************************************************************)
(* The two maps of p2p/mod.rs TrustGraph as a value, and its methods as    *)
(* operators from one graph to the next.  peers maps a PeerId to the hash  *)
(* of its user and a trust level; user_to_peer maps a user hash back to    *)
(* one PeerId, the route that invites for that user are forwarded on.      *)
(* A key that a map does not hold is mapped to Unknown or to NoPeer.       *)
(***************************************************************************)
CONSTANTS PeerId,     \* libp2p identities
          User,       \* phone hashes
          NoPeer,     \* "user_to_peer has no entry"
          NoUser      \* "peers has no entry"

ASSUME NullsAreNull == NoPeer \notin PeerId /\ NoUser \notin User

TrustLevel == {"VerifiedFriend", "InvitedGuest"}

Unknown == [user |-> NoUser, level |-> "None"]

Entry == [user : User, level : TrustLevel]

TrustGraph == [peers : [PeerId -> Entry \cup {Unknown}],
               user_to_peer : [User -> PeerId \cup {NoPeer}]]

EmptyGraph == [peers |-> [p \in PeerId |-> Unknown],
               user_to_peer |-> [u \in User |-> NoPeer]]

(* Both adders insert into both maps, whatever the maps held before.       *)
AddAt(g, p, u, l) ==
    [peers |-> [g.peers EXCEPT ![p] = [user |-> u, level |-> l]],
     user_to_peer |-> [g.user_to_peer EXCEPT ![u] = p]]

AddVerified(g, p, u) == AddAt(g, p, u, "VerifiedFriend")

AddGuest(g, p, u) == AddAt(g, p, u, "InvitedGuest")

Known(g, p) == g.peers[p] # Unknown

GetLevel(g, p) == g.peers[p].level

GetPeerForUser(g, u) == g.user_to_peer[u]

(* The ways remove_guest could go wrong, for the mutation runs: the route  *)
(* outlives the peer; every route goes.                                    *)
RemoveGuest_RouteStays(g, p) == [g EXCEPT !.peers[p] = Unknown]

RemoveGuest_AllRoutesGo(g, p) ==
    [g EXCEPT !.peers[p] = Unknown, !.user_to_peer = EmptyGraph.user_to_peer]

(* Removes the entry of the peer at any level, and the route of the user   *)
(* that entry names even when the route leads to another peer.             *)
RemoveGuest(g, p) ==
    IF Known(g, p)
    THEN [peers |-> [g.peers EXCEPT ![p] = Unknown],
          user_to_peer |-> [g.user_to_peer EXCEPT ![g.peers[p].user] = NoPeer]]
    ELSE g
==============================================================================
