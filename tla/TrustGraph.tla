----------------------------- MODULE TrustGraph ------------------------------
(***************************************************************************)
(* The trust graph of one device as P2PNode drives it (p2p/mod.rs): a      *)
(* successful ping verifies a peer, an accepted invite adds a guest, a     *)
(* guest is removed, and a shutdown zeroizes both maps.  Every operation   *)
(* runs under the write lock of trust_graph, so it is one action.          *)
(*                                                                         *)
(* Both adders take any PeerId with any user hash, and nothing compares    *)
(* them with what the graph holds: a user who restarts the app is filed    *)
(* under another PeerId, and one PeerId may be filed under two users, as   *)
(* when a token's user is not the peer that presents it.                   *)
(***************************************************************************)
EXTENDS TrustGraphOps

VARIABLES trust_graph,
          filed,      \* history: the pairs both adders were given
          dropped     \* history: users remove_guest took the route of

vars == <<trust_graph, filed, dropped>>

TypeOK == /\ trust_graph \in TrustGraph
          /\ filed \subseteq PeerId \X User
          /\ dropped \subseteq User

Init == trust_graph = EmptyGraph /\ filed = {} /\ dropped = {}

Files(p, u) == filed' = filed \cup {<<p, u>>} /\ dropped' = dropped \ {u}

on_ping_success(p, u) == trust_graph' = AddVerified(trust_graph, p, u) /\ Files(p, u)

on_invite_accepted(p, u) == trust_graph' = AddGuest(trust_graph, p, u) /\ Files(p, u)

remove_guest(p) ==
    /\ trust_graph' = RemoveGuest(trust_graph, p)
    /\ dropped' = dropped \cup ({trust_graph.peers[p].user} \cap User)
    /\ UNCHANGED filed

shutdown == trust_graph' = EmptyGraph /\ filed' = {} /\ dropped' = {}

Next == \/ \E p \in PeerId : \/ \E u \in User : \/ on_ping_success(p, u)
                                                \/ on_invite_accepted(p, u)
                             \/ remove_guest(p)
        \/ shutdown

Spec == Init /\ [][Next]_vars

------------------------------------------------------------------------------
RouteOf(u) == GetPeerForUser(trust_graph, u)

EntriesOf(u) == {p \in PeerId : trust_graph.peers[p].user = u}

(* The two maps agree as far as the code keeps them together, whatever the *)
(* order of pings, invites, removals and shutdowns.  A route leads to a    *)
(* peer the graph knows as that user's, unless the peer was filed under    *)
(* another user as well; and a user whose peers are known has a route,     *)
(* unless remove_guest took it with another PeerId of the user.            *)
RouteSound ==
    \A u \in User :
        /\ \A p \in PeerId : RouteOf(u) = p =>
              p \in EntriesOf(u) \/ \E v \in User \ {u} : <<p, v>> \in filed
        /\ EntriesOf(u) # {} /\ RouteOf(u) = NoPeer => u \in dropped

(* A route of one user moves only to a peer of that user, and is lost only *)
(* together with an entry for that same user, or with the whole graph: no  *)
(* operation on one user's peers disturbs the route of another user.       *)
RouteChangesAtHome ==
    [][\A u \in User : RouteOf(u)' # RouteOf(u) =>
           \/ RouteOf(u)' \in EntriesOf(u)'
           \/ /\ RouteOf(u)' = NoPeer
              /\ EntriesOf(u) \ EntriesOf(u)' # {} \/ trust_graph' = EmptyGraph]_vars

==============================================================================
