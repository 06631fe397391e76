-------------------------- MODULE AdmissionProofs ----------------------------
(***************************************************************************)
(* For any peers, users, pings, tokens and clock.                          *)
(*                                                                         *)
(* The trust graph of one device: RouteSound is inductive once the graph   *)
(* is well typed.  remove_guest drops the route of the user in the entry   *)
(* of a peer, which need not be a route to that peer; that loses routes    *)
(* (dropped), and lets a route survive its peer only when the peer has     *)
(* been filed under two users (filed).                                     *)
(*                                                                         *)
(* Who may connect: one ping updates the caches of p2p/discovery.rs and    *)
(* the graph of p2p/behaviour.rs together; IInv says that they agree.      *)
(***************************************************************************)
EXTENDS MCAdmission, TLAPS

GraphInv == TypeOK /\ RouteSound

------------------------------------------------------------------------------
(* Filing a peer under a user, at either level, keeps the invariant:       *)
(* on_ping_success and on_invite_accepted, p2p/mod.rs.                     *)
LEMMA AddKeepsGraphInv ==
    ASSUME GraphInv, NEW p \in PeerId, NEW u \in User, NEW l \in TrustLevel,
           trust_graph' = AddAt(trust_graph, p, u, l), Files(p, u)
    PROVE  GraphInv'
  <1> DEFINE e == [user |-> u, level |-> l]
  <1>e. e \in Entry /\ e.user = u
    BY DEF Entry
  <1>f. /\ trust_graph'.peers = [trust_graph.peers EXCEPT ![p] = e]
        /\ trust_graph'.user_to_peer = [trust_graph.user_to_peer EXCEPT ![u] = p]
        /\ filed' = filed \cup {<<p, u>>} /\ dropped' = dropped \ {u}
    BY DEF AddAt, Files
  <1> HIDE DEF e
  <1>1. TypeOK'
    BY <1>e, <1>f DEF GraphInv, TypeOK, TrustGraph, AddAt, e
  <1>2. \A q \in PeerId : trust_graph'.peers[q] = IF q = p THEN e ELSE trust_graph.peers[q]
    BY <1>f DEF GraphInv, TypeOK, TrustGraph
  <1>3. \A w \in User : RouteOf(w)' = IF w = u THEN p ELSE RouteOf(w)
    BY <1>f DEF GraphInv, TypeOK, TrustGraph, RouteOf, GetPeerForUser
  <1>4. ASSUME NEW w \in User, NEW q \in PeerId, RouteOf(w)' = q
        PROVE  q \in EntriesOf(w)' \/ \E v \in User \ {w} : <<q, v>> \in filed'
    <2>1. CASE w = u
      <3>1. q = p /\ trust_graph'.peers[p].user = u
        BY <1>2, <1>3, <1>4, <1>e, <2>1
      <3> QED
        BY <2>1, <3>1 DEF EntriesOf
    <2>2. CASE w # u /\ q = p
      BY <1>f, <2>2
    <2>3. CASE w # u /\ q # p
      <3>1. q \in EntriesOf(w) \/ \E v \in User \ {w} : <<q, v>> \in filed
        BY <1>3, <1>4, <2>3 DEF GraphInv, RouteSound
      <3>2. q \in EntriesOf(w) => q \in EntriesOf(w)'
        BY <1>2, <2>3 DEF EntriesOf
      <3> QED
        BY <1>f, <3>1, <3>2
    <2> QED
      BY <2>1, <2>2, <2>3
  <1>5. ASSUME NEW w \in User, EntriesOf(w)' # {}, RouteOf(w)' = NoPeer
        PROVE  w \in dropped'
    <2>1. w # u
      BY <1>3, <1>5, NullsAreNull
    <2>2. EntriesOf(w) # {}
      BY <1>2, <1>5, <1>e, <2>1 DEF EntriesOf
    <2> QED
      BY <1>3, <1>5, <1>f, <2>1, <2>2 DEF GraphInv, RouteSound
  <1> QED
    BY <1>1, <1>4, <1>5 DEF GraphInv, RouteSound

(* Removing a peer keeps the invariant: remove_guest, p2p/mod.rs.          *)
LEMMA RemoveKeepsGraphInv ==
    ASSUME GraphInv, NEW p \in PeerId, remove_guest(p)
    PROVE  GraphInv'
  <1>1. CASE ~Known(trust_graph, p)
    <2>1. UNCHANGED vars
      BY <1>1, NullsAreNull DEF GraphInv, TypeOK, remove_guest, RemoveGuest, Known, Unknown, vars
    <2> QED
      BY <2>1 DEF vars, GraphInv, TypeOK, RouteSound, RouteOf, EntriesOf
  <1>2. CASE Known(trust_graph, p)
    <2> DEFINE w == trust_graph.peers[p].user
    <2>1. w \in User
      BY <1>2 DEF GraphInv, TypeOK, TrustGraph, Entry, Known
    <2>2. /\ trust_graph'.peers = [trust_graph.peers EXCEPT ![p] = Unknown]
          /\ trust_graph'.user_to_peer = [trust_graph.user_to_peer EXCEPT ![w] = NoPeer]
          /\ dropped' = dropped \cup {w} /\ filed' = filed
      BY <1>2, <2>1 DEF remove_guest, RemoveGuest
    <2>3. TypeOK'
      BY <1>2, <2>1, <2>2 DEF GraphInv, TypeOK, TrustGraph, remove_guest, RemoveGuest
    <2>4. \A q \in PeerId : trust_graph'.peers[q] = IF q = p THEN Unknown ELSE trust_graph.peers[q]
      BY <2>2 DEF GraphInv, TypeOK, TrustGraph
    <2> HIDE DEF w
    <2>5. \A x \in User : RouteOf(x)' = IF x = w THEN NoPeer ELSE RouteOf(x)
      BY <2>1, <2>2 DEF GraphInv, TypeOK, TrustGraph, RouteOf, GetPeerForUser
    <2>6. ASSUME NEW x \in User, NEW q \in PeerId, RouteOf(x)' = q
          PROVE  q \in EntriesOf(x)' \/ \E v \in User \ {x} : <<q, v>> \in filed'
      <3>1. x # w /\ RouteOf(x) = q
        BY <2>5, <2>6, NullsAreNull
      <3>2. q \in EntriesOf(x) \/ \E v \in User \ {x} : <<q, v>> \in filed
        BY <3>1 DEF GraphInv, RouteSound
      <3>3. q \in EntriesOf(x) => q # p
        BY <3>1 DEF EntriesOf, w
      <3>4. q \in EntriesOf(x) => q \in EntriesOf(x)'
        BY <2>4, <3>3 DEF EntriesOf
      <3> QED
        BY <2>2, <3>2, <3>4
    <2>7. ASSUME NEW x \in User, EntriesOf(x)' # {}, RouteOf(x)' = NoPeer
          PROVE  x \in dropped'
      <3>1. CASE x = w
        BY <2>2, <3>1
      <3>2. CASE x # w
        <4>1. EntriesOf(x) # {}
          BY <2>4, <2>7, NullsAreNull DEF EntriesOf, Unknown
        <4> QED
          BY <2>2, <2>5, <2>7, <3>2, <4>1 DEF GraphInv, RouteSound
      <3> QED
        BY <3>1, <3>2
    <2> QED
      BY <2>3, <2>6, <2>7 DEF GraphInv, RouteSound
  <1> QED
    BY <1>1, <1>2

(* The empty graph of TrustGraph::new and of zeroize satisfies it.         *)
LEMMA EmptyHoldsGraphInv ==
    /\ Init => GraphInv
    /\ shutdown => GraphInv'
  BY NullsAreNull
     DEF Init, shutdown, GraphInv, TypeOK, RouteSound, RouteOf, EntriesOf, GetPeerForUser,
         TrustGraph, EmptyGraph, Unknown

(* Every operation of the device's trust graph keeps the invariant.        *)
LEMMA NextKeepsGraphInv == GraphInv /\ [Next]_vars => GraphInv'
  <1> SUFFICES ASSUME GraphInv, [Next]_vars PROVE GraphInv'
    OBVIOUS
  <1>1. ASSUME NEW p \in PeerId, NEW u \in User, on_ping_success(p, u) PROVE GraphInv'
    BY <1>1, AddKeepsGraphInv DEF on_ping_success, AddVerified, TrustLevel
  <1>2. ASSUME NEW p \in PeerId, NEW u \in User, on_invite_accepted(p, u) PROVE GraphInv'
    BY <1>2, AddKeepsGraphInv DEF on_invite_accepted, AddGuest, TrustLevel
  <1>3. ASSUME NEW p \in PeerId, remove_guest(p) PROVE GraphInv'
    BY <1>3, RemoveKeepsGraphInv
  <1>4. CASE shutdown
    BY <1>4, EmptyHoldsGraphInv
  <1>5. CASE UNCHANGED vars
    BY <1>5 DEF vars, GraphInv, TypeOK, RouteSound, RouteOf, EntriesOf
  <1> QED
    BY <1>1, <1>2, <1>3, <1>4, <1>5 DEF Next

------------------------------------------------------------------------------
(* The invariant holds in every reachable state.                           *)
THEOREM TrustGraphInvariant == Spec => []GraphInv
  <1>1. Init => GraphInv
    BY EmptyHoldsGraphInv
  <1> QED
    BY <1>1, NextKeepsGraphInv, PTL DEF Spec

(* The maps of TrustGraph (p2p/mod.rs) hold only peers, users and levels.  *)
THEOREM GraphTypeCorrect == Spec => []TypeOK
  <1>1. GraphInv => TypeOK
    BY DEF GraphInv
  <1> QED
    BY <1>1, TrustGraphInvariant, PTL

(* get_peer_for_user (p2p/mod.rs) hands out a peer the graph has forgotten *)
(* or knows as another user's only when that peer was filed under two      *)
(* users, and hands out nothing for a user with known peers only after a   *)
(* remove_guest for that user.                                             *)
THEOREM RoutesDangleOnlyIfRefiled == Spec => []RouteSound
  <1>1. GraphInv => RouteSound
    BY DEF GraphInv
  <1> QED
    BY <1>1, TrustGraphInvariant, PTL

(* No operation on one user's peers disturbs the route of another user     *)
(* (add_verified, add_guest, remove_guest of p2p/mod.rs).                  *)
THEOREM RoutesChangeAtHome == Spec => RouteChangesAtHome
  <1> DEFINE AtHome == \A u \in User : RouteOf(u)' # RouteOf(u) =>
                 \/ RouteOf(u)' \in EntriesOf(u)'
                 \/ /\ RouteOf(u)' = NoPeer
                    /\ EntriesOf(u) \ EntriesOf(u)' # {} \/ trust_graph' = EmptyGraph
  <1>1. GraphInv /\ [Next]_vars => [AtHome]_vars
    <2> SUFFICES ASSUME GraphInv, Next, NEW u \in User, RouteOf(u)' # RouteOf(u)
                 PROVE  \/ RouteOf(u)' \in EntriesOf(u)'
                        \/ /\ RouteOf(u)' = NoPeer
                           /\ EntriesOf(u) \ EntriesOf(u)' # {} \/ trust_graph' = EmptyGraph
      BY DEF vars
    <2>1. ASSUME NEW p \in PeerId, NEW w \in User,
                 on_ping_success(p, w) \/ on_invite_accepted(p, w)
          PROVE  RouteOf(u)' \in EntriesOf(u)'
      <3>1. /\ trust_graph'.user_to_peer = [trust_graph.user_to_peer EXCEPT ![w] = p]
            /\ trust_graph'.peers[p].user = w
        BY <2>1 DEF on_ping_success, on_invite_accepted, AddVerified, AddGuest, AddAt,
                    GraphInv, TypeOK, TrustGraph
      <3>2. u = w /\ RouteOf(u)' = p
        BY <3>1 DEF RouteOf, GetPeerForUser, GraphInv, TypeOK, TrustGraph
      <3> QED
        BY <3>1, <3>2 DEF EntriesOf
    <2>2. ASSUME NEW p \in PeerId, remove_guest(p)
          PROVE  RouteOf(u)' = NoPeer /\ EntriesOf(u) \ EntriesOf(u)' # {}
      <3>1. /\ Known(trust_graph, p) /\ trust_graph.peers[p].user = u
            /\ RouteOf(u)' = NoPeer
        BY <2>2 DEF remove_guest, RemoveGuest, RouteOf, GetPeerForUser, GraphInv, TypeOK, TrustGraph
      <3>2. trust_graph'.peers[p].user = NoUser
        BY <2>2, <3>1 DEF remove_guest, RemoveGuest, Unknown, GraphInv, TypeOK, TrustGraph
      <3> QED
        BY <3>1, <3>2, NullsAreNull DEF EntriesOf
    <2>3. CASE shutdown
      BY <2>3 DEF shutdown, EmptyGraph, RouteOf, GetPeerForUser
    <2> QED
      BY <2>1, <2>2, <2>3 DEF Next
  <1> QED
    BY <1>1, TrustGraphInvariant, PTL DEF Spec, RouteChangesAtHome

------------------------------------------------------------------------------
IInv == AdmissionTypeOK /\ TrustedNotPending /\ FriendsAreVerified

------------------------------------------------------------------------------
(* Adding a peer to a graph keeps its type, makes the peer known at its    *)
(* level and leaves every other peer as it was.                            *)
LEMMA AddingAPeer ==
    ASSUME NEW g \in TrustGraph, NEW p \in PeerId, NEW u \in User, NEW l \in TrustLevel
    PROVE  /\ AddAt(g, p, u, l) \in TrustGraph
           /\ AddAt(g, p, u, l).peers[p] = [user |-> u, level |-> l]
           /\ \A q \in PeerId \ {p} : AddAt(g, p, u, l).peers[q] = g.peers[q]
  BY DEF AddAt, TrustGraph, Entry

LEMMA EmptyGraphIsGraph == EmptyGraph \in TrustGraph
  BY DEF EmptyGraph, TrustGraph

------------------------------------------------------------------------------
LEMMA InitHoldsIInv == AdmissionInit => IInv
  <1> SUFFICES ASSUME AdmissionInit
               PROVE  IInv
    OBVIOUS
  <1>1. 0 \in 0..MaxClock
    BY AdmissionAssumption
  <1>2. AdmissionTypeOK
    BY <1>1, EmptyGraphIsGraph DEF AdmissionInit, AdmissionTypeOK
  <1> QED
    BY <1>2 DEF AdmissionInit, IInv, TrustedNotPending, FriendsAreVerified

(* A ping: friend, not pending, and in the graph in one step.              *)
LEMMA PingKeepsIInv ==
    ASSUME IInv, NEW p \in PeerId, NEW u \in User, add_trusted_peer(p, u)
    PROVE  IInv'
  <1> DEFINE friend == [user |-> u, level |-> "VerifiedFriend"]
  <1>1. behaviour_graph \in TrustGraph
    BY DEF IInv, AdmissionTypeOK
  <1>2. /\ behaviour_graph' \in TrustGraph
        /\ behaviour_graph'.peers[p] = friend
        /\ \A q \in PeerId \ {p} : behaviour_graph'.peers[q] = behaviour_graph.peers[q]
    BY <1>1, AddingAPeer DEF add_trusted_peer, AddVerified, TrustLevel
  <1>3. /\ pending_peer_map' \in [PeerId -> User \cup {NoUser}]
        /\ pending_peer_map'[p] = NoUser
        /\ \A q \in PeerId \ {p} : pending_peer_map'[q] = pending_peer_map[q]
    BY DEF IInv, AdmissionTypeOK, add_trusted_peer
  <1>4. AdmissionTypeOK'
    BY <1>2, <1>3 DEF IInv, AdmissionTypeOK, add_trusted_peer
  <1>5. TrustedNotPending'
    BY <1>3 DEF IInv, AdmissionTypeOK, TrustedNotPending, add_trusted_peer
  <1>6. FriendsAreVerified'
    BY <1>2 DEF IInv, AdmissionTypeOK, FriendsAreVerified, add_trusted_peer, GetLevel
  <1> QED
    BY <1>4, <1>5, <1>6 DEF IInv

(* Tokens, and the peers that come with them.                              *)
LEMMA DiscoveryKeepsIInv ==
    ASSUME IInv,
           \/ \E p \in PeerId, t \in Token : on_peer_discovered(p, t)
           \/ \E t \in Token, u \in User, e \in 0..MaxClock : register_invite_token(t, u, e)
           \/ cleanup
    PROVE  IInv'
  <1> USE DEF IInv, TrustedNotPending, FriendsAreVerified
  <1>1. ASSUME NEW p \in PeerId, NEW t \in Token, on_peer_discovered(p, t)
        PROVE  IInv'
    <2>1. active_invites[t].user \in User
      BY <1>1 DEF AdmissionTypeOK, on_peer_discovered
    <2>2. AdmissionTypeOK'
      BY <1>1, <2>1 DEF AdmissionTypeOK, on_peer_discovered
    <2>3. TrustedNotPending'
      BY <1>1 DEF AdmissionTypeOK, on_peer_discovered
    <2> QED
      BY <1>1, <2>2, <2>3 DEF on_peer_discovered
  <1>2. ASSUME NEW t \in Token, NEW u \in User, NEW e \in 0..MaxClock,
               register_invite_token(t, u, e)
        PROVE  IInv'
    <2>1. AdmissionTypeOK'
      BY <1>2 DEF AdmissionTypeOK, register_invite_token
    <2> QED
      BY <1>2, <2>1 DEF register_invite_token
  <1>3. CASE cleanup
    <2>1. AdmissionTypeOK'
      BY <1>3 DEF AdmissionTypeOK, cleanup
    <2> QED
      BY <1>3, <2>1 DEF cleanup
  <1> QED
    BY <1>1, <1>2, <1>3

(* The graph of the node, the clock, and the way of a connection.          *)
LEMMA OtherStepsKeepIInv ==
    ASSUME IInv,
           \/ \E p \in PeerId, u \in User : node_on_ping_success(p, u)
           \/ \E p \in PeerId : \/ node_on_invite_accepted(p)
                                \/ validate_incoming(p) \/ on_connection_established(p)
                                \/ on_connection_closed(p)
           \/ node_shutdown \/ Tick \/ UNCHANGED admissionVars
    PROVE  IInv'
  <1> USE AdmissionAssumption
          DEF IInv, TrustedNotPending, FriendsAreVerified,
              AdmissionTypeOK, discovery
  <1>1. ASSUME NEW p \in PeerId, NEW u \in User, node_on_ping_success(p, u)
        PROVE  IInv'
    <2>1. node_graph' \in TrustGraph
      BY <1>1, AddingAPeer DEF node_on_ping_success, AddVerified, TrustLevel
    <2> QED
      BY <1>1, <2>1 DEF node_on_ping_success
  <1>2. ASSUME NEW p \in PeerId, node_on_invite_accepted(p)
        PROVE  IInv'
    <2>1. pending_peer_map[p] \in User
      BY <1>2 DEF node_on_invite_accepted
    <2>2. node_graph' \in TrustGraph
      BY <1>2, <2>1, AddingAPeer DEF node_on_invite_accepted, AddGuest, TrustLevel
    <2> QED
      BY <1>2, <2>2 DEF node_on_invite_accepted
  <1>3. ASSUME NEW p \in PeerId,
               validate_incoming(p) \/ on_connection_established(p) \/ on_connection_closed(p)
        PROVE  IInv'
    BY <1>3 DEF validate_incoming, on_connection_established, on_connection_closed
  <1>4. CASE node_shutdown
    BY <1>4, EmptyGraphIsGraph DEF node_shutdown
  <1>5. CASE Tick
    BY <1>5 DEF Tick
  <1>6. CASE UNCHANGED admissionVars
    BY <1>6 DEF admissionVars
  <1> QED
    BY <1>1, <1>2, <1>3, <1>4, <1>5, <1>6

LEMMA StepKeepsIInv == IInv /\ [AdmissionNext]_admissionVars => IInv'
  BY PingKeepsIInv, DiscoveryKeepsIInv, OtherStepsKeepIInv, AdmissionAssumption
     DEF AdmissionNext

------------------------------------------------------------------------------
(* The caches of discovery and the graph of the behaviour agree: the       *)
(* inductive invariant.                                                    *)
THEOREM AdmissionInvariant == AdmissionSpec => []IInv
  BY InitHoldsIInv, StepKeepsIInv, PTL DEF AdmissionSpec

(* A friend is never also pending (discovery.rs).                          *)
THEOREM TrustedNeverPending == AdmissionSpec => []TrustedNotPending
  <1>1. IInv => TrustedNotPending
    BY DEF IInv
  <1> QED
    BY <1>1, AdmissionInvariant, PTL

(* Whom discovery takes for a friend, the behaviour's graph has as one     *)
(* (add_trusted_peer, behaviour.rs).                                       *)
THEOREM FriendsAlwaysVerified == AdmissionSpec => []FriendsAreVerified
  <1>1. IInv => FriendsAreVerified
    BY DEF IInv
  <1> QED
    BY <1>1, AdmissionInvariant, PTL

------------------------------------------------------------------------------
(* The graphs of p2p/mod.rs and behaviour.rs and the caches of             *)
(* discovery.rs stay of their types, whichever of the two parts a          *)
(* behaviour is about.                                                     *)
THEOREM AdmissionTypeCorrect == MCSpec => []MCTypeOK
  <1>1. MCInit => GraphInv /\ IInv
    BY EmptyHoldsGraphInv, InitHoldsIInv DEF MCInit
  <1>2. GraphInv /\ IInv /\ [MCNext]_<<part, vars, admissionVars>> => (GraphInv /\ IInv)'
    <2>1. [MCNext]_<<part, vars, admissionVars>> => [Next]_vars /\ [AdmissionNext]_admissionVars
      BY DEF MCNext
    <2> QED
      BY <2>1, NextKeepsGraphInv, StepKeepsIInv
  <1>3. GraphInv /\ IInv => MCTypeOK
    BY DEF GraphInv, IInv, MCTypeOK
  <1> QED
    BY <1>1, <1>2, <1>3, PTL DEF MCSpec

==============================================================================
