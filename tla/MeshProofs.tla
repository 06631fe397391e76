----------------------------- MODULE MeshProofs ------------------------------
(***************************************************************************)
(* What p2p/behaviour.rs guarantees in a mesh of any users, PeerIds and    *)
(* meetings, with packets delayed, reordered and lost and devices          *)
(* restarted.  The invariant says of every message, queued or in flight,   *)
(* whose device it comes from and whose it goes to; that a relay keeps to  *)
(* it rests on routes that lead to devices of their user.                  *)
(***************************************************************************)
EXTENDS Mesh, SequenceTheorems, TLAPS

(* An invite comes from its organizer unless it goes to its recipient, a   *)
(* friends-only one always does; a reject goes to the organizer; an update *)
(* comes from the user it is about.                                        *)
Proper(from, to, m) ==
    /\ m.type = "Invite" =>
           /\ m.friends_only => Owner[from] = Organizer[m.meeting]
           /\ Owner[from] # Organizer[m.meeting] => Owner[to] = m.recipient
    /\ m.type = "InviteReject" => Owner[to] = Organizer[m.meeting]
    /\ m.type = "ParticipationUpdate" => Owner[from] = m.user

MessagesAreProper ==
    /\ \A k \in net : Proper(k.from, k.to, k.msg)
    /\ \A n \in User : \A i \in 1..Len(outgoing[n]) :
           Proper(peer[n], outgoing[n][i].to, outgoing[n][i].msg)

RoutesAreOwned ==
    \A n, u \in User :
        GetPeerForUser(trust[n], u) # NoPeer => Owner[GetPeerForUser(trust[n], u)] = u

IInv == /\ TypeOK
        /\ MessagesAreProper /\ RoutesAreOwned
        /\ RejectsComeHome /\ InterestedIsPrivate

Item == [to : PeerId, msg : Message]

------------------------------------------------------------------------------
LEMMA EmptyGraphIsGraph == EmptyGraph \in TrustGraph
  BY DEF EmptyGraph, TrustGraph

(* Queueing one proper message keeps the queues typed and proper.          *)
LEMMA QueueKeepsQueues ==
    ASSUME IInv, NEW n \in User, NEW p \in PeerId, NEW m \in Message,
           Proper(peer[n], p, m), Queue(n, p, m), UNCHANGED peer
    PROVE  /\ outgoing' \in [User -> Seq(Item)]
           /\ \A u \in User : \A i \in 1..Len(outgoing'[u]) :
                  Proper(peer'[u], outgoing'[u][i].to, outgoing'[u][i].msg)
  <1> DEFINE item == [to |-> p, msg |-> m]
  <1>1. item \in Item /\ outgoing \in [User -> Seq(Item)]
    BY DEF IInv, TypeOK, Item
  <1>2. /\ outgoing'[n] = Append(outgoing[n], item)
        /\ \A u \in User \ {n} : outgoing'[u] = outgoing[u]
        /\ outgoing' \in [User -> Seq(Item)]
    BY <1>1 DEF Queue
  <1>3. ASSUME NEW i \in 1..Len(outgoing'[n])
        PROVE  Proper(peer[n], outgoing'[n][i].to, outgoing'[n][i].msg)
    <2>1. CASE i \in 1..Len(outgoing[n])
      <3>1. outgoing'[n][i] = outgoing[n][i]
        BY <1>1, <1>2, <2>1
      <3> QED
        BY <2>1, <3>1 DEF IInv, MessagesAreProper
    <2>2. CASE i \notin 1..Len(outgoing[n])
      <3>1. outgoing'[n][i] = item
        BY <1>1, <1>2, <2>2
      <3> QED
        BY <3>1
    <2> QED
      BY <2>1, <2>2
  <1> QED
    BY <1>2, <1>3 DEF IInv, MessagesAreProper

(* A packet that has arrived: where it is, and that it was proper.         *)
LEMMA ArrivedPacket ==
    ASSUME IInv, NEW n \in User, NEW k \in net, Arrives(n, k)
    PROVE  /\ k \in Packet /\ k.from \in PeerId /\ k.to \in PeerId /\ k.msg \in Message
           /\ Owner[k.to] = n
           /\ Proper(k.from, k.to, k.msg)
           /\ net' \subseteq net
  BY DEF IInv, TypeOK, MessagesAreProper, Arrives, Packet

(* What the three kinds of message consist of.                             *)
LEMMA MessageFields ==
    ASSUME NEW m \in Message
    PROVE  /\ m.meeting \in Meeting
           /\ m.type = "Invite" => /\ m.recipient \in User /\ m.sender \in User
                                   /\ m.friends_only \in BOOLEAN
           /\ m.type = "InviteReject" => m.user \in User /\ m.reason \in {1, 2}
           /\ m.type = "ParticipationUpdate" => m.user \in User /\ m.status \in Status
           /\ m.type \in {"Invite", "InviteReject", "ParticipationUpdate"}
  BY DEF Message, MeetingFull, FriendsOnlyRestricted

(* A step that leaves graphs and events alone and sends nothing improper.  *)
LEMMA MessageStepKeepsIInv ==
    ASSUME IInv, TypeOK', MessagesAreProper', UNCHANGED <<trust, events>>
    PROVE  IInv'
  BY DEF IInv, RoutesAreOwned, RejectsComeHome, InterestedIsPrivate, Friend

(* A step that only shows something new, of a packet that has arrived.     *)
LEMMA EventStepKeepsIInv ==
    ASSUME IInv, NEW n \in User, NEW e \in Event, Notify(n, e),
           net' \subseteq net, UNCHANGED <<peer, used, trust, outgoing, sends>>,
           e.type = "InviteRejected" => n = Organizer[e.meeting],
           e.type = "ParticipationUpdated" =>
               e.status # "Interested" /\ \E p \in PeerId : Friend(n, p) /\ Owner[p] = e.user
    PROVE  IInv'
  <1>1. /\ events'[n] = events[n] \cup {e}
        /\ \A u \in User \ {n} : events'[u] = events[u]
        /\ events' \in [User -> SUBSET Event]
    BY DEF IInv, TypeOK, Notify
  <1>2. TypeOK'
    BY <1>1 DEF IInv, TypeOK
  <1>3. MessagesAreProper' /\ RoutesAreOwned'
    BY DEF IInv, MessagesAreProper, RoutesAreOwned
  <1>4. RejectsComeHome'
    BY <1>1 DEF IInv, RejectsComeHome
  <1>5. InterestedIsPrivate'
    <2>1. \A u \in User, p \in PeerId : Friend(u, p)' = Friend(u, p)
      BY DEF Friend
    <2> QED
      BY <1>1, <2>1 DEF IInv, InterestedIsPrivate
  <1> QED
    BY <1>2, <1>3, <1>4, <1>5 DEF IInv

------------------------------------------------------------------------------
LEMMA InitHoldsIInv == Init => IInv
  <1> SUFFICES ASSUME Init
               PROVE  IInv
    OBVIOUS
  <1>1. TypeOK
    BY MeshAssumption, EmptyGraphIsGraph DEF Init, TypeOK
  <1>2. MessagesAreProper
    BY DEF Init, MessagesAreProper
  <1>3. RoutesAreOwned
    BY DEF Init, RoutesAreOwned, EmptyGraph, GetPeerForUser
  <1> QED
    BY <1>1, <1>2, <1>3 DEF Init, IInv, RejectsComeHome, InterestedIsPrivate

------------------------------------------------------------------------------
(* A ping: one more route, to a device of its user.                        *)
LEMMA PingKeepsIInv ==
    ASSUME IInv, NEW n \in User, NEW u \in User, AddTrustedPeer(n, u)
    PROVE  IInv'
  <1> DEFINE g == AddVerified(trust[n], peer[u], u)
  <1>1. trust[n] \in TrustGraph /\ peer[u] \in PeerId /\ Owner[peer[u]] = u
    BY DEF IInv, TypeOK
  <1>2. /\ g \in TrustGraph
        /\ g.user_to_peer[u] = peer[u]
        /\ \A v \in User \ {u} : g.user_to_peer[v] = trust[n].user_to_peer[v]
        /\ \A q \in PeerId : GetLevel(trust[n], q) = "VerifiedFriend"
                             => GetLevel(g, q) = "VerifiedFriend"
    BY <1>1 DEF AddVerified, AddAt, TrustGraph, Entry, TrustLevel, GetLevel
  <1>3. trust'[n] = g /\ \A v \in User \ {n} : trust'[v] = trust[v]
    BY DEF IInv, TypeOK, AddTrustedPeer
  <1>4. TypeOK'
    <2>1. trust' \in [User -> TrustGraph]
      BY <1>2 DEF IInv, TypeOK, AddTrustedPeer
    <2> QED
      BY <2>1 DEF IInv, TypeOK, AddTrustedPeer
  <1>5. MessagesAreProper' /\ RejectsComeHome'
    BY DEF IInv, MessagesAreProper, RejectsComeHome, AddTrustedPeer
  <1>6. RoutesAreOwned'
    BY <1>1, <1>2, <1>3 DEF IInv, RoutesAreOwned, GetPeerForUser
  <1>7. InterestedIsPrivate'
    <2>1. \A v \in User, q \in PeerId : Friend(v, q) => Friend(v, q)'
      BY <1>2, <1>3 DEF Friend
    <2> QED
      BY <2>1 DEF IInv, InterestedIsPrivate, AddTrustedPeer
  <1> QED
    BY <1>4, <1>5, <1>6, <1>7 DEF IInv

(* A restart forgets all that was said of the device.                      *)
LEMMA RestartKeepsIInv ==
    ASSUME IInv, NEW n \in User, Restart(n)
    PROVE  IInv'
  <1>1. PICK p \in PeerId : /\ Owner[p] = n
                           /\ peer' = [peer EXCEPT ![n] = p]
                           /\ used' = used \cup {p}
    BY DEF Restart
  <1>2. /\ trust' = [trust EXCEPT ![n] = EmptyGraph]
        /\ outgoing' = [outgoing EXCEPT ![n] = <<>>]
        /\ events' = [events EXCEPT ![n] = {}]
        /\ net' = net /\ sends' = sends
    BY DEF Restart
  <1>3. /\ peer'[n] = p /\ trust'[n] = EmptyGraph /\ outgoing'[n] = <<>> /\ events'[n] = {}
        /\ \A u \in User \ {n} : /\ peer'[u] = peer[u] /\ trust'[u] = trust[u]
                                 /\ outgoing'[u] = outgoing[u] /\ events'[u] = events[u]
    BY <1>1, <1>2 DEF IInv, TypeOK
  <1>4. TypeOK'
    <2>1. /\ peer' \in [User -> PeerId] /\ used' \subseteq PeerId
          /\ \A u \in User : Owner[peer'[u]] = u /\ peer'[u] \in used'
      BY <1>1, <1>3 DEF IInv, TypeOK
    <2>2. trust' \in [User -> TrustGraph] /\ events' \in [User -> SUBSET Event]
      BY <1>2, EmptyGraphIsGraph DEF IInv, TypeOK
    <2>3. outgoing' \in [User -> Seq(Item)]
      <3>1. outgoing \in [User -> Seq(Item)]
        BY DEF IInv, TypeOK, Item
      <3>2. <<>> \in Seq(Item)
        OBVIOUS
      <3> QED
        BY <1>2, <3>1, <3>2
    <2> QED
      BY <1>2, <2>1, <2>2, <2>3 DEF IInv, TypeOK, Item
  <1>5. MessagesAreProper'
    BY <1>2, <1>3 DEF IInv, MessagesAreProper
  <1>6. RoutesAreOwned'
    BY <1>3 DEF IInv, RoutesAreOwned, GetPeerForUser, EmptyGraph
  <1>7. RejectsComeHome'
    BY <1>3 DEF IInv, RejectsComeHome
  <1>8. InterestedIsPrivate'
    BY <1>3 DEF IInv, InterestedIsPrivate, Friend
  <1> QED
    BY <1>4, <1>5, <1>6, <1>7, <1>8 DEF IInv

(* The two starts: from the organizer, and from the user it is about.      *)
LEMMA StartsKeepIInv ==
    ASSUME IInv, NEW m \in Meeting, NEW p \in PeerId,
           \/ \E r \in User, fo \in BOOLEAN : StartInvite(m, r, p, fo)
           \/ \E n \in User, s \in Status : StartUpdate(n, m, s, p)
    PROVE  IInv'
  <1> USE MeshAssumption
  <1>1. ASSUME NEW n \in User, NEW msg \in Message, Proper(peer[n], p, msg), Queue(n, p, msg),
               sends < MaxSends, sends' = sends + 1,
               UNCHANGED <<peer, used, trust, net, events>>
        PROVE  IInv'
    <2>1. /\ outgoing' \in [User -> Seq(Item)]
          /\ \A u \in User : \A i \in 1..Len(outgoing'[u]) :
                 Proper(peer'[u], outgoing'[u][i].to, outgoing'[u][i].msg)
      BY <1>1, QueueKeepsQueues
    <2>2. TypeOK'
      <3>1. sends' \in 0..MaxSends
        BY <1>1 DEF IInv, TypeOK
      <3> QED
        BY <1>1, <2>1, <3>1 DEF IInv, TypeOK, Item
    <2>3. MessagesAreProper'
      BY <1>1, <2>1 DEF IInv, MessagesAreProper
    <2> QED
      BY <1>1, <2>2, <2>3, MessageStepKeepsIInv
  <1>2. ASSUME NEW r \in User, NEW fo \in BOOLEAN, StartInvite(m, r, p, fo)
        PROVE  IInv'
    <2> DEFINE n == Organizer[m]
               msg == [type |-> "Invite", meeting |-> m, recipient |-> r,
                       sender |-> n, friends_only |-> fo]
    <2>1. n \in User /\ Owner[peer[n]] = n
      BY DEF IInv, TypeOK
    <2>2. msg \in Message
      BY <2>1 DEF Message
    <2>3. Proper(peer[n], p, msg)
      BY <2>1 DEF Proper
    <2> QED
      BY <1>1, <1>2, <2>1, <2>2, <2>3 DEF StartInvite
  <1>3. ASSUME NEW n \in User, NEW s \in Status, StartUpdate(n, m, s, p)
        PROVE  IInv'
    <2> DEFINE msg == [type |-> "ParticipationUpdate", meeting |-> m, user |-> n, status |-> s]
    <2>1. msg \in Message
      BY DEF Message
    <2>2. Proper(peer[n], p, msg)
      BY DEF IInv, TypeOK, Proper
    <2> QED
      BY <1>1, <1>3, <2>1, <2>2 DEF StartUpdate
  <1> QED
    BY <1>2, <1>3

(* The network: a queue hands out its first message, a packet is lost.     *)
LEMMA NetworkKeepsIInv ==
    ASSUME IInv, (\E n \in User : PollOutgoing(n)) \/ (\E k \in net : Lose(k)) \/ UNCHANGED vars
    PROVE  IInv'
  <1>1. ASSUME NEW n \in User, PollOutgoing(n)
        PROVE  IInv'
    <2> DEFINE q == outgoing[n]
    <2>1. q \in Seq(Item) /\ q # <<>>
      BY <1>1 DEF IInv, TypeOK, PollOutgoing, Item
    <2>2. /\ Head(q) = q[1] /\ Head(q) \in Item /\ Tail(q) \in Seq(Item)
          /\ 1 \in 1..Len(q) /\ Len(Tail(q)) = Len(q) - 1
          /\ \A i \in 1..Len(Tail(q)) : Tail(q)[i] = q[i + 1] /\ i + 1 \in 1..Len(q)
      BY <2>1
    <2>3. /\ outgoing'[n] = Tail(q) /\ \A u \in User \ {n} : outgoing'[u] = outgoing[u]
          /\ outgoing' \in [User -> Seq(Item)]
          /\ net' = net \cup {[from |-> peer[n], to |-> Head(q).to, msg |-> Head(q).msg]}
      BY <1>1, <2>2 DEF IInv, TypeOK, PollOutgoing, Item
    <2>4. net' \subseteq Packet
      BY <2>2, <2>3 DEF IInv, TypeOK, Packet, Item
    <2>5. TypeOK'
      BY <1>1, <2>3, <2>4 DEF IInv, TypeOK, PollOutgoing, Item
    <2>6. MessagesAreProper'
      <3>1. Proper(peer[n], Head(q).to, Head(q).msg)
        BY <2>2 DEF IInv, MessagesAreProper
      <3>2. \A k \in net' : Proper(k.from, k.to, k.msg)
        BY <2>3, <3>1 DEF IInv, MessagesAreProper
      <3>3. \A i \in 1..Len(Tail(q)) : Proper(peer[n], Tail(q)[i].to, Tail(q)[i].msg)
        BY <2>2 DEF IInv, MessagesAreProper
      <3> QED
        BY <1>1, <2>3, <3>2, <3>3 DEF IInv, MessagesAreProper, PollOutgoing
    <2> QED
      BY <1>1, <2>5, <2>6, MessageStepKeepsIInv DEF PollOutgoing
  <1>2. ASSUME NEW k \in net, Lose(k)
        PROVE  IInv'
    BY <1>2, MessageStepKeepsIInv DEF IInv, TypeOK, MessagesAreProper, Lose
  <1>3. CASE UNCHANGED vars
    BY <1>3, MessageStepKeepsIInv DEF IInv, TypeOK, MessagesAreProper, vars
  <1> QED
    BY <1>1, <1>2, <1>3

(* What a device passes on or answers.                                     *)
LEMMA AnswersKeepIInv ==
    ASSUME IInv, NEW n \in User, NEW k \in net,
           RejectInvite(n, k) \/ ForwardInvite(n, k) \/ DropInvite(n, k)
    PROVE  IInv'
  <1> USE MeshAssumption
  <1>1. /\ k.from \in PeerId /\ k.msg \in Message /\ Proper(k.from, k.to, k.msg)
        /\ k.msg.type = "Invite" /\ net' \subseteq net
        /\ UNCHANGED <<peer, used, trust, events, sends>>
    BY ArrivedPacket DEF RejectInvite, ForwardInvite, DropInvite
  <1>2. /\ k.msg.meeting \in Meeting /\ k.msg.recipient \in User
        /\ k.msg.friends_only \in BOOLEAN
    BY <1>1, MessageFields
  <1>3. ASSUME NEW p \in PeerId, NEW m \in Message, Proper(peer[n], p, m), Queue(n, p, m)
        PROVE  IInv'
    <2>1. /\ outgoing' \in [User -> Seq(Item)]
          /\ \A u \in User : \A i \in 1..Len(outgoing'[u]) :
                 Proper(peer'[u], outgoing'[u][i].to, outgoing'[u][i].msg)
      BY <1>1, <1>3, QueueKeepsQueues
    <2>2. TypeOK' /\ MessagesAreProper'
      BY <1>1, <2>1 DEF IInv, TypeOK, MessagesAreProper, Item
    <2> QED
      BY <1>1, <2>2, MessageStepKeepsIInv
  <1>4. CASE RejectInvite(n, k)
    <2> DEFINE m == [type |-> "InviteReject", meeting |-> k.msg.meeting, user |-> n,
                     reason |-> FriendsOnlyRestricted]
    <2>1. m \in Message
      BY <1>2 DEF Message
    <2>2. k.msg.friends_only
      BY <1>4 DEF RejectInvite, Restricted
    <2>3. Proper(peer[n], k.from, m)
      BY <1>1, <2>2 DEF Proper
    <2> QED
      BY <1>1, <1>3, <1>4, <2>1, <2>3 DEF RejectInvite, RejectTo
  <1>5. CASE ForwardInvite(n, k)
    <2>1. ~SenderIsOrganizer(k)
      BY <1>1, <1>2 DEF SenderIsOrganizer
    <2>2. ~k.msg.friends_only
      BY <1>1, <1>5, <2>1 DEF ForwardInvite, Restricted, ForMe
    <2>3. ForwardTo(n, k) \in PeerId /\ Owner[ForwardTo(n, k)] = k.msg.recipient
      BY <1>2, <1>5
         DEF IInv, TypeOK, TrustGraph, RoutesAreOwned, ForwardInvite, ForwardTo, GetPeerForUser
    <2>4. Proper(peer[n], ForwardTo(n, k), k.msg)
      BY <1>1, <2>2, <2>3 DEF Proper
    <2> QED
      BY <1>1, <1>3, <1>5, <2>3, <2>4 DEF ForwardInvite
  <1>6. CASE DropInvite(n, k)
    <2>1. TypeOK' /\ MessagesAreProper'
      BY <1>1, <1>6 DEF DropInvite, IInv, TypeOK, MessagesAreProper
    <2> QED
      BY <1>1, <2>1, MessageStepKeepsIInv
  <1> QED
    BY <1>4, <1>5, <1>6

(* What a device shows.                                                    *)
LEMMA ReceivesKeepIInv ==
    ASSUME IInv, NEW n \in User, NEW k \in net,
           ReceiveInvite(n, k) \/ ReceiveReject(n, k) \/ ReceiveUpdate(n, k)
    PROVE  IInv'
  <1>1. /\ k.from \in PeerId /\ k.msg \in Message /\ Proper(k.from, k.to, k.msg)
        /\ Owner[k.to] = n /\ net' \subseteq net
        /\ UNCHANGED <<peer, used, trust, outgoing, sends>>
    BY ArrivedPacket DEF ReceiveInvite, ReceiveReject, ReceiveUpdate
  <1>2. k.msg.meeting \in Meeting
    BY <1>1, MessageFields
  <1>3. CASE ReceiveInvite(n, k)
    <2>1. PICK t \in {"InviteReceived", "Error"} :
              Notify(n, [type |-> t, meeting |-> k.msg.meeting])
      BY <1>3 DEF ReceiveInvite
    <2>2. [type |-> t, meeting |-> k.msg.meeting] \in Event
      BY <1>2 DEF Event
    <2> QED
      BY <1>1, <2>1, <2>2, EventStepKeepsIInv
  <1>4. CASE ReceiveReject(n, k)
    <2> DEFINE e == [type |-> "InviteRejected", meeting |-> k.msg.meeting,
                     reason |-> k.msg.reason]
    <2>1. k.msg.reason \in {1, 2}
      BY <1>1, <1>4, MessageFields DEF ReceiveReject
    <2>2. e \in Event
      BY <1>2, <2>1 DEF Event
    <2>3. n = Organizer[k.msg.meeting]
      BY <1>1, <1>4 DEF ReceiveReject, Proper
    <2> QED
      BY <1>1, <1>4, <2>2, <2>3, EventStepKeepsIInv DEF ReceiveReject
  <1>5. CASE ReceiveUpdate(n, k) /\ Shown(n, k)
    <2> DEFINE e == [type |-> "ParticipationUpdated", meeting |-> k.msg.meeting,
                     user |-> k.msg.user, status |-> k.msg.status]
    <2>1. k.msg.user \in User /\ k.msg.status \in Status
      BY <1>1, <1>5, MessageFields DEF ReceiveUpdate
    <2>2. e \in Event
      BY <1>2, <2>1 DEF Event
    <2>3. Friend(n, k.from) /\ Owner[k.from] = e.user /\ e.status # "Interested"
      BY <1>1, <1>5 DEF ReceiveUpdate, Shown, Proper
    <2> QED
      BY <1>1, <1>5, <2>2, <2>3, EventStepKeepsIInv DEF ReceiveUpdate
  <1>6. CASE ReceiveUpdate(n, k) /\ ~Shown(n, k)
    <2>1. TypeOK' /\ MessagesAreProper' /\ UNCHANGED <<trust, events>>
      BY <1>1, <1>6 DEF IInv, TypeOK, MessagesAreProper, ReceiveUpdate
    <2> QED
      BY <2>1, MessageStepKeepsIInv
  <1> QED
    BY <1>3, <1>4, <1>5, <1>6

------------------------------------------------------------------------------
(* Types, proper messages, owned routes and rightful events: the inductive *)
(* invariant.                                                              *)
THEOREM MeshInvariant == Spec => []IInv
  <1>1. IInv /\ [Next]_vars => IInv'
    BY PingKeepsIInv, RestartKeepsIInv, StartsKeepIInv, NetworkKeepsIInv, AnswersKeepIInv,
       ReceivesKeepIInv DEF Next, OnMessageReceived
  <1> QED
    BY <1>1, InitHoldsIInv, PTL DEF Spec

(* Graphs, queues, packets in flight and events stay of their types.       *)
THEOREM MeshTypeCorrect == Spec => []TypeOK
  <1>1. IInv => TypeOK
    BY DEF IInv
  <1> QED
    BY <1>1, MeshInvariant, PTL

(* Every message that is underway is proper.                               *)
LEMMA UnderwayIsProper ==
    ASSUME IInv, NEW k \in Underway
    PROVE  Proper(k.from, k.to, k.msg)
  BY DEF IInv, MessagesAreProper, Underway

(* An invite of a friends-only meeting is only sent by its organizer       *)
(* (handle_invite_message).                                                *)
THEOREM FriendsOnlyAlwaysDirect == Spec => []FriendsOnlyDirect
  <1>1. IInv => FriendsOnlyDirect
    BY UnderwayIsProper DEF FriendsOnlyDirect, Invites, Proper
  <1> QED
    BY <1>1, MeshInvariant, PTL

(* What a relay passes on goes to a device of the recipient                *)
(* (handle_invite_message, get_peer_for_user).                             *)
THEOREM RelayedOnlyToRecipient == Spec => []RelayedToRecipient
  <1>1. IInv => RelayedToRecipient
    BY UnderwayIsProper DEF RelayedToRecipient, Invites, Proper
  <1> QED
    BY <1>1, MeshInvariant, PTL

(* A reject is shown to the organizer of its meeting only                  *)
(* (send_invite_reject).                                                   *)
THEOREM RejectsAlwaysComeHome == Spec => []RejectsComeHome
  <1>1. IInv => RejectsComeHome
    BY DEF IInv
  <1> QED
    BY <1>1, MeshInvariant, PTL

(* The Interested status is shown to nobody, any other to friends only     *)
(* (filter_packet, handle_participation_message).                          *)
THEOREM InterestedStaysPrivate == Spec => []InterestedIsPrivate
  <1>1. IInv => InterestedIsPrivate
    BY DEF IInv
  <1> QED
    BY <1>1, MeshInvariant, PTL
==============================================================================
