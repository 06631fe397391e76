-------------------------------- MODULE Mesh ---------------------------------
(***************************************************************************)
(* The private mesh: several devices, each one a SpotkaBehaviour           *)
(* (p2p/behaviour.rs) with its own trust graph and queue of outgoing       *)
(* messages, and the packets between them.  A device that is restarted     *)
(* gets a fresh PeerId from P2PNode::new and an empty graph, so friends    *)
(* keep routes to peers that are gone until they meet again.               *)
(*                                                                         *)
(* The transport is external: it takes what poll_outgoing hands out and    *)
(* brings it to the device that is now known by the PeerId it is for, in   *)
(* any order, or loses it.  Starting an invite or a status update is       *)
(* external too: nothing in the crate calls MessageEnvelope::new for one.  *)
(***************************************************************************)
EXTENDS TrustGraphOps, Integers, Sequences, FiniteSets

CONSTANTS Owner,        \* the user behind a PeerId
          Meeting,
          Organizer,    \* meeting -> its organizer
          Pinged,       \* user -> users its database has as Pinged
          InvitedTo,    \* user -> (user, meeting) its database has as Invited
          Meets,        \* pairs of users of which the first may ping the second
          MaxSends      \* bound on invites and updates started

ASSUME OwnerIsTotal == Owner \in [PeerId -> User]

ASSUME MeshAssumption ==
    /\ Organizer \in [Meeting -> User]
    /\ Pinged \in [User -> SUBSET User]
    /\ InvitedTo \in [User -> SUBSET (User \X Meeting)]
    /\ Meets \subseteq User \X User
    /\ PeerId \cap User = {}
    /\ MaxSends \in Nat

VARIABLES peer,        \* user -> the PeerId of the running device
          used,        \* PeerIds drawn so far
          trust,       \* user -> trust graph of the device
          outgoing,    \* user -> outgoing_messages
          net,         \* packets in flight
          events,      \* user -> what was pushed to pending_events
          sends        \* invites and updates started

vars == <<peer, used, trust, outgoing, net, events, sends>>

------------------------------------------------------------------------------
Status == {"Interested", "Confirmed"}

MeetingFull == 1

FriendsOnlyRestricted == 2

Message ==
    [type : {"Invite"}, meeting : Meeting, recipient : User, sender : User,
     friends_only : BOOLEAN]
    \cup [type : {"InviteReject"}, meeting : Meeting, user : User, reason : {MeetingFull, FriendsOnlyRestricted}]
    \cup [type : {"ParticipationUpdate"}, meeting : Meeting, user : User, status : Status]

Event ==
    [type : {"InviteReceived"}, meeting : Meeting]
    \cup [type : {"Error"}, meeting : Meeting]
    \cup [type : {"InviteRejected"}, meeting : Meeting, reason : {1, 2}]
    \cup [type : {"ParticipationUpdated"}, meeting : Meeting, user : User, status : Status]

Packet == [from : PeerId, to : PeerId, msg : Message]

TypeOK == /\ peer \in [User -> PeerId]
          /\ \A n \in User : Owner[peer[n]] = n /\ peer[n] \in used
          /\ used \subseteq PeerId
          /\ trust \in [User -> TrustGraph]
          /\ outgoing \in [User -> Seq([to : PeerId, msg : Message])]
          /\ net \subseteq Packet
          /\ events \in [User -> SUBSET Event]
          /\ sends \in 0..MaxSends

Init == /\ peer \in {f \in [User -> PeerId] : \A n \in User : Owner[f[n]] = n}
        /\ used = {peer[n] : n \in User}
        /\ trust = [n \in User |-> EmptyGraph]
        /\ outgoing = [n \in User |-> <<>>]
        /\ net = {}
        /\ events = [n \in User |-> {}]
        /\ sends = 0

------------------------------------------------------------------------------
Queue(n, p, m) == outgoing' = [outgoing EXCEPT ![n] = Append(@, [to |-> p, msg |-> m])]

Notify(n, e) == events' = [events EXCEPT ![n] = @ \cup {e}]

(* The packet reaches the device that answers to its address.              *)
Arrives(n, k) == k \in net /\ k.to = peer[n] /\ net' = net \ {k}

Friend(n, p) == GetLevel(trust[n], p) = "VerifiedFriend"

(* A ping, as one of the two devices takes it: add_trusted_peer.           *)
AddTrustedPeer(n, u) ==
    /\ n # u /\ <<n, u>> \in Meets
    /\ trust' = [trust EXCEPT ![n] = AddVerified(@, peer[u], u)]
    /\ UNCHANGED <<peer, used, outgoing, net, events, sends>>

Restart(n) ==
    /\ \E p \in PeerId \ used : /\ Owner[p] = n
                                /\ peer' = [peer EXCEPT ![n] = p]
                                /\ used' = used \cup {p}
    /\ trust' = [trust EXCEPT ![n] = EmptyGraph]
    /\ outgoing' = [outgoing EXCEPT ![n] = <<>>]
    /\ events' = [events EXCEPT ![n] = {}]
    /\ UNCHANGED <<net, sends>>

(* External: the organizer asks a friend to bring an invite to a user; the *)
(* friend may be that user.                                                *)
StartInvite(m, r, p, fo) ==
    LET n == Organizer[m] IN
    /\ sends < MaxSends /\ sends' = sends + 1
    /\ r # n /\ Friend(n, p)
    /\ Queue(n, p, [type |-> "Invite", meeting |-> m, recipient |-> r,
                    sender |-> n, friends_only |-> fo])
    /\ UNCHANGED <<peer, used, trust, net, events>>

(* External: a participant tells a friend its status.                      *)
StartUpdate(n, m, s, p) ==
    /\ sends < MaxSends /\ sends' = sends + 1
    /\ Friend(n, p)
    /\ Queue(n, p, [type |-> "ParticipationUpdate", meeting |-> m, user |-> n, status |-> s])
    /\ UNCHANGED <<peer, used, trust, net, events>>

PollOutgoing(n) ==
    /\ outgoing[n] # <<>>
    /\ net' = net \cup {[from |-> peer[n], to |-> Head(outgoing[n]).to,
                         msg |-> Head(outgoing[n]).msg]}
    /\ outgoing' = [outgoing EXCEPT ![n] = Tail(@)]
    /\ UNCHANGED <<peer, used, trust, events, sends>>

Lose(k) == /\ k \in net
           /\ net' = net \ {k}
           /\ UNCHANGED <<peer, used, trust, outgoing, events, sends>>

------------------------------------------------------------------------------
(* handle_invite_message.  The packet's sender is compared as a PeerId     *)
(* with the organizer's phone hash, and so is never the organizer.         *)
ForMe(n, k) == k.msg.type = "Invite" /\ k.msg.recipient = n

SenderIsOrganizer(k) == k.from = Organizer[k.msg.meeting]

Restricted_Never(n, k) == FALSE

Restricted(n, k) ==
    k.msg.friends_only /\ ~SenderIsOrganizer(k) /\ k.msg.recipient # n

(* SyncManager's limiter decides between the two; no other error of        *)
(* handle_invite reaches this point, so MeetingFull is never sent.         *)
ReceiveInvite(n, k) ==
    /\ ForMe(n, k) /\ Arrives(n, k)
    /\ \E t \in {"InviteReceived", "Error"} : Notify(n, [type |-> t, meeting |-> k.msg.meeting])
    /\ UNCHANGED <<peer, used, trust, outgoing, sends>>

(* send_invite_reject, and where it could go instead.                      *)
RejectTo_Recipient(n, k) == GetPeerForUser(trust[n], k.msg.recipient)

RejectTo(n, k) == k.from

RejectInvite(n, k) ==
    /\ k.msg.type = "Invite" /\ Arrives(n, k)
    /\ Restricted(n, k)
    /\ Queue(n, RejectTo(n, k),
             [type |-> "InviteReject", meeting |-> k.msg.meeting, user |-> n,
              reason |-> FriendsOnlyRestricted])
    /\ UNCHANGED <<peer, used, trust, events, sends>>

(* The peer a relay forwards to, and two ways to choose another one.       *)
ForwardTo_Anyone(n, k) ==
    LET friends == {p \in PeerId : Friend(n, p)} IN
    IF friends = {} THEN NoPeer ELSE CHOOSE p \in friends : TRUE

ForwardTo_Back(n, k) == k.from

ForwardTo(n, k) == GetPeerForUser(trust[n], k.msg.recipient)

ForwardInvite(n, k) ==
    /\ k.msg.type = "Invite" /\ ~ForMe(n, k) /\ Arrives(n, k)
    /\ ~Restricted(n, k) /\ ForwardTo(n, k) # NoPeer
    /\ Queue(n, ForwardTo(n, k), k.msg)
    /\ UNCHANGED <<peer, used, trust, events, sends>>

DropInvite(n, k) ==
    /\ k.msg.type = "Invite" /\ ~ForMe(n, k) /\ Arrives(n, k)
    /\ ~Restricted(n, k) /\ ForwardTo(n, k) = NoPeer
    /\ UNCHANGED <<peer, used, trust, outgoing, events, sends>>

ReceiveReject(n, k) ==
    /\ k.msg.type = "InviteReject" /\ Arrives(n, k)
    /\ Notify(n, [type |-> "InviteRejected", meeting |-> k.msg.meeting, reason |-> k.msg.reason])
    /\ UNCHANGED <<peer, used, trust, outgoing, sends>>

(* is_sender_authorized_for_meeting: a friend, or a user with an Invited   *)
(* row for the meeting.                                                    *)
Authorized(n, k) ==
    k.msg.user \in Pinged[n] \/ <<k.msg.user, k.msg.meeting>> \in InvitedTo[n]

(* filter_packet, the check in handle_participation_message, and the       *)
(* authorization.  handle_participation_update answers Ok for Interested   *)
(* as well, which is why the check before it matters.                      *)
Shown_Interested(n, k) ==
    Friend(n, k.from) /\ (k.msg.status = "Interested" \/ Authorized(n, k))

Shown(n, k) ==
    /\ Friend(n, k.from)
    /\ k.msg.status # "Interested"
    /\ Authorized(n, k)

ReceiveUpdate(n, k) ==
    /\ k.msg.type = "ParticipationUpdate" /\ Arrives(n, k)
    /\ IF Shown(n, k)
       THEN Notify(n, [type |-> "ParticipationUpdated", meeting |-> k.msg.meeting,
                       user |-> k.msg.user, status |-> k.msg.status])
       ELSE UNCHANGED events
    /\ UNCHANGED <<peer, used, trust, outgoing, sends>>

------------------------------------------------------------------------------
OnMessageReceived(n, k) ==
    \/ ReceiveInvite(n, k) \/ RejectInvite(n, k) \/ ForwardInvite(n, k)
    \/ DropInvite(n, k) \/ ReceiveReject(n, k) \/ ReceiveUpdate(n, k)

Next == \/ \E n, u \in User : AddTrustedPeer(n, u)
        \/ \E n \in User : Restart(n) \/ PollOutgoing(n)
        \/ \E m \in Meeting, p \in PeerId : 
              \/ \E r \in User, fo \in BOOLEAN : StartInvite(m, r, p, fo)
              \/ \E n \in User, s \in Status : StartUpdate(n, m, s, p)
        \/ \E k \in net : Lose(k) \/ \E n \in User : OnMessageReceived(n, k)

Spec == Init /\ [][Next]_vars

(* Each device polls its queue, and the transport brings a packet to its   *)
(* addressee or gives it up.                                               *)
Handle == \E k \in net : Lose(k) \/ \E n \in User : OnMessageReceived(n, k)

FairSpec == Spec /\ WF_vars(Handle) /\ \A n \in User : WF_vars(PollOutgoing(n))

------------------------------------------------------------------------------
(* Every message on its way, with the PeerId it was or will be sent by.    *)
Underway ==
    net \cup UNION {{[from |-> peer[n], to |-> outgoing[n][i].to, msg |-> outgoing[n][i].msg]
                        : i \in 1..Len(outgoing[n])} : n \in User}

Invites == {k \in Underway : k.msg.type = "Invite"}

(* An invite of a friends-only meeting is only ever sent by its organizer, *)
(* whoever it was given to (handle_invite_message).                        *)
FriendsOnlyDirect ==
    \A k \in Invites : k.msg.friends_only => Owner[k.from] = Organizer[k.msg.meeting]

(* What a relay passes on goes straight to a device of the recipient, also *)
(* when that device is gone: two hops at most, and nobody else sees it.    *)
RelayedToRecipient ==
    \A k \in Invites : Owner[k.from] # Organizer[k.msg.meeting] => Owner[k.to] = k.msg.recipient

(* A reject comes home: it is shown on the organizer's device only, though *)
(* it is addressed to whichever peer the refused packet came from.         *)
RejectsComeHome ==
    \A n \in User : \A e \in events[n] :
        e.type = "InviteRejected" => n = Organizer[e.meeting]

(* The Interested status of a user is shown on no other device, and other  *)
(* statuses only to users it has as a verified friend.                     *)
InterestedIsPrivate ==
    \A n \in User : \A e \in events[n] :
        e.type = "ParticipationUpdated" =>
            /\ e.status # "Interested"
            /\ \E p \in PeerId : Friend(n, p) /\ Owner[p] = e.user

(* Forwarding ends: once nobody starts a message, the mesh falls silent.   *)
MeshQuiesces == <>[](Underway = {})

==============================================================================
