------------------------------- MODULE Packets -------------------------------
(***************************************************************************)
(* What devices seal, date and hand to one another: signed envelopes       *)
(* (p2p/protocol.rs), encrypted packets (crypto/e2ee.rs) and ping codes    *)
(* (ping/protocol.rs, ping/mod.rs).  A receiver checks the date against    *)
(* its own clock.  Items may arrive late, more than once and damaged; no   *)
(* receiver remembers what it has opened.                                  *)
(*                                                                         *)
(* Signatures and AES-GCM are ideal: a signature verifies over what was    *)
(* signed and a box opens under the key it was closed with, or not at all. *)
(* Additions and subtractions of u64 wrap, as in a release build.          *)
(***************************************************************************)
EXTENDS Integers, FiniteSets

CONSTANTS Device,
          Skew,          \* how far a device's clock is ahead of the slowest
          Payload,
          LongPayload,   \* those above 128 bytes, which new compresses
          HugePayload,   \* those above 1 MiB, which get_payload does not take
          Lost,          \* bytes that are no signature, no box and no payload
          Context,       \* associated data of an encrypted packet
          MaxAge,        \* of each kind: 86400, 300 and 300 seconds in the code
          Width,         \* 2^64 in the code
          MaxNow,        \* bounds on the clock and on what is sealed
          MaxSealed

ASSUME PayloadSizes == HugePayload \subseteq LongPayload /\ LongPayload \subseteq Payload
ASSUME ClocksFit ==
    /\ Skew \in [Device -> Nat] /\ MaxNow \in Nat /\ Width \in Nat
    /\ \A d \in Device : MaxNow + Skew[d] < Width
ASSUME AgesAreNumbers == MaxAge \in [{"envelope", "packet", "ping"} -> Nat]
ASSUME ExpiryFits == \A d \in Device : MaxNow + Skew[d] + MaxAge.packet < Width

VARIABLES now,       \* the slowest clock
          sealed,    \* history: what was made, when and by whom
          arrived    \* what a receiver last looked at, and what it made of it

packetVars == <<now, sealed, arrived>>

Clock(d) == now + Skew[d]

Version == 1    \* PROTOCOL_VERSION and MIN_COMPATIBLE_VERSION

------------------------------------------------------------------------------
(* The signature covers header and bytes, and not the flag is_compressed.  *)
EnvelopeSigned(d, header, bytes) == [by |-> d, over |-> <<header, bytes>>]

new_envelope(d, payload) ==
    LET header == [version |-> Version, timestamp |-> Clock(d), sender_id_hash |-> d]
        bytes  == [data |-> payload, lz4 |-> payload \in LongPayload]
    IN [kind |-> "envelope", header |-> header, payload_bytes |-> bytes,
        is_compressed |-> bytes.lz4, signature |-> EnvelopeSigned(d, header, bytes)]

(* The key comes from a one-time secret, the recipient and the context,    *)
(* and not from the sender; the timestamp is outside the box.              *)
encrypt(d, to, context, payload) ==
    [kind |-> "packet", timestamp |-> Clock(d),
     ciphertext |-> [to |-> to, context |-> context, data |-> payload]]

(* The signature covers the key, the phone and the time, not the name.     *)
PingSigned(key, phone, timestamp) == [by |-> key, over |-> <<key, phone, timestamp>>]

new_ping(d) ==
    [kind |-> "ping", public_key |-> d, phone_hash |-> d, display_name |-> d,
     timestamp |-> Clock(d), signature |-> PingSigned(d, d, Clock(d))]

(* What Lost stands for can be told from all that devices make.            *)
ASSUME LostIsNothing ==
    /\ Lost \notin Payload
    /\ \A to \in Device, c \in Context, p \in Payload :
           Lost # [to |-> to, context |-> c, data |-> p]
    /\ \A d \in Device, t \in 0..Width, p \in Payload, lz4 \in BOOLEAN :
           Lost # EnvelopeSigned(d, [version |-> Version, timestamp |-> t, sender_id_hash |-> d],
                                 [data |-> p, lz4 |-> lz4])

------------------------------------------------------------------------------
(* verify, under the key of the sender the header names, and get_payload.  *)
Expired(r, e) == (Clock(r) - e.header.timestamp) % Width > MaxAge.envelope

(* For the mutation runs: the header is left out of the signed digest.     *)
verify_BytesOnly(r, e) ==
    CASE e.signature = Lost         -> "ERR_INVALID_SIGNATURE_LENGTH"
      [] e.header.version # Version -> "ERR_PROTOCOL_VERSION_MISMATCH"
      [] Expired(r, e)              -> "ERR_MESSAGE_EXPIRED"
      [] e.signature.over[2] # e.payload_bytes -> "ERR_SIGNATURE_VERIFICATION_FAILED"
      [] OTHER                      -> "ok"

verify(r, e) ==
    CASE e.signature = Lost         -> "ERR_INVALID_SIGNATURE_LENGTH"
      [] e.header.version # Version -> "ERR_PROTOCOL_VERSION_MISMATCH"
      [] Expired(r, e)              -> "ERR_MESSAGE_EXPIRED"
      [] e.signature # EnvelopeSigned(e.header.sender_id_hash, e.header, e.payload_bytes)
                                    -> "ERR_SIGNATURE_VERIFICATION_FAILED"
      [] OTHER                      -> "ok"

get_payload(e) ==
    IF e.is_compressed # e.payload_bytes.lz4 \/ e.payload_bytes.data \in HugePayload
    THEN Lost ELSE e.payload_bytes.data

open_envelope(r, e) ==
    IF verify(r, e) # "ok" THEN verify(r, e)
    ELSE IF get_payload(e) = Lost THEN "ERR_DECOMPRESSION_FAILED" ELSE "ok"

(* The date is the first thing decrypt looks at; it may lie ahead.         *)
decrypt(r, context, p) ==
    CASE Clock(r) > (p.timestamp + MaxAge.packet) % Width -> "ERR_PACKET_EXPIRED"
      [] p.ciphertext = Lost                    -> "ERR_DECRYPTION_FAILED_OR_TAMPERED"
      [] <<p.ciphertext.to, p.ciphertext.context>> # <<r, context>>
                                                -> "ERR_DECRYPTION_FAILED_OR_TAMPERED"
      [] OTHER                                  -> "ok"

(* For the mutation runs: a date ahead of the clock is not fresh.          *)
is_fresh_NotAhead(r, p) == Clock(r) - p.timestamp \in 0 .. MaxAge.ping - 1

is_fresh(r, p) ==
    LET age == IF Clock(r) > p.timestamp THEN Clock(r) - p.timestamp ELSE 0
    IN age < MaxAge.ping

(* Nothing ever inserts a relationship (the insert is commented out), so   *)
(* the answer AlreadyFriends does not occur.                               *)
process_scanned_ping(r, p) ==
    CASE p.signature # PingSigned(p.public_key, p.phone_hash, p.timestamp)
                            -> "ERR_SIGNATURE_VERIFICATION_FAILED"
      [] ~is_fresh(r, p)    -> "ERR_PAYLOAD_NOT_FRESH"
      [] p.phone_hash = r   -> "SelfPingError"
      [] OTHER              -> "ok"

------------------------------------------------------------------------------
(* A date may be another, the last a u64 can hold included.                *)
Times == (0 .. MaxNow + 1) \cup {Width - 1}

(* What may have become of an item on its way: one field is another.       *)
Damaged(item) ==
    CASE item.kind = "envelope" ->
           {[item EXCEPT !.header.version = Version + 1],
            [item EXCEPT !.is_compressed = ~ @], [item EXCEPT !.signature = Lost]}
           \cup {[item EXCEPT !.header.timestamp = t] : t \in Times}
           \cup {[item EXCEPT !.header.sender_id_hash = d] : d \in Device}
           \cup {[item EXCEPT !.payload_bytes.data = p] : p \in Payload}
      [] item.kind = "packet" ->
           {[item EXCEPT !.ciphertext = Lost]}
           \cup {[item EXCEPT !.timestamp = t] : t \in Times}
      [] item.kind = "ping" ->
           {[item EXCEPT !.signature = Lost]}
           \cup {[item EXCEPT !.timestamp = t] : t \in Times}
           \cup {[item EXCEPT !.phone_hash = d] : d \in Device}
           \cup {[item EXCEPT !.display_name = d] : d \in Device}

Nowhere == [verdict |-> "none"]

PacketInit == now = 0 /\ sealed = {} /\ arrived = Nowhere

Seal(item) ==
    /\ Cardinality(sealed) < MaxSealed
    /\ sealed' = sealed \cup {[item |-> item, at |-> now]}
    /\ arrived' = Nowhere
    /\ UNCHANGED now

Arrive(r, s, item, context, verdict) ==
    /\ arrived' = [by |-> r, sent |-> s, item |-> item, context |-> context,
                   verdict |-> verdict]
    /\ UNCHANGED <<now, sealed>>

(* An item s that was sealed reaches a device as it was, or damaged.       *)
Receive(r, s) ==
    \E item \in {s.item} \cup Damaged(s.item) :
        \/ item.kind = "envelope" /\ Arrive(r, s, item, Lost, open_envelope(r, item))
        \/ item.kind = "packet" /\ \E context \in Context :
               Arrive(r, s, item, context, decrypt(r, context, item))
        \/ item.kind = "ping" /\ Arrive(r, s, item, Lost, process_scanned_ping(r, item))

PacketTick ==
    /\ now < MaxNow
    /\ now' = now + 1
    /\ arrived' = Nowhere
    /\ UNCHANGED sealed

PacketNext ==
    \/ \E d \in Device :
          \/ Seal(new_ping(d))
          \/ \E p \in Payload : \/ Seal(new_envelope(d, p))
                                \/ \E to \in Device, c \in Context : Seal(encrypt(d, to, c, p))
          \/ \E s \in sealed : Receive(d, s)
    \/ PacketTick

PacketSpec == PacketInit /\ [][PacketNext]_packetVars

PacketTypeOK ==
    /\ now \in 0..MaxNow
    /\ \A s \in sealed : s.item.kind \in {"envelope", "packet", "ping"} /\ s.at \in 0..MaxNow
    /\ arrived # Nowhere => arrived.by \in Device /\ arrived.sent \in sealed

------------------------------------------------------------------------------
(* The fields no signature and no box covers: the date of a packet, the    *)
(* display name of a ping.                                                 *)
Unprotected(item) ==
    CASE item.kind = "packet" -> {[item EXCEPT !.timestamp = t] : t \in Times}
      [] item.kind = "ping"   -> {[item EXCEPT !.display_name = d] : d \in Device}
      [] OTHER                -> {item}

(* The most by which two clocks differ.                                    *)
SkewedBy(n) == \A d, e \in Device : Skew[d] - Skew[e] <= n

Spread == CHOOSE n \in 0..Width : SkewedBy(n) /\ \A m \in 0 .. n - 1 : ~SkewedBy(m)

(* Whoever it is meant for, under the context it was made for.             *)
ForWhomItArrived ==
    LET item == arrived.item
    IN CASE item.kind = "packet" -> /\ item.ciphertext.to = arrived.by
                                    /\ item.ciphertext.context = arrived.context
         [] item.kind = "ping"   -> item.phone_hash # arrived.by
         [] OTHER                -> TRUE

(* What verify, decrypt or process_scanned_ping lets through is what some  *)
(* device sealed, for this receiver and in this context, with no protected *)
(* field changed; and unless its date was changed on the way, it is not    *)
(* older than the limit of its kind and the clocks' disagreement.          *)
OpenedAsSealed ==
    arrived # Nowhere /\ arrived.verdict = "ok" =>
        /\ arrived.item \in {arrived.sent.item} \cup Unprotected(arrived.sent.item)
        /\ ForWhomItArrived
        /\ arrived.item = arrived.sent.item =>
               now - arrived.sent.at <= MaxAge[arrived.item.kind] + Spread

(* The other way round: what arrives as it was sealed, where it belongs    *)
(* and in time by any two clocks, is opened, however the clocks disagree.  *)
(* Excepted are payloads above 1 MiB, which the sender may seal and nobody *)
(* can unpack, and envelopes of a sender whose clock is ahead.             *)
InTime == now - arrived.sent.at < MaxAge[arrived.item.kind] - Spread

Unpackable ==
    arrived.item.kind = "envelope" /\ arrived.item.payload_bytes.data \in HugePayload

DatedAhead ==
    /\ arrived.item.kind = "envelope"
    /\ arrived.item.header.timestamp > Clock(arrived.by)

RefusedForCause ==
    arrived # Nowhere /\ arrived.item = arrived.sent.item /\ ForWhomItArrived /\ InTime
        => arrived.verdict = "ok" \/ Unpackable \/ DatedAhead

==============================================================================
