--------------------------- MODULE DeviceProofs ------------------------------
(***************************************************************************)
(* What one device keeps, seals and starts, for any number of tasks,       *)
(* threads, secrets, salts, clocks and calls.                              *)
(*                                                                         *)
(* crypto/secure_storage.rs: one invariant follows the salt from the slot  *)
(* through the calls into the backup, under the two exceptions BackupOpens *)
(* states; another follows a backup from its save into a load.             *)
(*                                                                         *)
(* p2p/protocol.rs, crypto/e2ee.rs, ping/: every item is dated by the      *)
(* clock of its maker, which no clock is further from than Spread.         *)
(*                                                                         *)
(* ffi/android.rs, db/manager.rs, lib.rs: the cells are filled in one      *)
(* order, so that a filled cell vouches for the ones before it, and a file *)
(* has tables only under a key; a controller of lib.rs stands on a key     *)
(* that has opened the file.  The exports of ffi/ios.rs share nothing with *)
(* them; their invariant says of each call how far it has got, what Swift  *)
(* has heard of it, and why a code was accepted.                           *)
(***************************************************************************)
EXTENDS MCStorage, WellFoundedInduction, TLAPS

(* A load that holds what it has read from the slot.                       *)
Fetched(c) ==
    c.op = "load" /\ c.at \in {"salt", "create", "use"}

(* What a call has by the time it gets where it is.                        *)
CallsAreComplete ==
    \A t \in Task :
        /\ call[t].at \in {"create", "use"} => call[t].salt \in Salt
        /\ call[t].at \notin Ended /\ call[t].op = "save" => call[t].identity \in Identity
        /\ Fetched(call[t]) => call[t].blob \in Blob

StorageTypeInv == StorageTypeOK /\ CallsAreComplete

(* While no read of a salt has failed and no two tasks have created one at *)
(* once: a salt is only created where there is none, by one task, and the  *)
(* salt in the slot is the salt of every call and of the backup.           *)
OneSalt ==
    ~misread /\ ~raced =>
        /\ \A t \in Task : /\ At(t, "create") => salt_slot = Null
                           /\ At(t, "use") => salt_slot = call[t].salt
        /\ \A t, u \in Task : At(t, "create") /\ At(u, "create") => t = u
        /\ identity_slot # Null => identity_slot.key.salt = salt_slot

(* A backup somebody saved, under the secret it is encrypted with.         *)
Saved(b) ==
    <<restore_from_seed(b.backup), b.key.secret>> \in stored

(* What the slot holds, and what a load has fetched from it, was saved.    *)
BackupsAreSaved ==
    /\ identity_slot # Null => Saved(identity_slot)
    /\ \A t \in Task : Fetched(call[t]) => Saved(call[t].blob)

------------------------------------------------------------------------------
(* A call that has not ended is a whole record.                            *)
LEMMA RunningCalls ==
    ASSUME StorageTypeInv, NEW t \in Task, call[t].at \notin Ended
    PROVE  call[t] \in Call
  BY DEF StorageTypeInv, StorageTypeOK, NoCall, Ended

(* Encrypting makes a blob of an identity that can be restored from it.    *)
LEMMA EncryptedBlob ==
    ASSUME NEW i \in Identity, NEW s \in Secret, NEW salt \in Salt
    PROVE  /\ [key |-> derive_key(s, salt), backup |-> export_secure(i)] \in Blob
           /\ restore_from_seed(export_secure(i)) = i
  BY DEF Identity, Blob, Key, derive_key, IdentityBackup, export_secure, restore_from_seed

(* Every step keeps the type, and calls complete.                          *)
LEMMA CallStepKeepsType ==
    ASSUME StorageTypeInv, [StorageNext]_vars
    PROVE  StorageTypeInv'
  <1> USE DEF StorageTypeInv, StorageTypeOK, CallsAreComplete, Fetched, slots
  <1>1. ASSUME NEW t \in Task, NEW s \in Secret, NEW i \in Identity,
               save_identity_backup(t, i, s)
        PROVE  StorageTypeInv'
    BY <1>1 DEF save_identity_backup, Call, Ended
  <1>2. ASSUME NEW t \in Task, NEW s \in Secret, load_identity_backup(t, s)
        PROVE  StorageTypeInv'
    BY <1>2 DEF load_identity_backup, Call, Ended
  <1>3. ASSUME NEW t \in Task, load_blob(t) \/ read_salt(t) \/ fail(t)
        PROVE  StorageTypeInv'
    <2>1. call[t] \in Call
      BY <1>3, RunningCalls DEF load_blob, read_salt, fail, At, Ended
    <2> QED
      BY <1>3, <2>1 DEF load_blob, read_salt, fail, At, Call, Ended
  <1>4. ASSUME NEW t \in Task, draw_salt(t)
        PROVE  StorageTypeInv'
    <2>1. call[t] \in Call
      BY <1>4, RunningCalls DEF draw_salt, At, Ended
    <2>2. PICK new \in Salt : /\ call' = [call EXCEPT ![t].at = "create", ![t].salt = new]
                              /\ drawn' = drawn \cup {new}
      BY <1>4 DEF draw_salt
    <2>3. call' \in [Task -> Call \cup {NoCall}] /\ CallsAreComplete'
      BY <1>4, <2>1, <2>2 DEF draw_salt, At, Call, Ended
    <2> QED
      BY <1>4, <2>2, <2>3 DEF draw_salt
  <1>5. ASSUME NEW t \in Task, store_salt(t)
        PROVE  StorageTypeInv'
    <2>1. call[t] \in Call
      BY <1>5, RunningCalls DEF store_salt, At, Ended
    <2> QED
      BY <1>5, <2>1 DEF store_salt, At, Call, Ended
  <1>6. ASSUME NEW t \in Task, store_blob(t)
        PROVE  StorageTypeInv'
    <2>1. call[t] \in Call /\ call[t].identity \in Identity /\ call[t].salt \in Salt
      BY <1>6, RunningCalls DEF store_blob, At, Ended
    <2>2. call[t].secret \in Secret
      BY <2>1 DEF Call
    <2>3. identity_slot' \in Blob
      BY <1>6, <2>1, <2>2, EncryptedBlob DEF store_blob
    <2>4. stored' \subseteq Identity \X Secret
      BY <1>6, <2>1, <2>2 DEF store_blob
    <2>5. call' \in [Task -> Call \cup {NoCall}] /\ CallsAreComplete'
      BY <1>6, <2>1 DEF store_blob, Call, Ended
    <2> QED
      BY <1>6, <2>3, <2>4, <2>5 DEF store_blob
  <1>7. ASSUME NEW t \in Task, decrypt_blob(t)
        PROVE  StorageTypeInv'
    <2>1. call[t] \in Call /\ call[t].blob \in Blob
      BY <1>7, RunningCalls DEF decrypt_blob, At, Ended
    <2>2. restore_from_seed(call[t].blob.backup) \in Identity
      BY <2>1 DEF restore_from_seed, Identity, Blob, IdentityBackup
    <2> QED
      BY <1>7, <2>1, <2>2 DEF decrypt_blob, Call, Ended
  <1>8. CASE delete_identity_backup
    BY <1>8 DEF delete_identity_backup
  <1>9. CASE crash
    BY <1>9 DEF crash, NoCall, Ended
  <1>10. CASE UNCHANGED vars
    BY <1>10 DEF vars
  <1> QED
    BY <1>1, <1>2, <1>3, <1>4, <1>5, <1>6, <1>7, <1>8, <1>9, <1>10 DEF StorageNext

------------------------------------------------------------------------------
(* Every step keeps to one salt.                                           *)
LEMMA StepKeepsOneSalt ==
    ASSUME StorageTypeInv, OneSalt, [StorageNext]_vars
    PROVE  OneSalt'
  <1> USE NullIsNothing DEF OneSalt, At, slots
  <1> SUFFICES ASSUME ~misread', ~raced'
               PROVE  OneSalt'
    OBVIOUS
  <1>1. /\ salt_slot \in Salt \cup {Null}
        /\ identity_slot # Null => identity_slot.key.salt \in Salt
        /\ \A t \in Task : call[t].at \in {"create", "use"} => call[t].salt \in Salt
        /\ call \in [Task -> Call \cup {NoCall}]
        /\ misread \in BOOLEAN /\ raced \in BOOLEAN
    BY DEF StorageTypeInv, StorageTypeOK, CallsAreComplete, Blob, Key
  <1>2. ASSUME NEW t \in Task, NEW s \in Secret, NEW i \in Identity,
               save_identity_backup(t, i, s)
        PROVE  OneSalt'
    BY <1>1, <1>2 DEF save_identity_backup
  <1>3. ASSUME NEW t \in Task, NEW s \in Secret, load_identity_backup(t, s)
        PROVE  OneSalt'
    BY <1>1, <1>3 DEF load_identity_backup
  <1>4. ASSUME NEW t \in Task, load_blob(t) \/ read_salt(t) \/ fail(t)
        PROVE  OneSalt'
    <2>1. call[t] \in Call
      BY <1>4, RunningCalls DEF load_blob, read_salt, fail, Ended
    <2>2. call'[t].at = "use" => salt_slot = call'[t].salt
      BY <1>1, <1>4, <2>1 DEF load_blob, read_salt, fail, Call
    <2>3. /\ call'[t].at # "create"
          /\ \A u \in Task \ {t} : call'[u] = call[u]
      BY <1>1, <1>4, <2>1 DEF load_blob, read_salt, fail, Call
    <2> QED
      BY <1>4, <2>2, <2>3 DEF load_blob, read_salt, fail
  <1>5. ASSUME NEW t \in Task, draw_salt(t)
        PROVE  OneSalt'
    <2>1. salt_slot = Null /\ \A u \in Task \ {t} : call[u].at # "create"
      BY <1>1, <1>5 DEF draw_salt
    <2>2. PICK new \in Salt : call' = [call EXCEPT ![t].at = "create", ![t].salt = new]
      BY <1>5 DEF draw_salt
    <2>3. call'[t].at = "create" /\ \A u \in Task \ {t} : call'[u] = call[u]
      BY <1>1, <2>2
    <2>4. ~misread /\ ~raced /\ salt_slot' = salt_slot /\ identity_slot' = identity_slot
      BY <1>1, <1>5 DEF draw_salt
    <2> QED
      BY <2>1, <2>3, <2>4
  <1>6. ASSUME NEW t \in Task, store_salt(t)
        PROVE  OneSalt'
    BY <1>1, <1>6 DEF store_salt
  <1>7. ASSUME NEW t \in Task, store_blob(t)
        PROVE  OneSalt'
    <2>1. identity_slot'.key.salt = call[t].salt
      BY <1>7 DEF store_blob, derive_key
    <2> QED
      BY <1>1, <1>7, <2>1 DEF store_blob
  <1>8. ASSUME NEW t \in Task, decrypt_blob(t)
        PROVE  OneSalt'
    BY <1>1, <1>8 DEF decrypt_blob
  <1>9. CASE delete_identity_backup
    BY <1>9 DEF delete_identity_backup
  <1>10. CASE crash
    BY <1>1, <1>10 DEF crash, NoCall
  <1>11. CASE UNCHANGED vars
    BY <1>11 DEF vars
  <1> QED
    BY <1>2, <1>3, <1>4, <1>5, <1>6, <1>7, <1>8, <1>9, <1>10, <1>11 DEF StorageNext

(* Every step stores and fetches what was saved, and a load that ends      *)
(* well returns it.                                                        *)
LEMMA StepKeepsSaved ==
    ASSUME StorageTypeInv, BackupsAreSaved, LoadedIsSaved, [StorageNext]_vars
    PROVE  (BackupsAreSaved /\ LoadedIsSaved)'
  <1> USE DEF BackupsAreSaved, Saved, LoadedIsSaved, Fetched, At, slots
  <1>1. /\ call \in [Task -> Call \cup {NoCall}]
        /\ identity_slot \in Blob \cup {Null}
        /\ StorageTypeInv
    BY DEF StorageTypeInv, StorageTypeOK
  <1>2. ASSUME NEW t \in Task, NEW s \in Secret, NEW i \in Identity,
               save_identity_backup(t, i, s)
        PROVE  (BackupsAreSaved /\ LoadedIsSaved)'
    BY <1>1, <1>2 DEF save_identity_backup
  <1>3. ASSUME NEW t \in Task, NEW s \in Secret, load_identity_backup(t, s)
        PROVE  (BackupsAreSaved /\ LoadedIsSaved)'
    BY <1>1, <1>3 DEF load_identity_backup
  <1>4. ASSUME NEW t \in Task, load_blob(t)
        PROVE  (BackupsAreSaved /\ LoadedIsSaved)'
    BY <1>1, <1>4, RunningCalls DEF load_blob, Call, Ended
  <1>5. ASSUME NEW t \in Task, read_salt(t) \/ store_salt(t) \/ fail(t)
        PROVE  (BackupsAreSaved /\ LoadedIsSaved)'
    BY <1>1, <1>5, RunningCalls DEF read_salt, store_salt, fail, Call, Ended
  <1>6. ASSUME NEW t \in Task, draw_salt(t)
        PROVE  (BackupsAreSaved /\ LoadedIsSaved)'
    BY <1>1, <1>6, RunningCalls DEF draw_salt, Call, Ended
  <1>7. ASSUME NEW t \in Task, store_blob(t)
        PROVE  (BackupsAreSaved /\ LoadedIsSaved)'
    <2>1. call[t] \in Call /\ call[t].identity \in Identity /\ call[t].salt \in Salt
      BY <1>1, <1>7, RunningCalls DEF store_blob, StorageTypeInv, CallsAreComplete, Ended
    <2>2. Saved(identity_slot)'
      BY <1>7, <2>1, EncryptedBlob DEF store_blob, Call, derive_key
    <2> QED
      BY <1>1, <1>7, <2>1, <2>2 DEF store_blob, Call
  <1>8. ASSUME NEW t \in Task, decrypt_blob(t)
        PROVE  (BackupsAreSaved /\ LoadedIsSaved)'
    <2>1. call[t] \in Call /\ Saved(call[t].blob)
      BY <1>1, <1>8, RunningCalls DEF decrypt_blob, Ended
    <2>2. call[t].blob.key.secret = call[t].secret
      BY <1>8 DEF decrypt_blob, opens, derive_key
    <2>3. /\ call'[t].identity = restore_from_seed(call[t].blob.backup)
          /\ call'[t].secret = call[t].secret /\ call'[t].at = "ok"
          /\ \A u \in Task \ {t} : call'[u] = call[u]
      BY <1>1, <1>8, <2>1 DEF decrypt_blob, Call
    <2>4. stored' = stored /\ identity_slot' = identity_slot
      BY <1>8 DEF decrypt_blob
    <2>5. BackupsAreSaved'
      BY <2>3, <2>4
    <2>6. <<call'[t].identity, call'[t].secret>> \in stored'
      BY <2>1, <2>2, <2>3, <2>4
    <2> QED
      BY <2>3, <2>4, <2>5, <2>6
  <1>9. CASE delete_identity_backup
    BY <1>9 DEF delete_identity_backup
  <1>10. CASE crash
    BY <1>10 DEF crash, NoCall
  <1>11. CASE UNCHANGED vars
    BY <1>11 DEF vars
  <1> QED
    BY <1>2, <1>3, <1>4, <1>5, <1>6, <1>7, <1>8, <1>9, <1>10, <1>11 DEF StorageNext

------------------------------------------------------------------------------
(* The type, the one salt and the saved backups: the inductive invariant   *)
(* of StorageSpec.                                                         *)
StorageInv == StorageTypeInv /\ OneSalt /\ BackupsAreSaved /\ LoadedIsSaved

LEMMA StorageBegins == StorageInit => StorageInv
  <1> SUFFICES ASSUME StorageInit
               PROVE  StorageInv
    OBVIOUS
  <1>1. \A t \in Task : call[t] = NoCall
    BY DEF StorageInit
  <1>2. StorageTypeOK
    BY DEF StorageInit, StorageTypeOK
  <1>3. CallsAreComplete
    BY <1>1 DEF CallsAreComplete, Fetched, NoCall, Ended
  <1>4. OneSalt
    BY <1>1 DEF StorageInit, OneSalt, At, NoCall
  <1>5. BackupsAreSaved /\ LoadedIsSaved
    BY <1>1 DEF StorageInit, BackupsAreSaved, LoadedIsSaved, Fetched, At, NoCall
  <1> QED
    BY <1>2, <1>3, <1>4, <1>5 DEF StorageInv, StorageTypeInv

LEMMA StepKeepsStorage == StorageInv /\ [StorageNext]_vars => StorageInv'
  BY CallStepKeepsType, StepKeepsOneSalt, StepKeepsSaved DEF StorageInv

THEOREM StorageInvariant == StorageSpec => []StorageInv
  BY StorageBegins, StepKeepsStorage, PTL DEF StorageSpec

(* A stored backup is encrypted under the salt the next load will read,    *)
(* unless a read of an existing salt failed or two tasks were creating it  *)
(* at once (get_or_create_salt, crypto/secure_storage.rs).                 *)
THEOREM BackupAlwaysOpens == StorageSpec => []BackupOpens
  <1>1. StorageInv => BackupOpens
    BY DEF StorageInv, OneSalt, BackupOpens
  <1> QED
    BY <1>1, StorageInvariant, PTL

(* A load that succeeds returns an identity that was saved under the       *)
(* secret it was given (load_identity_backup).                             *)
THEOREM LoadsAreSaves == StorageSpec => []LoadedIsSaved
  <1>1. StorageInv => LoadedIsSaved
    BY DEF StorageInv
  <1> QED
    BY <1>1, StorageInvariant, PTL

------------------------------------------------------------------------------
(* What is sealed and opened.  An item was made by one device, with the    *)
(* date its clock had.                                                     *)
Envelope(d, p, made) ==
    LET header == [version |-> Version, timestamp |-> made + Skew[d], sender_id_hash |-> d]
        bytes  == [data |-> p, lz4 |-> p \in LongPayload]
    IN [kind |-> "envelope", header |-> header, payload_bytes |-> bytes,
        is_compressed |-> bytes.lz4, signature |-> EnvelopeSigned(d, header, bytes)]

Packet(d, to, c, p, made) ==
    [kind |-> "packet", timestamp |-> made + Skew[d],
     ciphertext |-> [to |-> to, context |-> c, data |-> p]]

Ping(d, made) ==
    [kind |-> "ping", public_key |-> d, phone_hash |-> d, display_name |-> d,
     timestamp |-> made + Skew[d], signature |-> PingSigned(d, d, made + Skew[d])]

MadeBy(d, s) ==
    \/ \E p \in Payload : s.item = Envelope(d, p, s.at)
    \/ \E to \in Device, c \in Context, p \in Payload : s.item = Packet(d, to, c, p, s.at)
    \/ s.item = Ping(d, s.at)

SealedInv ==
    /\ now \in 0..MaxNow
    /\ \A s \in sealed : /\ s.at \in 0..now
                         /\ \E d \in Device : MadeBy(d, s)

(* Two clocks differ by Spread at most, however many there are.            *)
LEMMA SpreadBounds == Spread \in Nat /\ SkewedBy(Spread)
  <1> USE ClocksFit
  <1> DEFINE Fit == {n \in 0..Width : SkewedBy(n)}
             Least(n) == SkewedBy(n) /\ \A m \in 0 .. n - 1 : ~SkewedBy(m)
  <1>1. Width \in Fit
    BY DEF SkewedBy
  <1>2. Fit \subseteq Nat /\ Fit # {}
    BY <1>1
  <1>3. PICK n \in Fit : \A k \in Fit : ~(<<k, n>> \in OpToRel(<, Nat))
    <2> HIDE DEF Fit
    <2> QED
      BY <1>2, NatLessThanWellFounded, WFMin, Zenon
  <1>4. \A k \in Fit : ~(k < n)
    BY <1>2, <1>3, Zenon DEF OpToRel
  <1>5. n \in 0..Width /\ SkewedBy(n)
    OBVIOUS
  <1>6. \A m \in 0 .. n - 1 : ~SkewedBy(m)
    BY <1>4, <1>5
  <1>7. \E k \in 0..Width : Least(k)
    BY <1>5, <1>6
  <1>8. Spread = CHOOSE k \in 0..Width : Least(k)
    BY DEF Spread
  <1>9. Spread \in 0..Width /\ Least(Spread)
    <2> HIDE DEF Least
    <2> QED
      BY <1>7, <1>8
  <1> QED
    BY <1>9

(* What one clock finds young was made not long ago by any other.          *)
LEMMA YoungIsYoung ==
    ASSUME now \in 0..MaxNow, NEW made \in 0..now, NEW r \in Device, NEW d \in Device,
           NEW age \in Nat, Clock(r) - (made + Skew[d]) <= age
    PROVE  now - made <= age + Spread
  <1>1. Skew[r] \in Nat /\ Skew[d] \in Nat /\ MaxNow \in Nat
    BY ClocksFit
  <1>2. Skew[d] - Skew[r] <= Spread /\ Spread \in Nat
    BY SpreadBounds DEF SkewedBy
  <1> QED
    BY <1>1, <1>2 DEF Clock

(* What becomes of an item keeps its kind.                                 *)
LEMMA DamagedEnvelope ==
    ASSUME NEW i, i.kind = "envelope", NEW e \in Damaged(i)
    PROVE  \/ e = [i EXCEPT !.header.version = Version + 1]
           \/ e = [i EXCEPT !.is_compressed = ~ @]
           \/ e = [i EXCEPT !.signature = Lost]
           \/ \E t \in Times : e = [i EXCEPT !.header.timestamp = t]
           \/ \E x \in Device : e = [i EXCEPT !.header.sender_id_hash = x]
           \/ \E x \in Payload : e = [i EXCEPT !.payload_bytes.data = x]
  BY DEF Damaged

(* verify and get_payload: no envelope opens that was changed.             *)
LEMMA EnvelopesOpen ==
    ASSUME SealedInv, NEW s \in sealed, NEW r \in Device, NEW d \in Device, NEW p \in Payload,
           s.item = Envelope(d, p, s.at),
           NEW e \in {s.item} \cup Damaged(s.item), open_envelope(r, e) = "ok"
    PROVE  e = s.item /\ now - s.at <= MaxAge.envelope + Spread
  <1> DEFINE ts == s.at + Skew[d]
             header == [version |-> Version, timestamp |-> ts, sender_id_hash |-> d]
             bytes == [data |-> p, lz4 |-> p \in LongPayload]
             i == [kind |-> "envelope", header |-> header, payload_bytes |-> bytes,
                   is_compressed |-> bytes.lz4, signature |-> EnvelopeSigned(d, header, bytes)]
  <1>1. s.item = i
    BY DEF Envelope
  <1>2. verify(r, e) = "ok" /\ get_payload(e) # Lost
    BY DEF open_envelope
  <1>3. /\ e.header.version = Version /\ ~Expired(r, e)
        /\ e.signature = EnvelopeSigned(e.header.sender_id_hash, e.header, e.payload_bytes)
        /\ e.signature # Lost /\ e.is_compressed = e.payload_bytes.lz4
    BY <1>2 DEF verify, get_payload
  <1>4. e = i
    <2>1. CASE e = [i EXCEPT !.header.version = Version + 1]
      BY <1>3, <2>1 DEF Version
    <2>2. CASE e = [i EXCEPT !.is_compressed = ~ @]
      BY <1>3, <2>2
    <2>3. CASE e = [i EXCEPT !.signature = Lost]
      BY <1>3, <2>3
    <2>4. ASSUME NEW t \in Times, e = [i EXCEPT !.header.timestamp = t]
          PROVE  e = i
      <3>1. e.header = [version |-> Version, timestamp |-> t, sender_id_hash |-> d]
        BY <2>4
      <3>2. e.signature = EnvelopeSigned(d, header, bytes) /\ e.payload_bytes = bytes
        BY <2>4
      <3>3. e.header = header
        BY <1>3, <3>1, <3>2 DEF EnvelopeSigned
      <3> QED
        BY <2>4, <3>1, <3>3
    <2>5. ASSUME NEW x \in Device, e = [i EXCEPT !.header.sender_id_hash = x]
          PROVE  e = i
      <3>1. e.header = [version |-> Version, timestamp |-> ts, sender_id_hash |-> x]
        BY <2>5
      <3>2. e.signature = EnvelopeSigned(d, header, bytes) /\ e.payload_bytes = bytes
        BY <2>5
      <3>3. e.header = header
        BY <1>3, <3>1, <3>2 DEF EnvelopeSigned
      <3> QED
        BY <2>5, <3>1, <3>3
    <2>6. ASSUME NEW x \in Payload, e = [i EXCEPT !.payload_bytes.data = x]
          PROVE  e = i
      <3>1. e.payload_bytes = [data |-> x, lz4 |-> p \in LongPayload]
        BY <2>6
      <3>2. e.signature = EnvelopeSigned(d, header, bytes) /\ e.header = header
        BY <2>6
      <3>3. e.payload_bytes = bytes
        BY <1>3, <3>1, <3>2 DEF EnvelopeSigned
      <3> QED
        BY <2>6, <3>1, <3>3
    <2>7. i.kind = "envelope"
      OBVIOUS
    <2>8. e = i \/ e \in Damaged(i)
      BY <1>1
    <2> HIDE DEF i
    <2> QED
      BY <2>1, <2>2, <2>3, <2>4, <2>5, <2>6, <2>7, <2>8, DamagedEnvelope
  <1>5. (Clock(r) - ts) % Width <= MaxAge.envelope
    <2>1. e.header.timestamp = ts
      BY <1>4
    <2>2. /\ (Clock(r) - ts) % Width \in Int /\ MaxAge.envelope \in Nat
      BY ClocksFit, AgesAreNumbers DEF SealedInv, Clock
    <2> HIDE DEF ts
    <2> QED
      BY <1>3, <2>1, <2>2 DEF Expired
  <1>6. now - s.at <= MaxAge.envelope + Spread
    <2> USE ClocksFit
    <2>1. /\ now \in 0..MaxNow /\ s.at \in 0..now /\ MaxAge.envelope \in Nat
          /\ Skew[r] \in Nat /\ Skew[d] \in Nat /\ Clock(r) = now + Skew[r]
      BY AgesAreNumbers DEF SealedInv, Clock
    <2>2. CASE Clock(r) >= ts
      <3>1. Clock(r) - ts \in Nat /\ Clock(r) - ts < Width
        BY <2>1, <2>2
      <3>2. \A a, b \in Nat : a < b => a % b = a
        OBVIOUS
      <3>3. Clock(r) - ts <= MaxAge.envelope
        BY <1>5, <3>1, <3>2
      <3> QED
        BY <2>1, <3>3, YoungIsYoung
    <2>3. CASE Clock(r) < ts
      BY <2>1, <2>3, YoungIsYoung
    <2> QED
      BY <2>1, <2>2, <2>3
  <1> QED
    BY <1>1, <1>4, <1>6

(* decrypt: a packet opens for its recipient in its context; its date is   *)
(* all that may have changed.                                              *)
LEMMA PacketsOpen ==
    ASSUME SealedInv, NEW s \in sealed, NEW r \in Device, NEW c \in Context,
           NEW d \in Device, NEW to \in Device, NEW x \in Context, NEW p \in Payload,
           s.item = Packet(d, to, x, p, s.at),
           NEW e \in {s.item} \cup Damaged(s.item), decrypt(r, c, e) = "ok"
    PROVE  /\ e \in {s.item} \cup Unprotected(s.item)
           /\ e.kind = "packet" /\ e.ciphertext.to = r /\ e.ciphertext.context = c
           /\ e = s.item => now - s.at <= MaxAge.packet + Spread
  <1> DEFINE ts == s.at + Skew[d]
             i == [kind |-> "packet", timestamp |-> ts,
                   ciphertext |-> [to |-> to, context |-> x, data |-> p]]
  <1>1. s.item = i /\ i.kind = "packet"
    BY DEF Packet
  <1>2. /\ ~(Clock(r) > (e.timestamp + MaxAge.packet) % Width) /\ e.ciphertext # Lost
        /\ <<e.ciphertext.to, e.ciphertext.context>> = <<r, c>>
    BY DEF decrypt
  <1>3. e = i \/ e = [i EXCEPT !.ciphertext = Lost]
              \/ \E t \in Times : e = [i EXCEPT !.timestamp = t]
    <2> HIDE DEF i
    <2> QED
      BY <1>1 DEF Damaged
  <1>4. e # [i EXCEPT !.ciphertext = Lost]
    BY <1>2
  <1>5. e \in {s.item} \cup Unprotected(s.item) /\ e.kind = "packet"
    <2>1. e.kind = "packet"
      BY <1>3
    <2> HIDE DEF i
    <2> QED
      BY <1>1, <1>3, <1>4, <2>1 DEF Unprotected
  <1>6. ASSUME e = s.item
        PROVE  now - s.at <= MaxAge.packet + Spread
    <2>1. e.timestamp = ts
      BY <1>1, <1>6
    <2>2. /\ now \in 0..MaxNow /\ s.at \in 0..now /\ MaxAge.packet \in Nat
          /\ Skew[r] \in Nat /\ Skew[d] \in Nat /\ MaxNow \in Nat /\ Clock(r) = now + Skew[r]
      BY ClocksFit, AgesAreNumbers DEF SealedInv, Clock
    <2>3. (ts + MaxAge.packet) % Width = ts + MaxAge.packet
      <3>1. ts + MaxAge.packet \in Nat /\ ts + MaxAge.packet < Width /\ Width \in Nat
        BY <2>2, ClocksFit, ExpiryFits
      <3>2. \A a, b \in Nat : a < b => a % b = a
        OBVIOUS
      <3> HIDE DEF ts
      <3> QED
        BY <3>1, <3>2
    <2>4. Clock(r) - ts <= MaxAge.packet
      BY <1>2, <2>1, <2>2, <2>3
    <2> QED
      BY <2>2, <2>4, YoungIsYoung
  <1> QED
    BY <1>2, <1>5, <1>6

(* process_scanned_ping: a code with another name passes, no other change. *)
LEMMA PingsOpen ==
    ASSUME SealedInv, NEW s \in sealed, NEW r \in Device, NEW d \in Device,
           s.item = Ping(d, s.at),
           NEW e \in {s.item} \cup Damaged(s.item), process_scanned_ping(r, e) = "ok"
    PROVE  /\ e \in {s.item} \cup Unprotected(s.item)
           /\ e.kind = "ping" /\ e.phone_hash # r
           /\ e = s.item => now - s.at <= MaxAge.ping + Spread
  <1> DEFINE ts == s.at + Skew[d]
             i == [kind |-> "ping", public_key |-> d, phone_hash |-> d, display_name |-> d,
                   timestamp |-> ts, signature |-> PingSigned(d, d, ts)]
  <1>1. s.item = i /\ i.kind = "ping"
    BY DEF Ping
  <1>2. /\ e.signature = PingSigned(e.public_key, e.phone_hash, e.timestamp)
        /\ is_fresh(r, e) /\ e.phone_hash # r
    BY DEF process_scanned_ping
  <1>3. \/ e = i \/ e = [i EXCEPT !.signature = Lost]
        \/ \E t \in Times : e = [i EXCEPT !.timestamp = t]
        \/ \E x \in Device : e = [i EXCEPT !.phone_hash = x]
        \/ \E x \in Device : e = [i EXCEPT !.display_name = x]
    <2> HIDE DEF i
    <2> QED
      BY <1>1 DEF Damaged
  <1>4. e = i \/ \E x \in Device : e = [i EXCEPT !.display_name = x]
    <2>1. ASSUME e = [i EXCEPT !.signature = Lost]
          PROVE  e = i
      BY <1>2, <2>1
    <2>2. ASSUME NEW t \in Times, e = [i EXCEPT !.timestamp = t]
          PROVE  e = i
      <3>1. PingSigned(d, d, ts) = PingSigned(d, d, t)
        BY <1>2, <2>2
      <3>2. t = ts
        BY <3>1 DEF PingSigned
      <3> QED
        BY <2>2, <3>2
    <2>3. ASSUME NEW x \in Device, e = [i EXCEPT !.phone_hash = x]
          PROVE  e = i
      <3>1. PingSigned(d, d, ts) = PingSigned(d, x, ts)
        BY <1>2, <2>3
      <3>2. x = d
        BY <3>1 DEF PingSigned
      <3> QED
        BY <2>3, <3>2
    <2> QED
      BY <1>3, <2>1, <2>2, <2>3
  <1>5. e \in {s.item} \cup Unprotected(s.item) /\ e.kind = "ping"
    <2>1. e.kind = "ping"
      BY <1>4
    <2> HIDE DEF i
    <2> QED
      BY <1>1, <1>4, <2>1 DEF Unprotected
  <1>6. ASSUME e = s.item
        PROVE  now - s.at <= MaxAge.ping + Spread
    <2>1. e.timestamp = ts
      BY <1>1, <1>6
    <2>2. /\ now \in 0..MaxNow /\ s.at \in 0..now /\ MaxAge.ping \in Nat
          /\ Skew[r] \in Nat /\ Skew[d] \in Nat /\ MaxNow \in Nat /\ Clock(r) = now + Skew[r]
      BY ClocksFit, AgesAreNumbers DEF SealedInv, Clock
    <2>3. Clock(r) - ts <= MaxAge.ping
      BY <1>2, <2>1, <2>2 DEF is_fresh
    <2> QED
      BY <2>2, <2>3, YoungIsYoung
  <1> QED
    BY <1>2, <1>5, <1>6

(* Sealing dates an item by the clock of its maker; nothing else makes one.*)
LEMMA StepKeepsSealed ==
    ASSUME SealedInv, [PacketNext]_packetVars
    PROVE  SealedInv'
  <1> USE ClocksFit DEF SealedInv
  <1>1. ASSUME NEW d \in Device, NEW item, Seal(item), MadeBy(d, [item |-> item, at |-> now])
        PROVE  SealedInv'
    <2>1. now' = now /\ sealed' = sealed \cup {[item |-> item, at |-> now]}
      BY <1>1 DEF Seal
    <2>2. [item |-> item, at |-> now].at \in 0..now
      OBVIOUS
    <2>3. ASSUME NEW t, NEW u
          PROVE  MadeBy(t, u)' <=> MadeBy(t, u)
      BY DEF MadeBy
    <2> QED
      BY <1>1, <2>1, <2>2 DEF MadeBy
  <1>2. ASSUME NEW d \in Device, NEW p \in Payload, Seal(new_envelope(d, p))
        PROVE  SealedInv'
    <2>1. new_envelope(d, p) = Envelope(d, p, now)
      BY DEF new_envelope, Envelope, Clock
    <2>2. MadeBy(d, [item |-> new_envelope(d, p), at |-> now])
      BY <2>1 DEF MadeBy
    <2> QED
      BY <1>1, <1>2, <2>2
  <1>3. ASSUME NEW d \in Device, NEW to \in Device, NEW c \in Context, NEW p \in Payload,
               Seal(encrypt(d, to, c, p))
        PROVE  SealedInv'
    <2>1. encrypt(d, to, c, p) = Packet(d, to, c, p, now)
      BY DEF encrypt, Packet, Clock
    <2>2. MadeBy(d, [item |-> encrypt(d, to, c, p), at |-> now])
      BY <2>1 DEF MadeBy
    <2> QED
      BY <1>1, <1>3, <2>2
  <1>4. ASSUME NEW d \in Device, Seal(new_ping(d))
        PROVE  SealedInv'
    <2>1. new_ping(d) = Ping(d, now)
      BY DEF new_ping, Ping, Clock
    <2>2. MadeBy(d, [item |-> new_ping(d), at |-> now])
      BY <2>1 DEF MadeBy
    <2> QED
      BY <1>1, <1>4, <2>2
  <1>5. ASSUME NEW d \in Device, NEW s \in sealed, Receive(d, s)
        PROVE  SealedInv'
    BY <1>5 DEF Receive, Arrive, MadeBy
  <1>6. CASE PacketTick
    BY <1>6 DEF PacketTick, MadeBy
  <1>7. CASE UNCHANGED packetVars
    BY <1>7 DEF packetVars, MadeBy
  <1> QED
    BY <1>2, <1>3, <1>4, <1>5, <1>6, <1>7 DEF PacketNext

(* What has become of an item is of its kind.                              *)
LEMMA KindStays ==
    ASSUME NEW d \in Device, NEW s, MadeBy(d, s), NEW e \in {s.item} \cup Damaged(s.item)
    PROVE  e.kind = s.item.kind
  <1>1. ASSUME NEW p \in Payload, s.item = Envelope(d, p, s.at)
        PROVE  e.kind = s.item.kind
    <2> DEFINE ts == s.at + Skew[d]
               header == [version |-> Version, timestamp |-> ts, sender_id_hash |-> d]
               bytes == [data |-> p, lz4 |-> p \in LongPayload]
               i == [kind |-> "envelope", header |-> header, payload_bytes |-> bytes,
                     is_compressed |-> bytes.lz4, signature |-> EnvelopeSigned(d, header, bytes)]
    <2>1. s.item = i /\ i.kind = "envelope"
      BY <1>1 DEF Envelope
    <2>2. \/ e = i
          \/ e = [i EXCEPT !.header.version = Version + 1]
          \/ e = [i EXCEPT !.is_compressed = ~ @]
          \/ e = [i EXCEPT !.signature = Lost]
          \/ \E t \in Times : e = [i EXCEPT !.header.timestamp = t]
          \/ \E x \in Device : e = [i EXCEPT !.header.sender_id_hash = x]
          \/ \E x \in Payload : e = [i EXCEPT !.payload_bytes.data = x]
      <3> HIDE DEF i
      <3> QED
        BY <2>1, DamagedEnvelope
    <2> QED
      BY <2>1, <2>2
  <1>2. ASSUME NEW to \in Device, NEW c \in Context, NEW p \in Payload,
               s.item = Packet(d, to, c, p, s.at)
        PROVE  e.kind = s.item.kind
    <2> DEFINE i == [kind |-> "packet", timestamp |-> s.at + Skew[d],
                     ciphertext |-> [to |-> to, context |-> c, data |-> p]]
    <2>1. s.item = i /\ i.kind = "packet"
      BY <1>2 DEF Packet
    <2>2. e = i \/ e = [i EXCEPT !.ciphertext = Lost]
                \/ \E t \in Times : e = [i EXCEPT !.timestamp = t]
      <3> HIDE DEF i
      <3> QED
        BY <2>1 DEF Damaged
    <2> QED
      BY <2>1, <2>2
  <1>3. ASSUME s.item = Ping(d, s.at)
        PROVE  e.kind = s.item.kind
    <2> DEFINE ts == s.at + Skew[d]
               i == [kind |-> "ping", public_key |-> d, phone_hash |-> d, display_name |-> d,
                     timestamp |-> ts, signature |-> PingSigned(d, d, ts)]
    <2>1. s.item = i /\ i.kind = "ping"
      BY <1>3 DEF Ping
    <2>2. \/ e = i \/ e = [i EXCEPT !.signature = Lost]
          \/ \E t \in Times : e = [i EXCEPT !.timestamp = t]
          \/ \E x \in Device : e = [i EXCEPT !.phone_hash = x]
          \/ \E x \in Device : e = [i EXCEPT !.display_name = x]
      <3> HIDE DEF i
      <3> QED
        BY <2>1 DEF Damaged
    <2> QED
      BY <2>1, <2>2
  <1> QED
    BY <1>1, <1>2, <1>3 DEF MadeBy

(* Every arrival a receiver takes for good.                                *)
LEMMA ReceivedAsSealed ==
    ASSUME SealedInv, NEW r \in Device, NEW s \in sealed, Receive(r, s)
    PROVE  OpenedAsSealed'
  <1>1. PICK d \in Device : MadeBy(d, s)
    BY DEF SealedInv
  <1>2. PICK e \in {s.item} \cup Damaged(s.item) :
            \/ e.kind = "envelope" /\ Arrive(r, s, e, Lost, open_envelope(r, e))
            \/ e.kind = "packet" /\ \E c \in Context : Arrive(r, s, e, c, decrypt(r, c, e))
            \/ e.kind = "ping" /\ Arrive(r, s, e, Lost, process_scanned_ping(r, e))
    BY DEF Receive
  <1>3. e.kind = s.item.kind
    BY <1>1, KindStays
  <1>4. ASSUME NEW c, NEW verdict, Arrive(r, s, e, c, verdict),
               verdict = "ok" =>
                   /\ e \in {s.item} \cup Unprotected(s.item)
                   /\ e.kind = "packet" => e.ciphertext.to = r /\ e.ciphertext.context = c
                   /\ e.kind = "ping" => e.phone_hash # r
                   /\ e = s.item => now - s.at <= MaxAge[e.kind] + Spread
        PROVE  OpenedAsSealed'
    <2>1. /\ arrived' = [by |-> r, sent |-> s, item |-> e, context |-> c, verdict |-> verdict]
          /\ now' = now
      BY <1>4 DEF Arrive
    <2>2. /\ arrived'.by = r /\ arrived'.sent = s /\ arrived'.item = e
          /\ arrived'.context = c /\ arrived'.verdict = verdict
      BY <2>1
    <2>3. verdict = "ok" => ForWhomItArrived'
      BY <1>4, <2>2 DEF ForWhomItArrived
    <2> QED
      BY <1>4, <2>1, <2>2, <2>3 DEF OpenedAsSealed
  <1>5. ASSUME NEW p \in Payload, s.item = Envelope(d, p, s.at)
        PROVE  OpenedAsSealed'
    <2>1. e.kind = "envelope"
      BY <1>3, <1>5 DEF Envelope
    <2>2. Arrive(r, s, e, Lost, open_envelope(r, e))
      BY <1>2, <2>1
    <2>3. open_envelope(r, e) = "ok" => e = s.item /\ now - s.at <= MaxAge.envelope + Spread
      BY <1>5, EnvelopesOpen
    <2> QED
      BY <1>4, <2>1, <2>2, <2>3
  <1>6. ASSUME NEW to \in Device, NEW x \in Context, NEW p \in Payload,
               s.item = Packet(d, to, x, p, s.at)
        PROVE  OpenedAsSealed'
    <2>1. e.kind = "packet"
      BY <1>3, <1>6 DEF Packet
    <2>2. PICK c \in Context : Arrive(r, s, e, c, decrypt(r, c, e))
      BY <1>2, <2>1
    <2>3. decrypt(r, c, e) = "ok" =>
              /\ e \in {s.item} \cup Unprotected(s.item)
              /\ e.ciphertext.to = r /\ e.ciphertext.context = c
              /\ e = s.item => now - s.at <= MaxAge.packet + Spread
      BY <1>6, PacketsOpen
    <2> QED
      BY <1>4, <2>1, <2>2, <2>3
  <1>7. ASSUME s.item = Ping(d, s.at)
        PROVE  OpenedAsSealed'
    <2>1. e.kind = "ping"
      BY <1>3, <1>7 DEF Ping
    <2>2. Arrive(r, s, e, Lost, process_scanned_ping(r, e))
      BY <1>2, <2>1
    <2>3. process_scanned_ping(r, e) = "ok" =>
              /\ e \in {s.item} \cup Unprotected(s.item) /\ e.phone_hash # r
              /\ e = s.item => now - s.at <= MaxAge.ping + Spread
      BY <1>7, PingsOpen
    <2> QED
      BY <1>4, <2>1, <2>2, <2>3
  <1> QED
    BY <1>1, <1>5, <1>6, <1>7 DEF MadeBy

(* What is found too old by one clock was made long ago by any other.      *)
LEMMA OldIsOld ==
    ASSUME now \in 0..MaxNow, NEW made \in 0..now, NEW r \in Device, NEW d \in Device,
           NEW age \in Nat, now - made < age - Spread
    PROVE  Clock(r) - (made + Skew[d]) < age
  <1>1. Skew[r] \in Nat /\ Skew[d] \in Nat /\ MaxNow \in Nat
    BY ClocksFit
  <1>2. Skew[r] - Skew[d] <= Spread /\ Spread \in Nat
    BY SpreadBounds DEF SkewedBy
  <1> QED
    BY <1>1, <1>2 DEF Clock

(* What stands in the way of an item that arrives as it was sealed.        *)
LEMMA EnvelopesAreTaken ==
    ASSUME SealedInv, NEW s \in sealed, NEW r \in Device, NEW d \in Device, NEW p \in Payload,
           s.item = Envelope(d, p, s.at), now - s.at < MaxAge.envelope - Spread,
           p \notin HugePayload, Clock(r) >= s.item.header.timestamp
    PROVE  open_envelope(r, s.item) = "ok"
  <1> DEFINE ts == s.at + Skew[d]
             header == [version |-> Version, timestamp |-> ts, sender_id_hash |-> d]
             bytes == [data |-> p, lz4 |-> p \in LongPayload]
  <1>1. /\ s.item.header = header /\ s.item.payload_bytes = bytes
        /\ s.item.is_compressed = bytes.lz4
        /\ s.item.signature = EnvelopeSigned(d, header, bytes)
    BY DEF Envelope
  <1>2. /\ now \in 0..MaxNow /\ s.at \in 0..now /\ MaxAge.envelope \in Nat
        /\ Skew[r] \in Nat /\ Skew[d] \in Nat /\ Clock(r) = now + Skew[r]
        /\ MaxNow \in Nat /\ Width \in Nat
        /\ MaxNow + Skew[d] < Width /\ MaxNow + Skew[r] < Width
    BY ClocksFit, AgesAreNumbers DEF SealedInv, Clock
  <1>3. Clock(r) >= ts
    BY <1>1
  <1>4. ~Expired(r, s.item)
    <2>1. Clock(r) - ts \in Nat /\ Clock(r) - ts < Width
      BY <1>2, <1>3
    <2>2. \A a, b \in Nat : a < b => a % b = a
      OBVIOUS
    <2>3. Clock(r) - ts < MaxAge.envelope
      BY <1>2, OldIsOld
    <2>4. (Clock(r) - ts) % Width = Clock(r) - ts
      BY <1>2, <2>1, <2>2
    <2> QED
      BY <1>1, <1>2, <2>1, <2>3, <2>4 DEF Expired
  <1>5. s.item.signature # Lost
    <2>1. ts \in 0..Width /\ bytes.lz4 \in BOOLEAN
      BY <1>2
    <2> QED
      BY <1>1, <2>1, LostIsNothing
  <1>6. verify(r, s.item) = "ok"
    BY <1>1, <1>4, <1>5 DEF verify
  <1>7. get_payload(s.item) = p /\ p # Lost
    BY <1>1, LostIsNothing DEF get_payload
  <1> QED
    BY <1>6, <1>7 DEF open_envelope

LEMMA PacketsAreTaken ==
    ASSUME SealedInv, NEW s \in sealed, NEW r \in Device, NEW d \in Device,
           NEW c \in Context, NEW p \in Payload,
           s.item = Packet(d, r, c, p, s.at), now - s.at < MaxAge.packet - Spread
    PROVE  decrypt(r, c, s.item) = "ok"
  <1>1. /\ s.item.timestamp = s.at + Skew[d]
        /\ s.item.ciphertext = [to |-> r, context |-> c, data |-> p]
    BY DEF Packet
  <1>2. /\ now \in 0..MaxNow /\ s.at \in 0..now /\ MaxAge.packet \in Nat
        /\ Skew[r] \in Nat /\ Skew[d] \in Nat /\ MaxNow \in Nat /\ Clock(r) = now + Skew[r]
    BY ClocksFit, AgesAreNumbers DEF SealedInv, Clock
  <1>3. ~(Clock(r) > (s.item.timestamp + MaxAge.packet) % Width)
    <2> DEFINE sum == s.at + Skew[d] + MaxAge.packet
    <2>1. sum \in Nat /\ sum < Width /\ Width \in Nat
      BY <1>2, ClocksFit, ExpiryFits
    <2>2. \A a, b \in Nat : a < b => a % b = a
      OBVIOUS
    <2>3. sum % Width = sum
      <3> HIDE DEF sum
      <3> QED
        BY <2>1, <2>2
    <2>4. ~(Clock(r) > sum)
      BY <1>1, <1>2, OldIsOld
    <2> QED
      BY <1>1, <2>3, <2>4
  <1>4. s.item.ciphertext # Lost
    BY <1>1, LostIsNothing
  <1> QED
    BY <1>1, <1>3, <1>4 DEF decrypt

LEMMA PingsAreTaken ==
    ASSUME SealedInv, NEW s \in sealed, NEW r \in Device, NEW d \in Device, d # r,
           s.item = Ping(d, s.at), now - s.at < MaxAge.ping - Spread
    PROVE  process_scanned_ping(r, s.item) = "ok"
  <1>1. /\ s.item.timestamp = s.at + Skew[d]
        /\ s.item.public_key = d /\ s.item.phone_hash = d
        /\ s.item.signature = PingSigned(d, d, s.at + Skew[d])
    BY DEF Ping
  <1>2. /\ now \in 0..MaxNow /\ s.at \in 0..now /\ MaxAge.ping \in Nat
        /\ Skew[r] \in Nat /\ Skew[d] \in Nat /\ MaxNow \in Nat /\ Clock(r) = now + Skew[r]
    BY ClocksFit, AgesAreNumbers DEF SealedInv, Clock
  <1>3. is_fresh(r, s.item)
    BY <1>1, <1>2, OldIsOld, SpreadBounds DEF is_fresh
  <1> QED
    BY <1>1, <1>3 DEF process_scanned_ping

(* An arrival that is refused was late, astray, damaged, too large, or     *)
(* ahead of the clock.                                                     *)
LEMMA ReceivedForCause ==
    ASSUME SealedInv, NEW r \in Device, NEW s \in sealed, Receive(r, s)
    PROVE  RefusedForCause'
  <1>1. PICK d \in Device : MadeBy(d, s)
    BY DEF SealedInv
  <1>2. PICK e \in {s.item} \cup Damaged(s.item) :
            \/ e.kind = "envelope" /\ Arrive(r, s, e, Lost, open_envelope(r, e))
            \/ e.kind = "packet" /\ \E c \in Context : Arrive(r, s, e, c, decrypt(r, c, e))
            \/ e.kind = "ping" /\ Arrive(r, s, e, Lost, process_scanned_ping(r, e))
    BY DEF Receive
  <1>3. ASSUME NEW c, NEW verdict, Arrive(r, s, e, c, verdict)
        PROVE  /\ arrived'.by = r /\ arrived'.sent = s /\ arrived'.item = e
               /\ arrived'.context = c /\ arrived'.verdict = verdict /\ now' = now
    BY <1>3 DEF Arrive
  <1>4. SUFFICES ASSUME arrived'.item = arrived'.sent.item, ForWhomItArrived', InTime',
                        ~Unpackable', ~DatedAhead'
                 PROVE  arrived'.verdict = "ok"
    BY DEF RefusedForCause
  <1>5. e = s.item /\ now - s.at < MaxAge[e.kind] - Spread
    <2>1. arrived'.sent = s /\ arrived'.item = e /\ now' = now
      BY <1>2, <1>3
    <2>2. InTime' <=> now' - arrived'.sent.at < MaxAge[arrived'.item.kind] - Spread
      BY DEF InTime
    <2> QED
      BY <1>4, <2>1, <2>2
  <1>6. ASSUME NEW p \in Payload, s.item = Envelope(d, p, s.at)
        PROVE  arrived'.verdict = "ok"
    <2>1. e.kind = "envelope" /\ e.payload_bytes.data = p
      BY <1>5, <1>6 DEF Envelope
    <2>2. Arrive(r, s, e, Lost, open_envelope(r, e))
      BY <1>2, <2>1
    <2>3. arrived'.by = r /\ arrived'.item = e /\ now' = now
          /\ arrived'.verdict = open_envelope(r, e)
      BY <1>3, <2>2
    <2>4. p \notin HugePayload
      BY <1>4, <2>1, <2>3 DEF Unpackable
    <2>5. ~(e.header.timestamp > Clock(r))
      BY <1>4, <2>1, <2>3 DEF DatedAhead, Clock
    <2>6. Clock(r) \in Int /\ e.header.timestamp \in Int
      BY <1>5, <1>6, ClocksFit DEF SealedInv, Clock, Envelope
    <2> QED
      BY <1>5, <1>6, <2>1, <2>3, <2>4, <2>5, <2>6, EnvelopesAreTaken
  <1>7. ASSUME NEW to \in Device, NEW x \in Context, NEW p \in Payload,
               s.item = Packet(d, to, x, p, s.at)
        PROVE  arrived'.verdict = "ok"
    <2>1. e.kind = "packet" /\ e.ciphertext.to = to /\ e.ciphertext.context = x
      BY <1>5, <1>7 DEF Packet
    <2>2. PICK c \in Context : Arrive(r, s, e, c, decrypt(r, c, e))
      BY <1>2, <2>1
    <2>3. /\ arrived'.by = r /\ arrived'.item = e /\ arrived'.context = c
          /\ arrived'.verdict = decrypt(r, c, e)
      BY <1>3, <2>2
    <2>4. to = r /\ x = c
      BY <1>4, <2>1, <2>3 DEF ForWhomItArrived
    <2> QED
      BY <1>5, <1>7, <2>1, <2>3, <2>4, PacketsAreTaken
  <1>8. ASSUME s.item = Ping(d, s.at)
        PROVE  arrived'.verdict = "ok"
    <2>1. e.kind = "ping" /\ e.phone_hash = d
      BY <1>5, <1>8 DEF Ping
    <2>2. Arrive(r, s, e, Lost, process_scanned_ping(r, e))
      BY <1>2, <2>1
    <2>3. arrived'.by = r /\ arrived'.item = e /\ arrived'.verdict = process_scanned_ping(r, e)
      BY <1>3, <2>2
    <2>4. d # r
      BY <1>4, <2>1, <2>3 DEF ForWhomItArrived
    <2> QED
      BY <1>5, <1>8, <2>1, <2>3, <2>4, PingsAreTaken
  <1> QED
    BY <1>1, <1>6, <1>7, <1>8 DEF MadeBy

(* Items are dated by their makers' clocks.                                *)
THEOREM SealedInvariant == PacketSpec => []SealedInv
  <1>1. PacketInit => SealedInv
    BY ClocksFit DEF PacketInit, SealedInv
  <1> QED
    BY <1>1, StepKeepsSealed, PTL DEF PacketSpec

(* What verify, decrypt and process_scanned_ping (p2p/protocol.rs, e2ee.rs,*)
(* ping/mod.rs) let through was sealed for this receiver, unchanged where  *)
(* it is protected, and not too long ago, for any clocks that fit a u64.   *)
THEOREM AlwaysOpenedAsSealed == PacketSpec => []OpenedAsSealed
  <1>1. PacketInit => OpenedAsSealed
    BY DEF PacketInit, OpenedAsSealed
  <1>2. SealedInv /\ OpenedAsSealed /\ [PacketNext]_packetVars => OpenedAsSealed'
    <2> SUFFICES ASSUME SealedInv, OpenedAsSealed, [PacketNext]_packetVars
                 PROVE  OpenedAsSealed'
      OBVIOUS
    <2>1. CASE \E d \in Device, s \in sealed : Receive(d, s)
      BY <2>1, ReceivedAsSealed
    <2>2. CASE (\E item : Seal(item)) \/ PacketTick
      BY <2>2 DEF Seal, PacketTick, OpenedAsSealed
    <2>3. CASE UNCHANGED packetVars
      BY <2>3 DEF packetVars, OpenedAsSealed, ForWhomItArrived
    <2> QED
      BY <2>1, <2>2, <2>3 DEF PacketNext
  <1> QED
    BY <1>1, <1>2, SealedInvariant, PTL DEF PacketSpec

(* The other way round: verify, decrypt and process_scanned_ping open what *)
(* arrives as it was sealed, where it belongs and in time by any clocks,   *)
(* but for payloads above 1 MiB and envelopes dated ahead.                 *)
THEOREM AlwaysRefusedForCause == PacketSpec => []RefusedForCause
  <1>1. PacketInit => RefusedForCause
    BY DEF PacketInit, RefusedForCause
  <1>2. SealedInv /\ RefusedForCause /\ [PacketNext]_packetVars => RefusedForCause'
    <2> SUFFICES ASSUME SealedInv, RefusedForCause, [PacketNext]_packetVars
                 PROVE  RefusedForCause'
      OBVIOUS
    <2>1. CASE \E d \in Device, s \in sealed : Receive(d, s)
      BY <2>1, ReceivedForCause
    <2>2. CASE (\E item : Seal(item)) \/ PacketTick
      BY <2>2 DEF Seal, PacketTick, RefusedForCause
    <2>3. CASE UNCHANGED packetVars
      BY <2>3 DEF packetVars, RefusedForCause, ForWhomItArrived, InTime, Unpackable,
                  DatedAhead, Clock
    <2> QED
      BY <2>1, <2>2, <2>3 DEF PacketNext
  <1> QED
    BY <1>1, <1>2, SealedInvariant, PTL DEF PacketSpec

------------------------------------------------------------------------------
(* Each cell, task and thread vouches for the cells filled before it.      *)
CellsInOrder ==
    /\ RUNTIME => JVM
    /\ APP_CONTROLLER => RUNTIME
    /\ spawned > 0 => APP_CONTROLLER
    /\ ready => APP_CONTROLLER
    /\ \A t \in Thread : /\ at[t] = "set_runtime" => JVM
                         /\ at[t] = "set_controller" => RUNTIME

(* A thread that migrates has a key, and so has a file with tables.        *)
KeysAreDerived ==
    /\ \A t \in Thread : at[t] = "migrate" => key[t] \in DbKey
    /\ tables # {} => file_key \in DbKey

CellsInv == /\ LifeTypeOK
        /\ CellsInOrder /\ CallsFindTheCore
        /\ KeysAreDerived /\ DatabaseReopens

------------------------------------------------------------------------------
LEMMA KeysAreKeys == NoKey \notin DbKey
  BY DeviceSaltIsNotDrawn, BoundsArePositive DEF NoKey, DbKey

LEMMA TypeHoldsInitially == LifeInit => LifeTypeOK
  <1>1. 0 \in 0..MaxDraws /\ 0 \in 0..MaxSpawned
    BY BoundsArePositive
  <1> QED
    BY <1>1 DEF LifeInit, LifeTypeOK, Where

(* The beginning of an open, by openDatabase or by spotka_init.            *)
LEMMA BeginKeepsType ==
    ASSUME LifeTypeOK, NEW t \in Thread, NEW s \in AuthSecret, begin_open(t, s)
    PROVE  LifeTypeOK'
  <1> USE BoundsArePositive DEF LifeTypeOK, Where
  <1>1. at' \in [Thread -> Where]
    BY DEF begin_open, Go
  <1>2. key' \in [Thread -> DbKey \cup {NoKey}] /\ draws' \in 0..MaxDraws
    BY DEF begin_open, Derive, DbKey
  <1> QED
    BY <1>1, <1>2 DEF begin_open, cells

LEMMA BeginKeepsFile ==
    ASSUME CellsInv, NEW t \in Thread, NEW s \in AuthSecret, begin_open(t, s)
    PROVE  (KeysAreDerived /\ DatabaseReopens)'
  <1> USE BoundsArePositive DEF CellsInv, LifeTypeOK, KeysAreDerived, DatabaseReopens
  <1>1. key'[t] \in DbKey /\ \A u \in Thread \ {t} : key'[u] = key[u] /\ at'[u] = at[u]
    BY DEF begin_open, Derive, DbKey, Go
  <1> QED
    BY <1>1 DEF begin_open

LEMMA BeginKeepsCells ==
    ASSUME CellsInv, NEW t \in Thread, NEW s \in AuthSecret, Idle(t), begin_open(t, s)
    PROVE  CellsInv'
  <1>1. (CellsInOrder /\ CallsFindTheCore)'
    BY DEF CellsInv, LifeTypeOK, CellsInOrder, CallsFindTheCore, begin_open, Go, Idle, cells
  <1> QED
    BY <1>1, BeginKeepsType, BeginKeepsFile DEF CellsInv

(* Every step keeps the type.                                              *)
LEMMA ThreadStepKeepsType ==
    ASSUME LifeTypeOK, KeysAreDerived, [LifeNext]_lifeVars
    PROVE  LifeTypeOK'
  <1> USE BoundsArePositive DEF LifeTypeOK, Where, Calls
  <1>1. ASSUME NEW t \in Thread, set_jvm(t) \/ set_runtime(t) \/ set_controller(t)
        PROVE  LifeTypeOK'
    BY <1>1 DEF set_jvm, set_runtime, set_controller, Go, database
  <1>2. ASSUME NEW t \in Thread, NEW s \in AuthSecret, openDatabase(t, s)
        PROVE  LifeTypeOK'
    <2>1. CASE RUNTIME
      <3>1. begin_open(t, s)
        BY <1>2, <2>1 DEF openDatabase
      <3> QED
        BY <3>1, BeginKeepsType
    <2>2. CASE ~RUNTIME
      BY <1>2, <2>2 DEF openDatabase, Abort, cells, database
    <2> QED
      BY <2>1, <2>2
  <1>3. ASSUME NEW t \in Thread, execute_statement(t)
        PROVE  LifeTypeOK'
    BY <1>3 DEF execute_statement, cells
  <1>4. ASSUME NEW t \in Thread, database_opened(t)
        PROVE  LifeTypeOK'
    <2>1. at' \in [Thread -> Where] /\ key' \in [Thread -> DbKey \cup {NoKey}]
      BY <1>4 DEF database_opened, Go
    <2>2. opened' \subseteq DbKey
      BY <1>4 DEF database_opened, KeysAreDerived
    <2> QED
      BY <1>4, <2>1, <2>2 DEF database_opened, cells
  <1>5. ASSUME NEW t \in Thread, open_failed(t)
        PROVE  LifeTypeOK'
    BY <1>5 DEF open_failed, Go, cells, database
  <1>6s. ASSUME NEW t \in Thread, NEW f \in Spawning, spawn(t, f)
        PROVE  LifeTypeOK'
    <2>1. CASE RUNTIME /\ APP_CONTROLLER
      <3>1. spawned' \in 0..MaxSpawned
        BY <1>6s, <2>1 DEF spawn
      <3> QED
        BY <1>6s, <2>1, <3>1 DEF spawn, cells, database
    <2>2. CASE ~(RUNTIME /\ APP_CONTROLLER)
      <3>1. aborted' \in Calls
        BY <1>6s, <2>2 DEF spawn, Abort
      <3> QED
        BY <1>6s, <2>2, <3>1 DEF spawn, cells, database
    <2> QED
      BY <2>1, <2>2
  <1>6. ASSUME NEW t \in Thread, generatePingQrCode(t) \/ shutdown(t)
        PROVE  LifeTypeOK'
    BY <1>6 DEF generatePingQrCode, shutdown, Abort, cells, database
  <1>7. CASE notify_ui_event
    BY <1>7 DEF notify_ui_event, Abort, cells, database
  <1>8. CASE restart
    <2>1. 0 \in 0..MaxSpawned
      OBVIOUS
    <2> QED
      BY <1>8, <2>1 DEF restart, database
  <1>9. CASE UNCHANGED lifeVars
    BY <1>9 DEF lifeVars, cells, database
  <1> QED
    BY <1>1, <1>2, <1>3, <1>4, <1>5, <1>6, <1>6s, <1>7, <1>8, <1>9 DEF LifeNext

------------------------------------------------------------------------------
(* The order of the cells, and the calls that find one empty.              *)
LEMMA StepKeepsCells ==
    ASSUME CellsInv, [LifeNext]_lifeVars
    PROVE  (CellsInOrder /\ CallsFindTheCore)'
  <1> USE DEF CellsInv, LifeTypeOK, CellsInOrder, CallsFindTheCore
  <1>1. ASSUME NEW t \in Thread, set_jvm(t) \/ set_runtime(t) \/ set_controller(t)
        PROVE  (CellsInOrder /\ CallsFindTheCore)'
    BY <1>1 DEF set_jvm, set_runtime, set_controller, Go, Idle
  <1>2. ASSUME NEW t \in Thread, NEW s \in AuthSecret, openDatabase(t, s)
        PROVE  (CellsInOrder /\ CallsFindTheCore)'
    BY <1>2 DEF openDatabase, begin_open, Go, Idle, Abort, cells
  <1>3. ASSUME NEW t \in Thread, execute_statement(t) \/ database_opened(t) \/ open_failed(t)
        PROVE  (CellsInOrder /\ CallsFindTheCore)'
    BY <1>3 DEF execute_statement, database_opened, open_failed, Go, cells
  <1>4s. ASSUME NEW t \in Thread, NEW f \in Spawning, spawn(t, f)
        PROVE  (CellsInOrder /\ CallsFindTheCore)'
    BY <1>4s DEF spawn, Spawning, Idle, Abort, cells
  <1>4. ASSUME NEW t \in Thread, generatePingQrCode(t) \/ shutdown(t)
        PROVE  (CellsInOrder /\ CallsFindTheCore)'
    BY <1>4 DEF generatePingQrCode, shutdown, Idle, Abort, cells
  <1>5. CASE notify_ui_event
    BY <1>5 DEF notify_ui_event, Abort, cells
  <1>6. CASE restart
    BY <1>6 DEF restart
  <1>7. CASE UNCHANGED lifeVars
    BY <1>7 DEF lifeVars, cells
  <1> QED
    BY <1>1, <1>2, <1>3, <1>4, <1>4s, <1>5, <1>6, <1>7 DEF LifeNext

(* The key of the file, its tables, and the keys that have opened it.      *)
LEMMA StepKeepsFile ==
    ASSUME CellsInv, [LifeNext]_lifeVars
    PROVE  (KeysAreDerived /\ DatabaseReopens)'
  <1> USE BoundsArePositive DEF CellsInv, LifeTypeOK, KeysAreDerived, DatabaseReopens
  <1>1. ASSUME NEW t \in Thread, set_jvm(t) \/ set_runtime(t) \/ set_controller(t)
        PROVE  (KeysAreDerived /\ DatabaseReopens)'
    BY <1>1 DEF set_jvm, set_runtime, set_controller, Go, database
  <1>2. ASSUME NEW t \in Thread, NEW s \in AuthSecret, openDatabase(t, s)
        PROVE  (KeysAreDerived /\ DatabaseReopens)'
    <2>1. CASE RUNTIME
      <3>1. begin_open(t, s)
        BY <1>2, <2>1 DEF openDatabase
      <3> QED
        BY <3>1, BeginKeepsFile
    <2>2. CASE ~RUNTIME
      BY <1>2, <2>2 DEF openDatabase, database
    <2> QED
      BY <2>1, <2>2
  <1>3. ASSUME NEW t \in Thread, execute_statement(t)
        PROVE  (KeysAreDerived /\ DatabaseReopens)'
    <2>1. file_key' \in DbKey /\ at' = at /\ key' = key /\ opened' = opened
      BY <1>3 DEF execute_statement
    <2>2. opened = {}
      BY <1>3 DEF execute_statement
    <2> QED
      BY <2>1, <2>2
  <1>4. ASSUME NEW t \in Thread, database_opened(t)
        PROVE  (KeysAreDerived /\ DatabaseReopens)'
    <2>1. 1 \in tables
      BY <1>4 DEF database_opened
    <2>2. file_key = key[t]
      BY <1>4, <2>1, KeysAreKeys DEF database_opened, Fits
    <2> QED
      BY <1>4, <2>2 DEF database_opened, Go
  <1>5. ASSUME NEW t \in Thread, open_failed(t)
        PROVE  (KeysAreDerived /\ DatabaseReopens)'
    BY <1>5 DEF open_failed, Go, database
  <1>6s. ASSUME NEW t \in Thread, NEW f \in Spawning, spawn(t, f)
        PROVE  (KeysAreDerived /\ DatabaseReopens)'
    BY <1>6s DEF spawn, Spawning, database
  <1>6. ASSUME NEW t \in Thread, generatePingQrCode(t) \/ shutdown(t)
        PROVE  (KeysAreDerived /\ DatabaseReopens)'
    BY <1>6 DEF generatePingQrCode, shutdown, database
  <1>7. CASE notify_ui_event
    BY <1>7 DEF notify_ui_event, database
  <1>8. CASE restart
    BY <1>8 DEF restart, database
  <1>9. CASE UNCHANGED lifeVars
    BY <1>9 DEF lifeVars, database
  <1> QED
    BY <1>1, <1>2, <1>3, <1>4, <1>5, <1>6, <1>6s, <1>7, <1>8, <1>9 DEF LifeNext

------------------------------------------------------------------------------
(* The cells are filled in order, the keys are derived, and both           *)
(* properties hold: the inductive invariant of LifeSpec.                   *)
THEOREM LifecycleInvariant == LifeSpec => []CellsInv
  <1>1. LifeInit => CellsInv
    BY TypeHoldsInitially
       DEF LifeInit, CellsInv, CellsInOrder, CallsFindTheCore, KeysAreDerived, DatabaseReopens
  <1>2. CellsInv /\ [LifeNext]_lifeVars => CellsInv'
    BY ThreadStepKeepsType, StepKeepsCells, StepKeepsFile DEF CellsInv
  <1> QED
    BY <1>1, <1>2, PTL DEF LifeSpec

(* No call of any thread aborts the process for want of a cell, except an  *)
(* openDatabase, a generatePingQrCode or a call that spawns a task, and    *)
(* only ahead of the return of the first initSpotka (ffi/android.rs).      *)
THEOREM CallsAlwaysFindTheCore == LifeSpec => []CallsFindTheCore
  <1>1. CellsInv => CallsFindTheCore
    BY DEF CellsInv
  <1> QED
    BY <1>1, LifecycleInvariant, PTL

(* At most one key ever opens the database, and it then finds every table  *)
(* (db/manager.rs), whatever is tried, concurrently or cut short.          *)
THEOREM DatabaseAlwaysReopens == LifeSpec => []DatabaseReopens
  <1>1. CellsInv => DatabaseReopens
    BY DEF CellsInv
  <1> QED
    BY <1>1, LifecycleInvariant, PTL

------------------------------------------------------------------------------
(* The cell of lib.rs.  Every controller stands on a key that has opened   *)
(* the file, and the cell is filled once.                                  *)
EInv == /\ CellsInv /\ EntryTypeOK
        /\ \A t \in Thread : building[t] # NoKey => building[t] \in opened
        /\ core # NoKey => core \in opened
        /\ granted = IF core = NoKey THEN 0 ELSE 1

LEMMA CoreBegins == CoreInit => EInv
  <1> SUFFICES ASSUME CoreInit PROVE EInv
    OBVIOUS
  <1>1. LifeInit /\ core = NoKey /\ granted = 0 /\ building = [t \in Thread |-> NoKey]
    BY DEF CoreInit
  <1>2. CellsInv
    BY <1>1, TypeHoldsInitially
       DEF LifeInit, CellsInv, CellsInOrder, CallsFindTheCore, KeysAreDerived, DatabaseReopens
  <1> QED
    BY <1>1, <1>2 DEF EInv, EntryTypeOK

LEMMA CoreNextKeepsEInv ==
    ASSUME EInv, [CoreNext]_coreVars
    PROVE  EInv'
  <1> USE DEF EInv, EntryTypeOK
  <1>0. ASSUME [LifeNext]_lifeVars
        PROVE  CellsInv'
    BY <1>0, ThreadStepKeepsType, StepKeepsCells, StepKeepsFile DEF CellsInv
  <1>1. ASSUME NEW t \in Thread, NEW s \in AuthSecret, spotka_init(t, s)
        PROVE  EInv'
    <2>1. CellsInv'
      BY <1>1, BeginKeepsCells DEF spotka_init
    <2>2. UNCHANGED <<entryVars, opened>>
      BY <1>1 DEF spotka_init, begin_open
    <2> QED
      BY <2>1, <2>2 DEF entryVars
  <1>2. ASSUME NEW t \in Thread, migrate(t) \/ init_fails(t)
        PROVE  EInv'
    <2>1. execute_statement(t) \/ open_failed(t)
      BY <1>2 DEF migrate, init_fails
    <2>2. CellsInv'
      BY <1>0, <2>1 DEF LifeNext
    <2>3. UNCHANGED <<entryVars, opened>>
      BY <1>2 DEF migrate, init_fails, execute_statement, open_failed, database
    <2> QED
      BY <2>2, <2>3 DEF entryVars
  <1>3. ASSUME NEW t \in Thread, build_controller(t)
        PROVE  EInv'
    <2>1. CellsInv'
      BY <1>0, <1>3 DEF build_controller, LifeNext
    <2>2. key[t] \in DbKey /\ opened' = opened \cup {key[t]}
      BY <1>3 DEF build_controller, database_opened, CellsInv, KeysAreDerived
    <2> QED
      BY <1>3, <2>1, <2>2 DEF build_controller
  <1>4. ASSUME NEW t \in Thread, set_core(t)
        PROVE  EInv'
    <2>1. CellsInv' /\ opened' = opened
      BY <1>0, <1>4 DEF set_core, lifeVars, database
    <2>2. CASE core = NoKey
      BY <1>4, <2>1, <2>2 DEF set_core
    <2>3. CASE core # NoKey
      BY <1>4, <2>1, <2>3 DEF set_core
    <2> QED
      BY <2>2, <2>3
  <1>5. CASE restart_core
    <2>1. CellsInv'
      BY <1>0, <1>5 DEF restart_core, LifeNext
    <2> QED
      BY <1>5, <2>1 DEF restart_core
  <1>6. CASE UNCHANGED coreVars
    <2>1. CellsInv' /\ UNCHANGED <<entryVars, opened>>
      BY <1>0, <1>6 DEF coreVars, lifeVars, database
    <2> QED
      BY <2>1 DEF entryVars
  <1> QED
    BY <1>1, <1>2, <1>3, <1>4, <1>5, <1>6 DEF CoreNext

(* At most one spotka_init of a process is told "OK", and whatever         *)
(* controller there is has the file open under its key (lib.rs).           *)
THEOREM CoreIsAlwaysOne == CoreSpec => []OneCore
  <1>1. CoreInit => EInv
    BY CoreBegins
  <1>2. EInv /\ [CoreNext]_coreVars => EInv'
    BY CoreNextKeepsEInv
  <1>3. EInv => OneCore
    BY DEF EInv, EntryTypeOK, CellsInv, DatabaseReopens, OneCore
  <1> QED
    BY <1>1, <1>2, <1>3, PTL DEF CoreSpec

------------------------------------------------------------------------------
(* The exports of ios.rs.  A call is a record with or without the time at  *)
(* which its code was accepted.                                            *)
IsMade(r) ==
    r = [export |-> r.export, arg |-> r.arg, timestamp |-> r.timestamp, at |-> r.at]

IsAccepted(r) ==
    /\ r = [export |-> r.export, arg |-> r.arg, timestamp |-> r.timestamp, at |-> r.at,
            now |-> r.now]
    /\ r.now - r.timestamp \in 0..MaxQrAge

(* How far a call r may have got, with the answers a and heard by h.       *)
CallInv(r, a, h) ==
    \/ r = [at |-> "not_made"] /\ a = << >> /\ h = NoCallback
    \/ IsMade(r) /\ r.at \in {"spawned", "dropped"} /\ a = << >> /\ h = NoCallback
    \/ /\ IsMade(r) /\ r.at = "over" /\ h = NoCallback
       /\ \E success \in BOOLEAN : a = <<success>>
       /\ r.export = "process_ping_qr_data" => a = <<FALSE>>
    \/ IsAccepted(r) /\ r.at = "notified" /\ a = << >>
    \/ IsAccepted(r) /\ r.at = "over" /\ a = <<TRUE>>

ArgInv(r) ==
    r.at # "not_made" => r.arg \in Arguments(r.export) /\ r.timestamp \in Timestamps(r.arg)

AnswersInv ==
    /\ EVENT_CALLBACK \in Callback \cup {NoCallback}
    /\ task \in [SwiftContext -> {task[c] : c \in SwiftContext}]
    /\ answers \in [SwiftContext -> Seq(BOOLEAN)]
    /\ heard \in [SwiftContext -> {NoCallback, EVENT_CALLBACK}]
    /\ \A c \in SwiftContext : /\ CallInv(task[c], answers[c], heard[c])
                               /\ ArgInv(task[c])

(* A step about one call.                                                  *)
LEMMA OneCallMoves ==
    ASSUME AnswersInv, NEW c \in SwiftContext, NEW r, NEW a, NEW h,
           task' = [task EXCEPT ![c] = r],
           answers' = [answers EXCEPT ![c] = a],
           heard' = [heard EXCEPT ![c] = h],
           EVENT_CALLBACK' = EVENT_CALLBACK,
           CallInv(r, a, h), ArgInv(r), a \in Seq(BOOLEAN),
           h \in {NoCallback, EVENT_CALLBACK}
    PROVE  AnswersInv'
  <1>1. \A d \in SwiftContext : /\ task'[d] = IF d = c THEN r ELSE task[d]
                                /\ answers'[d] = IF d = c THEN a ELSE answers[d]
                                /\ heard'[d] = IF d = c THEN h ELSE heard[d]
    <2> TAKE d \in SwiftContext
    <2>1. task'[d] = IF d = c THEN r ELSE task[d]
      BY DEF AnswersInv
    <2>2. answers'[d] = IF d = c THEN a ELSE answers[d]
      BY DEF AnswersInv
    <2>3. heard'[d] = IF d = c THEN h ELSE heard[d]
      BY DEF AnswersInv
    <2> QED
      BY <2>1, <2>2, <2>3
  <1>2. \A d \in SwiftContext : CallInv(task'[d], answers'[d], heard'[d]) /\ ArgInv(task'[d])
    <2> TAKE d \in SwiftContext
    <2>1. CASE d = c
      <3>1. task'[d] = r /\ answers'[d] = a /\ heard'[d] = h
        BY <1>1, <2>1
      <3> QED
        BY <3>1, Zenon
    <2>2. CASE d # c
      BY <1>1, <2>2 DEF AnswersInv
    <2> QED
      BY <2>1, <2>2
  <1>3. /\ task' \in [SwiftContext -> {task'[d] : d \in SwiftContext}]
        /\ answers' \in [SwiftContext -> Seq(BOOLEAN)]
        /\ heard' \in [SwiftContext -> {NoCallback, EVENT_CALLBACK}]
    BY DEF AnswersInv
  <1> QED
    BY <1>2, <1>3 DEF AnswersInv

LEMMA OneAnswer ==
    ASSUME NEW success \in BOOLEAN
    PROVE  Append(<< >>, success) = <<success>> /\ <<success>> \in Seq(BOOLEAN)
  OBVIOUS

(* Making a call: refused arguments are answered on the spot.              *)
LEMMA MakingACall ==
    ASSUME AnswersInv, NEW c \in SwiftContext, NEW f \in Strict \cup Lenient \cup NoText,
           NEW arg \in Arguments(f), NEW timestamp \in Timestamps(arg),
           make(c, f, arg, timestamp)
    PROVE  AnswersInv'
  <1> DEFINE r == [export |-> f, arg |-> arg, timestamp |-> timestamp,
                   at |-> IF Refused(f, arg) THEN "over" ELSE "spawned"]
  <1>1. task[c].at = "not_made" /\ CallInv(task[c], answers[c], heard[c])
    BY DEF make, AnswersInv
  <1>2. answers[c] = << >> /\ heard[c] = NoCallback
    BY <1>1 DEF CallInv
  <1>3. /\ task' = [task EXCEPT ![c] = r]
        /\ heard' = [heard EXCEPT ![c] = NoCallback]
        /\ EVENT_CALLBACK' = EVENT_CALLBACK
    BY <1>2 DEF make, AnswersInv
  <1>4. IsMade(r) /\ ArgInv(r)
    BY DEF IsMade, ArgInv
  <1>5. CASE Refused(f, arg)
    <2>1. answers' = [answers EXCEPT ![c] = <<FALSE>>] /\ <<FALSE>> \in Seq(BOOLEAN)
      BY <1>2, <1>5, OneAnswer DEF make, completion, AnswersInv
    <2>2. CallInv(r, <<FALSE>>, NoCallback)
      BY <1>4, <1>5 DEF CallInv
    <2> QED
      BY <1>3, <1>4, <2>1, <2>2, OneCallMoves
  <1>6. CASE ~Refused(f, arg)
    <2>1. answers' = [answers EXCEPT ![c] = << >>] /\ << >> \in Seq(BOOLEAN)
      BY <1>2, <1>6 DEF make, AnswersInv
    <2>2. CallInv(r, << >>, NoCallback)
      BY <1>4, <1>6 DEF CallInv
    <2> QED
      BY <1>3, <1>4, <2>1, <2>2, OneCallMoves
  <1> QED
    BY <1>5, <1>6

(* A running call is a record without a time; a notified one has one.      *)
LEMMA RunningCall ==
    ASSUME AnswersInv, NEW c \in SwiftContext, task[c].at = "spawned"
    PROVE  /\ IsMade(task[c]) /\ ArgInv(task[c])
           /\ answers[c] = << >> /\ heard[c] = NoCallback
           /\ \A stage : [task[c] EXCEPT !.at = stage]
                 = [export |-> task[c].export, arg |-> task[c].arg,
                    timestamp |-> task[c].timestamp, at |-> stage]
  <1>1. CallInv(task[c], answers[c], heard[c]) /\ ArgInv(task[c])
    BY DEF AnswersInv
  <1>2. IsMade(task[c]) /\ answers[c] = << >> /\ heard[c] = NoCallback
    BY <1>1 DEF CallInv
  <1> QED
    BY <1>1, <1>2 DEF IsMade

(* A task ends with an answer, or is dropped without one.                  *)
LEMMA TasksEnd ==
    ASSUME AnswersInv, NEW c \in SwiftContext,
           \/ run(c) \/ refuse_format(c)
           \/ \E clock \in Reading : refuse_age(c, clock) \/ panic(c, clock)
    PROVE  AnswersInv'
  <1> DEFINE r(stage) == [export |-> task[c].export, arg |-> task[c].arg,
                          timestamp |-> task[c].timestamp, at |-> stage]
  <1>1. task[c].at = "spawned" /\ EVENT_CALLBACK' = EVENT_CALLBACK /\ heard' = heard
    BY DEF run, refuse_format, refuse_age, panic, IsCode
  <1>2. /\ ArgInv(task[c]) /\ answers[c] = << >> /\ heard[c] = NoCallback
        /\ \A stage : [task[c] EXCEPT !.at = stage] = r(stage)
    BY <1>1, RunningCall
  <1>3. heard' = [heard EXCEPT ![c] = NoCallback]
    BY <1>1, <1>2 DEF AnswersInv
  <1>4. \A stage : ArgInv(r(stage)) /\ IsMade(r(stage))
    BY <1>1, <1>2 DEF ArgInv, IsMade
  <1>5. CASE \E clock \in Reading : panic(c, clock)
    <2>1. task' = [task EXCEPT ![c] = r("dropped")] /\ answers' = answers
      BY <1>2, <1>5 DEF panic, Goes, AnswersInv
    <2>2. answers' = [answers EXCEPT ![c] = << >>] /\ << >> \in Seq(BOOLEAN)
      BY <1>2, <2>1 DEF AnswersInv
    <2>3. CallInv(r("dropped"), << >>, NoCallback)
      BY <1>4 DEF CallInv
    <2> HIDE DEF r
    <2> QED
      BY <1>1, <1>3, <1>4, <2>1, <2>2, <2>3, OneCallMoves
  <1>6. ASSUME NEW success \in BOOLEAN, completion(c, success), Goes(c, "over"),
               task[c].export = "process_ping_qr_data" => success = FALSE
        PROVE  AnswersInv'
    <2>1. task' = [task EXCEPT ![c] = r("over")]
      BY <1>2, <1>6 DEF Goes, AnswersInv
    <2>2. answers' = [answers EXCEPT ![c] = <<success>>] /\ <<success>> \in Seq(BOOLEAN)
      BY <1>2, <1>6, OneAnswer DEF completion, AnswersInv
    <2>3. CallInv(r("over"), <<success>>, NoCallback)
      BY <1>4, <1>6 DEF CallInv
    <2> HIDE DEF r
    <2> QED
      BY <1>1, <1>3, <1>4, <2>1, <2>2, <2>3, OneCallMoves
  <1>7. CASE run(c)
    BY <1>6, <1>7 DEF run
  <1>8. CASE refuse_format(c)
    BY <1>6, <1>8 DEF refuse_format
  <1>9. CASE \E clock \in Reading : refuse_age(c, clock)
    BY <1>6, <1>9 DEF refuse_age
  <1> QED
    BY <1>5, <1>7, <1>8, <1>9

(* A code of a small age is neither old nor ahead, wrapped or not.         *)
LEMMA SmallAges ==
    ASSUME NEW clock \in Reading, NEW timestamp \in Reading, qr_age(clock, timestamp) <= MaxQrAge
    PROVE  clock - timestamp \in 0..MaxQrAge
  <1>1. /\ clock \in Nat /\ timestamp \in Nat /\ MaxQrAge \in Nat
        /\ clock + MaxQrAge < U64 /\ timestamp + MaxQrAge < U64
    BY ReadingsAreFarFromOverflow
  <1>2. CASE timestamp <= clock
    <2>1. clock - timestamp \in 0 .. U64 - 1
      BY <1>1, <1>2, ReadingsAreFarFromOverflow
    <2>2. \A a, b \in Nat : a < b => a % b = a
      OBVIOUS
    <2>3. qr_age(clock, timestamp) = clock - timestamp
      BY <2>1, <2>2, ReadingsAreFarFromOverflow DEF qr_age
    <2> QED
      BY <1>1, <2>1, <2>3
  <1>3. CASE clock < timestamp
    <2>1. \A a, b \in Nat : 0 < a /\ a < b => (-a) % b = b - a
      OBVIOUS
    <2> DEFINE ahead == timestamp - clock
    <2>2. ahead \in Nat /\ 0 < ahead /\ ahead < U64 /\ clock - timestamp = -ahead
      BY <1>1, <1>3, ReadingsAreFarFromOverflow
    <2>3. qr_age(clock, timestamp) = U64 - ahead
      BY <2>1, <2>2, ReadingsAreFarFromOverflow DEF qr_age
    <2>4. U64 - ahead > MaxQrAge
      BY <1>1, ReadingsAreFarFromOverflow
    <2> QED
      BY <2>3, <2>4, <1>1, <2>2, ReadingsAreFarFromOverflow
  <1> QED
    BY <1>1, <1>2, <1>3

(* A code is accepted, and the call completed.                             *)
LEMMA CodesAreAccepted ==
    ASSUME AnswersInv, NEW c \in SwiftContext,
           complete_ping(c) \/ \E clock \in Reading : accept_code(c, clock)
    PROVE  AnswersInv'
  <1>1. CASE complete_ping(c)
    <2>1. task[c].at = "notified" /\ CallInv(task[c], answers[c], heard[c]) /\ ArgInv(task[c])
      BY <1>1 DEF complete_ping, AnswersInv
    <2>2. IsAccepted(task[c]) /\ answers[c] = << >>
      BY <2>1 DEF CallInv
    <2> DEFINE r == [task[c] EXCEPT !.at = "over"]
    <2>3. r = [export |-> task[c].export, arg |-> task[c].arg,
               timestamp |-> task[c].timestamp, at |-> "over", now |-> task[c].now]
      BY <2>2 DEF IsAccepted
    <2>4. IsAccepted(r) /\ r.at = "over" /\ ArgInv(r)
      BY <2>1, <2>2, <2>3 DEF IsAccepted, ArgInv
    <2>5. CallInv(r, <<TRUE>>, heard[c])
      BY <2>4 DEF CallInv
    <2>6. task' = [task EXCEPT ![c] = r] /\ EVENT_CALLBACK' = EVENT_CALLBACK
      BY <1>1 DEF complete_ping, Goes, AnswersInv
    <2>7. answers' = [answers EXCEPT ![c] = <<TRUE>>] /\ <<TRUE>> \in Seq(BOOLEAN)
      BY <1>1, <2>2, OneAnswer DEF complete_ping, completion, AnswersInv
    <2>8. heard' = [heard EXCEPT ![c] = heard[c]] /\ heard[c] \in {NoCallback, EVENT_CALLBACK}
      BY <1>1 DEF complete_ping, AnswersInv
    <2> HIDE DEF r
    <2> QED
      BY <2>4, <2>5, <2>6, <2>7, <2>8, OneCallMoves
  <1>2. ASSUME NEW clock \in Reading, accept_code(c, clock)
        PROVE  AnswersInv'
    <2> DEFINE r == [export |-> task[c].export, arg |-> task[c].arg,
                     timestamp |-> task[c].timestamp, at |-> "notified", now |-> clock]
    <2>1. task[c].at = "spawned" /\ task[c].arg = "code"
      BY <1>2 DEF accept_code, IsCode
    <2>2. ArgInv(task[c]) /\ answers[c] = << >>
      BY <2>1, RunningCall
    <2>3. task[c].timestamp \in Reading
      BY <2>1, <2>2 DEF ArgInv, Timestamps
    <2>4. clock - task[c].timestamp \in 0..MaxQrAge
      BY <1>2, <2>3, SmallAges DEF accept_code
    <2>5. IsAccepted(r) /\ ArgInv(r)
      BY <2>1, <2>2, <2>4 DEF IsAccepted, ArgInv
    <2>6. CallInv(r, << >>, EVENT_CALLBACK)
      BY <2>5 DEF CallInv
    <2>7. task' = [task EXCEPT ![c] = r] /\ EVENT_CALLBACK' = EVENT_CALLBACK
      BY <1>2 DEF accept_code, AnswersInv
    <2>8. answers' = [answers EXCEPT ![c] = << >>] /\ << >> \in Seq(BOOLEAN)
      BY <1>2, <2>2 DEF accept_code, AnswersInv
    <2>9. heard' = [heard EXCEPT ![c] = EVENT_CALLBACK]
      BY <1>2 DEF accept_code
    <2> HIDE DEF r
    <2> QED
      BY <2>5, <2>6, <2>7, <2>8, <2>9, OneCallMoves
  <1> QED
    BY <1>1, <1>2

LEMMA AnswersBegin == IosInit => AnswersInv
  BY DEF IosInit, AnswersInv, CallInv, ArgInv

LEMMA StepKeepsAnswers == AnswersInv /\ [IosNext]_iosVars => AnswersInv'
  <1>1. ASSUME AnswersInv, NEW cb \in Callback, set_event_callback(cb)
        PROVE  AnswersInv'
    BY <1>1 DEF set_event_callback, AnswersInv
  <1>2. AnswersInv /\ UNCHANGED iosVars => AnswersInv'
    BY DEF iosVars, AnswersInv
  <1> QED
    BY <1>1, <1>2, MakingACall, TasksEnd, CodesAreAccepted DEF IosNext

(* What Swift hears of its calls.                                          *)
THEOREM AnswersInvariant == IosSpec => []AnswersInv
  BY AnswersBegin, StepKeepsAnswers, PTL DEF IosSpec

(* Every call is answered once, when it is over, and a code accepted only  *)
(* while it is fresh (ffi/ios.rs), for any calls, callbacks and clocks.    *)
THEOREM CallsAlwaysAnsweredRightly == IosSpec => []CallsAnsweredRightly
  <1>1. AnswersInv => CallsAnsweredRightly
    <2> SUFFICES ASSUME AnswersInv, NEW c \in SwiftContext
                 PROVE  /\ Len(answers[c]) = IF task[c].at = "over" THEN 1 ELSE 0
                        /\ task[c].at = "over" /\ task[c].export = "process_ping_qr_data"
                              => (answers[c][1] <=> "now" \in DOMAIN task[c])
                        /\ heard[c] # NoCallback
                              => heard[c] = EVENT_CALLBACK /\ "now" \in DOMAIN task[c]
                        /\ "now" \in DOMAIN task[c]
                              => task[c].now - task[c].timestamp \in 0..MaxQrAge
      BY DEF CallsAnsweredRightly, AnsweredOnce, FreshCodesOnly
    <2>1. CallInv(task[c], answers[c], heard[c]) /\ heard[c] \in {NoCallback, EVENT_CALLBACK}
      BY DEF AnswersInv
    <2>2. IsMade(task[c]) \/ task[c] = [at |-> "not_made"] => "now" \notin DOMAIN task[c]
      BY DEF IsMade
    <2>3. IsAccepted(task[c]) => "now" \in DOMAIN task[c]
      BY DEF IsAccepted
    <2>4. Len(<< >>) = 0 /\ \A b \in BOOLEAN : Len(<<b>>) = 1 /\ <<b>>[1] = b
      OBVIOUS
    <2>5. CASE IsAccepted(task[c]) /\ task[c].at = "notified" /\ answers[c] = << >>
      BY <2>1, <2>3, <2>4, <2>5 DEF IsAccepted
    <2>6. CASE IsAccepted(task[c]) /\ task[c].at = "over" /\ answers[c] = <<TRUE>>
      BY <2>1, <2>3, <2>4, <2>6 DEF IsAccepted
    <2>7. CASE /\ IsMade(task[c]) \/ task[c] = [at |-> "not_made"]
               /\ task[c].at # "over" /\ answers[c] = << >> /\ heard[c] = NoCallback
      BY <2>2, <2>4, <2>7
    <2>8. CASE /\ IsMade(task[c]) /\ task[c].at = "over" /\ heard[c] = NoCallback
               /\ \E success \in BOOLEAN : answers[c] = <<success>>
               /\ task[c].export = "process_ping_qr_data" => answers[c] = <<FALSE>>
      BY <2>2, <2>4, <2>8
    <2>9. task[c] = [at |-> "not_made"] => task[c].at # "over"
      OBVIOUS
    <2>10. task[c].at \in {"spawned", "dropped"} => task[c].at # "over"
      OBVIOUS
    <2> QED
      BY <2>1, <2>5, <2>6, <2>7, <2>8, <2>9, <2>10, Zenon DEF CallInv
  <1> QED
    BY <1>1, AnswersInvariant, PTL

------------------------------------------------------------------------------
(* Types.  What arrived last came from what was sealed.                    *)
PacketInv ==
    SealedInv /\ (arrived # Nowhere => arrived.by \in Device /\ arrived.sent \in sealed)

LEMMA PacketsAreTyped == PacketInv => PacketTypeOK
  <1> SUFFICES ASSUME PacketInv
               PROVE  PacketTypeOK
    OBVIOUS
  <1>1. ASSUME NEW s \in sealed
        PROVE  s.item.kind \in {"envelope", "packet", "ping"} /\ s.at \in 0..MaxNow
    <2>1. PICK d \in Device : MadeBy(d, s)
      BY DEF PacketInv, SealedInv
    <2>2. s.item.kind \in {"envelope", "packet", "ping"}
      <3>1. \A p, t : Envelope(d, p, t).kind = "envelope"
        BY DEF Envelope
      <3>2. \A to, c, p, t : Packet(d, to, c, p, t).kind = "packet"
        BY DEF Packet
      <3>3. \A t : Ping(d, t).kind = "ping"
        BY DEF Ping
      <3> QED
        BY <2>1, <3>1, <3>2, <3>3 DEF MadeBy
    <2>3. s.at \in 0..now /\ now \in 0..MaxNow /\ MaxNow \in Nat
      BY ClocksFit DEF PacketInv, SealedInv
    <2> QED
      BY <2>2, <2>3
  <1> QED
    BY <1>1 DEF PacketInv, SealedInv, PacketTypeOK

LEMMA StepKeepsPacketInv ==
    ASSUME PacketInv, [PacketNext]_packetVars
    PROVE  PacketInv'
  <1>1. SealedInv'
    BY StepKeepsSealed DEF PacketInv
  <1>2. CASE \E d \in Device, s \in sealed : Receive(d, s)
    <2>1. PICK r \in Device, s \in sealed : Receive(r, s)
      BY <1>2
    <2>2. arrived'.by = r /\ arrived'.sent = s /\ sealed' = sealed
      BY <2>1 DEF Receive, Arrive
    <2> QED
      BY <1>1, <2>1, <2>2 DEF PacketInv
  <1>3. CASE (\E item : Seal(item)) \/ PacketTick
    BY <1>1, <1>3 DEF Seal, PacketTick, PacketInv
  <1>4. CASE UNCHANGED packetVars
    BY <1>1, <1>4 DEF packetVars, PacketInv
  <1> QED
    BY <1>2, <1>3, <1>4 DEF PacketNext

LEMMA AnswersAreTyped == AnswersInv => IosTypeOK
  <1> SUFFICES ASSUME AnswersInv, NEW c \in SwiftContext
               PROVE  /\ task[c].at \in Stages
                      /\ task[c].at # "not_made" =>
                             /\ task[c].arg \in Arguments(task[c].export)
                             /\ task[c].timestamp \in Timestamps(task[c].arg)
                      /\ answers[c] \in Seq(BOOLEAN)
                      /\ heard[c] \in Callback \cup {NoCallback}
    BY DEF AnswersInv, IosTypeOK
  <1>1. CallInv(task[c], answers[c], heard[c]) /\ ArgInv(task[c])
    BY DEF AnswersInv
  <1>2. task[c].at \in Stages
    <2>1. task[c] = [at |-> "not_made"] => task[c].at = "not_made"
      OBVIOUS
    <2> QED
      BY <1>1, <2>1, Zenon DEF CallInv, Stages
  <1> QED
    BY <1>1, <1>2 DEF AnswersInv, ArgInv

(* Every part keeps its invariant, and the others what they began with.    *)
PartsInv ==
    /\ StorageInv /\ PacketInv /\ AnswersInv
    /\ CellsInv /\ EntryTypeOK
    /\ part = "core" => EInv

LEMMA PartsBehave == PartsInv /\ [Next]_<<part, vars, packetVars, coreVars, iosVars>> => PartsInv'
  <1> SUFFICES ASSUME PartsInv, [Next]_<<part, vars, packetVars, coreVars, iosVars>>
               PROVE  PartsInv'
    OBVIOUS
  <1>1. [StorageNext]_vars => StorageInv'
    BY StepKeepsStorage DEF PartsInv
  <1>2. [PacketNext]_packetVars => PacketInv'
    BY StepKeepsPacketInv DEF PartsInv
  <1>3. [IosNext]_iosVars => AnswersInv'
    BY StepKeepsAnswers DEF PartsInv
  <1>4. [LifeNext]_lifeVars => CellsInv'
    BY ThreadStepKeepsType, StepKeepsCells, StepKeepsFile DEF PartsInv, CellsInv
  <1>5. EInv /\ [CoreNext]_coreVars => EInv'
    BY CoreNextKeepsEInv
  <1>6. UNCHANGED entryVars => EntryTypeOK'
    BY DEF PartsInv, EntryTypeOK, entryVars
  <1>7. EInv => CellsInv /\ EntryTypeOK
    BY DEF EInv
  <1>8. UNCHANGED coreVars => UNCHANGED lifeVars /\ UNCHANGED entryVars
    BY DEF coreVars
  <1>9. CASE /\ part = "lifecycle" /\ LifeNext
             /\ UNCHANGED <<part, vars, packetVars, entryVars, iosVars>>
    <2>1. part' # "core" /\ UNCHANGED vars /\ UNCHANGED packetVars /\ UNCHANGED iosVars
          /\ UNCHANGED entryVars
      BY <1>9
    <2> QED
      BY <1>1, <1>2, <1>3, <1>4, <1>6, <1>9, <2>1, Zenon DEF PartsInv
  <1>10. CASE part = "core" /\ CoreNext /\ UNCHANGED <<part, vars, packetVars, iosVars>>
    <2>1. /\ EInv /\ part' = "core"
          /\ UNCHANGED vars /\ UNCHANGED packetVars /\ UNCHANGED iosVars
      BY <1>10 DEF PartsInv
    <2>2. EInv'
      BY <1>5, <1>10, <2>1
    <2>3. CellsInv' /\ EntryTypeOK'
      BY <2>2 DEF EInv
    <2> QED
      BY <1>1, <1>2, <1>3, <2>1, <2>2, <2>3, Zenon DEF PartsInv
  <1>11. CASE /\ UNCHANGED <<part, coreVars>>
              /\ [StorageNext]_vars /\ [PacketNext]_packetVars /\ [IosNext]_iosVars
    <2>1. part' = part /\ [CoreNext]_coreVars /\ [LifeNext]_lifeVars /\ UNCHANGED entryVars
      BY <1>8, <1>11
    <2> QED
      BY <1>1, <1>2, <1>3, <1>4, <1>5, <1>6, <1>11, <2>1 DEF PartsInv
  <1> QED
    BY <1>9, <1>10, <1>11 DEF Next

(* What a device stores, hands over, starts and answers stays of its types,*)
(* whichever of the five parts a behaviour is about.                       *)
THEOREM DeviceTypeCorrect == Spec => []TypeOK
  <1>1. Init => PartsInv
    <2>1. StorageInit => StorageInv
      BY StorageBegins
    <2>2. PacketInit => PacketInv
      BY ClocksFit DEF PacketInit, SealedInv, PacketInv
    <2>3. CoreInit => EInv
      BY CoreBegins
    <2>4. IosInit => AnswersInv
      BY AnswersBegin
    <2> QED
      BY <2>1, <2>2, <2>3, <2>4 DEF Init, PartsInv, EInv
  <1>2. PartsInv => TypeOK
    BY PacketsAreTyped, AnswersAreTyped
       DEF PartsInv, StorageInv, StorageTypeInv, CellsInv, TypeOK
  <1> QED
    BY <1>1, <1>2, PartsBehave, PTL DEF Spec

==============================================================================
