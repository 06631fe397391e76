------------------------------ MODULE Storage --------------------------------
(***************************************************************************)
(* crypto/secure_storage.rs: the identity backup and its salt in two slots *)
(* of the keystore of the operating system.  Saving and loading are        *)
(* sequences of native calls, each of which may fail, by tasks that share  *)
(* the slots and no lock; the process may die between two of them.         *)
(*                                                                         *)
(* A backup is encrypted under a key derived from the caller's secret and  *)
(* the salt; AES-GCM opens it with that key and with no other.  The salt   *)
(* comes from get_or_create_salt, which takes a failing read for a salt    *)
(* that is not there yet.                                                  *)
(***************************************************************************)
EXTENDS FiniteSets

CONSTANTS Task,       \* threads that call the storage
          Seed,       \* secret key seeds
          Phone,      \* phone hashes
          Secret,     \* biometric secrets or PINs
          Salt,       \* what getrandom may return; also the bound on drawings
          Null        \* an empty slot, a variable not yet assigned

ASSUME NullIsNothing == Null \notin Salt

Identity == [seed : Seed, phone_hash : Phone]

Key == [secret : Secret, salt : Salt]

(* For the mutation runs: the key is derived before there is a salt.       *)
derive_key_early(s, salt) == [secret |-> s, salt |-> Null]

derive_key(s, salt) == [secret |-> s, salt |-> salt]

(* A signature verifies under the key and over the data it was made with.  *)
IdentityBackup == [phone_hash : Phone, secret_key_seed : Seed,
                   validation_signature : [by : Seed, over : Phone]]

export_secure(i) ==
    [phone_hash |-> i.phone_hash, secret_key_seed |-> i.seed,
     validation_signature |-> [by |-> i.seed, over |-> i.phone_hash]]

restorable(b) ==
    b.validation_signature = [by |-> b.secret_key_seed, over |-> b.phone_hash]

restore_from_seed(b) == [seed |-> b.secret_key_seed, phone_hash |-> b.phone_hash]

Blob == [key : Key, backup : IdentityBackup]

VARIABLES identity_slot,  \* IDENTITY_KEY_ID
          salt_slot,      \* SALT_KEY_ID
          drawn,          \* salts getrandom has returned
          call,           \* the call each task is in, or its last one
          stored,         \* history: identities and secrets of completed stores
          misread,        \* history: a read of an existing salt failed
          raced           \* history: two tasks were creating the salt at once

vars == <<identity_slot, salt_slot, drawn, call, stored, misread, raced>>

slots == <<identity_slot, salt_slot, drawn, stored, misread, raced>>

Ended == {"ok", "err"}

Call == [op : {"save", "load"}, at : {"fetch", "salt", "create", "use"} \cup Ended,
         secret : Secret, identity : Identity \cup {Null}, salt : Salt \cup {Null},
         blob : Blob \cup {Null}]

NoCall == [op |-> "none", at |-> "ok"]

StorageTypeOK ==
    /\ identity_slot \in Blob \cup {Null}
    /\ salt_slot \in Salt \cup {Null}
    /\ drawn \subseteq Salt
    /\ call \in [Task -> Call \cup {NoCall}]
    /\ stored \subseteq Identity \X Secret
    /\ misread \in BOOLEAN /\ raced \in BOOLEAN

StorageInit ==
    /\ identity_slot = Null
    /\ salt_slot = Null
    /\ drawn = {}
    /\ call = [t \in Task |-> NoCall]
    /\ stored = {}
    /\ misread = FALSE /\ raced = FALSE

At(t, where) == call[t].at = where

(* Every native call and every derivation may fail; the caller then gets   *)
(* its error, and what was stored before stays.                            *)
fail(t) ==
    /\ call[t].at \notin Ended
    /\ call' = [call EXCEPT ![t].at = "err", ![t].blob = Null]
    /\ UNCHANGED slots

------------------------------------------------------------------------------
(* Authentication either lets the call in or ends it before any effect.    *)
save_identity_backup(t, i, s) ==
    /\ call[t].at \in Ended
    /\ call' = [call EXCEPT ![t] = [op |-> "save", at |-> "salt", secret |-> s,
                                    identity |-> i, salt |-> Null, blob |-> Null]]
    /\ UNCHANGED slots

load_identity_backup(t, s) ==
    /\ call[t].at \in Ended
    /\ call' = [call EXCEPT ![t] = [op |-> "load", at |-> "fetch", secret |-> s,
                                    identity |-> Null, salt |-> Null, blob |-> Null]]
    /\ UNCHANGED slots

load_blob(t) ==
    /\ At(t, "fetch")
    /\ identity_slot # Null
    /\ call' = [call EXCEPT ![t].at = "salt", ![t].blob = identity_slot]
    /\ UNCHANGED slots

delete_identity_backup ==
    /\ identity_slot' = Null
    /\ UNCHANGED <<salt_slot, drawn, call, stored, misread, raced>>

------------------------------------------------------------------------------
(* get_or_create_salt: a read that returns the salt ...                    *)
read_salt(t) ==
    /\ At(t, "salt")
    /\ salt_slot # Null
    /\ call' = [call EXCEPT ![t].at = "use", ![t].salt = salt_slot]
    /\ UNCHANGED slots

(* ... and one that does not, because there is none or because the         *)
(* keystore did not answer: the code draws a new one in either case.       *)
draw_salt(t) ==
    /\ At(t, "salt")
    /\ \E new \in Salt \ drawn :
           /\ call' = [call EXCEPT ![t].at = "create", ![t].salt = new]
           /\ drawn' = drawn \cup {new}
    /\ misread' = (misread \/ salt_slot # Null)
    /\ raced' = (raced \/ \E u \in Task \ {t} : At(u, "create"))
    /\ UNCHANGED <<identity_slot, salt_slot, stored>>

(* For the mutation runs: the new salt is used although storing it failed. *)
store_salt_unchecked(t) ==
    /\ At(t, "create")
    /\ salt_slot' \in {salt_slot, call[t].salt}
    /\ call' = [call EXCEPT ![t].at = "use"]
    /\ UNCHANGED <<identity_slot, drawn, stored, misread, raced>>

store_salt(t) ==
    /\ At(t, "create")
    /\ salt_slot' = call[t].salt
    /\ call' = [call EXCEPT ![t].at = "use"]
    /\ UNCHANGED <<identity_slot, drawn, stored, misread, raced>>

------------------------------------------------------------------------------
store_blob(t) ==
    /\ At(t, "use") /\ call[t].op = "save"
    /\ identity_slot' = [key |-> derive_key(call[t].secret, call[t].salt),
                         backup |-> export_secure(call[t].identity)]
    /\ stored' = stored \cup {<<call[t].identity, call[t].secret>>}
    /\ call' = [call EXCEPT ![t].at = "ok"]
    /\ UNCHANGED <<salt_slot, drawn, misread, raced>>

(* For the mutation runs: the key does not depend on the secret.           *)
opens_any(t) ==
    /\ call[t].blob.key.salt = call[t].salt
    /\ restorable(call[t].blob.backup)

opens(t) ==
    /\ call[t].blob.key = derive_key(call[t].secret, call[t].salt)
    /\ restorable(call[t].blob.backup)

decrypt_blob(t) ==
    /\ At(t, "use") /\ call[t].op = "load"
    /\ opens(t)
    /\ call' = [call EXCEPT ![t].at = "ok", ![t].blob = Null,
                            ![t].identity = restore_from_seed(call[t].blob.backup)]
    /\ UNCHANGED slots

(* The process dies: the calls are gone, the keystore stays.               *)
crash ==
    /\ call' = [t \in Task |-> NoCall]
    /\ UNCHANGED slots

StorageNext ==
    \/ \E t \in Task :
          \/ \E s \in Secret, i \in Identity : save_identity_backup(t, i, s)
          \/ \E s \in Secret : load_identity_backup(t, s)
          \/ load_blob(t) \/ read_salt(t) \/ draw_salt(t) \/ store_salt(t)
          \/ store_blob(t) \/ decrypt_blob(t) \/ fail(t)
    \/ delete_identity_backup
    \/ crash

StorageSpec == StorageInit /\ [][StorageNext]_vars

------------------------------------------------------------------------------
(* A backup stays readable: unless a read of an existing salt failed, or   *)
(* two tasks were creating the salt at once, the salt a stored backup was  *)
(* encrypted with is the salt the next load will read - whatever crashed,  *)
(* failed or overlapped in between.                                        *)
BackupOpens ==
    ~misread /\ ~raced /\ identity_slot # Null => identity_slot.key.salt = salt_slot

(* A load that succeeds returns an identity whose save reached the         *)
(* keystore under the very secret the load was given, also when saves and  *)
(* deletions ran between its native calls.                                 *)
LoadedIsSaved ==
    \A t \in Task : call[t].op = "load" /\ At(t, "ok") =>
                       <<call[t].identity, call[t].secret>> \in stored


==============================================================================
