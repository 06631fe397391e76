# Spotka: TLA+ models of the core

Spotka is a peer-to-peer app for arranging meetings. Its core is a Rust crate
(`src/mobile/rust-core`, 9 300 lines) with a Slint user interface and entries for
Android and iOS. This directory holds models of the core, the TLC runs that check
them and the TLAPS proofs about them. Paths below are relative to
`src/mobile/rust-core/src/` unless they start with `src/`.

The crate at this commit does not build: some calls have the wrong number of
arguments (`DbManager::new`, `ffi/android.rs:220`), some bodies stand for code to
come (`chain/mod.rs` passes an empty slice where a key belongs), some methods the
entries call do not exist (`AppController::start_p2p`). The models follow the code
that is there, function by function, and say in their headers where they supply a
missing argument. Nothing else is modelled that only a comment announces: the exception is the key under which
`add_block` verifies a signature.

## 1. The system

| component | state it keeps | operations that change it | module |
|---|---|---|---|
| Trust graph (`p2p/mod.rs`) | `peers`: PeerId to user and level; `user_to_peer`: user to one PeerId | ping success, accepted invite, removal of a guest, shutdown | TrustGraphOps, TrustGraph |
| Meeting participation (`meetings/manager.rs`) | rows of `meeting_participants`, behind one RwLock | get_meeting_details, set_interest, confirm_participation, cancel_participation, awaited by any callers | Meetings, implementing Participation |
| Sync manager (`p2p/sync.rs`) | `rate_limit_cache`, `active_invites_cache` | handle_invite with its limiter, cleanup, shutdown | SyncInvites |
| Private mesh (`p2p/behaviour.rs`) | graph of friends, outgoing messages, pending events of every device | pings, receiving invites, rejects and updates, polling, restarts | Mesh |
| Discovery and admission (`p2p/discovery.rs`, `transport.rs`, `behaviour.rs`, `mod.rs`) | trusted peers, tokens, pending peers, two graphs, connections | pings, tokens, discoveries, guard, connection callbacks, cleanup | Admission |
| Dictionary loader (`dict/loader.rs`) | `entries`, `index_map`, `max_official_index` | load_from_json_official, load_from_json, merge_custom | DictOps, DictLoader |
| Dictionary manager (`dict/mod.rs`) | a loader per language, list of custom ones | register_dict, unload_custom_dict | GlobalDict |
| Session compressor (`dict/compressor.rs`) | the two maps of a session, usage counts, next index | compress_tags, preload, import | SessionDict |
| Secure storage (`crypto/secure_storage.rs`, `identity.rs`) | two keystore slots | save, load, delete, each a sequence of native calls | Storage |
| Sealed messages (`p2p/protocol.rs`, `crypto/e2ee.rs`, `ping/`) | none | seal and open an envelope, a packet, a ping code | Packets |
| Process start (`ffi/android.rs`) and database opening (`db/manager.rs`) | three OnceLock cells; the encrypted file and its tables | initSpotka, openDatabase, every export that needs a cell, events, shutdown | Lifecycle |
| C entry (`lib.rs`) | one OnceLock cell for the controller | spotka_init | CoreEntry |
| iOS entry (`ffi/ios.rs`) | the event callback; the calls whose completion is owed | the exports, their tasks and completions | IosCalls |
| Chain (`chain/mod.rs`, `block.rs`) | height and cached blocks of every node | making, signing and adding a block, restart | AppChain |
| Transactions (`chain/transaction.rs`, `consensus.rs`) | none | Transaction::new, validate_block | Transactions |
| Merkle tree (`chain/merkle.rs`) | locals of one call | generate_proof, verify_proof | MerkleOps, Merkle |
| Tag syntax (`dict/cts_parser.rs`) | locals of one call | parse_cts, serialize_cts | Cts |
| Application controller (`app_controller.rs`) | settings, energy mode | participation wrappers (in Meetings); the rest is not modelled | |
| User interface (`ui/`) | displays | not modelled: it declares callbacks, and no Rust code connects those of the meeting screens to a call | |
| Simulator (`src/tools/spotka-sim`), Flutter prototype (`src/spotka_app`) | their own | not modelled: neither shares code with the core | |

How they interact. The FFI calls the controller, which calls the managers; each call is
a task on one tokio runtime, and tasks share the database
connection, the loaders and the trust graph through `RwLock`s. `P2PNode` owns the
libp2p swarm; the swarm calls the behaviour, which filters a packet by the trust
graph and dispatches it to the sync manager or forwards it; answers go to a queue the
swarm polls. Discovery, guard and node each keep an opinion of their own about who
is trusted. The chain, the sealed messages, the secure storage, the dictionaries and the participation
methods are called from nowhere but tests at this commit; they are modelled as the library
they are, called in any order, with any arguments their types allow.

What is hard here, and which property watches it, is the list `hazards` of
`PROJECT.json`. In short: tasks that interleave between two lock acquisitions
(meetings); statements and native calls that fail one by one, and crashes between
them (meetings, storage, database); PeerIds that change with every start while
graphs remember the old ones (trust, mesh, admission); several caches of one fact
(admission); counters and indices at their limits (limiter, dictionaries); dates on
clocks that disagree (packets, transactions, scanned codes); messages late, twice, damaged or lost
(mesh, packets, chain); threads that race to fill a cell of the process or to answer a native
caller (lifecycle, C entry, iOS); and two implementations of one rule that have to agree
(transactions, tag syntax, Merkle proofs).

## 2. Modules

One module per component, named above. A definition has the name of the function or
field it models wherever that is possible, one action per function, and a function
that suspends or makes several native calls is one action per stretch between them.
`map` in `PROJECT.json` gives the lines of every definition. Operators whose name ends in
a suffix after an underscore, as in `RemoveGuest_RouteStays`, are not part of a
model: each is a plausible slip in the operator after it, and shows that a property
would notice it.

Composition:

* `TrustGraphOps` is the graph as a value, with its operations; `TrustGraph` (one
  graph under every sequence of calls), `Mesh` (one graph per device) and
  `Admission` (the graphs of the behaviour and of the node) are built on it.
* `DictOps` is a loader as a value; `DictLoader` drives one, `GlobalDict` one per language.
* `Transactions` uses the parser of `Cts`.
* `MerkleOps` says which list of leaves stands behind a tree whose odd levels repeat their last *node*: `abcdef`
  becomes `abcdefef`, `abcde` becomes `abcdeeee`. `AppChain` takes a root for the list behind its tree; that the levels
  `Merkle` computes are those of the perfect tree over that list is `LevelsArePerfect`, checked and proved.
* `Participation` is the abstract specification of `Meetings`: what a caller of the three functions may rely on,
  without lock or statements. `Meetings` instantiates it under a refinement mapping.
* `CoreEntry` extends `Lifecycle`: spotka_init opens the same database file by the same actions.
* The modules whose names end in `Proofs` hold the theorems. `AdmissionProofs` is about `TrustGraph` and
  `Admission`, `DictProofs` about the three dictionary modules, `DeviceProofs` about `Storage`, `Packets`, `Lifecycle`,
  `CoreEntry` and `IosCalls`, `CtsProofs` about `Cts` and `Transactions`, `ChainProofs` about `Merkle` and `AppChain`; each
  of the others about the module it is named after.

Some runs check several modules that share no state. Their MC module declares a
variable `part`, chosen initially and never changed: a behaviour lets one module
step and leaves the others at their initial states. The reachable states are the sum,
not the product, and a property of one module is not affected by another.

### How state and actions correspond to the code

**Meetings.** `rows` is the table, `meeting` the meeting's own row, `readers` and
`writer` the lock. `pc[t]` is where a task waits: set_interest and
confirm_participation hold the write lock from delete to insert (two actions, since
the process may die between the two statements; other tasks cannot enter);
cancel_participation reads under the read lock, drops it, and deletes under the write
lock. Every statement may fail; `.ok()` in the code means its failure is ignored.
`StartCall` awaits any method at any time, as any holder of the manager's Arc can; no order among the calls is assumed.

**Participation.** The refinement mapping shows an observer `StatusSeen`: the row of the user while nobody holds the
write lock, and otherwise the row its holder found, kept in the history variable `before`. So the delete that opens a
set_interest or a confirm_participation is invisible, the insert that ends it is the one step `SetInterest`
or `Confirm` of Participation, a crash between the two loses the old status, and the two waits of
cancel_participation are one call. The number of statements, the lock and the clock do not appear.

**SyncInvites.** One action per outcome of handle_invite. `accepted` and `carried` are
history: what was let through, in which window, and what it carried.

**TrustGraph.** Each action is a method of P2PNode under the write lock, with any PeerId and any user hash. `filed` (under which users a
PeerId was put) and `dropped` (the users for whom `remove_guest` was called) are history.

**Mesh.** `peer` maps each user to the PeerId of the running device; a restart takes an
unused one and empties graph, queue and events. `net` is a set of packets that may be
delivered in any order or lost. Each outcome of on_message_received is one
action. `Authorized` has both branches of is_sender_authorized_for_meeting: a friend, or an invited participant (`InvitedTo`).
Starting an invite is external, because nothing in the crate does.

**Admission.** `behaviour_graph` is the graph SpotkaBehaviour::new makes for itself; `node_graph` is the one of P2PNode. build_transport
(`transport.rs:127`) makes the guard that is asked, over a graph its caller passes: the node's, the only one a caller can reach. It is strict by
default. `cleared` are the peers the guard has said yes to whose connection callback has not run. A ping reaches the behaviour
(`add_trusted_peer`) or the node (`node_on_ping_success`), each by its own call; `Pings` says which peer reports which user.

**DictOps, DictLoader, GlobalDict, SessionDict.** A word, a language and an index are
values; a file is its sequence of words. `Limit` stands for 255 and `Indices` for the 256
values of a u8, which wraps. Draining a HashMap is a choice of order.

**Storage.** `call[t]` is the program counter and the locals of a save or load. Each
native call is an action and may fail at any point; a read of the salt that fails is
taken for a missing salt, as the code takes it. `misread` and `raced` are history.

**Packets.** Nothing is remembered by the code; `sealed` is what was made and `arrived`
what a receiver last looked at. Each device has its own clock (`Skew`). Additions and subtractions
of u64 wrap at `Width`, as in a release build; so does the sum of created_at and lifetime in SyncInvites.

**Lifecycle.** The three cells are three Booleans, filled by three actions. Each export is one action: it aborts the process when a cell it
needs is empty, and six of them leave a task to the runtime (`Spawning`), which reports through `notify_ui_event`. `openDatabase`
draws a salt when none is given, as every caller in the crate does; the file keeps the key
of the first statement that ran on it.

**CoreEntry.** A thread in spotka_init takes the steps of an opening, holds the controller it has built (`building[t]`, shown by
the key under it), and offers it to the cell. `granted` is history.

**IosCalls.** A call is identified by the context Swift passes. `task[c].at` says whether it was refused on the caller's
thread, handed to the runtime, dropped by a panic, or is over; `answers[c]` lists its completions. The age of a
scanned code is a subtraction of u64: `qr_age` wraps, and `panic` is what the same line does in a debug build.

**AppChain, Transactions, Merkle, Cts.** A header stands for its hash and a signature for
the pair of signer and content. A validator signs lists of `Proposed` in blocks of any height over any hash it may know of (`Hashes`), since
Block::new takes both from its caller. `Damaged` is what may have become of a block. A transaction that Transaction::new has made and one that a block
carries are of two types, which nothing converts into one another; `InBlock` is the copy of the shared fields. Text is a
sequence of characters only in Cts, because its properties are about text.

## 3. Runs

| run | states | what it shows |
|---|---|---|
| meetings | 286 048 | Two tasks, one other guest, capacity 1, any calls at once. Capacity holds (`CapacityHeld`); nobody is confirmed uninvited (`ConfirmedByRight`); the code implements Participation: every call takes effect at one instant and as it answers (`CallsAreAtomic`); a warned cancellation never takes effect before the threshold (`NoFalseWarning`); every call returns (`CallsReturn`, which fails without `drop(db_read)`). |
| meetings_maybe | violation | See finding 1. |
| sync_invites | 74 255 | At most 2 Max calls in any Window + 2 seconds (`TwoWindowsBound`); a refused sender has earned it (`RefusalEarned`); a refused invite leaves nothing (`CacheEarned`). |
| mesh | 260 212 | A friends-only invite is only sent by its organizer (`FriendsOnlyDirect`); what a relay sends goes to a device of the recipient (`RelayedToRecipient`); rejects are shown at home (`RejectsComeHome`); Interested is never shown (`InterestedIsPrivate`); forwarding ends (`MeshQuiesces`). |
| admission | 350 736 | A route dangles only when its peer was filed under two users, and a user with known peers is without a route only after a removal (`RouteSound`); routes move only for their own user (`RouteChangesAtHome`); a friend is not pending (`TrustedNotPending`). |
| admission_guest | violation | See finding 2. |
| dictionaries | 51 980 | An official index leads back to its word (`OfficialDecodes`); what an official registration has left of an entry, no later registration or unloading changes (`OfficialWordsKept`); a tag sent as an index keeps its meaning (`SentDecodes`). |
| dictionaries_frequent | violation | See finding 3. |
| storage | 295 341 | A backup is encrypted under the salt the next load reads (`BackupOpens`); a load returns what was saved under that secret (`LoadedIsSaved`); what opens was sealed for this receiver and not changed where it is protected (`OpenedAsSealed`); what is in time opens (`RefusedForCause`); no call finds an empty cell after the first initSpotka has returned (`CallsFindTheCore`); one key opens the database, with all tables (`DatabaseReopens`); however many threads call spotka_init, one is told OK and every controller has the file open (`OneCore`); Swift hears of each call once, and of a scanned code what its age deserves (`CallsAnsweredRightly`). |
| chain | 81 133 | Generated proofs verify (`ProofVerifies`) and every level is that of one perfect tree (`LevelsArePerfect`); committed blocks are blocks somebody signed, for their height (`AcceptedAsSigned`); two nodes that both cache a height have the same block there, unless two blocks were signed for it (`OneHistoryUnlessForked`); parsed tags survive being written (`ParsedSurvivesText`); honest transactions pass validation and are kept if they ask (`HonestBlockPasses`). |
| chain_hybrid | violation | See finding 4. |
| chain_negative | violation | See finding 5. |

Each passing run also checks one type invariant.

### Exceptions the properties state

A property that holds with exceptions names them: `BackupOpens` excepts a failed read of an
existing salt and two concurrent first saves; `OfficialDecodes` a file that overflowed;
`SentDecodes` sessions with frequent words, imports, or a wrapped index, and an index that a preloaded entry claims for another word; `RouteSound` as in the table; `RefusedForCause`
payloads above 1 MiB and envelopes dated ahead of the receiver's clock;
`AcceptedAsSigned` lists with a repeated transaction; `OneHistoryUnlessForked` heights for which two blocks were signed;
`CallsAnsweredRightly` a task that panicked in a debug build; `HonestBlockPasses` revocations.
`CallsFindTheCore` speaks of the time after initSpotka has returned for openDatabase and
the exports that need the controller, and of all times for shutdown and events. In each case the
excepted situation really goes wrong in the code (section 6).

### Bounds, and why they are enough

* meetings: two calls at once, since three contend no differently for one lock, each of any method; one guest and
  capacity 1, so the last place is contested; the clock starts exactly at the warning threshold and passes
  the last hour, in which the truncated hours are 0, and the start.
* sync_invites: Max 2 and Window 1 over five seconds, so two full windows and the seconds between
  occur; two senders, exchanged by symmetry; a u64 of 8 values, and invites made at 1 and at 7, so the sum with the lifetime also wraps. The
  proofs cover all values.
* mesh: three users, one relay possible, one user with a second PeerId; one user invited by another; two sends, so two
  messages may cross.
* admission: for the graph, three PeerIds and two users, any PeerId filed under either, the smallest number with which one user has two
  entries while another PeerId changes hands; for connections, two peers in range, each pinged as a user of its own, and one token that may be
  issued for either user and presented by either peer.
* dictionaries: three words with `Limit` 4, so a file may exactly fit and may overflow; a session
  with four indices, two of them dynamic, so the index wraps. Of the static entries two claim one index and one is not static at all.
* storage: two tasks, two secrets, two identities, three salts, the smallest number with which a
  salt is lost by a failed read and again by a race; tasks, seeds, secrets and salts are
  exchanged by symmetry (the run has no liveness property). One sealed item, because receivers
  keep nothing. Clocks differ by one and run past every age limit; a damaged date may be the last a u64 holds. Two threads, two
  statements and two unreported tasks; spotka_init is called by the same two threads. Two calls of ios.rs at readings 0, 2, 3
  and 5 with age limit 2 and a u64 of 8 values, so codes are young, at the limit, expired and ahead, and a wrapped age is never small.
* chain: up to six leaves of three values: with five a last node is doubled on two levels, with six one that is
  not a leaf; three
  blocks of two validators, at either of two heights and over any hash, so that two compete for a height and a third names either or neither;
  one list of transactions, which the sort changes and whose tree repeats a leaf (with a second list the run would exceed five minutes; which
  list a block carries matters to `AcceptedAsSigned` only through its root, and the proof is for any lists); every text of up to six characters, with up to two tags
  allowed; blobs at, below and above each limit. `MCCombine` is one digest function
  without structure; the properties do not mention it.

### Deadlock

Checked everywhere except in the MCChain run that passes: there a Merkle call ends, a text reaches its bound
and nothing remains to be done.

### Fairness

* `Meetings!FairSpec`: strong fairness for taking the lock, because tokio's RwLock
  queues its waiters in order, so a waiter to whom the lock is free again and again gets it;
  weak fairness for the steps of a task that holds it, because a spawned task is polled until
  it is done. Starting a call, crashes, pruning and the clock are not fair. Pruning is an action because `prune_old_meetings` is a
  method; at this commit its call is commented out (`app_controller.rs:228`), so no property may depend on it.
* `Mesh!FairSpec`: weak fairness for polling a queue and for the network doing something with a packet,
  losing it included. Starting messages and restarting are not fair.

The other specifications have no fairness and no liveness property.

## 4. Proofs

The proof modules prove for all values of the constants, under the named assumptions of the
modules they extend, which TLC evaluates in the runs: that null values are no values, that in a mesh every
PeerId has an owner, that PeerIds are not phone hashes, that the set of users is finite, that bounds are numbers
and positive where the code divides by them or needs one statement at least, and that no
clock, with the age limit of a packet on top, comes near the width of a timestamp. Nothing is assumed of the indices of static tags, of the users a PeerId is
filed under, or of the caller of Block::new. Each specification has an
inductive invariant, a theorem that it holds, and the properties that follow from it.
The properties are the very definitions the runs check.

| module | invariant | properties proved |
|---|---|---|
| MeetingsProofs | `MeetingsInvariant` | `TypeOK`, `CapacityHeld`, `ConfirmedByRight`, `CallsAreAtomic`, `NoFalseWarning` |
| MeshProofs | `MeshInvariant` | `TypeOK`, `FriendsOnlyDirect`, `RelayedToRecipient`, `RejectsComeHome`, `InterestedIsPrivate` |
| AdmissionProofs | `TrustGraphInvariant` | `TypeOK` of TrustGraph, `RouteSound`, `RouteChangesAtHome` |
| | `AdmissionInvariant` | `TrustedNotPending`; `FriendsAreVerified`, which no run repeats |
| | both | `MCTypeOK` of MCAdmission |
| SyncInvitesProofs | `LimiterInvariant` | `TypeOK`, `TwoWindowsBound`, `RefusalEarned`, `CacheEarned` |
| DictProofs | `LoaderInvariant` | `OfficialDecodes` |
| | `ManagerInvariant` | `OfficialWordsKept` |
| | `SessionInvariant` | `SentDecodes` |
| | all three | `TypeOK` of MCDictionaries |
| DeviceProofs | `StorageInvariant` | `BackupOpens`, `LoadedIsSaved` |
| | `SealedInvariant` | `OpenedAsSealed`, `RefusedForCause` |
| | `LifecycleInvariant`, for CoreEntry `EInv` | `CallsFindTheCore`, `DatabaseReopens`, `OneCore` |
| | `AnswersInvariant` | `CallsAnsweredRightly` |
| | `PartsInv` | `TypeOK` of MCStorage |
| ChainProofs | `MerkleInv`, `OnTree` | `MerkleTypeOK`, `ProofVerifies`, `LevelsArePerfect` |
| | `CInv` | `ChainTypeOK`, `AcceptedAsSigned`, `OneHistoryUnlessForked` |
| | | `TypeOK` of MCChain |
| CtsProofs | | `ParsedSurvivesText`; `ParsingSurvivesText`, of every text, and `TextCarriesOnePositive`, of every list of tags that obeys the rules |
| | `TxInv` | `TxTypeOK`, `HonestBlockPasses` |

Why the invariants say what they say:

**MeetingsProofs.** Confirming is two statements, and `CapacityHeld` says nothing of the time between them. A task
in between holds the write lock (`LockHeld`), so the place it found free is still free (`PlaceKept`) and the
invitation it saw is still the reason (`RightKept`). A task that will insert has returned nothing yet (`NothingReturned`); a warning, once computed, stays due, since the clock only advances (`WarnedInTime`, which
rests on a lemma about truncated division).

The refinement (`CallsTakeEffectAtomically`) needs more than these: that the holder of the lock is between its two statements and has
found the row that is remembered (`HolderInserts`), that what a confirmation has checked is true of that row (`CheckedBefore`), and that a cancellation waiting for its delete already has its verdict
(`VerdictReached`). Initial states then map to initial states, and one lemma per action says which step of
Participation it is, or that it is unseen.

**MeshProofs.** `Proper` says of one message, queued or in flight, whose device it comes from and whose it goes to.
A relay keeps it because its routes lead to devices of their user (`RoutesAreOwned`), also to devices that are gone;
an answer keeps it because a refused invite came from its organizer. What is shown follows from what arrives. The
assumption that a PeerId is no phone hash stands for `p2p/behaviour.rs:243`, which compares one with the other.

**AdmissionProofs, the graph.** P2PNode files any PeerId under any user hash: a user has new PeerIds after restarts, and the user of a guest comes
from a token that any peer may present. Then a route can be left leading to a peer that is now another user's. `RouteSound` says that this is the only
way a route dangles, and that a user with known peers is without a route only after a `remove_guest` for that user. The second half is the loss
`p2p/mod.rs:89` allows; the property bounds it to removals. The invariant is `RouteSound` and the type: that AddAt keeps the first half
rests on the history `filed` of the PeerId it takes over.

**AdmissionProofs, who is a friend.** A ping clears the pending entry, trusts the peer and files it in the behaviour's graph in one action, and nothing
removes an entry from that graph; so discovery and behaviour agree on friends (`FriendsAreVerified`), and no friend is pending. The graph of the
node shares nothing with them, which is finding 2.

**SyncInvitesProofs.** `TwoWindowsBound` is about the history of calls, the limiter about one counter; the
invariant ties them: each call lies in its window (`CallsInWindows`), the calls counted by the entry are
the last ones and share its window, all others end before it begins (`EntryMatches`), and call i + Max is
in a later window than call i (`WindowsApart`). Each action has a lemma.

**DictProofs.** A loader decodes its official words because their indices lie at or below `max_official_index` and a merge
numbers from above it. The manager needs no strengthening but its types. In a session the indices from the next one on are free
(`FreeFromNext`), and a word's index leads back to it unless another static entry claims that index (`IndicesLeadBack`): promotion takes a free index,
and preloading may overwrite a static index, which only an entry with the same index does. The exception is needed: `preload_static_dict`
takes any list, and the indices the loader hands out repeat.

**DeviceProofs, the backup.** Two invariants. `OneSalt` follows the salt: until a read fails or two tasks create it at once, a salt is
created only where there is none and by one task, and the slot, the calls and the backup have the same one. `BackupsAreSaved`
follows a backup from its save into the slot and from there into a load; it needs no exception.

**DeviceProofs, what is sealed.** Each item carries the date of its maker's clock at the time it was made (`SealedInv`), so an age that a receiver finds
small is an age by every clock, up to the difference of two clocks. That there is a greatest difference is an argument
about least numbers (`SpreadBounds`). The rest is by kind of item and by what may have been damaged. The converse,
`RefusedForCause`, is the same argument from the other side: made recently by one clock is young by every clock (`OldIsOld`), and an
item that nobody touched passes its checks, provided that the bytes no device makes are none of those it made (`LostIsNothing`).

**DeviceProofs, starting.** The cells are filled in one order, so a filled cell, a started task or a returned initSpotka vouches
for the cells before it (`CellsInOrder`). A file has tables only under a derived key (`KeysAreDerived`), so the first key that finds
all tables is the key of the file for good. For CoreEntry the invariant adds that a controller, built or in the cell, stands on a key that has
opened the file, and that a cell is filled as often as OK was said. `AnswersInv` says of each iOS call
how far it has got, what was answered, and why a code was accepted.

**ChainProofs, trees.** `OnPath` says of the fold of generate_proof that the node at the current index of the current level is
what the steps collected so far compute from the leaf; so at the top the proof computes the root. `OnTree` says that the current level is
the corresponding level of the perfect tree over the list behind it: each node of a level stands for a run of leaves, an odd level repeats its last
*node*, with every leaf under it, and the list of places (`Expansions`) is built from the top for that reason. Proving this found an error in an
earlier version of the model, which repeated the last leaf up to a power of two. That gives other lists from six leaves on, and the runs
went up to five.

**ChainProofs, blocks.** The invariant says of every signed block that its signature is its maker's (`MintedInv`), and of every committed block
that it has the header of a signed one for its height (`CommittedInv`). That is all add_block establishes: nobody compares prev_hash, and no
document of the repository promises that it is compared. `OneHistoryUnlessForked` is what follows: if at most one block was signed for a height, all
nodes that cache it have that one, and a block that names it as its predecessor stands on it. That a root
determines a list without repetitions (`RootDetermines`) is a lemma about the list behind a tree: its first places are the list itself, and all others
repeat an element.

**CtsProofs.** The parser and the writer are loops, here functions of what has been read. The library's induction theorems take an operator, which
the provers cannot instantiate; `SetInduction` and `SeqInduction` state induction for a set instead, and are proved from the well-foundedness
of the natural numbers. The invariant of the parser is `Rereads`: what it has taken in so far, written down again and read again, brings
it to the state it is in. `ParsingSurvivesText` follows for every text, and with it `ParsedSurvivesText`. Conversely `TextCarriesOnePositive` says
which lists of tags survive being written: of those the rules of `cts_parser.rs:4` and 111 allow, exactly the ones whose first tag is their only positive one;
finding 4 is the other side of it. `TxInv` says of every transaction that
`Transaction::new` made it of content it accepts, and of every verdict that it was given on those transactions; what `new` accepts,
`validate_transaction` lets pass (`MadeIsValid`), except revocations.

**The types of a whole run.** A behaviour of MCAdmission, MCDictionaries, MCStorage or MCChain is one of its part and a stuttering one of every other;
so each part keeps its own invariant, and the types join.

**Assumptions on constants.** Beyond those named above: that heights, the limits on tags and input and the permitted clock skew are numbers
(`HeightsAreNat`, `LimitsAreNat`, `SkewIsNat`).

**Only model-checked.** Liveness, which is out of the prover's reach together with ENABLED: `CallsReturn` and `MeshQuiesces`. Every
other property of a passing run is proved. The five runs that end in a counterexample have nothing to prove.

## 5. Findings

Each is a run that TLC stops with a counterexample to something the repository says.

1. **meetings_maybe.** `ui/meetings_view.slint:4` calls MAYBE a local reminder only, and `meetings/manager.rs:231` expects an Interested or Invited row
   to be replaced by Confirmed. set_interest deletes the Invited row to insert Interested (152); confirm_participation then finds neither Invited nor
   Confirmed (222) and answers ERR_NOT_INVITED. One caller, one call after the other: no concurrency is involved.
2. **admission_guest.** `p2p/behaviour.rs:125` says that a connected peer without a level is a guest that "hasn't been added to graph yet". A guest that
   on_invite_accepted has added to the graph of the node, and that the guard over that graph has admitted, is still without a level when the
   behaviour looks: `behaviour.rs:92` made a graph of its own.
3. **dictionaries_frequent.** `dict/compressor.rs:16` promises reconstruction. `create_session_dict` hands out the
   indices from 10 and leaves the next index at 10; the first promoted word takes over the index of a frequent word.
4. **chain_hybrid.** `dict/cts_parser.rs:4` allows several positive tags. A positive tag has no status digit,
   and only a digit ends a word, so two of them are written as one.
5. **chain_negative.** `chain/transaction.rs:118` says negative updates are kept longer. The delta is one byte that is
   then parsed as text; no single character is a negative number.

## 6. Differences met while reading

Not runs, since each is visible in the lines themselves; a change to this code should start from them.

*Trust and mesh.* `p2p/mod.rs:48` calls the two maps inverse; `remove_guest` (89) drops a user's route although another
entry of the user remains. A friend whose ping only the behaviour has seen is in discovery and in the behaviour's graph and not in the node's, so the
transport (`transport.rs:73`, over the graph it is given) refuses it; the guard of `behaviour.rs:96` would let it in and is never asked. `p2p/behaviour.rs:243` compares a PeerId with a phone hash, two kinds of name that are never equal.
The reason `ERR_MEETING_FULL` (268) is never sent and nothing dispatches InviteAccept. `p2p/protocol.rs:161` numbers the reasons 0 Declined, 1 Full, 2 Expired,
3 FriendsOnlyRestricted; `behaviour.rs:353` sends 2 for the last. `protocol.rs:125` calls `sender_id_hash` the forwarder; `behaviour.rs:284` forwards the
packet as it came. `discovery.rs:84` keeps peers pending "until" the upper layer confirms; nothing in discovery takes a confirmation. All
Ed25519 PeerIds share the prefix that the Sybil check counts, so it never rejects.

*Meetings.* `manager.rs:253` says a cancellation cancels attending; it deletes whatever row there is, also Invited. In the last hour the
truncated division gives 0 and no warning (`meetings/mod.rs:25`, `manager.rs:267`). The numbers of the participant
status differ between `db/schema.rs`, `p2p/protocol.rs:26` and `db/manager.rs:153`.

*Sync.* `sync.rs:202` adds a lifetime to a date the sender chose; near the greatest u64 it wraps, and panics in a debug build. `sync.rs:98` says ten messages per minute; windows are fixed, so twenty pass within a minute (the bound that is proved).
Nothing calls cleanup_expired_invites or shutdown.
Sync requests (`sync.rs:105-141`, 220-344) are answered by reads, but nothing in the crate makes a request or applies a response,
and the behaviour passes both message types over.

*Dictionaries.* register_dict parses every dictionary by `load_from_json`, whose index 0 is "Temporary, will be reassigned during
merge" (`loader.rs:199`); the official branch (`dict/mod.rs:78`) puts that loader in place without a merge, so every official word keeps index 0 and source Custom,
against "Indices start from 1" (`loader.rs:96`) and the static index that `dict/mod.rs:43` and 105 speak of. `OfficialWordsKept` says only that this entry
is left alone. Several words then claim index 0 when they are preloaded into a session.
A registration that is refused for the length of the list (96) has already merged its words, which stay found; no property forbids it.
After an overflow `max_official_index` stays 0 (`loader.rs:119`); a second merge numbers from the same start
(145, 148); the indices 0 to 9 are reserved (139) and handed out after a wrap (`compressor.rs:70`).

*Storage and database.* A salt that cannot be read is replaced, by a load as well (`secure_storage.rs:201`), although
`db/manager.rs:54` calls it persistent. All callers open the database without a salt, so no two starts derive one key; spotka_init
does the same (`lib.rs:105`) and opens the file before it looks whether the cell is taken.

*Messages.* `protocol.rs:285` subtracts u64 dates: an envelope from a clock ahead is refused as expired, or panics in a debug build;
`ffi/ios.rs:449` has the same subtraction; the panic there drops a completion that Swift waits for. Payloads above 1 MiB can be sealed and not unpacked (314). `is_compressed` is not signed. `e2ee.rs:3` claims replay protection;
a packet opens as often as it arrives within five minutes, and its date is not authenticated. `decrypt` returns the one-time key as the
sender's. The display name of a ping is not signed, and `AlreadyFriends` cannot occur, since the insert is commented out.

*Chain.* `add_block` never compares `prev_hash` (`chain/mod.rs:48-52`), so a signed block that names a foreign one is taken, and never calls validate_block.
Its text verifies under an empty key (74). `block.rs:24` and `transaction.rs:34` are two types Transaction without a conversion. `verify_merkle_root` accepts a list
with its last transaction, or the last node of any odd level, repeated (`block.rs:115`). `MerkleTree` sorts its leaves and has another empty root than Block (`merkle.rs:37`,
`block.rs:125`). `transaction.rs:111` signs the payload and 140-157 verify the hash, so no signature verifies. A revocation counts its
quorum in Transaction::new and 192 bytes in validate_transaction. The tests in `transaction.rs` and `cts_parser.rs` on invalid
texts expect what the parser does not do: a word without digits is accepted, and "1234567890a" is refused, but with
LimitingWithoutMediating where the test expects TooManyTags.

*Controller and FFI.* The energy loop runs on a copy whose node is None, so it changes no mode. Reminder settings are saved and never
loaded (`app_controller.rs:181-197`). The pruning loop deletes nothing: its call is commented out. No export of `ffi/ios.rs` fills APP_CONTROLLER, so its stop has nothing to stop.
The markers of `ui/meetings_map.rs:92-97` count participant rows whatever their status. `MainActivity.kt` and `ffi/android.rs` use different JNI names, and `android.rs` contains its content twice.

## 7. What is left

Built in this order: what decides about people (participation, trust, invites, admission), what keeps data (storage, database,
dictionaries, chain), what the native sides call, then the abstract specification of participation and the proofs.

Not modelled, because there is no control to check:

* Sync requests and snapshots (`p2p/sync.rs:105-141`, 324-344; behaviour.rs:173 passes both message types over): only the answering half exists, it only reads, and nothing
  asks. A model would have to invent the requester.
* The rest of the controller: an energy loop that acts on a copy without a node, a pruning loop whose call is
  commented out, settings that are written and not read back.
* The screens, `ui/meetings_map.rs` included: they read rows, lay them out and declare callbacks. No Rust code connects the callbacks of
  the meeting screens, so what a button starts cannot be modelled; Meetings lets any calls start.
* `ffi/mod.rs` and the conversions of the native entries: strings and buffers, and who frees them, are below the level of these models.
* The libp2p transport, the ciphers, Argon2 and the keystore: external, ideal in the models.
* The simulator and the Flutter prototype share no code with the core. The prototype's gossip
  (`src/spotka_app/lib/core/p2p/p2p_manager.dart`) floods transactions without suppressing duplicates.

Worth doing when the code grows: an abstract limiter (a set of dated calls) that SyncInvites implements; sync as a protocol of two devices
once there is a requester; `prev_hash` in `add_block`, after which a link of committed blocks can be stated; and a mapping of devices that
joins Mesh and Admission, once one graph serves both.
