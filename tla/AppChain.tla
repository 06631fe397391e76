------------------------------ MODULE AppChain -------------------------------
(***************************************************************************)
(* chain/mod.rs and chain/block.rs: the local chains of several nodes,     *)
(* each a height and a cache of blocks, fed with blocks that validators    *)
(* make and that may arrive damaged, late, twice or never.                 *)
(*                                                                         *)
(* The text of add_block passes an empty slice where a validator's key     *)
(* belongs ("Pass pub key here in real impl"); the model passes that key.  *)
(* Timestamps are not looked at by add_block and are left out, and so is   *)
(* prune_old_blocks, whose list of blocks to delete is always empty.       *)
(* Nothing in the crate calls Block::new: a validator may give it any      *)
(* height and the hash of any block.                                       *)
(***************************************************************************)
EXTENDS Integers, Sequences, FiniteSets, SequencesExt, MerkleOps

CONSTANTS Node,          \* user hashes of validators, one chain each
          Tx,            \* transactions, numbered in the order of their ids
          Genesis,       \* the prev_hash of a first block
          MaxTxs,        \* bound on the transactions of a block
          Proposed,      \* lists of transactions that validators put into a block
          MaxHeight, MaxBlocks

ASSUME TxsAreOrdered == Tx \subseteq Nat /\ MaxTxs \in Nat
ASSUME HeightsAreNat == MaxHeight \in Nat

TxLists == BoundedSeq(Tx, MaxTxs)

Distinct(txs) == \A i, j \in DOMAIN txs : txs[i] = txs[j] => i = j

ASSUME NothingTwice == \A txs \in Proposed : txs \in TxLists /\ Distinct(txs)

Sorted(txs) == SortSeq(txs, <)

(* What the sort of a list without repetitions returns: such a list.       *)
ASSUME SortingKeeps == \A txs \in Proposed : Sorted(txs) \in TxLists /\ Distinct(Sorted(txs))

(* Digests without collisions: the root determines the leaves of the       *)
(* perfect tree (LevelsArePerfect in module Merkle), and nothing more.     *)
calculate_merkle_root(txs) ==
    LET expansion == Expansion(Len(txs))
    IN [i \in DOMAIN expansion |-> txs[expansion[i]]]

Roots == {calculate_merkle_root(txs) : txs \in TxLists}

VARIABLES chain,     \* per node: current_height and blocks_cache
          minted     \* the blocks validators have made and signed

chainVars == <<chain, minted>>

(* calculate_hash is over the whole header: a header stands for its hash.  *)
IsHeader(h) ==
    /\ h.height \in 1..MaxHeight
    /\ h.merkle_root \in Roots
    /\ h.validator_id \in Node

IsBlock(b) ==
    /\ IsHeader(b.header)
    /\ b.transactions \in TxLists
    /\ b.signature = << >> \/ b.signature.by \in Node

ChainTypeOK ==
    /\ \A n \in Node :
          /\ chain[n].current_height \in 0..MaxHeight
          /\ DOMAIN chain[n].blocks_cache = 1..chain[n].current_height
          /\ \A h \in 1..chain[n].current_height : IsBlock(chain[n].blocks_cache[h])
    /\ \A b \in minted : IsBlock(b)

NewChain == [current_height |-> 0, blocks_cache |-> << >>]

ChainInit == /\ chain = [n \in Node |-> NewChain]
             /\ minted = {}

------------------------------------------------------------------------------
(* Block::new sorts the transactions by id before it computes the root.    *)
Block_new(height, prev, txs, n) ==
    [header |-> [height |-> height, prev_hash |-> prev, validator_id |-> n,
                 merkle_root |-> calculate_merkle_root(Sorted(txs))],
     transactions |-> Sorted(txs),
     signature |-> << >>]

sign(b, n) == [b EXCEPT !.signature = [by |-> n, over |-> b.header]]

(* For the mutation runs: the root is compared as a set of leaves.         *)
verify_merkle_root_asSet(b) ==
    Range(calculate_merkle_root(b.transactions)) = Range(b.header.merkle_root)

verify_merkle_root(b) == calculate_merkle_root(b.transactions) = b.header.merkle_root

(* And: a signature of the validator, whatever it was given for.           *)
verify_signature_anyContent(b, validator) ==
    b.signature # << >> /\ b.signature.by = validator

verify_signature(b, validator) ==
    b.signature # << >> /\ b.signature = [by |-> validator, over |-> b.header]

mint(n, height, prev, txs) ==
    /\ Cardinality(minted) < MaxBlocks
    /\ minted' = minted \cup {sign(Block_new(height, prev, txs, n), n)}
    /\ UNCHANGED chain

(* For the mutation runs: any block above the last one is taken.           *)
add_block_skips(n, b) ==
    /\ b.header.height > chain[n].current_height
    /\ verify_merkle_root(b)
    /\ verify_signature(b, b.header.validator_id)
    /\ chain' = [chain EXCEPT
                    ![n].blocks_cache = [h \in DOMAIN @ \cup {b.header.height} |->
                                            IF h = b.header.height THEN b ELSE @[h]],
                    ![n].current_height = b.header.height]
    /\ UNCHANGED minted

add_block(n, b) ==
    /\ b.header.height = chain[n].current_height + 1
    /\ verify_merkle_root(b)
    /\ verify_signature(b, b.header.validator_id)
    /\ chain' = [chain EXCEPT
                    ![n].blocks_cache = [h \in DOMAIN @ \cup {b.header.height} |->
                                            IF h = b.header.height THEN b ELSE @[h]],
                    ![n].current_height = b.header.height]
    /\ UNCHANGED minted

(* AppChain::new after a restart: the insert into the database is          *)
(* commented out and the height is a placeholder, so the chain is empty.   *)
restart(n) ==
    /\ chain' = [chain EXCEPT ![n] = NewChain]
    /\ UNCHANGED minted

Hashes == {Genesis} \cup {b.header : b \in minted}

(* What may have become of a block on its way.                             *)
Damaged(b) ==
    {[b EXCEPT !.transactions = txs] : txs \in TxLists}
        \cup {[b EXCEPT !.header.validator_id = n] : n \in Node}
        \cup {[b EXCEPT !.header.height = h] : h \in 1..MaxHeight}
        \cup {[b EXCEPT !.signature = << >>]}

ChainNext ==
    \/ \E n \in Node, height \in 1..MaxHeight, prev \in Hashes, txs \in Proposed :
          mint(n, height, prev, txs)
    \/ \E n \in Node, b \in minted : \E d \in Damaged(b) : add_block(n, d)
    \/ \E n \in Node : restart(n)

ChainSpec == ChainInit /\ [][ChainNext]_chainVars

------------------------------------------------------------------------------
(* Whatever arrives, the blocks of a chain are blocks that a validator     *)
(* made and signed, for that height and with those transactions in that    *)
(* order.  Lists with a repeated transaction are excepted: they may have   *)
(* the root of a shorter list.                                             *)
AcceptedAsSigned ==
    \A n \in Node : \A h \in DOMAIN chain[n].blocks_cache :
        LET b == chain[n].blocks_cache[h]
        IN Distinct(b.transactions) => b \in minted /\ b.header.height = h

(* add_block compares the height of a block with the last one, but never   *)
(* its prev_hash with that one's hash (chain/mod.rs:52), so a signed block *)
(* that names a foreign one is taken.  What heights and signatures leave   *)
(* of one history: unless two blocks were signed for a height, the chains  *)
(* of two nodes have the same block there, and a block that names a signed *)
(* one of the height below it has that one below it.                       *)
Forked(h) == \E b, c \in minted : /\ b.header.height = h /\ c.header.height = h
                                  /\ b.header # c.header

HeadersAgree(n, m) ==
    \A h \in DOMAIN chain[n].blocks_cache \cap DOMAIN chain[m].blocks_cache :
        chain[n].blocks_cache[h].header = chain[m].blocks_cache[h].header \/ Forked(h)

OneHistoryUnlessForked ==
    \A n \in Node :
        /\ \A m \in Node : HeadersAgree(n, m)
        /\ \A h \in DOMAIN chain[n].blocks_cache, b \in minted :
              LET prev == chain[n].blocks_cache[h].header.prev_hash
              IN prev = b.header /\ b.header.height = h - 1
                    => prev = chain[n].blocks_cache[h - 1].header \/ Forked(h - 1)
==============================================================================
