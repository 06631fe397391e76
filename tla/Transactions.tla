---------------------------- MODULE Transactions -----------------------------
(***************************************************************************)
(* chain/transaction.rs and chain/consensus.rs: a device makes             *)
(* transactions, puts them into a block dated by its clock, and other      *)
(* devices validate that block by theirs.  Both ends look at the content   *)
(* of a transaction, each with code of its own.                            *)
(*                                                                         *)
(* There are two types Transaction: Transaction::new makes the one of      *)
(* transaction.rs, a block carries the one of block.rs, which has no field *)
(* extended_retention.  Nothing converts one into the other; InBlock is    *)
(* what a caller who has both can do, copying the fields they share.       *)
(*                                                                         *)
(* The reputation and Sybil checks of validate_block are placeholders that *)
(* pass, and verify_tx_signature asks only whether there is a signature.   *)
(***************************************************************************)
EXTENDS Cts

CONSTANTS Blob,           \* data blobs, see IsBlob
          NotText,        \* the text of bytes that are not UTF-8
          Quorum,         \* numbers of quorum signatures a caller brings along
          Behind,         \* how far a validator's clock may be behind the maker's
          MaxClockSkew,   \* 900 seconds in the code
          MaxMade         \* bound on the transactions of a block

(* What the code asks of a blob: its text, its length, its first byte.     *)
IsBlob(b) == /\ b.text = NotText \/ b.text \in Seq(Letter \cup Digit)
             /\ b.len \in Nat
             /\ b.first \in 0..255

ASSUME BlobsAreBlobs == \A b \in Blob : IsBlob(b)
ASSUME SkewIsNat == MaxClockSkew \in Nat

TxType == {"TrustIssue", "TrustRevoke", "RepUpdate", "MeetupMeta"}

TRUST_REVOKE_QUORUM_SIZE == 3

AsI8(byte) == IF byte < 128 THEN byte ELSE byte - 256

Parses(text) == parse_cts(text).error = NoError

(* Transaction::new, 2. Validate Content.                                  *)
Content(type, b, quorum) ==
    CASE type = "MeetupMeta"  -> b.text # NotText /\ Parses(b.text)
      [] type = "TrustRevoke" -> quorum >= TRUST_REVOKE_QUORUM_SIZE
      [] type = "RepUpdate"   -> b.len = 1 /\ AsI8(b.first) \in -10..10
      [] OTHER                -> TRUE

(* delta.parse::<i8>() of the blob as text, 0 if it is not a number.  One  *)
(* character is never a sign and a digit.                                  *)
ParsedDelta(text) == CASE text = <<"1">> -> 1
                       [] text = <<"2">> -> 2
                       [] OTHER -> 0

(* 5. Determine Retention Policy.                                          *)
ExtendedRetention(type, b) ==
    \/ type = "TrustRevoke"
    \/ type = "RepUpdate" /\ b.text # NotText /\ ParsedDelta(b.text) < 0

Transaction_new(type, b) ==
    [tx_type |-> type, raw_data |-> b, extended_retention |-> ExtendedRetention(type, b)]

InBlock(tx) == [tx_type |-> tx.tx_type, raw_data |-> tx.raw_data]

------------------------------------------------------------------------------
validate_transaction(tx) ==
    CASE tx.tx_type = "MeetupMeta" ->
            /\ tx.raw_data.text # NotText /\ Parses(tx.raw_data.text)
            /\ LET tags == parse_cts(tx.raw_data.text).tags
               IN \E i \in DOMAIN tags : tags[i].status = "Positive"
      [] tx.tx_type = "TrustRevoke" -> tx.raw_data.len >= TRUST_REVOKE_QUORUM_SIZE * 64
      [] OTHER -> TRUE

(* For the mutation runs: the limit itself is already too far ahead.       *)
validate_block_strict(txs, ahead) ==
    ahead < MaxClockSkew /\ \A i \in DOMAIN txs : validate_transaction(txs[i])

(* ahead: the block's timestamp less the validator's clock.                *)
validate_block(txs, ahead) ==
    ahead <= MaxClockSkew /\ \A i \in DOMAIN txs : validate_transaction(txs[i])

should_extend_retention(txs) == \E i \in DOMAIN txs : txs[i].tx_type = "TrustRevoke"

------------------------------------------------------------------------------
VARIABLES made,      \* the transactions for the next block, as new returned them
          verdict    \* of the last validator to look at it

txVars == <<made, verdict>>

NoVerdict == [ahead |-> 0, valid |-> TRUE, keep |-> FALSE]

TxInit == made = << >> /\ verdict = NoVerdict

make(type, b, quorum) ==
    /\ Len(made) < MaxMade
    /\ Content(type, b, quorum)
    /\ made' = Append(made, Transaction_new(type, b))
    /\ verdict' = NoVerdict

Block == [i \in DOMAIN made |-> InBlock(made[i])]

validate(ahead) ==
    /\ made # << >>
    /\ verdict' = [ahead |-> ahead, valid |-> validate_block(Block, ahead),
                   keep |-> should_extend_retention(Block)]
    /\ UNCHANGED made

TxNext ==
    \/ \E type \in TxType, b \in Blob, q \in Quorum : make(type, b, q)
    \/ \E ahead \in Behind : validate(ahead)

TxSpec == TxInit /\ [][TxNext]_txVars

TxTypeOK ==
    /\ \A i \in DOMAIN made : made[i].tx_type \in TxType /\ made[i].raw_data \in Blob
    /\ verdict.ahead \in {0} \cup Behind

------------------------------------------------------------------------------
(* The two ends agree on the content: a block with the content of what     *)
(* Transaction::new made is valid for every device whose clock is at most  *)
(* MaxClockSkew behind, and is refused by one that is further behind; a    *)
(* block is kept if one of them asked for it, although the flag does not   *)
(* travel.  Revocations are excepted: new counts the signatures of the     *)
(* caller, and validate_transaction the bytes of the data.                 *)
Revokes == \E i \in DOMAIN made :
               /\ made[i].tx_type = "TrustRevoke"
               /\ made[i].raw_data.len < TRUST_REVOKE_QUORUM_SIZE * 64

HonestBlockPasses ==
    ~Revokes => /\ verdict.valid <=> verdict.ahead <= MaxClockSkew
                /\ verdict # NoVerdict /\ (\E i \in DOMAIN made : made[i].extended_retention)
                       => verdict.keep

(* "Keep negative updates longer" (transaction.rs:118): a transaction that *)
(* lowers a reputation asks for extended retention.                        *)
NegativeKept ==
    \A i \in DOMAIN made :
        made[i].tx_type = "RepUpdate" /\ AsI8(made[i].raw_data.first) < 0
            => made[i].extended_retention
==============================================================================
