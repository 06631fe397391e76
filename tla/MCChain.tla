------------------------------ MODULE MCChain --------------------------------
(***************************************************************************)
(* Four parts of the chain that share no state: Merkle proofs, the local   *)
(* chains, the text of the tags a meetup transaction carries, and the      *)
(* content of transactions.  A behaviour is about one of them.             *)
(*                                                                         *)
(* Of up to six leaves five double a last node on two levels, and six one  *)
(* with two leaves under it.  Two validators make three blocks, so that    *)
(* two compete for one height and a third names one of them, or neither;   *)
(* their list is unsorted and expanded to four leaves.  The blobs have     *)
(* texts that parse and texts that do not, the deltas -10, 10 and those    *)
(* next to them, and lengths around three signatures.                      *)
(***************************************************************************)
EXTENDS Merkle, AppChain, Transactions

VARIABLE part

MCHash == 0..250

MCCombine(l, r) == (31 * l + 7 * r * r + 11) % 251

Texts == {<<"1">>, <<"a">>, <<"a", "0", "b">>, <<"a", "1", "b", "2", "b">>,
          <<"0", "a">>, <<"a", "2", "b">>}

FirstByte(t) == CASE t[1] = "0" -> 48 [] t[1] = "1" -> 49 [] OTHER -> 97

MCBlob == {[text |-> t, len |-> Len(t), first |-> FirstByte(t)] : t \in Texts}
             \cup {[text |-> <<"b">>, len |-> 1, first |-> b] : b \in {10, 11}}
             \cup {[text |-> NotText, len |-> 1, first |-> b] : b \in {245, 246}}
             \cup {[text |-> NotText, len |-> n, first |-> 200] : n \in {191, 192}}

MCProposed == {<<3, 1, 2>>}

Init == /\ part \in {"merkle", "chain", "cts", "transactions"}
        /\ MerkleInit /\ ChainInit /\ CtsInit /\ TxInit

Next == \/ part = "merkle" /\ MerkleNext
           /\ UNCHANGED <<part, chainVars, typed, txVars>>
        \/ part = "chain" /\ ChainNext
           /\ UNCHANGED <<part, merkle_vars, typed, txVars>>
        \/ part = "cts" /\ CtsNext
           /\ UNCHANGED <<part, merkle_vars, chainVars, txVars>>
        \/ part = "transactions" /\ TxNext
           /\ UNCHANGED <<part, merkle_vars, chainVars, typed>>

Spec == Init /\ [][Next]_<<part, merkle_vars, chainVars, typed, txVars>>

TypeOK == MerkleTypeOK /\ ChainTypeOK /\ CtsTypeOK /\ TxTypeOK
==============================================================================
