------------------------------- MODULE Merkle --------------------------------
(***************************************************************************)
(* chain/merkle.rs: one call of generate_proof, which builds the tree      *)
(* level by level and notes the sibling of the target's node on each, and  *)
(* then verify_proof on what it returned.  calculate_root is the same loop *)
(* without the notes.  A level is a sequence; target_index counts from 0,  *)
(* as in the code.                                                         *)
(*                                                                         *)
(* Hash is the set of digests and Combine the digest of two concatenated   *)
(* ones; nothing is assumed of it but that it returns a digest.            *)
(***************************************************************************)
EXTENDS Integers, Sequences, FiniteSets, SequencesExt, MerkleOps

CONSTANTS Hash,
          Combine(_, _),
          Leaf,            \* leaf hashes of the instance
          MaxLeaves        \* bound on the length of the caller's list

ASSUME HashIsClosed == \A l, r \in Hash : Combine(l, r) \in Hash
ASSUME LeavesAreHashes == Leaf # {} /\ Leaf \subseteq Hash /\ Hash \subseteq Int
ASSUME MaxLeavesIsNat == MaxLeaves \in Nat

Position == {"Left", "Right"}

MerkleStep == [sibling_hash : Hash, position : Position]

VARIABLES leaves,         \* the sorted copy of the list
          current_level,
          current_index,
          steps,          \* MerkleProof.steps
          path,           \* history: the target's node on each level so far
          checked,        \* steps verify_proof has taken
          current_hash,   \* of verify_proof
          stage

merkle_vars ==
    <<leaves, current_level, current_index, steps, path, checked, current_hash, stage>>

Stage == {"idle", "none", "generate", "verify", "true", "false"}

MerkleTypeOK ==
    /\ leaves \in Seq(Leaf)
    /\ current_level \in Seq(Hash)
    /\ current_index \in Nat
    /\ steps \in Seq(MerkleStep)
    /\ path \in Seq(Hash)
    /\ checked \in 0..Len(steps)
    /\ current_hash \in Hash
    /\ stage \in Stage

MerkleInit ==
    /\ leaves = << >> /\ current_level = << >>
    /\ current_index = 0
    /\ steps = << >> /\ path = << >>
    /\ checked = 0
    /\ current_hash = CHOOSE x \in Leaf : TRUE
    /\ stage = "idle"

------------------------------------------------------------------------------
Leaves == BoundedSeq(Leaf, MaxLeaves)

Occurrences(s, x) == Cardinality({i \in DOMAIN s : s[i] = x})

Sorts(s, list) ==
    /\ Len(s) = Len(list)
    /\ \A i, j \in DOMAIN s : i < j => s[i] <= s[j]
    /\ \A x \in Leaf : Occurrences(s, x) = Occurrences(list, x)

(* chunks(2): the node left of each pair, and its right neighbour or, at   *)
(* the end of an odd level, itself.                                        *)
Left(level, i) == level[2 * i - 1]

Right(level, i) == level[IF 2 * i <= Len(level) THEN 2 * i ELSE 2 * i - 1]

(* For the mutation runs: a last odd node is promoted instead of doubled.  *)
NextLevel_Promotes(level) ==
    [i \in 1 .. (Len(level) + 1) \div 2 |->
        IF 2 * i <= Len(level) THEN Combine(Left(level, i), Right(level, i))
                               ELSE Left(level, i)]

NextLevel(level) ==
    [i \in 1 .. (Len(level) + 1) \div 2 |-> Combine(Left(level, i), Right(level, i))]

(* For the mutation runs: the side is that of the sibling's own child.     *)
StepFor_SidesSwapped(level, index) ==
    LET pair == index \div 2 + 1
    IN IF index % 2 = 0
       THEN [sibling_hash |-> Right(level, pair), position |-> "Left"]
       ELSE [sibling_hash |-> Left(level, pair), position |-> "Right"]

StepFor(level, index) ==
    LET pair == index \div 2 + 1
    IN IF index % 2 = 0
       THEN [sibling_hash |-> Right(level, pair), position |-> "Right"]
       ELSE [sibling_hash |-> Left(level, pair), position |-> "Left"]

Apply(hash, step) ==
    IF step.position = "Left" THEN Combine(step.sibling_hash, hash)
                              ELSE Combine(hash, step.sibling_hash)

------------------------------------------------------------------------------
(* The list is sorted first, and the target is a place in the sorted list. *)
generate_proof(list, target_index) ==
    /\ stage = "idle"
    /\ IF target_index < Len(list)
       THEN \E s \in Leaves :
               /\ Sorts(s, list)
               /\ leaves' = s /\ current_level' = s
               /\ current_index' = target_index
               /\ path' = <<s[target_index + 1]>>
               /\ current_hash' = s[target_index + 1]
               /\ stage' = "generate"
               /\ UNCHANGED <<steps, checked>>
       ELSE /\ stage' = "none"
            /\ UNCHANGED <<leaves, current_level, current_index, steps, path, checked,
                           current_hash>>

fold_level ==
    /\ stage = "generate" /\ Len(current_level) > 1
    /\ steps' = Append(steps, StepFor(current_level, current_index))
    /\ current_level' = NextLevel(current_level)
    /\ current_index' = current_index \div 2
    /\ path' = Append(path, NextLevel(current_level)[current_index \div 2 + 1])
    /\ UNCHANGED <<leaves, checked, current_hash, stage>>

return_proof ==
    /\ stage = "generate" /\ Len(current_level) = 1
    /\ stage' = "verify"
    /\ UNCHANGED <<leaves, current_level, current_index, steps, path, checked, current_hash>>

verify_step ==
    /\ stage = "verify" /\ checked < Len(steps)
    /\ current_hash' = Apply(current_hash, steps[checked + 1])
    /\ checked' = checked + 1
    /\ UNCHANGED <<leaves, current_level, current_index, steps, path, stage>>

verify_root ==
    /\ stage = "verify" /\ checked = Len(steps)
    /\ stage' = IF current_hash = current_level[1] THEN "true" ELSE "false"
    /\ UNCHANGED <<leaves, current_level, current_index, steps, path, checked, current_hash>>

MerkleNext ==
    \/ \E list \in Leaves, t \in 0..MaxLeaves : generate_proof(list, t)
    \/ fold_level \/ return_proof \/ verify_step \/ verify_root

MerkleSpec == MerkleInit /\ [][MerkleNext]_merkle_vars

------------------------------------------------------------------------------
(* A proof the code generates is a proof the code accepts, for every list  *)
(* with or without repeated leaves and every place in it: the sides, the   *)
(* doubled last node and the halved index of all levels fit together.      *)
ProofVerifies == stage # "false"

(* The level-by-level loop computes the root of a perfect binary tree over *)
(* the expanded list of leaves: on every level the loop holds the first    *)
(* nodes of that tree's level.                                             *)
PerfectTree ==
    LET expansion == Expansion(Len(leaves))
        tree[h \in 0..Len(steps)] ==
          [i \in Nat \ {0} |-> IF h = 0 THEN leaves[expansion[i]]
                               ELSE Combine(tree[h - 1][2 * i - 1], tree[h - 1][2 * i])]
    IN tree

LevelsArePerfect ==
    \A i \in DOMAIN current_level : current_level[i] = PerfectTree[Len(steps)][i]

==============================================================================
