------------------------------ MODULE MerkleOps -------------------------------
(***************************************************************************)
(* The shape of the trees of chain/merkle.rs and chain/block.rs.  Both     *)
(* build a tree level by level and take the last node of an odd level for  *)
(* its own right neighbour, with all the leaves under it: six leaves are   *)
(* abcdef, then ab cd ef, and then abcd efef.  So the tree is perfect over *)
(* a longer list, whose first part is the given one.                       *)
(***************************************************************************)
EXTENDS Integers, Sequences

(* chunks(2) of n nodes.                                                   *)
LevelAbove(n) == (n + 1) \div 2

(* The right neighbour of a pair may not exist.                            *)
OrLast(i, n) == IF i <= n THEN i ELSE n

(* For n nodes, the longer list: which node stands at each of its places.  *)
(* Place i is under place (i + 1) \div 2 of the level above.               *)
Expansions(max) ==
    LET expansion[n \in 0..max] ==
          IF n <= 1 THEN [i \in 1..n |-> i]
          ELSE LET above == expansion[LevelAbove(n)]
               IN [i \in 1 .. 2 * Len(above) |->
                       OrLast(2 * above[(i + 1) \div 2] - (i % 2), n)]
    IN expansion

Expansion(n) == Expansions(n)[n]
==============================================================================
