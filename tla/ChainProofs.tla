---------------------------- MODULE ChainProofs ------------------------------
(***************************************************************************)
(* The trees, the local chains and the whole of module MCChain, for any    *)
(* number of leaves, validators, transactions and blocks.                  *)
(*                                                                         *)
(*   1. The lists behind the trees of module MerkleOps.                    *)
(*   2. Merkle: a generated proof verifies, and the tree is perfect.       *)
(*   3. AppChain: every committed block is one that somebody signed.       *)
(*   4. The types of all parts.                                            *)
(***************************************************************************)
EXTENDS MCChain, CtsProofs

(* The list of places for n nodes, given those for fewer.                  *)
ExpansionOf(e, n) ==
    IF n <= 1 THEN [i \in 1..n |-> i]
    ELSE [i \in 1 .. 2 * Len(e[LevelAbove(n)]) |->
             OrLast(2 * e[LevelAbove(n)][(i + 1) \div 2] - (i % 2), n)]

AreExpansions(e, max) == e = [n \in 0..max |-> ExpansionOf(e, n)]

LEMMA ExpansionsExist == \A max \in Nat : \E e : AreExpansions(e, max)
  <1> DEFINE S == {max \in Nat : \E e : AreExpansions(e, max)}
  <1>1. 0 \in S
    <2> DEFINE e == [n \in 0..0 |-> [i \in 1..0 |-> i]]
    <2>1. AreExpansions(e, 0)
      <3>1. 0..0 = {0}
        OBVIOUS
      <3> QED
        BY <3>1 DEF AreExpansions, ExpansionOf
    <2> QED
      BY <2>1
  <1>2. ASSUME NEW max \in Nat, max \in S
        PROVE  max + 1 \in S
    <2>1. PICK e : AreExpansions(e, max)
      BY <1>2
    <2> DEFINE f == [n \in 0 .. max + 1 |-> IF n <= max THEN e[n] ELSE ExpansionOf(e, n)]
    <2>2. ASSUME NEW n \in 0 .. max + 1
          PROVE  f[n] = ExpansionOf(f, n)
      <3>1. f[n] = ExpansionOf(e, n)
        BY <2>1, <2>2 DEF AreExpansions
      <3>2. CASE n <= 1
        BY <3>1, <3>2 DEF ExpansionOf
      <3>3. CASE n > 1
        <4>1. LevelAbove(n) \in 0..max
          BY <2>2, <3>3 DEF LevelAbove
        <4>2. f[LevelAbove(n)] = e[LevelAbove(n)]
          BY <4>1
        <4> HIDE DEF f
        <4> QED
          BY <3>1, <4>2, <3>3 DEF ExpansionOf
      <3> QED
        BY <3>2, <3>3, <2>2
    <2>3. AreExpansions(f, max + 1)
      BY <2>2 DEF AreExpansions
    <2> QED
      BY <2>3
  <1> HIDE DEF S
  <1>3. Nat \subseteq S
    BY <1>1, <1>2, SetInduction
  <1> QED
    BY <1>3 DEF S

LEMMA ExpansionsUnfold == \A max \in Nat : AreExpansions(Expansions(max), max)
  <1> TAKE max \in Nat
  <1>1. PICK e : AreExpansions(e, max)
    BY ExpansionsExist
  <1> QED
    BY <1>1, Zenon DEF AreExpansions, ExpansionOf, Expansions

(* The expanded list begins with the given one and continues with nodes of *)
(* it.                                                                     *)
Expands(e, n) ==
    /\ Len(e) \in Nat /\ DOMAIN e = 1..Len(e)
    /\ n <= Len(e)
    /\ \A i \in 1..Len(e) : e[i] \in 1..n
    /\ \A i \in 1..n : e[i] = i

LEMMA ExpansionStep ==
    ASSUME NEW n \in Nat, n > 1, NEW above, Expands(above, LevelAbove(n))
    PROVE  Expands([i \in 1 .. 2 * Len(above) |->
                       OrLast(2 * above[(i + 1) \div 2] - (i % 2), n)], n)
  <1> DEFINE w == 2 * Len(above)
             f == [i \in 1..w |-> OrLast(2 * above[(i + 1) \div 2] - (i % 2), n)]
  <1>1. w \in Nat /\ n <= w
    BY DEF Expands, LevelAbove
  <1>2. ASSUME NEW i \in 1..w
        PROVE  f[i] \in 1..n /\ (i <= n => f[i] = i)
    <2>1. (i + 1) \div 2 \in 1..Len(above) /\ i % 2 \in 0..1
          /\ 2 * ((i + 1) \div 2) - (i % 2) = i
      BY <1>1, <1>2 DEF Expands
    <2>2. above[(i + 1) \div 2] \in 1..LevelAbove(n)
      BY <2>1 DEF Expands
    <2>3. i <= n => (i + 1) \div 2 \in 1..LevelAbove(n)
      BY <1>1 DEF LevelAbove
    <2>4. i <= n => above[(i + 1) \div 2] = (i + 1) \div 2
      BY <2>3 DEF Expands
    <2>5. LevelAbove(n) \in Nat
      BY DEF LevelAbove
    <2> QED
      BY <2>1, <2>2, <2>4, <2>5 DEF OrLast
  <1>3. f \in [1..w -> 1..n] /\ DOMAIN f = 1..w
    BY <1>2
  <1> HIDE DEF f
  <1>4. f \in Seq(1..n) /\ Len(f) = w
    BY <1>1, <1>3
  <1>5. Expands(f, n)
    BY <1>1, <1>2, <1>3, <1>4 DEF Expands
  <1> QED
    BY <1>5 DEF f

LEMMA ExpansionsExpand ==
    ASSUME NEW max \in Nat
    PROVE  \A n \in 0..max : Expands(Expansions(max)[n], n)
  <1> DEFINE e == Expansions(max)
             S == {m \in Nat : \A n \in 0..max : n <= m => Expands(e[n], n)}
  <1>1. \A n \in 0..max : e[n] = ExpansionOf(e, n)
    BY ExpansionsUnfold DEF AreExpansions
  <1> HIDE DEF e
  <1>2. ASSUME NEW n \in 0..max, n <= 1
        PROVE  Expands(e[n], n)
    <2> DEFINE f == [i \in 1..n |-> i]
    <2>1. e[n] = f
      BY <1>1, <1>2 DEF ExpansionOf
    <2>2. f \in [1..n -> 1..n] /\ DOMAIN f = 1..n /\ n \in Nat /\ \A i \in 1..n : f[i] = i
      OBVIOUS
    <2> HIDE DEF f
    <2>3. f \in Seq(1..n) /\ Len(f) = n
      BY <2>2
    <2> QED
      BY <2>1, <2>2, <2>3 DEF Expands
  <1>3. 0 \in S
    BY <1>2
  <1>4. ASSUME NEW m \in Nat, m \in S
        PROVE  m + 1 \in S
    <2> SUFFICES ASSUME NEW n \in 0..max, n <= m + 1
                 PROVE  Expands(e[n], n)
      OBVIOUS
    <2>1. CASE n <= 1
      BY <1>2, <2>1
    <2>2. CASE n > 1
      <3>1. LevelAbove(n) \in 0..max /\ LevelAbove(n) <= m
        BY <2>2 DEF LevelAbove
      <3>2. Expands(e[LevelAbove(n)], LevelAbove(n))
        BY <1>4, <3>1
      <3>3. e[n] = [i \in 1 .. 2 * Len(e[LevelAbove(n)]) |->
                       OrLast(2 * e[LevelAbove(n)][(i + 1) \div 2] - (i % 2), n)]
        <4>1. e[n] = ExpansionOf(e, n) /\ ~(n <= 1)
          BY <1>1, <2>2
        <4> QED
          BY <4>1, Zenon DEF ExpansionOf
      <3>4. ASSUME NEW above, above = e[LevelAbove(n)]
            PROVE  Expands(e[n], n)
        BY <2>2, <3>2, <3>3, <3>4, ExpansionStep
      <3> QED
        BY <3>4
    <2> QED
      BY <2>1, <2>2
  <1> HIDE DEF S
  <1>5. Nat \subseteq S
    BY <1>3, <1>4, SetInduction
  <1>6. \A n \in 0..max : n \in S
    BY <1>5
  <1>7. \A n \in 0..max : Expands(e[n], n)
    BY <1>6 DEF S
  <1> QED
    BY <1>7 DEF e

------------------------------------------------------------------------------
(* 2. chain/merkle.rs.                                                     *)

(* What generate_proof has done when it is on a level, and verify_proof    *)
(* when it is on a step: the target's node on every level is the hash of   *)
(* the one below with the noted sibling, and verify_proof walks that path. *)
OnPath ==
    /\ current_index + 1 \in DOMAIN current_level
    /\ Len(path) = Len(steps) + 1
    /\ path[Len(path)] = current_level[current_index + 1]
    /\ \A k \in 1..Len(steps) : path[k + 1] = Apply(path[k], steps[k])
    /\ current_hash = path[checked + 1]
    /\ stage = "generate" => checked = 0
    /\ stage # "generate" => Len(current_level) = 1
    /\ stage # "false"

NotStarted == /\ stage \in {"idle", "none"}
              /\ leaves = << >> /\ current_level = << >> /\ steps = << >> /\ checked = 0

MerkleInv == MerkleTypeOK /\ (NotStarted \/ (stage \notin {"idle", "none"} /\ OnPath))

LEMMA LeavesAreLists ==
    ASSUME NEW s \in Leaves
    PROVE  s \in Seq(Leaf) /\ s \in Seq(Hash) /\ DOMAIN s = 1..Len(s) /\ Len(s) \in Nat
  <1>1. s \in Seq(Leaf)
    BY MaxLeavesIsNat DEF Leaves, BoundedSeq, SeqOf
  <1>2. Len(s) \in Nat /\ DOMAIN s = 1..Len(s)
    BY <1>1
  <1>3. \A i \in 1..Len(s) : s[i] \in Leaf
    BY <1>1
  <1>4. \A x \in Leaf : x \in Hash
    BY LeavesAreHashes, Zenon
  <1>5. s = [i \in 1..Len(s) |-> s[i]]
    BY <1>1
  <1>6. s \in Seq(Hash)
    BY <1>2, <1>3, <1>4, <1>5
  <1> QED
    BY <1>1, <1>2, <1>6

LEMMA NextLevelIsLevel ==
    ASSUME NEW level \in Seq(Hash)
    PROVE  /\ NextLevel(level) \in Seq(Hash)
           /\ Len(NextLevel(level)) = LevelAbove(Len(level))
           /\ DOMAIN NextLevel(level) = 1..LevelAbove(Len(level))
           /\ \A i \in 1..LevelAbove(Len(level)) :
                 /\ Left(level, i) \in Hash /\ Right(level, i) \in Hash
                 /\ NextLevel(level)[i] = Combine(Left(level, i), Right(level, i))
  <1> DEFINE m == LevelAbove(Len(level))
             f == [i \in 1..m |-> Combine(Left(level, i), Right(level, i))]
  <1>1. m \in Nat /\ NextLevel(level) = f
    BY DEF NextLevel, LevelAbove
  <1>2. ASSUME NEW i \in 1..m
        PROVE  Left(level, i) \in Hash /\ Right(level, i) \in Hash
    BY <1>2 DEF Left, Right, LevelAbove
  <1>3. \A i \in 1..m : Combine(Left(level, i), Right(level, i)) \in Hash
    BY <1>2, HashIsClosed, Zenon
  <1>4. f \in [1..m -> Hash]
    BY <1>3
  <1>5. /\ DOMAIN f = 1..m
        /\ \A i \in 1..m : f[i] = Combine(Left(level, i), Right(level, i))
    OBVIOUS
  <1> HIDE DEF f
  <1>6. f \in Seq(Hash) /\ Len(f) = m
    BY <1>1, <1>4, <1>5
  <1> HIDE DEF m
  <1> QED
    BY <1>1, <1>2, <1>5, <1>6, Zenon DEF m

(* The noted sibling makes of the node the node above.                     *)
LEMMA StepForIsStep ==
    ASSUME NEW level \in Seq(Hash), NEW index \in Nat, index + 1 \in DOMAIN level
    PROVE  /\ StepFor(level, index) \in MerkleStep
           /\ index \div 2 + 1 \in 1..LevelAbove(Len(level))
           /\ NextLevel(level)[index \div 2 + 1]
                 = Apply(level[index + 1], StepFor(level, index))
  <1> DEFINE pair == index \div 2 + 1
  <1>1. pair \in 1..LevelAbove(Len(level))
    BY DEF LevelAbove
  <1>2. /\ Left(level, pair) \in Hash /\ Right(level, pair) \in Hash
        /\ NextLevel(level)[pair] = Combine(Left(level, pair), Right(level, pair))
    BY <1>1, NextLevelIsLevel
  <1>3. CASE index % 2 = 0
    <2>1. level[index + 1] = Left(level, pair)
      <3>1. 2 * pair - 1 = index + 1
        BY <1>3
      <3> QED
        BY <3>1 DEF Left
    <2>2. StepFor(level, index) = [sibling_hash |-> Right(level, pair), position |-> "Right"]
      BY <1>3, Zenon DEF StepFor
    <2> QED
      BY <1>1, <1>2, <2>1, <2>2 DEF Apply, MerkleStep, Position
  <1>4. CASE index % 2 # 0
    <2>1. level[index + 1] = Right(level, pair)
      <3>1. 2 * pair = index + 1 /\ 2 * pair <= Len(level)
        BY <1>4
      <3> QED
        BY <3>1 DEF Right
    <2>2. StepFor(level, index) = [sibling_hash |-> Left(level, pair), position |-> "Left"]
      BY <1>4, Zenon DEF StepFor
    <2> QED
      BY <1>1, <1>2, <2>1, <2>2 DEF Apply, MerkleStep, Position
  <1> QED
    BY <1>3, <1>4

LEMMA MerkleInitInv == MerkleInit => MerkleInv
  <1> SUFFICES ASSUME MerkleInit
               PROVE  MerkleInv
    OBVIOUS
  <1>1. current_hash \in Leaf
    BY LeavesAreHashes, Zenon DEF MerkleInit
  <1>2. /\ << >> \in Seq(Leaf) /\ << >> \in Seq(Hash) /\ << >> \in Seq(MerkleStep)
        /\ 0 \in 0..Len(<< >>) /\ 0 \in Nat
    OBVIOUS
  <1>3. current_hash \in Hash
    BY <1>1, LeavesAreHashes, Zenon
  <1> QED
    BY <1>2, <1>3, Zenon DEF MerkleInit, MerkleInv, MerkleTypeOK, NotStarted, Stage

LEMMA GenerateKeepsInv ==
    ASSUME MerkleInv, NEW list \in Leaves, NEW t \in 0..MaxLeaves, generate_proof(list, t)
    PROVE  MerkleInv'
  <1>1. stage = "idle" /\ NotStarted
    BY DEF generate_proof, MerkleInv
  <1>2. CASE t < Len(list)
    <2>1. PICK s \in Leaves :
             /\ Len(s) = Len(list)
             /\ leaves' = s /\ current_level' = s /\ current_index' = t
             /\ path' = <<s[t + 1]>> /\ current_hash' = s[t + 1]
             /\ stage' = "generate"
             /\ steps' = steps /\ checked' = checked
      BY <1>2 DEF generate_proof, Sorts
    <2>2. s \in Seq(Leaf) /\ s \in Seq(Hash) /\ DOMAIN s = 1..Len(s) /\ Len(s) \in Nat
      BY LeavesAreLists
    <2>3. t + 1 \in DOMAIN s /\ t \in Nat /\ s[t + 1] \in Hash
      BY <1>2, <2>1, <2>2, MaxLeavesIsNat
    <2>4. MerkleTypeOK'
      BY <1>1, <2>1, <2>2, <2>3 DEF MerkleInv, MerkleTypeOK, NotStarted, Stage
    <2>5. OnPath'
      BY <1>1, <2>1, <2>2, <2>3 DEF OnPath, NotStarted
    <2> QED
      BY <2>1, <2>4, <2>5 DEF MerkleInv
  <1>3. CASE ~(t < Len(list))
    BY <1>1, <1>3 DEF generate_proof, MerkleInv, MerkleTypeOK, NotStarted, Stage
  <1> QED
    BY <1>2, <1>3

LEMMA FoldKeepsInv ==
    ASSUME MerkleInv, fold_level
    PROVE  MerkleInv'
  <1>1. OnPath /\ MerkleTypeOK /\ checked = 0
    BY DEF fold_level, MerkleInv, NotStarted, OnPath
  <1> DEFINE up == NextLevel(current_level)
             step == StepFor(current_level, current_index)
             above == current_index \div 2
  <1>2. /\ steps' = Append(steps, step) /\ current_level' = up
        /\ current_index' = above /\ path' = Append(path, up[above + 1])
        /\ UNCHANGED <<leaves, checked, current_hash, stage>> /\ stage = "generate"
    BY DEF fold_level
  <1>3. current_level \in Seq(Hash) /\ current_index \in Nat
        /\ current_index + 1 \in DOMAIN current_level
    BY <1>1 DEF MerkleTypeOK, OnPath
  <1>4. /\ step \in MerkleStep
        /\ above + 1 \in 1..LevelAbove(Len(current_level))
        /\ up[above + 1] = Apply(current_level[current_index + 1], step)
    BY <1>3, StepForIsStep
  <1>5. up \in Seq(Hash) /\ DOMAIN up = 1..LevelAbove(Len(current_level))
    BY <1>3, NextLevelIsLevel
  <1>6. above \in Nat
    BY <1>3
  <1>7. up[above + 1] \in Hash
    <2>1. \A s \in Seq(Hash) : \A i \in DOMAIN s : s[i] \in Hash
      OBVIOUS
    <2> QED
      BY <1>4, <1>5, <2>1, Zenon
  <1> HIDE DEF up, step, above
  <1>8. MerkleTypeOK'
    BY <1>1, <1>2, <1>4, <1>5, <1>6, <1>7 DEF MerkleTypeOK
  <1>9. OnPath'
    <2> USE <1>1, <1>2 DEF MerkleTypeOK, OnPath
    <2>1. Len(path') = Len(steps') + 1 /\ path'[Len(path')] = up[above + 1]
      BY <1>7, <1>4
    <2>2. ASSUME NEW k \in 1..Len(steps')
          PROVE  path'[k + 1] = Apply(path'[k], steps'[k])
      <3>1. CASE k \in 1..Len(steps)
        BY <3>1, <1>4, <1>7
      <3>2. CASE k = Len(steps) + 1
        BY <3>2, <1>4, <1>7
      <3> QED
        BY <3>1, <3>2, <1>4
    <2>3. current_hash' = path'[checked' + 1]
      BY <1>7
    <2> QED
      BY <2>1, <2>2, <2>3, <1>4, <1>5
  <1> QED
    BY <1>2, <1>8, <1>9 DEF MerkleInv

LEMMA VerifyKeepsInv ==
    ASSUME MerkleInv, return_proof \/ verify_step \/ verify_root
    PROVE  MerkleInv'
  <1>1. OnPath /\ MerkleTypeOK /\ stage \notin {"idle", "none"}
    BY DEF return_proof, verify_step, verify_root, MerkleInv, NotStarted
  <1>2. CASE return_proof
    BY <1>1, <1>2 DEF return_proof, MerkleInv, OnPath, MerkleTypeOK, Stage
  <1>3. CASE verify_step
    <2>1. path[checked + 2] = Apply(path[checked + 1], steps[checked + 1])
          /\ checked + 1 \in 0..Len(steps) /\ path[checked + 2] \in Hash
      BY <1>1, <1>3 DEF verify_step, OnPath, MerkleTypeOK
    <2>2. current_hash' = path[checked' + 1] /\ checked' = checked + 1
      BY <1>1, <1>3, <2>1 DEF verify_step, OnPath, MerkleTypeOK
    <2>3. MerkleTypeOK'
      BY <1>1, <1>3, <2>1, <2>2 DEF verify_step, MerkleTypeOK
    <2>4. OnPath'
      BY <1>1, <1>3, <2>2 DEF verify_step, OnPath
    <2> QED
      BY <1>1, <1>3, <2>3, <2>4 DEF MerkleInv, verify_step
  <1>4. CASE verify_root
    <2>1. Len(current_level) = 1 /\ current_level \in Seq(Hash)
      BY <1>1, <1>4 DEF verify_root, OnPath, MerkleTypeOK
    <2>2. current_index + 1 = 1
      BY <1>1, <2>1 DEF OnPath, MerkleTypeOK
    <2>3. current_hash = current_level[1]
      BY <1>1, <1>4, <2>2 DEF verify_root, OnPath
    <2>4. stage' = "true"
      BY <1>4, <2>3 DEF verify_root
    <2> QED
      BY <1>1, <1>4, <2>1, <2>4 DEF verify_root, OnPath, MerkleInv, MerkleTypeOK, Stage
  <1> QED
    BY <1>2, <1>3, <1>4

LEMMA MerkleNextKeepsInv ==
    ASSUME MerkleInv, [MerkleNext]_merkle_vars
    PROVE  MerkleInv'
  <1>1. CASE UNCHANGED merkle_vars
    BY <1>1 DEF merkle_vars, MerkleInv, MerkleTypeOK, NotStarted, OnPath
  <1> QED
    BY <1>1, GenerateKeepsInv, FoldKeepsInv, VerifyKeepsInv DEF MerkleNext

LEMMA MerkleAlwaysInv == MerkleSpec => []MerkleInv
  BY MerkleInitInv, MerkleNextKeepsInv, PTL DEF MerkleSpec

(* The loops of chain/merkle.rs stay within their lists.                   *)
THEOREM MerkleTypeCorrect == MerkleSpec => []MerkleTypeOK
  <1>1. MerkleInv => MerkleTypeOK
    BY DEF MerkleInv
  <1> QED
    BY <1>1, MerkleAlwaysInv, PTL

(* verify_proof accepts every proof generate_proof returns, for every list *)
(* of leaves and every place in it, and whatever the digest function.      *)
THEOREM ProofsVerify == MerkleSpec => []ProofVerifies
  <1>1. MerkleInv => ProofVerifies
    BY DEF MerkleInv, NotStarted, OnPath, ProofVerifies
  <1> QED
    BY <1>1, MerkleAlwaysInv, PTL

(* Level h of the perfect tree over the leaves s placed by e, given the    *)
(* levels below.                                                           *)
TreeLevel(tree, s, e, h) ==
    [i \in Nat \ {0} |-> IF h = 0 THEN s[e[i]]
                         ELSE Combine(tree[h - 1][2 * i - 1], tree[h - 1][2 * i])]

IsTree(tree, s, e, top) == \A h \in 0..top : tree[h] = TreeLevel(tree, s, e, h)

LEMMA TreesExist ==
    ASSUME NEW s, NEW e
    PROVE  \A top \in Nat : \E tree : tree = [h \in 0..top |-> TreeLevel(tree, s, e, h)]
  <1> DEFINE S == {top \in Nat : \E tree : tree = [h \in 0..top |-> TreeLevel(tree, s, e, h)]}
  <1>1. 0 \in S
    <2> DEFINE t == [h \in 0..0 |-> [i \in Nat \ {0} |-> s[e[i]]]]
    <2>1. t = [h \in 0..0 |-> TreeLevel(t, s, e, h)]
      <3>1. 0..0 = {0}
        OBVIOUS
      <3> QED
        BY <3>1 DEF TreeLevel
    <2> QED
      BY <2>1
  <1>2. ASSUME NEW top \in Nat, top \in S
        PROVE  top + 1 \in S
    <2>1. PICK t : t = [h \in 0..top |-> TreeLevel(t, s, e, h)]
      BY <1>2
    <2> DEFINE u == [h \in 0 .. top + 1 |-> IF h <= top THEN t[h] ELSE TreeLevel(t, s, e, h)]
    <2>2. ASSUME NEW h \in 0 .. top + 1
          PROVE  u[h] = TreeLevel(u, s, e, h)
      <3>1. u[h] = TreeLevel(t, s, e, h)
        BY <2>1, <2>2
      <3>2. CASE h = 0
        BY <3>1, <3>2 DEF TreeLevel
      <3>3. CASE h # 0
        <4>1. h - 1 \in 0..top
          BY <2>2, <3>3
        <4>2. u[h - 1] = t[h - 1]
          BY <4>1
        <4> HIDE DEF u
        <4> QED
          BY <3>1, <3>3, <4>2 DEF TreeLevel
      <3> QED
        BY <3>2, <3>3
    <2>3. u = [h \in 0 .. top + 1 |-> TreeLevel(u, s, e, h)]
      BY <2>2
    <2> HIDE DEF u
    <2>4. top + 1 \in Nat
      OBVIOUS
    <2> QED
      BY <2>3, <2>4
  <1> HIDE DEF S
  <1>3. Nat \subseteq S
    BY <1>1, <1>2, SetInduction
  <1> QED
    BY <1>3 DEF S

LEMMA PerfectTreeIsTree ==
    ASSUME Len(steps) \in Nat
    PROVE  IsTree(PerfectTree, leaves, Expansion(Len(leaves)), Len(steps))
  <1> DEFINE e == Expansion(Len(leaves))
  <1>1. \E t : t = [h \in 0..Len(steps) |-> TreeLevel(t, leaves, e, h)]
    BY TreesExist
  <1>2. PerfectTree = CHOOSE tree : tree = [h \in 0..Len(steps) |-> TreeLevel(tree, leaves, e, h)]
    BY DEF PerfectTree, TreeLevel
  <1>3. PerfectTree = [h \in 0..Len(steps) |-> TreeLevel(PerfectTree, leaves, e, h)]
    BY <1>1, <1>2, Zenon
  <1> QED
    BY <1>3 DEF IsTree

(* The level the loop is on is what the tree's level is made of.           *)
OnTree ==
    LET e == Expansions(Len(leaves))
        n == Len(current_level)
    IN /\ n <= Len(leaves)
       /\ \A tree : IsTree(tree, leaves, e[Len(leaves)], Len(steps)) =>
             \A i \in 1..Len(e[n]) : tree[Len(steps)][i] = current_level[e[n][i]]

(* One level of both.                                                      *)
Doubles(below, above, n) ==
    below = [i \in 1 .. 2 * Len(above) |-> OrLast(2 * above[(i + 1) \div 2] - (i % 2), n)]

(* Where the children of the nodes of the level above are.                 *)
LevelUnder(level, above, below) ==
    \A i \in 1..Len(above) :
        /\ 2 * i - 1 \in 1..2 * Len(above) /\ 2 * i \in 1..2 * Len(above)
        /\ above[i] \in 1..LevelAbove(Len(level))
        /\ level[below[2 * i - 1]] = Left(level, above[i])
        /\ level[below[2 * i]] = Right(level, above[i])

LEMMA LevelOfTree ==
    ASSUME NEW level \in Seq(Hash), Len(level) > 1,
           NEW above, Expands(above, LevelAbove(Len(level))),
           NEW below, Doubles(below, above, Len(level))
    PROVE  LevelUnder(level, above, below)
  <1> SUFFICES ASSUME NEW i \in 1..Len(above)
               PROVE  /\ 2 * i - 1 \in 1..2 * Len(above) /\ 2 * i \in 1..2 * Len(above)
                      /\ above[i] \in 1..LevelAbove(Len(level))
                      /\ level[below[2 * i - 1]] = Left(level, above[i])
                      /\ level[below[2 * i]] = Right(level, above[i])
    BY DEF LevelUnder
  <1>1. above[i] \in 1..LevelAbove(Len(level)) /\ Len(above) \in Nat
    BY DEF Expands
  <1>2. 2 * i - 1 \in 1..2 * Len(above) /\ 2 * i \in 1..2 * Len(above)
    BY <1>1
  <1>3. ((2 * i - 1) + 1) \div 2 = i /\ (2 * i - 1) % 2 = 1
        /\ (2 * i + 1) \div 2 = i /\ (2 * i) % 2 = 0
    BY <1>1
  <1>4. /\ below[2 * i - 1] = OrLast(2 * above[i] - 1, Len(level))
        /\ below[2 * i] = OrLast(2 * above[i] - 0, Len(level))
    BY <1>2, <1>3 DEF Doubles
  <1>5. \A n \in Nat : \A a \in 1..LevelAbove(n) :
           /\ OrLast(2 * a - 1, n) = 2 * a - 1
           /\ OrLast(2 * a - 0, n) = IF 2 * a <= n THEN 2 * a ELSE 2 * a - 1
    BY DEF OrLast, LevelAbove
  <1>6. /\ below[2 * i - 1] = 2 * above[i] - 1
        /\ below[2 * i] = IF 2 * above[i] <= Len(level) THEN 2 * above[i] ELSE 2 * above[i] - 1
    <2>1. Len(level) \in Nat
      OBVIOUS
    <2> QED
      BY <1>1, <1>4, <1>5, <2>1, Zenon
  <1> QED
    BY <1>1, <1>2, <1>6 DEF Left, Right

LEMMA FoldKeepsOnTree ==
    ASSUME MerkleInv, OnTree, fold_level
    PROVE  OnTree'
  <1> DEFINE e == Expansions(Len(leaves))
             n == Len(current_level)
             m == LevelAbove(n)
             H == Len(steps)
  <1>1. /\ current_level \in Seq(Hash) /\ n \in Nat /\ n > 1 /\ n <= Len(leaves)
        /\ Len(leaves) \in Nat /\ H \in Nat
        /\ current_level' = NextLevel(current_level) /\ leaves' = leaves
        /\ Len(steps') = H + 1
    BY DEF MerkleInv, MerkleTypeOK, fold_level, OnTree
  <1>2. /\ Len(current_level') = m /\ m \in Nat /\ m <= Len(leaves) /\ n \in 0..Len(leaves)
        /\ m \in 0..Len(leaves)
    BY <1>1, NextLevelIsLevel DEF LevelAbove
  <1>3. Expands(e[m], m)
    BY <1>1, <1>2, ExpansionsExpand
  <1>4. Doubles(e[n], e[m], n)
    <2>1. e[n] = ExpansionOf(e, n) /\ ~(n <= 1)
      <3>1. AreExpansions(e, Len(leaves))
        BY <1>1, ExpansionsUnfold
      <3> QED
        BY <1>1, <1>2, <3>1 DEF AreExpansions
    <2> QED
      BY <2>1, Zenon DEF ExpansionOf, Doubles
  <1>5. Len(e[n]) = 2 * Len(e[m]) /\ Len(e[m]) \in Nat
    <2>1. Expands(e[n], n)
      BY <1>1, <1>2, ExpansionsExpand
    <2>2. Len(e[n]) \in Nat /\ DOMAIN e[n] = 1..Len(e[n]) /\ Len(e[m]) \in Nat
      BY <1>3, <2>1 DEF Expands
    <2>3. 1..Len(e[n]) = 1 .. 2 * Len(e[m])
      BY <1>4, <2>2 DEF Doubles
    <2>4. 2 * Len(e[m]) \in Nat
      BY <2>2
    <2>5. \A x, y \in Nat : 1..x = 1..y => x = y
      OBVIOUS
    <2> QED
      BY <2>2, <2>3, <2>4, <2>5, Zenon
  <1> HIDE DEF e, m, n, H
  <1>6. ASSUME NEW tree, IsTree(tree, leaves, e[Len(leaves)], H + 1),
               NEW i \in 1..Len(e[m])
        PROVE  tree[H + 1][i] = NextLevel(current_level)[e[m][i]]
    <2>1. IsTree(tree, leaves, e[Len(leaves)], H)
      BY <1>1, <1>6 DEF IsTree
    <2>2. \A j \in 1..Len(e[n]) : tree[H][j] = current_level[e[n][j]]
      BY <2>1 DEF OnTree, e, n, H
    <2>3. /\ 2 * i - 1 \in 1..2 * Len(e[m]) /\ 2 * i \in 1..2 * Len(e[m])
          /\ e[m][i] \in 1..m
          /\ current_level[e[n][2 * i - 1]] = Left(current_level, e[m][i])
          /\ current_level[e[n][2 * i]] = Right(current_level, e[m][i])
      <3>1. /\ current_level \in Seq(Hash) /\ Len(current_level) > 1
            /\ Expands(e[m], LevelAbove(Len(current_level))) /\ i \in 1..Len(e[m])
        BY <1>1, <1>3, <1>6 DEF m, n
      <3>2. Doubles(e[n], e[m], Len(current_level))
        BY <1>4, Zenon DEF n
      <3>3. \A above, below :
               /\ Expands(above, LevelAbove(Len(current_level)))
               /\ Doubles(below, above, Len(current_level))
               => LevelUnder(current_level, above, below)
        BY <3>1, LevelOfTree
      <3>4. LevelUnder(current_level, e[m], e[n])
        BY <3>1, <3>2, <3>3, Zenon
      <3> QED
        BY <3>1, <3>4, Zenon DEF LevelUnder, m, n
    <2>4. tree[H][2 * i - 1] = Left(current_level, e[m][i])
          /\ tree[H][2 * i] = Right(current_level, e[m][i])
      BY <1>5, <2>2, <2>3
    <2>5. tree[H + 1][i] = Combine(tree[H][2 * i - 1], tree[H][2 * i])
      <3>1. tree[H + 1] = TreeLevel(tree, leaves, e[Len(leaves)], H + 1)
        BY <1>1, <1>6 DEF IsTree
      <3>2. i \in Nat \ {0} /\ H + 1 # 0 /\ (H + 1) - 1 = H
        BY <1>1, <1>5, <1>6
      <3> QED
        BY <3>1, <3>2 DEF TreeLevel
    <2>6. NextLevel(current_level)[e[m][i]]
             = Combine(Left(current_level, e[m][i]), Right(current_level, e[m][i]))
      BY <1>1, <2>3, NextLevelIsLevel DEF m, n
    <2> QED
      BY <2>4, <2>5, <2>6
  <1>7. \A tree : IsTree(tree, leaves, e[Len(leaves)], H + 1) =>
             \A i \in 1..Len(e[m]) : tree[H + 1][i] = NextLevel(current_level)[e[m][i]]
    BY <1>6
  <1> QED
    BY <1>1, <1>2, <1>7 DEF OnTree, e, m, n, H

LEMMA GenerateKeepsOnTree ==
    ASSUME MerkleInv, OnTree, NEW list \in Leaves, NEW t \in 0..MaxLeaves,
           generate_proof(list, t)
    PROVE  OnTree'
  <1>1. stage = "idle" /\ NotStarted
    BY DEF generate_proof, MerkleInv
  <1>2. CASE t < Len(list)
    <2>1. PICK s \in Leaves : leaves' = s /\ current_level' = s /\ steps' = steps
      BY <1>2 DEF generate_proof
    <2>2. Len(s) \in Nat /\ Len(steps') = 0
      BY <1>1, <2>1, LeavesAreLists DEF NotStarted
    <2> DEFINE e == Expansions(Len(s))[Len(s)]
    <2>3. ASSUME NEW tree, IsTree(tree, s, e, 0), NEW i \in 1..Len(e)
          PROVE  tree[0][i] = s[e[i]]
      <3>1. tree[0] = TreeLevel(tree, s, e, 0)
        BY <2>3 DEF IsTree
      <3>2. Expands(e, Len(s))
        BY <2>2, ExpansionsExpand
      <3>3. i \in Nat \ {0}
        BY <2>3, <3>2 DEF Expands
      <3> HIDE DEF e
      <3> QED
        BY <3>1, <3>3 DEF TreeLevel
    <2>4. Len(s) <= Len(s)
      BY <2>2
    <2> QED
      BY <2>1, <2>2, <2>3, <2>4 DEF OnTree
  <1>3. CASE ~(t < Len(list))
    BY <1>3 DEF generate_proof, OnTree
  <1> QED
    BY <1>2, <1>3

LEMMA InitOnTree == MerkleInit => OnTree
  <1> SUFFICES ASSUME MerkleInit
               PROVE  OnTree
    OBVIOUS
  <1>1. leaves = << >> /\ current_level = << >> /\ Len(leaves) = 0 /\ 0 \in 0..0
    BY DEF MerkleInit
  <1> DEFINE e == Expansions(0)[0]
  <1>2. Expands(e, 0)
    BY <1>1, ExpansionsExpand
  <1> HIDE DEF e
  <1>3. Len(e) \in Nat /\ \A i \in 1..Len(e) : FALSE
    BY <1>2 DEF Expands
  <1> QED
    BY <1>1, <1>3 DEF OnTree, e

LEMMA NextKeepsOnTree ==
    ASSUME MerkleInv, OnTree, [MerkleNext]_merkle_vars
    PROVE  OnTree'
  <1>1. CASE return_proof \/ verify_step \/ verify_root \/ UNCHANGED merkle_vars
    BY <1>1 DEF return_proof, verify_step, verify_root, merkle_vars, OnTree
  <1> QED
    BY <1>1, GenerateKeepsOnTree, FoldKeepsOnTree DEF MerkleNext

(* Level by level the loop computes the perfect tree over the expanded     *)
(* list of leaves.                                                         *)
THEOREM LevelsOfPerfectTree == MerkleSpec => []LevelsArePerfect
  <1>1. MerkleInv /\ OnTree => LevelsArePerfect
    <2> SUFFICES ASSUME MerkleInv, OnTree, NEW i \in DOMAIN current_level
                 PROVE  current_level[i] = PerfectTree[Len(steps)][i]
      BY DEF LevelsArePerfect
    <2> DEFINE e == Expansions(Len(leaves))
    <2>1. /\ current_level \in Seq(Hash) /\ Len(steps) \in Nat /\ Len(leaves) \in Nat
          /\ Len(current_level) \in 0..Len(leaves)
      BY DEF MerkleInv, MerkleTypeOK, OnTree
    <2>2. IsTree(PerfectTree, leaves, e[Len(leaves)], Len(steps))
      BY <2>1, PerfectTreeIsTree DEF Expansion
    <2>3. \A j \in 1..Len(e[Len(current_level)]) :
             PerfectTree[Len(steps)][j] = current_level[e[Len(current_level)][j]]
      BY <2>2, Zenon DEF OnTree
    <2>4. Expands(e[Len(current_level)], Len(current_level))
      BY <2>1, ExpansionsExpand
    <2> HIDE DEF e
    <2> QED
      BY <2>1, <2>3, <2>4 DEF Expands
  <1>2. MerkleInit => OnTree
    BY InitOnTree
  <1>3. MerkleInv /\ OnTree /\ [MerkleNext]_merkle_vars => OnTree'
    BY NextKeepsOnTree
  <1> QED
    BY <1>1, <1>2, <1>3, MerkleAlwaysInv, PTL DEF MerkleSpec

------------------------------------------------------------------------------
(* 3. chain/mod.rs: blocks arrive damaged, late, twice, in any order or    *)
(* never, and nodes restart with an empty chain.  The invariant says of    *)
(* every committed block which signed block it is.                         *)

(* A signed block: what Block::new and sign leave behind.                  *)
Signed(b) ==
    /\ b = [header |-> b.header, transactions |-> b.transactions, signature |-> b.signature]
    /\ b.signature = [by |-> b.header.validator_id, over |-> b.header]
    /\ b.signature # << >>
    /\ b.transactions \in TxLists /\ Distinct(b.transactions)
    /\ b.header.merkle_root = calculate_merkle_root(b.transactions)

MintedInv == \A b \in minted : IsBlock(b) /\ Signed(b)

(* Every committed block has the header of a signed one for its height,    *)
(* and is that block when it repeats no transaction.                       *)
CommittedInv(c) ==
    /\ c.current_height \in 0..MaxHeight
    /\ c = [current_height |-> c.current_height, blocks_cache |-> c.blocks_cache]
    /\ c.blocks_cache = [h \in 1..c.current_height |-> c.blocks_cache[h]]
    /\ \A h \in 1..c.current_height :
          /\ IsBlock(c.blocks_cache[h])
          /\ c.blocks_cache[h].header.height = h
          /\ \E b \in minted : c.blocks_cache[h].header = b.header
          /\ Distinct(c.blocks_cache[h].transactions) => c.blocks_cache[h] \in minted

CInv == /\ MintedInv
        /\ chain \in [Node -> {chain[n] : n \in Node}]
        /\ \A n \in Node : CommittedInv(chain[n])

LEMMA ListsAreSequences ==
    ASSUME NEW txs \in TxLists
    PROVE  /\ Len(txs) \in 0..MaxTxs /\ DOMAIN txs = 1..Len(txs)
           /\ txs \in Seq(Tx)
  BY TxsAreOrdered DEF TxLists, BoundedSeq, SeqOf

LEMMA RootExpands ==
    ASSUME NEW txs \in TxLists
    PROVE  \E e : /\ Expands(e, Len(txs))
                  /\ calculate_merkle_root(txs) = [i \in 1..Len(e) |-> txs[e[i]]]
  <1> DEFINE e == Expansion(Len(txs))
  <1>1. Len(txs) \in Nat
    BY ListsAreSequences, TxsAreOrdered
  <1>2. Expands(e, Len(txs))
    BY <1>1, ExpansionsExpand DEF Expansion
  <1>3. calculate_merkle_root(txs) = [i \in DOMAIN e |-> txs[e[i]]]
    BY DEF calculate_merkle_root
  <1> HIDE DEF e
  <1>4. DOMAIN e = 1..Len(e)
    BY <1>2 DEF Expands
  <1> QED
    BY <1>2, <1>3, <1>4

(* The root of a list without repetitions determines the list.             *)
LEMMA RootDetermines ==
    ASSUME NEW s \in TxLists, NEW t \in TxLists, Distinct(s), Distinct(t),
           calculate_merkle_root(s) = calculate_merkle_root(t)
    PROVE  s = t
  <1>1. /\ Len(s) \in Nat /\ DOMAIN s = 1..Len(s) /\ s \in Seq(Tx)
        /\ Len(t) \in Nat /\ DOMAIN t = 1..Len(t) /\ t \in Seq(Tx)
    BY ListsAreSequences, TxsAreOrdered
  <1>2. PICK e : /\ Expands(e, Len(s))
                 /\ calculate_merkle_root(s) = [i \in 1..Len(e) |-> s[e[i]]]
    BY RootExpands
  <1>3. PICK f : /\ Expands(f, Len(t))
                 /\ calculate_merkle_root(t) = [i \in 1..Len(f) |-> t[f[i]]]
    BY RootExpands
  <1>4. Len(e) = Len(f)
    <2>1. 1..Len(e) = 1..Len(f)
      BY <1>2, <1>3
    <2>2. Len(e) \in Nat /\ Len(f) \in Nat
      BY <1>2, <1>3 DEF Expands
    <2>3. \A m, n \in Nat : 1..m = 1..n => m = n
      OBVIOUS
    <2> QED
      BY <2>1, <2>2, <2>3, Zenon
  <1>5. \A i \in 1..Len(e) : s[e[i]] = t[f[i]]
    BY <1>2, <1>3, <1>4
  <1>6. ASSUME NEW a \in TxLists, NEW b \in TxLists, NEW x, NEW y,
               Len(a) \in Nat, Len(b) \in Nat, DOMAIN b = 1..Len(b),
               Expands(x, Len(a)), Expands(y, Len(b)), Len(x) = Len(y),
               \A i \in 1..Len(x) : a[x[i]] = b[y[i]], Distinct(b)
        PROVE  ~(Len(a) < Len(b))
    <2> SUFFICES ASSUME Len(a) < Len(b) PROVE FALSE
      OBVIOUS
    <2> DEFINE i == Len(a) + 1
    <2>1. i \in 1..Len(b) /\ i \in 1..Len(x)
      BY <1>6 DEF Expands
    <2>2. x[i] \in 1..Len(a)
      BY <1>6, <2>1 DEF Expands
    <2>3. x[i] \in 1..Len(b) /\ x[i] \in 1..Len(x) /\ x[i] # i
      BY <1>6, <2>2 DEF Expands
    <2>4. y[i] = i /\ y[x[i]] = x[i] /\ x[x[i]] = x[i]
      BY <1>6, <2>1, <2>2, <2>3 DEF Expands
    <2>5. b[i] = b[x[i]]
      BY <1>6, <2>1, <2>3, <2>4
    <2> QED
      BY <1>6, <2>1, <2>3, <2>5 DEF Distinct
  <1>7. Len(s) = Len(t)
    <2>1. ~(Len(s) < Len(t))
      BY <1>1, <1>2, <1>3, <1>4, <1>5, <1>6
    <2>2. \A i \in 1..Len(f) : t[f[i]] = s[e[i]]
      BY <1>4, <1>5
    <2>3. ~(Len(t) < Len(s))
      BY <1>1, <1>2, <1>3, <1>4, <1>6, <2>2
    <2>4. \A m, n \in Nat : ~(m < n) /\ ~(n < m) => m = n
      OBVIOUS
    <2> QED
      BY <1>1, <2>1, <2>3, <2>4, Zenon
  <1>8. \A i \in 1..Len(s) : s[i] = t[i]
    BY <1>2, <1>3, <1>5, <1>7 DEF Expands
  <1> QED
    BY <1>1, <1>7, <1>8

------------------------------------------------------------------------------
(* A damaged block that still passes the checks of add_block has the       *)
(* header that was signed, and is the signed block unless it repeats a     *)
(* transaction.                                                            *)
LEMMA PassingIsSigned ==
    ASSUME NEW b, Signed(b), NEW d \in Damaged(b),
           verify_merkle_root(d), verify_signature(d, d.header.validator_id)
    PROVE  /\ d.header = b.header /\ (Distinct(d.transactions) => d = b)
           /\ d.transactions \in TxLists /\ d.signature = b.signature
  <1> USE DEF Signed, Damaged, verify_signature
  <1>1. CASE d \in {[b EXCEPT !.transactions = txs] : txs \in TxLists}
    <2>1. PICK txs \in TxLists : d = [b EXCEPT !.transactions = txs]
      BY <1>1
    <2>2. d = [header |-> b.header, transactions |-> txs, signature |-> b.signature]
      BY <2>1
    <2>3. calculate_merkle_root(txs) = calculate_merkle_root(b.transactions)
      BY <2>2 DEF verify_merkle_root
    <2>4. Distinct(txs) => txs = b.transactions
      BY <2>3, RootDetermines
    <2> QED
      BY <2>2, <2>4
  <1>2. CASE d \in {[b EXCEPT !.header.validator_id = n] : n \in Node}
    <2>1. PICK n \in Node : d = [b EXCEPT !.header.validator_id = n]
      BY <1>2
    <2>2. /\ d.signature = b.signature /\ d.transactions = b.transactions
          /\ d = [header |-> d.header, transactions |-> b.transactions,
                  signature |-> b.signature]
      BY <2>1
    <2>3. d.header = b.header
      BY <2>2
    <2> QED
      BY <2>2, <2>3
  <1>3. CASE d \in {[b EXCEPT !.header.height = h] : h \in 1..MaxHeight}
    <2>1. PICK h \in 1..MaxHeight : d = [b EXCEPT !.header.height = h]
      BY <1>3
    <2>2. /\ d.signature = b.signature /\ d.transactions = b.transactions
          /\ d = [header |-> d.header, transactions |-> b.transactions,
                  signature |-> b.signature]
      BY <2>1
    <2>3. d.header = b.header
      BY <2>2
    <2> QED
      BY <2>2, <2>3
  <1>4. CASE d = [b EXCEPT !.signature = << >>]
    BY <1>4
  <1> QED
    BY <1>1, <1>2, <1>3, <1>4
------------------------------------------------------------------------------
(* Making a block.                                                         *)
(* More signed blocks take nothing from what is said of a chain.           *)
LEMMA MoreMintedKeepsCommitted ==
    ASSUME NEW n \in Node, CommittedInv(chain[n]), minted \subseteq minted',
           chain'[n] = chain[n]
    PROVE  CommittedInv(chain[n])'
  <1>1. PICK c : c = chain[n]
    OBVIOUS
  <1>2. c = chain'[n] /\ CommittedInv(c)
    BY <1>1
  <1>3. CommittedInv(c)'
    BY <1>2 DEF CommittedInv
  <1> QED
    BY <1>2, <1>3 DEF CommittedInv

LEMMA MintKeepsCInv ==
    ASSUME CInv, NEW n \in Node, NEW height \in 1..MaxHeight, NEW prev,
           NEW txs \in Proposed, mint(n, height, prev, txs)
    PROVE  CInv'
  <1>0. PICK new : new = sign(Block_new(height, prev, txs, n), n)
    OBVIOUS
  <1>1. minted' = minted \cup {new} /\ chain' = chain
    BY <1>0 DEF mint
  <1>2. Sorted(txs) \in TxLists /\ Distinct(Sorted(txs))
    BY SortingKeeps
  <1>3. /\ new.header = [height |-> height, prev_hash |-> prev, validator_id |-> n,
                         merkle_root |-> calculate_merkle_root(Sorted(txs))]
        /\ new.transactions = Sorted(txs)
        /\ new.signature = [by |-> n, over |-> new.header]
        /\ new = [header |-> new.header, transactions |-> new.transactions,
                  signature |-> new.signature]
    BY <1>0 DEF sign, Block_new
  <1>4. Signed(new)
    <2>1. new.signature # << >>
      BY <1>3
    <2> QED
      BY <1>2, <1>3, <2>1 DEF Signed
  <1>5. IsBlock(new)
    BY <1>2, <1>3 DEF IsBlock, IsHeader, Roots
  <1>6. MintedInv'
    <2> SUFFICES ASSUME NEW b \in minted'
                 PROVE  IsBlock(b) /\ Signed(b)
      BY DEF MintedInv
    <2>1. CASE b \in minted
      BY <1>1, <2>1 DEF CInv, MintedInv
    <2> QED
      BY <1>1, <1>4, <1>5, <2>1
  <1>7. \A m \in Node : CommittedInv(chain[m])'
    BY <1>1, MoreMintedKeepsCommitted DEF CInv
  <1> QED
    BY <1>1, <1>6, <1>7 DEF CInv

------------------------------------------------------------------------------
(* Committing one.                                                         *)
LEMMA AddKeepsCInv ==
    ASSUME CInv, NEW n \in Node, NEW b \in minted, NEW d \in Damaged(b), add_block(n, d)
    PROVE  CInv'
  <1>a. PICK c : c = chain[n]
    OBVIOUS
  <1>b. PICK top : top = c.current_height + 1
    OBVIOUS
  <1>c. PICK cache : cache = [h \in 1..top |-> IF h = top THEN d ELSE c.blocks_cache[h]]
    OBVIOUS
  <1>d. PICK next : next = [current_height |-> top, blocks_cache |-> cache]
    OBVIOUS
  <1>0. /\ CommittedInv(c) /\ c.current_height \in Nat /\ top \in Nat
        /\ minted' = minted /\ d.header.height = top
    BY <1>a, <1>b, HeightsAreNat DEF CInv, CommittedInv, add_block
  <1>e. IsBlock(b) /\ Signed(b)
    BY DEF CInv, MintedInv
  <1>1. /\ d.header = b.header /\ (Distinct(d.transactions) => d = b)
        /\ d.transactions \in TxLists /\ d.signature = b.signature
    BY <1>e, PassingIsSigned DEF add_block
  <1>f. IsBlock(d) /\ top \in 0..MaxHeight
    BY <1>0, <1>1, <1>e, HeightsAreNat DEF IsBlock, IsHeader
  <1>2. chain' = [chain EXCEPT ![n] = next]
    <2>1. DOMAIN c.blocks_cache \cup {top} = 1..top
      <3>1. DOMAIN c.blocks_cache = 1..c.current_height
        BY <1>0 DEF CommittedInv
      <3> QED
        BY <1>0, <1>b, <3>1
    <2>2. chain' = [chain EXCEPT
                      ![n].blocks_cache = [h \in DOMAIN @ \cup {top} |->
                                              IF h = top THEN d ELSE @[h]],
                      ![n].current_height = top]
      BY <1>0 DEF add_block
    <2>3. c = [current_height |-> c.current_height, blocks_cache |-> c.blocks_cache]
      BY <1>0 DEF CommittedInv
    <2>4. [[c EXCEPT !.blocks_cache = cache] EXCEPT !.current_height = top] = next
      <3>1. PICK mid : mid = [c EXCEPT !.blocks_cache = cache]
        OBVIOUS
      <3>2. mid = [current_height |-> c.current_height, blocks_cache |-> cache]
        BY <2>3, <3>1
      <3>3. [mid EXCEPT !.current_height = top] = next
        BY <1>d, <3>2
      <3> QED
        BY <3>1, <3>3
    <2> QED
      BY <1>a, <1>c, <2>1, <2>2, <2>4 DEF CInv
  <1>3. next.current_height = top /\ next.blocks_cache = cache
    BY <1>d
  <1>4. CommittedInv(next)
    <2>1. cache = [h \in 1..top |-> cache[h]]
      BY <1>c
    <2>2. ASSUME NEW h \in 1..top
          PROVE  /\ IsBlock(cache[h]) /\ cache[h].header.height = h
                 /\ \E x \in minted : cache[h].header = x.header
                 /\ Distinct(cache[h].transactions) => cache[h] \in minted
      <3>1. CASE h = top
        <4>1. cache[h] = d
          BY <1>c, <3>1
        <4> QED
          BY <1>0, <1>1, <1>f, <3>1, <4>1
      <3>2. CASE h # top
        <4>1. h \in 1..c.current_height /\ cache[h] = c.blocks_cache[h]
          BY <1>0, <1>b, <1>c, <3>2
        <4> QED
          BY <1>0, <4>1 DEF CommittedInv
      <3> QED
        BY <3>1, <3>2
    <2> QED
      BY <1>0, <1>3, <1>d, <1>f, <2>1, <2>2 DEF CommittedInv
  <1>5. /\ chain'[n] = next
        /\ \A m \in Node \ {n} : chain'[m] = chain[m]
        /\ chain' \in [Node -> {chain'[m] : m \in Node}]
    BY <1>2 DEF CInv
  <1>6. ASSUME NEW m \in Node
        PROVE  CommittedInv(chain[m])'
    <2>1. CASE m = n
      BY <1>0, <1>4, <1>5, <2>1 DEF CommittedInv
    <2>2. CASE m # n
      BY <1>0, <1>5, <2>2, MoreMintedKeepsCommitted DEF CInv
    <2> QED
      BY <2>1, <2>2
  <1>7. MintedInv'
    BY <1>0 DEF CInv, MintedInv
  <1> QED
    BY <1>5, <1>6, <1>7 DEF CInv

(* Restarting.                                                             *)
LEMMA RestartKeepsCInv ==
    ASSUME CInv, NEW n \in Node, restart(n)
    PROVE  CInv'
  <1>1. chain' = [chain EXCEPT ![n] = NewChain] /\ minted' = minted
    BY DEF restart
  <1>2. CommittedInv(NewChain)
    BY HeightsAreNat DEF CommittedInv, NewChain
  <1>3. /\ chain'[n] = NewChain
        /\ \A m \in Node \ {n} : chain'[m] = chain[m]
        /\ chain' \in [Node -> {chain'[m] : m \in Node}]
    BY <1>1 DEF CInv
  <1>4. ASSUME NEW m \in Node
        PROVE  CommittedInv(chain[m])'
    <2>1. CASE m = n
      BY <1>1, <1>2, <1>3, <2>1 DEF CommittedInv
    <2>2. CASE m # n
      BY <1>1, <1>3, <2>2, MoreMintedKeepsCommitted DEF CInv
    <2> QED
      BY <2>1, <2>2
  <1>5. MintedInv'
    BY <1>1 DEF CInv, MintedInv
  <1> QED
    BY <1>3, <1>4, <1>5 DEF CInv

LEMMA ChainInitCInv ==
    ASSUME ChainInit
    PROVE  CInv
  <1>1. CommittedInv(NewChain)
    BY HeightsAreNat DEF CommittedInv, NewChain
  <1>2. \A n \in Node : CommittedInv(chain[n])
    BY <1>1 DEF ChainInit
  <1> QED
    BY <1>2 DEF ChainInit, CInv, MintedInv

LEMMA ChainNextKeepsCInv ==
    ASSUME CInv, [ChainNext]_chainVars
    PROVE  CInv'
  <1>1. CASE \E n \in Node, height \in 1..MaxHeight, prev \in Hashes, txs \in Proposed :
                mint(n, height, prev, txs)
    BY <1>1, MintKeepsCInv
  <1>2. CASE \E n \in Node, b \in minted : \E d \in Damaged(b) : add_block(n, d)
    BY <1>2, AddKeepsCInv
  <1>3. CASE \E n \in Node : restart(n)
    BY <1>3, RestartKeepsCInv
  <1>4. CASE UNCHANGED chainVars
    <2>1. chain' = chain /\ minted' = minted
      BY <1>4 DEF chainVars
    <2>2. \A m \in Node : CommittedInv(chain[m])'
      BY <2>1, MoreMintedKeepsCommitted DEF CInv
    <2> QED
      BY <2>1, <2>2 DEF CInv, MintedInv
  <1> QED
    BY <1>1, <1>2, <1>3, <1>4 DEF ChainNext

LEMMA ChainAlwaysCInv == ChainSpec => []CInv
  <1>1. ChainInit => CInv
    BY ChainInitCInv
  <1>2. CInv /\ [ChainNext]_chainVars => CInv'
    BY ChainNextKeepsCInv
  <1> QED
    BY <1>1, <1>2, PTL DEF ChainSpec

------------------------------------------------------------------------------
(* Whatever arrives, chains and signed blocks (chain/) are well formed.     *)
THEOREM ChainTypeCorrect == ChainSpec => []ChainTypeOK
  <1>1. CInv => ChainTypeOK
    <2> SUFFICES ASSUME CInv
                 PROVE  ChainTypeOK
      OBVIOUS
    <2>1. ASSUME NEW n \in Node
          PROVE  /\ chain[n].current_height \in 0..MaxHeight
                 /\ DOMAIN chain[n].blocks_cache = 1..chain[n].current_height
                 /\ \A h \in 1..chain[n].current_height : IsBlock(chain[n].blocks_cache[h])
      <3>1. CommittedInv(chain[n])
        BY DEF CInv
      <3> QED
        BY <3>1 DEF CommittedInv
    <2> QED
      BY <2>1 DEF CInv, MintedInv, ChainTypeOK
  <1> QED
    BY <1>1, ChainAlwaysCInv, PTL

(* Whatever arrives at add_block, a committed block without repetitions is *)
(* one a validator made and signed, for that height, in that order.        *)
THEOREM CommittedAsSigned == ChainSpec => []AcceptedAsSigned
  <1>1. ASSUME CInv
        PROVE  AcceptedAsSigned
    <2> SUFFICES ASSUME NEW n \in Node, NEW h \in DOMAIN chain[n].blocks_cache,
                        Distinct(chain[n].blocks_cache[h].transactions)
                 PROVE  /\ chain[n].blocks_cache[h] \in minted
                        /\ chain[n].blocks_cache[h].header.height = h
      BY DEF AcceptedAsSigned
    <2>1. CommittedInv(chain[n])
      BY <1>1 DEF CInv
    <2>2. h \in 1..chain[n].current_height
      BY <2>1 DEF CommittedInv
    <2> QED
      BY <2>1, <2>2 DEF CommittedInv
  <1> QED
    BY <1>1, ChainAlwaysCInv, PTL

(* add_block never compares prev_hash with the hash of its last block.     *)
(* Still the chains of two nodes differ at a height only where two blocks  *)
(* were signed for it, and a block that names a signed one of the height   *)
(* below has another one below it only where two were signed for that.     *)
THEOREM HistoriesAgreeUnlessForked == ChainSpec => []OneHistoryUnlessForked
  <1>1. ASSUME CInv
        PROVE  OneHistoryUnlessForked
    <2>1. ASSUME NEW n \in Node, NEW h \in DOMAIN chain[n].blocks_cache
          PROVE  /\ h \in 1..chain[n].current_height /\ chain[n].current_height \in Nat
                 /\ DOMAIN chain[n].blocks_cache = 1..chain[n].current_height
                 /\ chain[n].blocks_cache[h].header.height = h
                 /\ \E b \in minted : chain[n].blocks_cache[h].header = b.header
      <3>1. CommittedInv(chain[n])
        BY <1>1 DEF CInv
      <3>2. h \in 1..chain[n].current_height /\ chain[n].current_height \in Nat
        BY <3>1, HeightsAreNat DEF CommittedInv
      <3> QED
        BY <3>1, <3>2 DEF CommittedInv
    <2>2. ASSUME NEW n \in Node, NEW h \in DOMAIN chain[n].blocks_cache, NEW b \in minted,
                 b.header.height = h
          PROVE  b.header = chain[n].blocks_cache[h].header \/ Forked(h)
      BY <2>1, <2>2 DEF Forked
    <2>3. ASSUME NEW n \in Node, NEW m \in Node
          PROVE  HeadersAgree(n, m)
      <3> SUFFICES ASSUME NEW h \in DOMAIN chain[n].blocks_cache,
                          h \in DOMAIN chain[m].blocks_cache
                   PROVE  \/ chain[n].blocks_cache[h].header = chain[m].blocks_cache[h].header
                          \/ Forked(h)
        BY DEF HeadersAgree
      <3>1. PICK b \in minted : chain[n].blocks_cache[h].header = b.header
        BY <2>1
      <3>2. b.header.height = h
        BY <2>1, <3>1
      <3> QED
        BY <2>2, <3>1, <3>2
    <2>4. ASSUME NEW n \in Node, NEW h \in DOMAIN chain[n].blocks_cache, NEW b \in minted,
                 b.header.height = h - 1
          PROVE  b.header = chain[n].blocks_cache[h - 1].header \/ Forked(h - 1)
      <3>1. b.header.height >= 1
        BY <1>1 DEF CInv, MintedInv, IsBlock, IsHeader
      <3>2. h - 1 \in DOMAIN chain[n].blocks_cache
        BY <2>1, <2>4, <3>1
      <3> QED
        BY <2>2, <2>4, <3>2
    <2> QED
      BY <2>3, <2>4 DEF OneHistoryUnlessForked
  <1> QED
    BY <1>1, ChainAlwaysCInv, PTL

------------------------------------------------------------------------------
(* 4. The four parts as the runs put them.                                 *)

MCvars == <<part, merkle_vars, chainVars, typed, txVars>>

(* A behaviour of the four parts is a behaviour of each.                   *)
LEMMA PartsBehave == Spec => MerkleSpec /\ ChainSpec /\ CtsSpec /\ TxSpec
  <1>1. Init => MerkleInit /\ ChainInit /\ CtsInit /\ TxInit
    BY Zenon DEF Init
  <1>2. [Next]_MCvars => /\ [MerkleNext]_merkle_vars /\ [ChainNext]_chainVars
                         /\ [CtsNext]_typed /\ [TxNext]_txVars
    BY Zenon DEF Next, MCvars
  <1> QED
    BY <1>1, <1>2, PTL DEF Spec, MCvars, MerkleSpec, ChainSpec, CtsSpec, TxSpec

(* The state of all four parts has its types.                              *)
THEOREM ChainPartsTypeCorrect == Spec => []TypeOK
  <1>1. MerkleTypeOK /\ ChainTypeOK /\ CtsTypeOK /\ TxTypeOK => TypeOK
    BY Zenon DEF TypeOK
  <1> QED
    BY <1>1, PartsBehave, MerkleTypeCorrect, ChainTypeCorrect, TypedIsText, TxTypeCorrect, PTL
==============================================================================
