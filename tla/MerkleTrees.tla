------------------------------ MODULE MerkleTrees ------------------------------
(***************************************************************************)
(* The Merkle trees of the system and the proofs taken from them.  Four    *)
(* pieces of code build them: MerkleTree (Blocks, public fields of a       *)
(* Snapshot), the display tree of the control page, and NTreeMerkle, whose *)
(* nodes have N children.  All repeat the last hash of a level that does   *)
(* not fill its last group.                                                *)
(*                                                                         *)
(* A leaf is a value: a field with its name, or a piece of text.  A hash   *)
(* is what is hashed, a text or a list of hashes: the two are never the    *)
(* same.  A tree is the sequence of its levels, leaves first; a node is    *)
(* its position in its level, from 1.                                      *)
(*                                                                         *)
(* The state machine is a session: blocks are appended, a proof is         *)
(* requested, and verified later, maybe after further blocks.              *)
(***************************************************************************)
EXTENDS Integers, SequencesExt

CONSTANTS
    Values,     \* contents of leaves
    Arities,    \* numbers of children of NTreeMerkle
    MaxBlocks   \* bound: blocks appended

ASSUME ArityAssumption == \A n \in Arities : n \in Nat /\ n >= 2
ASSUME BlockBoundAssumption == MaxBlocks \in Nat \ {0}

VARIABLES
    blockList,  \* MerkleTree::blocks
    strResult,  \* the proof that was requested last; <<>> is none
    asked       \* for which block of how many it was requested

sessionVars == <<blockList, strResult, asked>>

LeafHash(leaf) == [of |-> "text", what |-> leaf]
SHA256(hashes) == [of |-> "hashes", what |-> hashes]
LeafHashes(leaves) == [i \in DOMAIN leaves |-> LeafHash(leaves[i])]

(* Level upon level, until one has a single node.                          *)
LevelsOf(leaves, Parents(_)) ==
    LET level[k \in 0..Len(leaves)] ==
            IF k = 0 THEN LeafHashes(leaves)
            ELSE LET below == level[k - 1]
                 IN  IF Len(below) = 1 THEN below ELSE Parents(below)
    IN  level
Grow(leaves, Parents(_)) ==
    LET level == LevelsOf(leaves, Parents)
        height == Min({k \in 0..Len(leaves) : Len(level[k]) = 1})
    IN  [k \in 1..height + 1 |-> level[k - 1]]
RootOf(tree) == tree[Len(tree)][1]

-----------------------------------------------------------------------------
(* MerkleTree: two children; an odd node is paired with a copy of itself.  *)
PairsOnly(level) ==
    [i \in 1..(Len(level) \div 2) |-> SHA256(<<level[2 * i - 1], level[2 * i]>>)]
Pairs(level) ==
    [i \in 1..((Len(level) + 1) \div 2) |->
        LET left == level[2 * i - 1]
        IN  SHA256(<<left, IF 2 * i <= Len(level) THEN level[2 * i] ELSE left>>)]
BuildFromBlocks(leaves) == Grow(leaves, Pairs)

IsLeft(p) == p % 2 = 1

(* Where the nodes above leaf p are, level by level.                       *)
ParentAt(p, n) == (p - 1) \div n + 1
PositionsOf(p, n, height) ==
    LET at[k \in 1..height] == IF k = 1 THEN p ELSE ParentAt(at[k - 1], n)
    IN  at

(* What a proof says of one level: where the sibling is, and its hash.     *)
SiblingWithoutCopy(level, p) ==
    IF IsLeft(p) THEN [side |-> "R", hash |-> level[IF p < Len(level) THEN p + 1 ELSE 1]]
    ELSE [side |-> "L", hash |-> level[p - 1]]
Sibling(level, p) ==
    IF IsLeft(p) THEN [side |-> "R", hash |-> level[IF p < Len(level) THEN p + 1 ELSE p]]
    ELSE [side |-> "L", hash |-> level[p - 1]]

(* The proof of leaf p: its side and its hash, then a sibling per level.   *)
ProverBlock(tree, p) ==
    LET at == PositionsOf(p, 2, Len(tree))
    IN  [k \in 1..Len(tree) |->
            IF k > 1 THEN Sibling(tree[k - 1], at[k - 1])
            ELSE [side |-> IF Len(tree) = 1 \/ IsLeft(p) THEN "L" ELSE "R",
                  hash |-> tree[1][p]]]

(* The side of the first entry is only checked to be one.                  *)
HashesOf(proof) ==
    LET hash[k \in 1..Len(proof)] ==
            IF k = 1 THEN proof[1].hash
            ELSE IF proof[k].side = "L" THEN SHA256(<<proof[k].hash, hash[k - 1]>>)
                 ELSE SHA256(<<hash[k - 1], proof[k].hash>>)
    IN  hash
Verify(root, proof) == proof # <<>> /\ root = HashesOf(proof)[Len(proof)]

(* build_block_merkle of a Block's fields: the root, the proofs, verified. *)
BuildBlockMerkle(fields) ==
    LET tree == BuildFromBlocks(fields)
        proofs == [p \in DOMAIN fields |-> ProverBlock(tree, p)]
    IN  [root |-> RootOf(tree), proofs |-> proofs,
         verified |-> \A p \in DOMAIN fields : Verify(RootOf(tree), proofs[p])]

-----------------------------------------------------------------------------
(* build_merkle_display_tree: a level is first made even, then paired.     *)
EvenByFirst(level) ==
    IF Len(level) % 2 = 0 THEN level
    ELSE Append(level, level[1])
Even(level) == IF Len(level) % 2 = 0 THEN level ELSE Append(level, Last(level))
DisplayPairs(level) ==
    [i \in 1..(Len(Even(level)) \div 2) |->
        SHA256(<<Even(level)[2 * i - 1], Even(level)[2 * i]>>)]
DisplayTree(leaves) == Grow(leaves, DisplayPairs)

-----------------------------------------------------------------------------
(* NTreeMerkle: groups of n; the last child of a short group is repeated.  *)
Group(level, i, n) ==
    [c \in 1..n |-> level[Min({(i - 1) * n + c, Len(level)})]]
NTree(leaves, n) ==
    Grow(leaves, LAMBDA level :
        [i \in 1..((Len(level) + n - 1) \div n) |-> SHA256(Group(level, i, n))])

GenerateProof(tree, leaves, p, n) ==
    LET at == PositionsOf(p, n, Len(tree))
    IN  [value |-> leaves[p], root |-> RootOf(tree),
         steps |-> [k \in 1..(Len(tree) - 1) |->
            LET child == ((at[k] - 1) % n) + 1
            IN  [child |-> child,
                 siblings |-> RemoveAt(Group(tree[k], ParentAt(at[k], n), n), child)]]]

ChildrenFirst(step, hash) == <<hash>> \o step.siblings
Children(step, hash) == InsertAt(step.siblings, step.child, hash)
HashesUp(proof) ==
    LET hash[k \in 0..Len(proof.steps)] ==
            IF k = 0 THEN LeafHash(proof.value)
            ELSE SHA256(Children(proof.steps[k], hash[k - 1]))
    IN  hash
VerifyProof(tree, proof, n) ==
    /\ \A k \in DOMAIN proof.steps :
           proof.steps[k].child <= n /\ Len(proof.steps[k].siblings) + 1 = n
    /\ LET hash == HashesUp(proof)[Len(proof.steps)]
       IN  hash = proof.root /\ hash = RootOf(tree)

-----------------------------------------------------------------------------
(* The session.                                                            *)
NotAsked == [position |-> 0, of |-> 0]

SessionInit ==
    /\ \E v \in Values : blockList = <<v>>
    /\ strResult = <<>> /\ asked = NotAsked

AppendBlock(v) ==
    /\ Len(blockList) < MaxBlocks
    /\ blockList' = Append(blockList, v)
    /\ UNCHANGED <<strResult, asked>>

(* A block that does not exist is not found: there is no proof then.       *)
Request(p) ==
    /\ IF p \in DOMAIN blockList
       THEN /\ strResult' = ProverBlock(BuildFromBlocks(blockList), p)
            /\ asked' = [position |-> p, of |-> Len(blockList)]
       ELSE strResult' = <<>> /\ asked' = NotAsked
    /\ UNCHANGED blockList

SessionNext ==
    \/ \E v \in Values : AppendBlock(v)
    \/ \E p \in 1..(MaxBlocks + 1) : Request(p)

SessionSpec == SessionInit /\ [][SessionNext]_sessionVars

-----------------------------------------------------------------------------
Distinct(leaves) == \A i, j \in DOMAIN leaves : leaves[i] = leaves[j] => i = j
Lists == UNION {[1..k -> Values] : k \in 1..MaxBlocks}

(* A proof verifies against the tree it was taken from; after a further    *)
(* block it does so only when that block repeats what the tree repeated    *)
(* anyway, so never when all blocks differ, as fields with names do.  A    *)
(* Block's verified flag, which the progress of its batch requires, is     *)
(* therefore set.                                                          *)
ProofVerifiesUntilAppend ==
    /\ BuildBlockMerkle(blockList).verified
    /\ strResult # <<>> =>
           LET valid == Verify(RootOf(BuildFromBlocks(blockList)), strResult)
           IN  /\ asked.of = Len(blockList) => valid
               /\ Distinct(blockList) => (valid <=> asked.of = Len(blockList))

(* Repeating odd nodes gives a list and its continuation by copies of its  *)
(* last values the same root; lists of distinct leaves, as the fields of a *)
(* Block are, have different roots.                                        *)
RootCommitsToFields ==
    Distinct(blockList) =>
        \A other \in Lists :
            Distinct(other) /\ RootOf(BuildFromBlocks(other)) = RootOf(BuildFromBlocks(blockList))
            => other = blockList

(* The tree drawn on the control page, the tree a Block was committed with *)
(* and the N-ary tree with two children have the same levels, and the      *)
(* proofs of the latter two say the same.                                  *)
TreesAgree ==
    LET tree == BuildFromBlocks(blockList)
    IN  /\ DisplayTree(blockList) = tree
        /\ NTree(blockList, 2) = tree
        /\ \A p \in DOMAIN blockList :
               LET steps == GenerateProof(tree, blockList, p, 2).steps
               IN  Tail(ProverBlock(tree, p)) =
                       [k \in DOMAIN steps |->
                           [side |-> IF steps[k].child = 1 THEN "R" ELSE "L",
                            hash |-> steps[k].siblings[1]]]

(* The leaf that a path of children leads to from the root; a child that   *)
(* was added to fill its group is the last node of its level.              *)
Opened(tree, path, n) ==
    LET at[d \in 0..Len(path)] ==
            IF d = 0 THEN 1
            ELSE LET k == Len(path) + 1 - d
                 IN  Min({(at[d - 1] - 1) * n + path[k], Len(tree[k])})
    IN  at[Len(path)]
PathOf(proof) == [k \in DOMAIN proof.steps |-> proof.steps[k].child]
Altered(proof, v, path) ==
    [proof EXCEPT !.value = v,
        !.steps = [k \in DOMAIN path |-> [proof.steps[k] EXCEPT !.child = path[k]]]]

(* A proof that NTreeMerkle accepts, as issued or with its value or its    *)
(* path of children altered, shows the value at the leaf the path leads    *)
(* to; and every proof as issued is accepted.                              *)
ProofOpensPosition ==
    \A n \in Arities :
        LET tree == NTree(blockList, n)
        IN  \A p \in DOMAIN blockList :
                LET proof == GenerateProof(tree, blockList, p, n)
                IN  /\ VerifyProof(tree, proof, n)
                    /\ \A v \in Values, path \in [DOMAIN proof.steps -> 1..n] :
                          LET altered == Altered(proof, v, path)
                          IN  VerifyProof(tree, altered, n)
                              => blockList[Opened(tree, PathOf(altered), n)] = v
=============================================================================
