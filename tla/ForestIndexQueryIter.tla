------------------------ MODULE ForestIndexQueryIter ------------------------
(***************************************************************************)
(* The query iterator of the LSH forest index                              *)
(* (src/storage/index/tensor_store/lsh/forest_index_query_iter.cc).  Each *)
(* tree is a full binary tree (tree.h) given as the set of its leaves'    *)
(* paths from the root, 0 for left and 1 for right; every object sits in  *)
(* one leaf of every tree.  begin() starts each tree at the leaf descend  *)
(* returned for the query; next() hands out the objects all trees' buckets *)
(* share, and when none are left climbs every tree that is at the current *)
(* maximum depth one level, adding its sibling's objects to its bucket.   *)
(*                                                                         *)
(* descend and the similarity function are floating-point geometry: the   *)
(* query's leaf in each tree is any leaf, and an object's similarity to   *)
(* the query is the constant Sim[o], ties included.  One action is one    *)
(* turn of next()'s while loop.                                           *)
(***************************************************************************)
EXTENDS Integers, Sequences, SequencesExt

CONSTANTS
    NumTrees,   \* forest_index.trees.size()
    Objects,    \* the object ids in the tensor store
    Sim,        \* Objects -> similarity_fn(query_tensor, tensor of o)
    MaxDepth,   \* bound on the trees' depth
    MaxLSHResets   \* bound on the parent's reset() calls

TreeIds == 0..NumTrees-1
ASSUME NumTrees \in Nat \ {0} /\ Sim \in [Objects -> Int]

(* The leaf descend returns is any leaf.  Flipping the bits of every path *)
(* at the positions where the query's leaf has a 1 maps a tree onto a tree *)
(* with the same parents, siblings and descendants, so the query's leaf is *)
(* taken to be the leftmost one, at depth d.  next() reads a tree only     *)
(* through that leaf and the descendants of the siblings on its path, so  *)
(* how a sibling's subtree is split is left out: each sibling is a leaf.  *)
QueryLeaf(d) == [k \in 1..d |-> 0]
Comb(d) == {QueryLeaf(d)} \cup {QueryLeaf(k - 1) \o <<1>> : k \in 1..d}

(* a tree of the forest: the query's depth and the leaf of each object *)
TreeConfigs ==
    UNION {{[depth |-> d, at |-> f] : f \in [Objects -> Comb(d)]} : d \in 0..MaxDepth}

VARIABLES
    place,      \* tree -> object -> the path of the leaf holding it
    qleaf,      \* tree -> the leaf descend(query_tensor) returns
    nodes,      \* tree -> the node the iterator is at
    depths,     \* tree -> its depth
    buckets,    \* tree -> objects collected and not yet handed out
    current_maximum_depth,
    stack,      \* the (object_id, similarity) pairs, as objects
    current,    \* index into stack, 0 for nullptr
    lsh_pc,     \* "idle", or "next" inside a call of next()
    out,        \* ghost: the objects next() returned since begin()
    exhausted,  \* ghost: next() has returned false since begin()
    lsh_resets

lsh_vars == <<place, qleaf, nodes, depths, buckets, current_maximum_depth, stack,
              current, lsh_pc, out, exhausted, lsh_resets>>

-----------------------------------------------------------------------------
(* Mutated forms of mapped definitions, used by PROJECT.json "mutants". *)
Parent_mut(n) == n
EraseShared_mut(b, I) == b
Ascends_mut(i) == depths[i] > 0
LoopGuard_mut == stack # <<>> \/ current_maximum_depth > 1
LowerMaxDepth_mut(d) == d
-----------------------------------------------------------------------------

(* TreeNode::parent and sibling() *)
Parent(n)  == Front(n)
Sibling(n) == Front(n) \o <<1 - Last(n)>>

(* Tree::descendants(node): the objects of the leaves below node *)
Descendants(i, n) == {o \in Objects : IsPrefix(n, place[i][o])}

LeafObjects(i, leaf) == {o \in Objects : place[i][o] = leaf}

(* the intersection of all buckets, starting from buckets[0] *)
Shared(b) == {o \in b[0] : \A i \in TreeIds \ {0} : o \in b[i]}

(* "remove the intersection from all the current buckets" *)
EraseShared(b, I) == [i \in TreeIds |-> b[i] \ I]

(* std::sort by similarity, descending; it is not stable, so equal       *)
(* similarities come out in any order                                     *)
SortedStacks(S) ==
    {s \in SetToSeqs(S) : \A k \in 1..Len(s) - 1 : Sim[s[k]] >= Sim[s[k + 1]]}

(* intersect_buckets(): fill the stack with the shared objects, sorted *)
IntersectBuckets(b, st) ==
    LET I == Shared(b) IN
    IF I = {} THEN buckets' = b /\ stack' = st
    ELSE /\ buckets' = EraseShared(b, I)
         /\ stack' \in SortedStacks(ToSet(st) \cup I)

(* begin(): every tree at the query's leaf, with that leaf's objects *)
BeginIter ==
    /\ nodes' = qleaf
    /\ depths' = [i \in TreeIds |-> Len(qleaf[i])]
    /\ current_maximum_depth' = Max({Len(qleaf[i]) : i \in TreeIds})
    /\ current' = 0
    /\ IntersectBuckets([i \in TreeIds |-> LeafObjects(i, qleaf[i])], <<>>)
    /\ out' = <<>> /\ exhausted' = FALSE

LSHInit ==
    /\ \E forest \in [TreeIds -> TreeConfigs] :
         /\ place = [i \in TreeIds |-> forest[i].at]
         /\ qleaf = [i \in TreeIds |-> QueryLeaf(forest[i].depth)]
    /\ LET q == qleaf IN
       /\ nodes = q
       /\ depths = [i \in TreeIds |-> Len(q[i])]
       /\ current_maximum_depth = Max({Len(q[i]) : i \in TreeIds})
       /\ current = 0
       /\ LET b == [i \in TreeIds |-> {o \in Objects : place[i][o] = q[i]}]
              I == Shared(b)
          IN IF I = {} THEN buckets = b /\ stack = <<>>
             ELSE buckets = EraseShared(b, I) /\ stack \in SortedStacks(I)
    /\ out = <<>> /\ exhausted = FALSE
    /\ lsh_pc = "idle" /\ lsh_resets = 0

-----------------------------------------------------------------------------
(* the parent calls next() *)
CallNext ==
    /\ lsh_pc = "idle"
    /\ lsh_pc' = "next"
    /\ UNCHANGED <<place, qleaf, nodes, depths, buckets, current_maximum_depth, stack,
                   current, out, exhausted, lsh_resets>>

(* reset(): clear the stack and the buckets, then begin() again *)
ResetIter ==
    /\ lsh_pc = "idle" /\ lsh_resets < MaxLSHResets
    /\ BeginIter
    /\ lsh_resets' = lsh_resets + 1
    /\ UNCHANGED <<place, qleaf, lsh_pc>>

LoopGuard == stack # <<>> \/ current_maximum_depth > 0

Unchanged_trees == UNCHANGED <<place, qleaf, nodes, depths, buckets, current_maximum_depth, lsh_resets>>

(* next() returns true with the stack entry current now points at: the  *)
(* back first, then towards the front                                     *)
ReturnEntry ==
    /\ lsh_pc = "next" /\ stack # <<>> /\ current # 1
    /\ current' = IF current = 0 THEN Len(stack) ELSE current - 1
    /\ out' = Append(out, stack[current'])
    /\ lsh_pc' = "idle"
    /\ Unchanged_trees /\ UNCHANGED <<stack, exhausted>>

(* next() returns false: the while condition fails, or the front of the  *)
(* stack was handed out at depth 0                                        *)
ReturnFalse ==
    /\ lsh_pc = "next"
    /\ \/ ~LoopGuard /\ UNCHANGED <<stack, current>>
       \/ stack # <<>> /\ current = 1 /\ current_maximum_depth = 0
          /\ stack' = <<>> /\ current' = 0
    /\ lsh_pc' = "idle" /\ exhausted' = TRUE
    /\ Unchanged_trees /\ UNCHANGED out

(* a tree climbs when it is at the current maximum depth *)
Ascends(i) == depths[i] = current_maximum_depth

(* --current_maximum_depth *)
LowerMaxDepth(d) == d - 1

(* The stack is drained (or was empty) and a level is left: every tree   *)
(* at the current maximum depth adds its sibling's descendants to its     *)
(* bucket and moves to its parent; then intersect_buckets().              *)
Climb ==
    /\ lsh_pc = "next" /\ LoopGuard
    /\ stack = <<>> \/ current = 1
    /\ current_maximum_depth > 0
    /\ nodes' = [i \in TreeIds |-> IF Ascends(i) THEN Parent(nodes[i]) ELSE nodes[i]]
    /\ depths' = [i \in TreeIds |-> IF Ascends(i) THEN depths[i] - 1 ELSE depths[i]]
    /\ current_maximum_depth' = LowerMaxDepth(current_maximum_depth)
    /\ current' = 0
    /\ IntersectBuckets([i \in TreeIds |->
                           IF Ascends(i) THEN buckets[i] \cup Descendants(i, Sibling(nodes[i]))
                           ELSE buckets[i]], <<>>)
    /\ UNCHANGED <<place, qleaf, lsh_pc, out, exhausted, lsh_resets>>

LSHStep == ReturnEntry \/ ReturnFalse \/ Climb

LSHNext == CallNext \/ ResetIter \/ LSHStep

(* A call of next() runs on its thread until it returns. *)
LSHSpec == LSHInit /\ [][LSHNext]_lsh_vars /\ WF_lsh_vars(LSHStep)

-----------------------------------------------------------------------------
LSHTypeOK ==
    /\ nodes \in [TreeIds -> UNION {[1..k -> {0, 1}] : k \in 0..MaxDepth}]
    /\ depths \in [TreeIds -> 0..MaxDepth]
    /\ \A i \in TreeIds : Len(nodes[i]) = depths[i] /\ IsPrefix(nodes[i], qleaf[i])
    /\ buckets \in [TreeIds -> SUBSET Objects]
    /\ current_maximum_depth \in 0..MaxDepth
    /\ stack \in Seq(Objects) /\ current \in 0..Len(stack)
    /\ lsh_pc \in {"idle", "next"} /\ exhausted \in BOOLEAN

(* The depth at which o first lies under every tree's node: a tree whose  *)
(* query leaf holds o never separates it, any other tree does below the   *)
(* length of the common prefix of o's leaf and the query's.               *)
Agree(i, o) ==
    IF place[i][o] = qleaf[i] THEN Max({Len(qleaf[j]) : j \in TreeIds})
    ELSE Len(LongestCommonPrefix({place[i][o], qleaf[i]}))
Level(o) == Min({Agree(i, o) : i \in TreeIds})

(* "Remove the intersection from all the current buckets to avoid         *)
(* duplicates": between two begin()s next() never hands out an object     *)
(* twice, though climbing adds objects back to the buckets.               *)
NoDuplicateResults == IsInjective(out)

(* next() hands out the objects level by level: one that agrees with the *)
(* query to a deeper level in every tree is never returned after one that  *)
(* agrees to a shallower level.                                           *)
ResultsByLevel ==
    \A j, k \in 1..Len(out) : j < k => Level(out[j]) >= Level(out[k])

(* Once next() has returned false every object of the store has been     *)
(* returned: the climb reaches the roots, where every bucket holds them all. *)
ExhaustsStore == exhausted => ToSet(out) = Objects

(* Every call of next() returns: the while loop ends. *)
LSHNextReturns == lsh_pc = "next" ~> lsh_pc = "idle"
=============================================================================
