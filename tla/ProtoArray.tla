----------------------------- MODULE ProtoArray -----------------------------
(***************************************************************************)
(* The proto array of the fork choice (ProtoArray, pkgs/node/src/          *)
(* forkchoice.zig): a block tree stored as a list in insertion order, with *)
(* subtree weights, best child and best descendant kept incrementally, and *)
(* sibling links for traversal.                                            *)
(*                                                                         *)
(* An index is the position in the list counted from 1 and 0 stands for    *)
(* null. (The source counts from 0 and also uses 0 for "none" in the       *)
(* sibling links, where the anchor cannot occur.) The root -> index map    *)
(* `indices` is the operator IndexOf.                                      *)
(***************************************************************************)
EXTENDS Integers, Sequences, FiniteSets, SequencesExt

IndexOf(nodes, root) ==
  LET at == {i \in 1 .. Len(nodes) : nodes[i].root = root}
  IN  IF at = {} THEN 0 ELSE CHOOSE i \in at : TRUE

RootsOf(nodes) == {nodes[i].root : i \in 1 .. Len(nodes)}

\* A node just inserted below index `parent` at depth `depth`.
NewNode(root, slot, parent, depth) ==
  [root |-> root, slot |-> slot, parent |-> parent, depth |-> depth,
   weight |-> 0, bestChild |-> 0, bestDescendant |-> 0,
   nextSibling |-> 0, firstChild |-> 0, latestChild |-> 0, numChildren |-> 0]

\* ProtoArray.onBlock for a block that is not in the array and whose parent
\* is (the caller has looked both up).
Add(nodes, root, slot, parentRoot) ==
  LET new    == Len(nodes) + 1
      parent == IndexOf(nodes, parentRoot)
      prev   == nodes[parent].latestChild
      linked(i) ==
        IF i = parent
        THEN [nodes[i] EXCEPT !.firstChild = IF prev = 0 THEN new ELSE @,
                              !.latestChild = new, !.numChildren = @ + 1]
        ELSE IF i = prev THEN [nodes[i] EXCEPT !.nextSibling = new]
        ELSE nodes[i]
  IN  Append([i \in 1 .. Len(nodes) |-> linked(i)],
             NewNode(root, slot, parent, nodes[parent].depth + 1))

----------------------------------------------------------------------------
(* applyDeltas                                                             *)

\* First backward pass: every node hands its delta on to its parent, so that
\* each entry ends as the sum over the node's subtree.
SubtreeDeltas(nodes, deltas) ==
  LET handOn(i, d) == IF nodes[i].parent = 0 THEN d
                      ELSE [d EXCEPT ![nodes[i].parent] = @ + d[i]]
  IN  FoldRightDomain(handOn, nodes, deltas)

\* Mutant: an equally heavy sibling with a smaller root also wins.
OffersItselfAnyTie(nodes, weight, best, i) ==
  LET b == best[nodes[i].parent].child
  IN  b \in {0, i} \/ weight[b] <= weight[i]

\* Second backward pass, over the pairs (bestChild, bestDescendant): does node i
\* become, or stay, the best child of its parent? `weight` are the weights
\* after the first pass.
OffersItself(nodes, weight, best, i) ==
  LET p == nodes[i].parent
      b == best[p].child
  IN  \/ b \in {0, i}
      \/ weight[b] < weight[i]
      \/ weight[b] = weight[i] /\ nodes[b].root < nodes[i].root

BestPointers(nodes, weight, cutoff) ==
  LET offer(i, best) ==
        LET descendant == IF best[i].descendant # 0 THEN best[i].descendant
                          ELSE IF weight[i] >= cutoff THEN i ELSE 0
        IN  IF nodes[i].parent # 0 /\ OffersItself(nodes, weight, best, i)
            THEN [best EXCEPT ![nodes[i].parent] =
                                [child |-> i, descendant |-> descendant]]
            ELSE best
      stored == [i \in 1 .. Len(nodes) |-> [child |-> nodes[i].bestChild,
                                            descendant |-> nodes[i].bestDescendant]]
  IN  FoldRightDomain(offer, nodes, stored)

NewWeights(nodes, sums) == [i \in 1 .. Len(nodes) |-> nodes[i].weight + sums[i]]

WithWeights(nodes, weight, best) ==
  [i \in 1 .. Len(nodes) |->
     [nodes[i] EXCEPT !.weight = weight[i],
                      !.bestChild = best[i].child,
                      !.bestDescendant = best[i].descendant]]

Reweighted(nodes, weight, cutoff) ==
  WithWeights(nodes, weight, BestPointers(nodes, weight, cutoff))

\* applyDeltasUnlocked, for a delta list of the right length.
applyDeltas(nodes, deltas, cutoff) ==
  Reweighted(nodes, NewWeights(nodes, SubtreeDeltas(nodes, deltas)), cutoff)

----------------------------------------------------------------------------
(* The tree the array stores.                                              *)

\* The indices on the way from i to the anchor, i included.
PathToAnchor(nodes, i) ==
  LET path[j \in 0 .. Len(nodes)] ==
        IF j = 0 THEN {} ELSE {j} \cup path[nodes[j].parent]
  IN  path[i]

Subtree(nodes, i) == {j \in 1 .. Len(nodes) : i \in PathToAnchor(nodes, j)}

ChildrenOf(nodes, i) == {j \in 1 .. Len(nodes) : nodes[j].parent = i}

----------------------------------------------------------------------------
(* Canonical view and rebase.                                              *)

\* Mutant: a node below any canonical parent is canonical.
DownstreamOfAnyParent(nodes, target) ==
  LET grow(view, i) == IF i > target /\ nodes[i].parent \in view
                       THEN view \cup {i} ELSE view
  IN  FoldLeftDomain(grow, PathToAnchor(nodes, target), nodes)

\* getCanonicalViewUnlocked(target, null): the path from the target to the
\* anchor, then in list order every later node whose parent is in the view
\* and not before the target.
CanonicalIndices(nodes, target) ==
  LET grow(view, i) ==
        IF i > target /\ nodes[i].parent >= target /\ nodes[i].parent \in view
        THEN view \cup {i} ELSE view
  IN  FoldLeftDomain(grow, PathToAnchor(nodes, target), nodes)

getCanonicalView(nodes, targetRoot) ==
  {nodes[i].root : i \in CanonicalIndices(nodes, IndexOf(nodes, targetRoot))}

\* Mutant: the target itself is counted among the confirmed roots to prune.
PrunedWithTarget(nodes, target, prev) ==
  {nodes[i].root : i \in {j \in prev .. Len(nodes) :
     ~(j \in CanonicalIndices(nodes, target) /\ nodes[j].slot > nodes[target].slot)}}

\* getCanonicalityAnalysis(target, prev, null): the canonical roots but the first,
\* which is the target, and the non-canonical ones, from index prev on.
PrunedRoots(nodes, target, prev) ==
  {nodes[i].root : i \in {j \in (prev .. Len(nodes)) \ {target} :
     ~(j \in CanonicalIndices(nodes, target) /\ nodes[j].slot > nodes[target].slot)}}

\* The nodes a rebase to `targetRoot` keeps, in order.
KeptIndices(nodes, targetRoot, view) ==
  SelectSeq([i \in 1 .. Len(nodes) |-> i],
            LAMBDA i : /\ nodes[i].root \in view
                       /\ nodes[i].slot >= nodes[IndexOf(nodes, targetRoot)].slot)

\* old_indices_to_new: the new index of a kept node, 0 for a removed one.
NewIndex(kept, old) ==
  IF \E k \in 1 .. Len(kept) : kept[k] = old
  THEN CHOOSE k \in 1 .. Len(kept) : kept[k] = old ELSE 0

\* The node list after the rebase.
RebasedNodes(nodes, targetRoot, kept) ==
  LET moved(old) == NewIndex(kept, old)
      anchorDepth == nodes[IndexOf(nodes, targetRoot)].depth
  IN  [k \in 1 .. Len(kept) |->
         LET n == nodes[kept[k]]
         IN  [n EXCEPT !.depth = @ - anchorDepth,
                       !.parent = IF k = 1 THEN 0 ELSE moved(@),
                       !.nextSibling = IF k = 1 THEN 0 ELSE moved(@),
                       !.firstChild = IF n.latestChild # 0 THEN moved(@) ELSE @,
                       !.latestChild = moved(@),
                       !.bestChild = moved(@),
                       !.bestDescendant = moved(@)]]

\* The lookups whose failure is a @panic: a kept node refers to a removed one,
\* or has a best descendant without a best child; the first kept node is not
\* the target. The parent lookup alone may fail.
RebasePanics(nodes, targetRoot, kept) ==
  LET lost(old) == old # 0 /\ NewIndex(kept, old) = 0
  IN  \/ Len(kept) = 0 \/ nodes[kept[1]].root # targetRoot
      \/ \E k \in 1 .. Len(kept) :
           LET n == nodes[kept[k]]
           IN  \/ k # 1 /\ (n.parent = 0 \/ lost(n.nextSibling))
               \/ n.latestChild # 0 /\ (lost(n.firstChild) \/ lost(n.latestChild))
               \/ lost(n.bestChild)
               \/ n.bestChild # 0 /\ lost(n.bestDescendant)
               \/ n.bestChild = 0 /\ n.bestDescendant # 0
=============================================================================
