---------------------------- MODULE ThreeWayMerge ----------------------------
(***************************************************************************)
(* The three-way merge of lib/conflict-resolver.ts over documents of leaves. *)
(* A leaf is a rank in the order of canonical JSON strings, in which a       *)
(* missing value comes first.                                                *)
(***************************************************************************)
EXTENDS Integers

CONSTANTS
    Paths,      \* the leaves of a document
    MaxLeaf     \* bound on the JSON values a leaf may take

ASSUME MergeAssumption == MaxLeaf \in Nat

MISSING == 0
Leaf == MISSING..MaxLeaf
Document == [Paths -> Leaf]

LatestWins(base, current, incoming) ==      \* mutant: arrival order decides
    IF incoming = base THEN current ELSE incoming

\* One leaf: the side that changed it, or the greater of two changes.
MergeLeaf(base, current, incoming) ==
    IF current = base THEN incoming
    ELSE IF incoming = base \/ incoming <= current THEN current
    ELSE incoming

Merge(base, current, incoming) ==
    [p \in Paths |-> MergeLeaf(base[p], current[p], incoming[p])]
==============================================================================
