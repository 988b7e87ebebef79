------------------------------ MODULE JsonMerge ------------------------------
(***************************************************************************)
(* mergeValue of packages/headless/src/reconciliation.ts: the three-way    *)
(* merge of nested JSON values.  A value is a scalar (arrays, which are    *)
(* compared as a whole, count as scalars), an object, or Undefined where a *)
(* side has nothing.                                                       *)
(*                                                                         *)
(* The three trees of one record start equal; then an editor of the source *)
(* and an editor of the database each leave a tree of their own, and the   *)
(* merge is compared with what the edited paths alone call for.            *)
(***************************************************************************)
EXTENDS Integers, Sequences

CONSTANTS Scalars, Undefined,
          Clash,              \* the outcome of a merge that fails at any depth
          Keys,               \* the keys of objects
          Depth               \* how deep objects nest: the one bound

VARIABLES baseTree, sourceTree, databaseTree
trees == <<baseTree, sourceTree, databaseTree>>

Objects(values) == UNION {[fields -> values] : fields \in SUBSET Keys}

\* The values with at most n objects around each scalar.
Level[n \in 0..Depth] ==
  IF n = 0 THEN Scalars ELSE Scalars \cup Objects(Level[n - 1])

Trees == Objects(Level[Depth - 1])
Sides == Level[Depth] \cup {Undefined}

ASSUME JsonAssumptions ==
  /\ Depth \in Nat \ {0}
  /\ Undefined \notin Scalars
  /\ Clash \notin Scalars \cup {Undefined}
  /\ \A n \in 0..Depth - 1 : Objects(Level[n]) \cap (Scalars \cup {Undefined, Clash}) = {}
-----------------------------------------------------------------------------
IsRecord(v) == v \notin Scalars \cup {Undefined}
At(v, k) == IF IsRecord(v) /\ k \in DOMAIN v THEN v[k] ELSE Undefined
Defined(f) == [k \in {k \in DOMAIN f : f[k] # Undefined} |-> f[k]]

\* A faulty variant of Merging, used by no definition: the keys that only the
\* database has added are not looked at.
MergingForgettingAdded(merge, b, s, d) ==
  IF s = d \/ b = d THEN s
  ELSE IF b = s THEN d
  ELSE IF IsRecord(b) /\ IsRecord(s) /\ IsRecord(d)
    THEN LET merged == [k \in DOMAIN b \cup DOMAIN s |-> merge[<<At(b, k), At(s, k), At(d, k)>>]]
         IN  IF \E k \in DOMAIN merged : merged[k] = Clash THEN Clash ELSE Defined(merged)
  ELSE Clash

\* Another: values are compared as a whole, however they are nested.
MergingWhole(merge, b, s, d) ==
  IF s = d \/ b = d THEN s ELSE IF b = s THEN d ELSE Clash

\* The body of mergeValue; merge stands for the calls it makes on the values of
\* the keys.  A clash below is pushed on the one list of conflicts, and a list
\* that is not empty fails the whole merge.
Merging(merge, b, s, d) ==
  IF s = d THEN s
  ELSE IF b = s THEN d
  ELSE IF b = d THEN s
  ELSE IF IsRecord(b) /\ IsRecord(s) /\ IsRecord(d)
    THEN LET merged == [k \in DOMAIN b \cup DOMAIN s \cup DOMAIN d |->
                          merge[<<At(b, k), At(s, k), At(d, k)>>]]
         IN  IF \E k \in DOMAIN merged : merged[k] = Clash THEN Clash ELSE Defined(merged)
  ELSE Clash

MergeValue[sides \in Sides \X Sides \X Sides] ==
  Merging(MergeValue, sides[1], sides[2], sides[3])
-----------------------------------------------------------------------------
MergeInit == /\ baseTree \in Trees
             /\ sourceTree = baseTree /\ databaseTree = baseTree

\* Any number of edits of one side, up to the moment the record is merged:
\* whatever they were, they leave one tree.
EditSourceTree == /\ sourceTree = baseTree
                  /\ sourceTree' \in Trees
                  /\ UNCHANGED <<baseTree, databaseTree>>

EditDatabaseTree == /\ databaseTree = baseTree
                    /\ databaseTree' \in Trees
                    /\ UNCHANGED <<baseTree, sourceTree>>

MergeNext == EditSourceTree \/ EditDatabaseTree
MergeSpec == MergeInit /\ [][MergeNext]_trees

Merged == MergeValue[trees]
-----------------------------------------------------------------------------
\* The paths of at most n keys, the empty path among them.
PathsTo(n) == UNION {[1..m -> Keys] : m \in 0..n}

\* What a value holds at the end of a path.
ValueAt(value, path) ==
  LET walk[i \in 0..Len(path)] == IF i = 0 THEN value ELSE At(walk[i - 1], path[i])
  IN  walk[Len(path)]

\* The same, when that is not an object.
Leaf(value, path) ==
  LET v == ValueAt(value, path) IN IF IsRecord(v) THEN Undefined ELSE v

\* All three sides differ at the path, and there is nothing to descend into.
ClashAt(b, s, d, path) ==
  LET x == ValueAt(b, path)  y == ValueAt(s, path)  z == ValueAt(d, path)
  IN  /\ x # y /\ x # z /\ y # z
      /\ ~(IsRecord(x) /\ IsRecord(y) /\ IsRecord(z))

MergeTypeOK == baseTree \in Trees /\ sourceTree \in Trees /\ databaseTree \in Trees

\* mergeValue: a merge that succeeds holds at every path what the only side that
\* changed it put there, and no value that neither side has.
LeavesFollowEdits ==
  Merged # Clash => \A p \in PathsTo(Depth) :
    Leaf(Merged, p) = IF Leaf(sourceTree, p) = Leaf(baseTree, p) THEN Leaf(databaseTree, p)
                      ELSE Leaf(sourceTree, p)

\* mergeValue: a merge fails when, and only when, both sides changed the value of
\* one path, differently, and at least one of the three values is not an object.
ClashesAreReal ==
  Merged = Clash <=> \E p \in PathsTo(Depth) : ClashAt(baseTree, sourceTree, databaseTree, p)

=============================================================================
