----------------------------- MODULE ShardRoute ------------------------------
(***************************************************************************)
(* The routing decision of GetDMLRouting (src/src/planner/builder/expr.go,*)
(* lines 128-169) once the WHERE clause has been split and rewritten: the *)
(* first conjunct `key = literal` is a point lookup, the first            *)
(* `key IN (literals)` the segments of its values, and without either     *)
(* every segment is used.                                                 *)
(*                                                                         *)
(* The router (Lookup, GetIndex, GetSegments) is not in this source tree: *)
(* it is modelled from the spec (section 4.3) as a hash of each literal   *)
(* to a segment.                                                          *)
(***************************************************************************)
EXTENDS Predicates, FiniteSetsExt

CONSTANTS
  Shards,      \* the segments of the table
  ShardOf,     \* ShardOf[v]: the segment the literal v hashes to
  ShardKey     \* the shard key column of the table

ASSUME RouteAssumption ==
  /\ ShardOf \in [Values -> Shards]
  /\ ShardKey \in Columns

(* The router: a point lookup, a lookup with nil bounds (every segment), *)
(* the segment index of a literal, and the deduplicated segment set.     *)
Lookup(v) == {ShardOf[v]}
LookupAll == Shards
GetIndex(v) == ShardOf[v]
GetSegments(idxs) == Range(idxs)

(* nameMatch (lines 166-169): a column named key; atoms carry no table   *)
(* qualifier, so the qualifier test always passes.                       *)
nameMatch(col, key) == col = key

Matches(f, key) == f.kind \in {"eq", "in"} /\ nameMatch(f.col, key)

(* Mutant: an IN-list is routed by the segment of its first value only. *)
RouteFiltersFirstIndex(key, filters) ==
  LET hits == {j \in 1..Len(filters) : Matches(filters[j], key)}
      f == filters[Min(hits)]
  IN IF hits = {} THEN LookupAll
     ELSE IF f.kind = "eq" THEN Lookup(f.val)
     ELSE GetSegments(<<GetIndex(f.vals[1])>>)

(***************************************************************************)
(* The loop of GetDMLRouting (lines 128-161): the first `key = literal`   *)
(* is a point lookup, the first `key IN (literals)` the segments of its   *)
(* values; with neither, every segment.                                   *)
(***************************************************************************)
RouteFilters(key, filters) ==
  LET hits == {j \in 1..Len(filters) : Matches(filters[j], key)}
      f == filters[Min(hits)]
  IN IF hits = {} THEN LookupAll
     ELSE IF f.kind = "eq" THEN Lookup(f.val)
     ELSE GetSegments([i \in 1..Len(f.vals) |-> GetIndex(f.vals[i])])
=============================================================================
