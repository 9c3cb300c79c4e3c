------------------------------ MODULE MCTtlCache ------------------------------
(* Instance of TtlCache and of CacheHierarchy for TLC: two keys in one shard and one *)
(* in another, room for two entries, and a value that alone is too large; in front   *)
(* of it an L1 with room for one of the first two keys and for the third.  A         *)
(* behaviour uses the cache either through the hierarchy or by itself.               *)
EXTENDS CacheHierarchy, TLC

CONSTANTS a, b, c, left, right, small, large

MCShardOf == (a :> left) @@ (b :> left) @@ (c :> right)
MCL1ShardOf == MCShardOf
MCWeight == (small :> 1) @@ (large :> 5)

VARIABLE layered  \* the cache is used through the hierarchy

frontVars == <<l1Vars, is_running, lastSet>>

MCInit == HierarchyInit /\ layered \in BOOLEAN

MCNext ==
  /\ \/ layered /\ HierarchyNext
     \/ ~layered /\ Next /\ UNCHANGED frontVars
  /\ UNCHANGED layered

\* As in FairSpec.
MCSpec ==
  /\ MCInit /\ [][MCNext]_<<hierarchyVars, layered>>
  /\ WF_<<hierarchyVars, layered>>(CleanupStep /\ UNCHANGED <<frontVars, layered>>)

\* Whatever is evicted, expires or is refused in either level, get() answers with what the
\* last successful set() stored or with nothing (CacheHierarchy).
LayersAgree == layered => AnswersAreCurrent
===============================================================================
