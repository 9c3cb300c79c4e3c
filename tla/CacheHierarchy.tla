---------------------------- MODULE CacheHierarchy ----------------------------
(***************************************************************************)
(* CacheHierarchy (resync/core/cache_hierarchy.py), through which the TWS  *)
(* client reads: an L1Cache, least recently used first out, before an      *)
(* AsyncTTLCache, which is module TtlCache.  No operation suspends (see    *)
(* there), so each is one step of both caches.                             *)
(*                                                                         *)
(* The entries of L1 have no time to live: a value that expired in L2 is   *)
(* still answered until L1 needs its place.  No property here says         *)
(* otherwise.                                                              *)
(*                                                                         *)
(* Left out: the key prefix, which is the same for all keys, and the       *)
(* encryption, which is not implemented.                                   *)
(***************************************************************************)
EXTENDS TtlCache

CONSTANTS
  L1ShardOf,     \* L1ShardOf[k]: the L1 shard of k
  l1_shard_size  \* room in one of them

VARIABLES
  l1,         \* l1[k]: the value in L1, NoValue if there is none
  used,       \* the keys in L1, the least recently used first
  is_running,
  lastSet     \* history: what the last set(k) that did not raise stored, NoValue if
              \* k was deleted since

l1Vars == <<l1, used>>
hierarchyVars == <<vars, l1Vars, is_running, lastSet>>

HierarchyInit ==
  /\ Init
  /\ l1 = [k \in Keys |-> NoValue]
  /\ used = <<>>
  /\ is_running = FALSE
  /\ lastSet = [k \in Keys |-> NoValue]

-------------------------------------------------------------------------------
(* L1Cache *)

Others(k) == SelectSeq(used, LAMBDA j : j # k)

L1Get(k) == used' = Append(Others(k), k) /\ UNCHANGED l1

\* A full shard drops its least recently used key for a new one.
L1Set(k, v) ==
  LET shard == SelectSeq(Others(k), LAMBDA j : L1ShardOf[j] = L1ShardOf[k])
      dropped == IF Len(shard) >= l1_shard_size THEN {Head(shard)} ELSE {}
  IN  /\ used' = Append(SelectSeq(Others(k), LAMBDA j : j \notin dropped), k)
      /\ l1' = [j \in Keys |-> IF j = k THEN v ELSE IF j \in dropped THEN NoValue ELSE l1[j]]

L1Delete(k) == used' = Others(k) /\ l1' = [l1 EXCEPT ![k] = NoValue]

L1Clear == used' = <<>> /\ l1' = [k \in Keys |-> NoValue]

-------------------------------------------------------------------------------
(* CacheHierarchy *)

\* get: a hit in L1 is not looked up in L2; a hit in L2 is copied to L1.
HierarchyGet(k) ==
  /\ IF l1[k] # NoValue
     THEN L1Get(k) /\ UNCHANGED vars
     ELSE /\ Get(k)
          /\ IF Live(k) # NoValue THEN L1Set(k, Live(k)) ELSE UNCHANGED l1Vars
  /\ UNCHANGED <<is_running, lastSet>>

HierarchySet_L1_first(k, v) ==
  /\ Set(k, v)
  /\ L1Set(k, v)
  /\ lastSet' = IF entries'[k].data = v THEN [lastSet EXCEPT ![k] = v] ELSE lastSet
  /\ UNCHANGED is_running

\* set: L2 first; when it raises, L1 keeps what it has.
HierarchySet(k, v) ==
  /\ Set(k, v)
  /\ IF entries'[k].data = v
     THEN L1Set(k, v) /\ lastSet' = [lastSet EXCEPT ![k] = v]
     ELSE UNCHANGED <<l1Vars, lastSet>>
  /\ UNCHANGED is_running

HierarchyDelete(k) ==
  /\ L1Delete(k)
  /\ Delete(k)
  /\ lastSet' = [lastSet EXCEPT ![k] = NoValue]
  /\ UNCHANGED is_running

HierarchyClear ==
  /\ L1Clear
  /\ Clear
  /\ lastSet' = [k \in Keys |-> NoValue]
  /\ UNCHANGED is_running

HierarchyStart ==
  /\ ~is_running
  /\ is_running' = TRUE
  /\ UNCHANGED <<vars, l1Vars, lastSet>>

\* stop: the cleanup task of L2 may not have been started.
HierarchyStop ==
  /\ is_running
  /\ is_running' = FALSE
  /\ IF cleanup = "off" THEN UNCHANGED vars ELSE Stop
  /\ UNCHANGED <<l1Vars, lastSet>>

HierarchyNext ==
  \/ \E k \in Keys : HierarchyGet(k) \/ HierarchyDelete(k)
  \/ \E k \in Keys, v \in Values : HierarchySet(k, v)
  \/ HierarchyClear
  \/ HierarchyStart
  \/ HierarchyStop
  \/ (CleanupStep \/ Tick) /\ UNCHANGED <<l1Vars, is_running, lastSet>>

HierarchySpec == HierarchyInit /\ [][HierarchyNext]_hierarchyVars

-------------------------------------------------------------------------------
(* Properties *)

\* What get() would return.
Answer(k) == IF l1[k] # NoValue THEN l1[k] ELSE Live(k)

\* Whatever is evicted, expires or is refused in either level, get() answers with what
\* the last set() that did not raise stored, or with nothing, and with nothing after a
\* delete() (get 224-251, set 253-266, delete 276-284).
AnswersAreCurrent == \A k \in Keys : Answer(k) \in {NoValue, lastSet[k]}
===============================================================================
