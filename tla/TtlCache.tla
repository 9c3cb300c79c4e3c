------------------------------- MODULE TtlCache -------------------------------
(***************************************************************************)
(* AsyncTTLCache (resync/core/async_cache.py): entries in shards, each     *)
(* with a time to live that a hit starts anew, limits on their number and  *)
(* their memory, eviction of the least recently used, a background cleanup *)
(* and rollback of the operations that a caller recorded.                  *)
(*                                                                         *)
(* No code suspends while it holds the lock of a shard, so no lock is ever *)
(* contended and an operation is one step.  The exception is the cleanup:  *)
(* it reads the clock, and then starts one task for each shard.            *)
(*                                                                         *)
(* Time is the age of each entry since its timestamp.  Entries of the same *)
(* age may have been used in either order, so any of them may be the least *)
(* recently used.  The clock is taken to go forward.  All entries have the *)
(* same time to live.  Up to 100 entries the estimate of the memory is the *)
(* exact sum that Weight gives.                                            *)
(*                                                                         *)
(* The write-ahead log is left out: it is off unless asked for, and with   *)
(* it log_operation always fails (write_ahead_log.py:146 reads a field     *)
(* that does not exist) and set() raises.  So are the snapshots, which no  *)
(* code but the tests takes.                                               *)
(***************************************************************************)
EXTENDS Integers, Sequences, FiniteSets, FiniteSetsExt, SequencesExt

CONSTANTS
  Keys, Values,
  NoValue,            \* no previous value
  Shards,
  ShardOf,            \* ShardOf[k]: the shard that hash(k) selects
  Weight,             \* Weight[v]: the memory of an entry that holds v
  max_entries, max_memory,
  ttl_seconds,        \* time to live, in ticks
  MaxLag,             \* bound: ticks that pass while a cleanup is under way
  MaxLog              \* bound: operations a caller records before it decides

ASSUME CacheAssumption ==
  /\ NoValue \notin Values
  /\ ShardOf \in [Keys -> Shards]
  /\ Weight \in [Values -> Nat]
  /\ {max_entries, max_memory, ttl_seconds, MaxLag, MaxLog} \subseteq Nat

VARIABLES
  entries,     \* entries[k]: data and age, data = NoValue if k is not cached
  cleanup,     \* the cleanup task: not running, sleeping, or removing
  todo,        \* the shards its current round has not visited
  lag,         \* ticks since its current round read the clock
  log          \* the operations that a caller would roll back

cleanupVars == <<cleanup, todo, lag>>
vars == <<entries, cleanupVars, log>>

\* Ages above this are alike, even for a round that read the clock MaxLag ago.
AgeCap == ttl_seconds + MaxLag + 1

Absent == [data |-> NoValue, age |-> 0]
Fresh(v) == [data |-> v, age |-> 0]
Entry == [data : Values, age : 0..AgeCap] \cup {Absent}

Present(ents) == {k \in Keys : ents[k].data # NoValue}

\* The entry is due for a reader of the clock that runs behind by `behind`.
Expired_At_ttl(e, behind) == e.data # NoValue /\ e.age - behind >= ttl_seconds
Expired(e, behind) == e.data # NoValue /\ e.age - behind > ttl_seconds

\* What get() would return.
Live(k) == IF Expired(entries[k], 0) THEN NoValue ELSE entries[k].data

Without(ents, S) == [k \in Keys |-> IF k \in S THEN Absent ELSE ents[k]]

\* _check_cache_bounds
WithinBounds(ents) ==
  /\ Cardinality(Present(ents)) <= max_entries
  /\ MapThenSumSet(LAMBDA k : Weight[ents[k].data], Present(ents)) <= max_memory

-------------------------------------------------------------------------------
TypeOK ==
  /\ entries \in [Keys -> Entry]
  /\ cleanup \in {"off", "sleeping", "removing"}
  /\ todo \subseteq Shards
  /\ lag \in 0..MaxLag
  /\ cleanup # "removing" => todo = {} /\ lag = 0
  /\ log \in Seq([operation : {"set", "delete"}, key : Keys,
                  previous_value : Values \cup {NoValue}])
  /\ Len(log) <= MaxLog

Init ==
  /\ entries = [k \in Keys |-> Absent]
  /\ cleanup = "off"
  /\ todo = {}
  /\ lag = 0
  /\ log = <<>>

\* _start_cleanup_task
StartCleanup ==
  /\ cleanup' = IF cleanup = "off" THEN "sleeping" ELSE cleanup
  /\ UNCHANGED <<todo, lag>>

\* get: a hit renews the timestamp, an expired entry is removed.
Get(k) ==
  /\ StartCleanup
  /\ entries' = [entries EXCEPT ![k] =
                   IF Expired(@, 0) THEN Absent ELSE [@ EXCEPT !.age = 0]]
  /\ UNCHANGED log

\* The sets of entries that the eviction loop of set(k) can have removed from ents
\* so far: the oldest ones of the shard of k, and not k itself.
Evictable(ents, k) ==
  LET others == {j \in Present(ents) \ {k} : ShardOf[j] = ShardOf[k]}
  IN {E \in SUBSET others :
        /\ Cardinality(E) <= 2 * Cardinality(Shards)
        /\ \A old \in E, young \in others \ E : ents[old].age >= ents[young].age}

\* Those it can have removed when it stops: the limits are met, or nothing is left
\* to evict, or the loop has reached its own limit.  An entry that replaced another of
\* its key can come before others of its age, and the loop then removes it and raises.
Evicted(ents, k) ==
  {E \in Evictable(ents, k) :
     /\ E # {} => \E last \in E : /\ E \ {last} \in Evictable(ents, k)
                                  /\ ~WithinBounds(Without(ents, E \ {last}))
     /\ \/ WithinBounds(Without(ents, E))
        \/ \A j \in Keys \ E : E \cup {j} \notin Evictable(ents, k)
        \/ entries[k] # Absent /\ \A j \in Keys \ E :
              E \cup {j} \in Evictable(ents, k) => ents[j].age = ents[k].age}

Stored_Even_if_too_large(k, v) ==
  LET full == [entries EXCEPT ![k] = Fresh(v)]
  IN {Without(full, E) : E \in Evicted(full, k)}

\* set: the entry is added first, then others are evicted.  If the limits are not
\* met even so, the new entry goes too (ValueError), and with it what it replaced.
Stored(k, v) ==
  LET full == [entries EXCEPT ![k] = Fresh(v)]
  IN {IF WithinBounds(Without(full, E)) THEN Without(full, E) ELSE Without(full, E \cup {k})
        : E \in Evicted(full, k)}

Set(k, v) ==
  /\ StartCleanup
  /\ entries' \in Stored(k, v)
  /\ UNCHANGED log

\* delete
Delete(k) ==
  /\ entries' = Without(entries, {k})
  /\ UNCHANGED <<cleanupVars, log>>

Clear ==
  /\ entries' = Without(entries, Keys)
  /\ UNCHANGED <<cleanupVars, log>>

-------------------------------------------------------------------------------
(* A caller that may roll back records each of its operations with the value     *)
(* get() returned for the key just before.                                       *)

Recorded(op, k) ==
  log' = Append(log, [operation |-> op, key |-> k, previous_value |-> Live(k)])

RecordedSet(k, v) ==
  /\ Len(log) < MaxLog
  /\ Recorded("set", k)
  /\ StartCleanup
  /\ entries' \in Stored(k, v)

RecordedDelete(k) ==
  /\ Len(log) < MaxLog
  /\ Recorded("delete", k)
  /\ StartCleanup
  /\ entries' = Without(entries, {k})

\* Rollback of one operation: the previous value returns with a fresh timestamp; a
\* set without one is undone by removal.  Limits are not looked at.
Undone(op, ents) ==
  IF op.previous_value # NoValue
  THEN [ents EXCEPT ![op.key] = Fresh(op.previous_value)]
  ELSE IF op.operation = "set" THEN Without(ents, {op.key}) ELSE ents

RolledBack_First_to_last(ops, ents) == FoldLeft(LAMBDA e, op : Undone(op, e), ents, ops)

\* The operations are undone from the last to the first, shard by shard; two that
\* concern one key are in one shard.
RolledBack(ops, ents) == FoldRight(Undone, ops, ents)

\* rollback_transaction
Rollback ==
  /\ log # <<>>
  /\ entries' = RolledBack(log, entries)
  /\ log' = <<>>
  /\ UNCHANGED cleanupVars

\* The caller keeps what it did.
Commit ==
  /\ log # <<>>
  /\ log' = <<>>
  /\ UNCHANGED <<entries, cleanupVars>>

-------------------------------------------------------------------------------
Stop_Leaves_shard_tasks ==
  /\ cleanup # "off"
  /\ cleanup' = "off"
  /\ UNCHANGED <<entries, todo, lag, log>>

\* stop: the task is cancelled, and the tasks that it awaits with it.
Stop ==
  /\ cleanup # "off"
  /\ cleanup' = "off"
  /\ todo' = {}
  /\ lag' = 0
  /\ UNCHANGED <<entries, log>>

\* The cleanup task wakes up, reads the clock and starts a task for each shard.
StartRound ==
  /\ cleanup = "sleeping"
  /\ cleanup' = "removing"
  /\ todo' = Shards
  /\ lag' = 0
  /\ UNCHANGED <<entries, log>>

CleanShard_Removes_at_ttl(s) ==
  /\ s \in todo
  /\ entries' = Without(entries, {k \in Keys : ShardOf[k] = s /\ Expired_At_ttl(entries[k], lag)})
  /\ todo' = todo \ {s}
  /\ UNCHANGED <<cleanup, lag, log>>

\* process_shard: what had expired when the round read the clock.
CleanShard(s) ==
  /\ s \in todo
  /\ entries' = Without(entries, {k \in Keys : ShardOf[k] = s /\ Expired(entries[k], lag)})
  /\ todo' = todo \ {s}
  /\ UNCHANGED <<cleanup, lag, log>>

EndRound_Loop_ends ==
  /\ cleanup = "removing"
  /\ todo = {}
  /\ UNCHANGED vars

EndRound ==
  /\ cleanup = "removing"
  /\ todo = {}
  /\ cleanup' = "sleeping"
  /\ lag' = 0
  /\ UNCHANGED <<entries, todo, log>>

\* Time passes, for the entries and for a round under way.
Tick ==
  /\ cleanup = "removing" => lag < MaxLag
  /\ entries' = [k \in Keys |->
                 IF entries[k].data = NoValue THEN Absent
                 ELSE [entries[k] EXCEPT !.age = IF @ < AgeCap THEN @ + 1 ELSE @]]
  /\ lag' = IF cleanup = "removing" THEN lag + 1 ELSE lag
  /\ UNCHANGED <<cleanup, todo, log>>

CleanupStep == StartRound \/ EndRound \/ \E s \in Shards : CleanShard(s)

Next ==
  \/ \E k \in Keys : Get(k) \/ Delete(k) \/ RecordedDelete(k)
  \/ \E k \in Keys, v \in Values : Set(k, v) \/ RecordedSet(k, v)
  \/ Clear \/ Rollback \/ Commit \/ Stop
  \/ CleanupStep \/ Tick

Spec == Init /\ [][Next]_vars

\* The event loop runs the cleanup task, whose sleep ends.
FairSpec == Spec /\ WF_vars(CleanupStep)

-------------------------------------------------------------------------------
(* Properties *)

\* Whatever the order of sets, evictions and cleanups, the cache leaves its
\* limits only when a rollback takes it there ("crucial to ensure we never exceed the
\* configured limits", set 723-730).
OnlyRollbackExceedsLimits ==
  [][WithinBounds(entries) => WithinBounds(entries') \/ Rollback]_vars

\* A cleanup round, which works with a clock it read some time ago, removes no entry
\* that get() would still return (get 504 against _remove_expired_entries 381-403).
CleanupSparesLiveEntries ==
  [][todo' # todo /\ todo' # Shards =>
       \A k \in Keys : Live(k) # NoValue => entries'[k] = entries[k]]_vars

\* Undoing a transaction gives every key the value that its caller saw there before
\* its first operation on the key (rollback_transaction 973-1010).
RollbackRestores ==
  [][Rollback =>
       \A i \in DOMAIN log :
         (\A j \in 1..(i - 1) : log[j].key # log[i].key) =>
           \/ entries'[log[i].key].data = log[i].previous_value
           \/ log[i].operation = "delete" /\ log[i].previous_value = NoValue]_vars

\* While the cleanup task runs, an expired entry that nobody asks for goes.
ExpiredEntriesGo ==
  \A k \in Keys :
    Expired(entries[k], 0) /\ cleanup # "off" ~> ~Expired(entries[k], 0) \/ cleanup = "off"
==============================================================================
