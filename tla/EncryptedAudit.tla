---------------------------- MODULE EncryptedAudit ----------------------------
(***************************************************************************)
(* EncryptedAuditTrail and its KeyManager (resync/core/encrypted_audit.py):*)
(* events are chained by hashes in memory and flushed, a block at a time,  *)
(* to files that are numbered by a counter; the end of the chain and the   *)
(* counter have files of their own, from which the next process starts.    *)
(*                                                                         *)
(* Nothing here suspends, so in one process only the worker's sleep lies   *)
(* between two operations.  But a flush writes three files, each opened    *)
(* with "w": an error, or the end of the process, can come at any of them  *)
(* and leave the file as it was or empty.                                  *)
(*                                                                         *)
(* A hash is a number, and every hash computed is a new one: the contents  *)
(* it is taken of hold an id and a time.  So hashes are numbered in the    *)
(* order of their computation.  0 is the empty hash.                       *)
(*                                                                         *)
(* Chaining and signatures are on, as by default.  Left out: signatures    *)
(* (their key never changes in one process), searches, the periodic        *)
(* verification (it recomputes what is in memory and changes nothing) and  *)
(* the archival (it only counts files).                                    *)
(***************************************************************************)
EXTENDS Integers, Sequences

CONSTANTS
  max_memory_entries,     \* room in pending_entries
  max_entries_per_block,  \* the worker flushes from this number on
  NoBlock,                \* a block file that is missing or cannot be read
  MaxHashes,              \* bound: hashes computed
  MaxBlocks               \* bound: block numbers used

ASSUME AuditAssumption ==
  /\ {max_memory_entries, max_entries_per_block, MaxBlocks} \subseteq Nat \ {0}
  /\ MaxHashes \in Nat

VARIABLES
  pending_entries,  \* memory: the entries not yet flushed
  chain_hash,       \* memory: the end of the chain
  block_counter,    \* memory: the number of the next block
  _running,         \* start() was called and stop() was not
  workers,          \* the flush workers that exist: a failed stop() leaves its own behind
  flushing,         \* <<>>, or what the flush under way writes next, and who flushes
  active_key,       \* the active encryption key, 0 if there is none
  expired,          \* it has expired
  keys,             \* the number of keys generated, which is the id of the last one
  blocks,           \* disk: the block files
  chain_file,       \* disk: chain_hash.txt, 0 if missing or empty
  counter_file,     \* disk: block_counter.txt, 0 if missing or empty
  hashes,           \* the number of hashes computed
  overflowed,       \* history: entries dropped for lack of room, by their hash
  starts,           \* history: the hashes that had been computed when a process was restarted
  torn              \* history: a process started at a counter below the last block file

memoryVars == <<pending_entries, chain_hash, block_counter>>
keyVars == <<active_key, expired, keys>>
diskVars == <<blocks, chain_file, counter_file>>
history == <<overflowed, starts, torn>>
vars == <<memoryVars, _running, workers, flushing, keyVars, diskVars, hashes, history>>

-------------------------------------------------------------------------------
Hash == 0..MaxHashes
BlockNumber == 0..(MaxBlocks - 1)

AuditEntry ==
  [chain_hash : Hash, previous_hash : Hash, encryption_key_id : Nat]

\* encryption_key_id is what the metadata says, key what the data is encrypted with.
AuditLogBlock ==
  [entries : Seq(AuditEntry), block_hash : Hash, previous_block_hash : Hash,
   encryption_key_id : Nat, key : Nat]

ASSUME BlockAssumption == NoBlock \notin AuditLogBlock

TypeOK ==
  /\ pending_entries \in Seq(AuditEntry)
  /\ Len(pending_entries) <= max_memory_entries
  /\ chain_hash \in Hash
  /\ block_counter \in 0..MaxBlocks
  /\ _running \in BOOLEAN
  /\ workers \in Nat
  /\ flushing \in {<<>>} \cup ({"chain", "counter"} \X {"worker", "stop"})
  /\ active_key \in 0..keys
  /\ expired \in BOOLEAN
  /\ keys \in Nat
  /\ blocks \in [BlockNumber -> AuditLogBlock \cup {NoBlock}]
  /\ chain_file \in Hash
  /\ counter_file \in 0..MaxBlocks
  /\ hashes \in Hash
  /\ overflowed \subseteq Hash
  /\ starts \subseteq Hash
  /\ torn \in BOOLEAN

Init ==
  /\ pending_entries = <<>>
  /\ chain_hash = 0
  /\ block_counter = 0
  /\ _running = FALSE
  /\ workers = 0
  /\ flushing = <<>>
  /\ active_key = 0
  /\ expired = FALSE
  /\ keys = 0
  /\ blocks = [b \in BlockNumber |-> NoBlock]
  /\ chain_file = 0
  /\ counter_file = 0
  /\ hashes = 0
  /\ overflowed = {}
  /\ starts = {}
  /\ torn = FALSE

-------------------------------------------------------------------------------
(* Keys *)

\* generate_key: the new key becomes the active one only in place of none, or of one
\* that was deactivated.
GenerateKey(replace) ==
  /\ keys' = keys + 1
  /\ active_key' = IF replace THEN keys + 1 ELSE active_key
  /\ expired' = IF replace THEN FALSE ELSE expired

\* get_active_key returns k.  An expired key stays the active one, so every call
\* returns a key of its own from then on.
GetActiveKey(k) ==
  IF active_key # 0 /\ ~expired
  THEN k = active_key /\ UNCHANGED keyVars
  ELSE k = keys + 1 /\ GenerateKey(active_key = 0)

KeyExpires ==
  /\ flushing = <<>>
  /\ active_key # 0
  /\ ~expired
  /\ expired' = TRUE
  /\ UNCHANGED <<memoryVars, _running, workers, flushing, active_key, keys, diskVars, hashes, history>>

-------------------------------------------------------------------------------
(* Events *)

\* Mutant of Appended: without the limit.
MutUnbounded(entries, e) == Append(entries, e)

\* A deque of bounded length drops its first element for the new one.
Appended(entries, e) ==
  IF Len(entries) = max_memory_entries THEN Append(Tail(entries), e) ELSE Append(entries, e)

Dropped(entries) ==
  IF Len(entries) = max_memory_entries THEN {entries[1].chain_hash} ELSE {}

\* Mutant of Log: a full memory refuses the event, and the chain goes on from the events kept.
MutRefused(key) ==
  /\ hashes < MaxHashes
  /\ hashes' = hashes + 1
  /\ IF Len(pending_entries) = max_memory_entries
     THEN /\ overflowed' = overflowed \cup {hashes + 1}
          /\ UNCHANGED <<chain_hash, pending_entries>>
     ELSE /\ chain_hash' = hashes + 1
          /\ pending_entries' =
               Append(pending_entries,
                      [chain_hash |-> hashes + 1, previous_hash |-> chain_hash,
                       encryption_key_id |-> key])
          /\ UNCHANGED overflowed

\* log_event, from a state of the keys where key is the active one.
Log(key) ==
  /\ hashes < MaxHashes
  /\ hashes' = hashes + 1
  /\ chain_hash' = hashes + 1
  /\ pending_entries' =
       Appended(pending_entries,
                [chain_hash |-> hashes + 1, previous_hash |-> chain_hash,
                 encryption_key_id |-> key])
  /\ overflowed' = overflowed \cup Dropped(pending_entries)

LogEvent ==
  /\ flushing = <<>>
  /\ \E key \in {active_key, keys + 1} : GetActiveKey(key) /\ Log(key)
  /\ UNCHANGED <<block_counter, _running, workers, flushing, diskVars, starts, torn>>

\* The rotation is itself an event.
RotateEncryptionKey ==
  /\ flushing = <<>>
  /\ GenerateKey(TRUE)
  /\ Log(keys + 1)
  /\ UNCHANGED <<block_counter, _running, workers, flushing, diskVars, starts, torn>>

-------------------------------------------------------------------------------
(* Blocks *)

AlreadyFlushing == flushing # <<>>

\* The flush under way has opened this file.
Writing(file) == AlreadyFlushing /\ flushing[1] = file

\* What starts a flush: the worker finds enough entries, or stop() any at all.
CalledBy(by) ==
  \/ /\ by = "worker"
     /\ workers > 0
     /\ Len(pending_entries) >= max_entries_per_block
     /\ UNCHANGED _running
  \/ /\ by = "stop"
     /\ _running
     /\ pending_entries # <<>>
     /\ _running' = FALSE

NewBlock(key) ==
  [entries |-> pending_entries, block_hash |-> hashes + 1, previous_block_hash |-> chain_hash,
   encryption_key_id |-> pending_entries[1].encryption_key_id, key |-> key]

\* _flush_pending_entries up to _encrypt_block.
MakeBlock(key) ==
  /\ block_counter < MaxBlocks
  /\ block_counter' = block_counter + 1
  /\ hashes < MaxHashes
  /\ hashes' = hashes + 1
  /\ GetActiveKey(key)

\* The block is written, and becomes the end of the chain in memory.
FlushBlock(by) ==
  /\ ~AlreadyFlushing
  /\ CalledBy(by)
  /\ \E key \in {active_key, keys + 1} :
       MakeBlock(key) /\ blocks' = [blocks EXCEPT ![block_counter] = NewBlock(key)]
  /\ pending_entries' = <<>>
  /\ chain_hash' = hashes + 1
  /\ flushing' = <<"chain", by>>
  /\ UNCHANGED <<workers, chain_file, counter_file, history>>

\* An exception ends the worker's round, and with it a worker whose trail was stopped;
\* it leaves stop() before the worker is cancelled.
AfterFailure(by) ==
  workers' = IF by = "worker" /\ ~_running THEN workers - 1 ELSE workers

\* The block's file cannot be opened, or not be written; with Restart after it, also the end of
\* the process while it is written.
FlushBlockFails(by) ==
  /\ ~AlreadyFlushing
  /\ CalledBy(by)
  /\ \E key \in {active_key, keys + 1} : MakeBlock(key)
  /\ blocks' \in {blocks, [blocks EXCEPT ![block_counter] = NoBlock]}
  /\ AfterFailure(by)
  /\ UNCHANGED <<pending_entries, chain_hash, flushing, chain_file, counter_file, history>>

\* _save_chain_state
SaveChain ==
  /\ Writing("chain")
  /\ chain_file' = chain_hash
  /\ flushing' = <<"counter", flushing[2]>>
  /\ UNCHANGED <<memoryVars, _running, workers, keyVars, blocks, counter_file, hashes, history>>

\* The worker goes on while the trail runs; stop() cancels it.
SaveCounter ==
  /\ Writing("counter")
  /\ counter_file' = block_counter
  /\ flushing' = <<>>
  /\ workers' = IF _running THEN workers ELSE workers - 1
  /\ UNCHANGED <<memoryVars, _running, keyVars, blocks, chain_file, hashes, history>>

\* The file being written is as it was, or empty.
FilesWhenInterrupted ==
  /\ chain_file' \in IF Writing("chain") THEN {chain_file, 0} ELSE {chain_file}
  /\ counter_file' \in IF Writing("counter") THEN {counter_file, 0} ELSE {counter_file}

StateWriteFails ==
  /\ AlreadyFlushing
  /\ FilesWhenInterrupted
  /\ AfterFailure(flushing[2])
  /\ flushing' = <<>>
  /\ UNCHANGED <<memoryVars, _running, keyVars, blocks, hashes, history>>

-------------------------------------------------------------------------------
(* The trail and its process *)

Start ==
  /\ ~AlreadyFlushing
  /\ ~_running
  /\ _running' = TRUE
  /\ workers' = workers + 1
  /\ UNCHANGED <<memoryVars, flushing, keyVars, diskVars, hashes, history>>

\* stop() with nothing to flush; with something, see CalledBy.
Stop ==
  /\ ~AlreadyFlushing
  /\ _running
  /\ pending_entries = <<>>
  /\ _running' = FALSE
  /\ workers' = workers - 1
  /\ UNCHANGED <<memoryVars, flushing, keyVars, diskVars, hashes, history>>

WorkerEnds ==
  /\ ~AlreadyFlushing
  /\ workers > 0
  /\ ~_running
  /\ Len(pending_entries) < max_entries_per_block
  /\ workers' = workers - 1
  /\ UNCHANGED <<memoryVars, _running, flushing, keyVars, diskVars, hashes, history>>

\* Mutant of Initialize: the chain is not loaded.
MutForgetChain ==
  /\ chain_hash' = 0
  /\ block_counter' = counter_file'

\* _initialize_system
Initialize ==
  /\ chain_hash' = chain_file'
  /\ block_counter' = counter_file'

\* The process ends, at any moment, and the next one starts: the keys and the entries not
\* yet flushed were in memory only.
Restart ==
  /\ FilesWhenInterrupted
  /\ Initialize
  /\ pending_entries' = <<>>
  /\ active_key' = 0
  /\ expired' = FALSE
  /\ _running' = FALSE
  /\ workers' = 0
  /\ flushing' = <<>>
  /\ starts' = starts \cup {hashes}
  /\ torn' = (torn \/ \E b \in BlockNumber : b >= counter_file' /\ blocks[b] # NoBlock)
  /\ UNCHANGED <<keys, blocks, hashes, overflowed>>

Next ==
  \/ LogEvent
  \/ RotateEncryptionKey
  \/ KeyExpires
  \/ \E by \in {"worker", "stop"} : FlushBlock(by) \/ FlushBlockFails(by)
  \/ SaveChain
  \/ SaveCounter
  \/ StateWriteFails
  \/ Start
  \/ Stop
  \/ WorkerEnds
  \/ Restart

Spec == Init /\ [][Next]_vars

-------------------------------------------------------------------------------
(* Properties *)

Linked(entries) ==
  \A n \in 1..(Len(entries) - 1) : entries[n + 1].previous_hash = entries[n].chain_hash

\* The blocks that can be read and that the counter counts: with the pending entries, the log.
Logged == {b \in BlockNumber : b < block_counter /\ blocks[b] # NoBlock}

\* The hash of the last block of the log before number n.
EndBefore(n) ==
  IF \E b \in Logged : b < n
  THEN blocks[CHOOSE b \in Logged : b < n /\ \A c \in Logged : c < n => c <= b].block_hash
  ELSE 0

\* The log is one chain, whatever writes failed and however often the process was restarted,
\* unless one started at a counter that did not count a block: within a block and in memory
\* each entry names the one before; the first names the last block, or an entry that was
\* dropped; a block names its last entry; and the chain in memory ends where the log does.
\* (log_event, _flush_pending_entries, _save_chain_state, _initialize_system)
OneChain ==
  /\ \A b \in Logged :
       /\ Linked(blocks[b].entries)
       /\ blocks[b].previous_block_hash = blocks[b].entries[Len(blocks[b].entries)].chain_hash
  /\ Linked(pending_entries)
  /\ pending_entries # <<>> => chain_hash = pending_entries[Len(pending_entries)].chain_hash
  /\ ~torn =>
       /\ \A b \in Logged :
            blocks[b].entries[1].previous_hash \in {EndBefore(b)} \cup overflowed
       /\ pending_entries # <<>> =>
            pending_entries[1].previous_hash \in {EndBefore(block_counter)} \cup overflowed
       /\ pending_entries = <<>> => chain_hash = EndBefore(block_counter)

\* A link over the dropped event t, made by the process that dropped it: from a hash that
\* is older than t to one that is younger.
LinksOver(previous, hash, t) ==
  /\ previous < t
  /\ t < hash
  /\ ~\E s \in starts : t <= s /\ s < hash

\* An event dropped for lack of room leaves a gap in the chain: no entry and no block that the
\* same process made names, as the one before it, a hash from before the event.  (the bounded
\* deque of pending_entries, whose overflow nothing reports; log_event 400-417)
\* Another process may link over it: it starts from the saved end of the chain, and with the
\* memory of the one before it went everything logged since, this event or not.
OverflowLeavesAGap ==
  LET Entries == {pending_entries} \cup {blocks[b].entries : b \in Logged}
  IN  \A t \in overflowed :
        /\ \A entries \in Entries : \A n \in 1..Len(entries) :
             ~LinksOver(entries[n].previous_hash, entries[n].chain_hash, t)
        /\ \A b \in Logged : ~LinksOver(blocks[b].previous_block_hash, blocks[b].block_hash, t)

\* What the class promises: "Hash chain for immutability" (its docstring, 284).  A block file
\* that was written is neither written again nor emptied.  Violated: the counter is saved after
\* the block, in a file that is truncated first, so a process that ends in between leaves a
\* counter with which the next one numbers its block as this one was.
BlocksAreImmutable ==
  [][\A b \in BlockNumber : blocks[b] # NoBlock => blocks'[b] = blocks[b]]_vars
=============================================================================
