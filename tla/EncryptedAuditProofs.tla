------------------------ MODULE EncryptedAuditProofs ------------------------
(***************************************************************************)
(* Theorems about EncryptedAudit, for any sizes and any number of failed   *)
(* writes and restarts.                                                    *)
(*                                                                         *)
(* The invariant has five parts, each inductive with those it rests on:    *)
(* types and workers (TypeInv); the order of the hashes (OrderInv); what   *)
(* was dropped (GapInv, over OrderInv); the files against memory           *)
(* (FileInv); and, as long as no process started at a counter below the    *)
(* last block, the chain of the blocks (ChainInv, over OrderInv and        *)
(* FileInv).                                                               *)
(***************************************************************************)
EXTENDS EncryptedAudit, TLAPS

USE AuditAssumption

-------------------------------------------------------------------------------
(* The deque *)

\* The deque stays a sequence within its bound, and ends with the new entry.
LEMMA AppendedIsSeq ==
  ASSUME NEW entries \in Seq(AuditEntry), Len(entries) <= max_memory_entries,
         NEW e \in AuditEntry
  PROVE  /\ Appended(entries, e) \in Seq(AuditEntry)
         /\ Len(Appended(entries, e)) <= max_memory_entries
         /\ Len(Appended(entries, e)) =
              IF Len(entries) = max_memory_entries THEN Len(entries) ELSE Len(entries) + 1
         /\ Len(Appended(entries, e)) > 0
         /\ Appended(entries, e)[Len(Appended(entries, e))] = e
BY DEF Appended

\* Every element but the new one was there before, one place further to the right if one
\* was dropped, and so was its neighbour.
LEMMA AppendedElements ==
  ASSUME NEW entries \in Seq(AuditEntry), Len(entries) <= max_memory_entries,
         NEW e \in AuditEntry, NEW n \in 1..(Len(Appended(entries, e)) - 1)
  PROVE  \E m \in 1..Len(entries) :
           /\ Appended(entries, e)[n] = entries[m]
           /\ n = 1 => m = IF Len(entries) = max_memory_entries THEN 2 ELSE 1
           /\ n + 1 < Len(Appended(entries, e)) =>
                m + 1 \in 1..Len(entries) /\ Appended(entries, e)[n + 1] = entries[m + 1]
           /\ n + 1 = Len(Appended(entries, e)) => m = Len(entries)
<1>1. CASE Len(entries) = max_memory_entries
  <2>1. Tail(entries) \in Seq(AuditEntry) /\ Len(Tail(entries)) = Len(entries) - 1
    BY <1>1
  <2>2. \A k \in 1..Len(Tail(entries)) : Tail(entries)[k] = entries[k + 1]
    BY <1>1
  <2>3. Appended(entries, e) = Append(Tail(entries), e)
    BY <1>1 DEF Appended
  <2>4. Len(Appended(entries, e)) = Len(entries)
    BY <2>1, <2>3
  <2>5. \A k \in 1..(Len(entries) - 1) : Appended(entries, e)[k] = entries[k + 1]
    BY <2>1, <2>2, <2>3
  <2>6. n + 1 \in 1..Len(entries)
    BY <2>4
  <2> WITNESS n + 1 \in 1..Len(entries)
  <2> QED
    BY <1>1, <2>4, <2>5, <2>6
<1>2. CASE Len(entries) # max_memory_entries
  <2>1. Appended(entries, e) = Append(entries, e)
    BY <1>2 DEF Appended
  <2>2. Len(Appended(entries, e)) = Len(entries) + 1
    BY <2>1
  <2>3. \A k \in 1..Len(entries) : Appended(entries, e)[k] = entries[k]
    BY <2>1
  <2>4. n \in 1..Len(entries)
    BY <2>2
  <2> WITNESS n \in 1..Len(entries)
  <2> QED
    BY <1>2, <2>2, <2>3, <2>4
<1> QED
  BY <1>1, <1>2

-------------------------------------------------------------------------------
(* Types and workers *)

\* A running trail has a worker, and so has a flush: the counts never go below 0.
TypeInv ==
  /\ TypeOK
  /\ _running => workers > 0
  /\ AlreadyFlushing => workers > 0

\* log_event keeps the types of what it changes.
LEMMA LogTyped ==
  ASSUME TypeOK, NEW key \in Nat, Log(key)
  PROVE  /\ pending_entries' \in Seq(AuditEntry) /\ Len(pending_entries') <= max_memory_entries
         /\ chain_hash' \in Hash /\ hashes' \in Hash /\ overflowed' \subseteq Hash
<1> DEFINE e == [chain_hash |-> hashes + 1, previous_hash |-> chain_hash, encryption_key_id |-> key]
<1>1. hashes + 1 \in Hash
  BY DEF TypeOK, Log, Hash
<1>2. e \in AuditEntry
  BY <1>1 DEF TypeOK, AuditEntry
<1>3. pending_entries' = Appended(pending_entries, e)
  BY DEF Log
<1>4. Dropped(pending_entries) \subseteq Hash
  <2>1. CASE Len(pending_entries) = max_memory_entries
    <3>1. pending_entries[1] \in AuditEntry
      BY <2>1 DEF TypeOK
    <3> QED
      BY <2>1, <3>1 DEF Dropped, AuditEntry
  <2> QED
    BY <2>1 DEF Dropped
<1> HIDE DEF e
<1> QED
  BY <1>1, <1>2, <1>3, <1>4, AppendedIsSeq DEF TypeOK, Log

\* So do generate_key and get_active_key.
LEMMA KeysTyped ==
  ASSUME active_key \in 0..keys, expired \in BOOLEAN, keys \in Nat,
         (\E replace \in BOOLEAN : GenerateKey(replace)) \/ (\E k \in Nat : GetActiveKey(k))
  PROVE  active_key' \in 0..keys' /\ expired' \in BOOLEAN /\ keys' \in Nat
<1>1. ASSUME NEW replace \in BOOLEAN, GenerateKey(replace)
      PROVE  active_key' \in 0..keys' /\ expired' \in BOOLEAN /\ keys' \in Nat
  <2>1. CASE replace
    BY <1>1, <2>1 DEF GenerateKey
  <2>2. CASE ~replace
    BY <1>1, <2>2 DEF GenerateKey
  <2> QED
    BY <2>1, <2>2
<1>2. ASSUME NEW k \in Nat, GetActiveKey(k)
      PROVE  active_key' \in 0..keys' /\ expired' \in BOOLEAN /\ keys' \in Nat
  <2>1. CASE active_key # 0 /\ ~expired
    BY <1>2, <2>1 DEF GetActiveKey, keyVars
  <2>2. CASE ~(active_key # 0 /\ ~expired)
    <3>1. GenerateKey(active_key = 0)
      BY <1>2, <2>2 DEF GetActiveKey
    <3>2. (active_key = 0) \in BOOLEAN
      OBVIOUS
    <3> QED
      BY <3>1, <3>2, <1>1
  <2> QED
    BY <2>1, <2>2
<1> QED
  BY <1>1, <1>2

\* A flush is called with something to flush, and by somebody who exists.
LEMMA CallerExists ==
  ASSUME TypeInv, NEW by \in {"worker", "stop"}, CalledBy(by)
  PROVE  /\ Len(pending_entries) > 0
         /\ workers > 0
         /\ _running' \in BOOLEAN
         /\ _running' => _running
<1>1. CASE by = "worker"
  BY <1>1 DEF TypeInv, TypeOK, CalledBy
<1>2. CASE by = "stop"
  <2>1. pending_entries # <<>> /\ _running /\ _running' = FALSE
    BY <1>2 DEF CalledBy
  <2>2. Len(pending_entries) > 0
    BY <2>1 DEF TypeInv, TypeOK
  <2> QED
    BY <2>1, <2>2 DEF TypeInv
<1> QED
  BY <1>1, <1>2

\* A block made of entries in memory is a block.
LEMMA NewBlockTyped ==
  ASSUME TypeOK, Len(pending_entries) > 0, hashes < MaxHashes, NEW key \in Nat
  PROVE  NewBlock(key) \in AuditLogBlock
<1>1. pending_entries[1] \in AuditEntry
  BY DEF TypeOK
<1>2. hashes + 1 \in Hash
  BY DEF TypeOK, Hash
<1> QED
  BY <1>1, <1>2 DEF NewBlock, AuditLogBlock, AuditEntry, TypeOK

\* A new trail is well typed.
LEMMA TypeInit == Init => TypeInv
BY DEF Init, TypeInv, TypeOK, AlreadyFlushing, Hash, BlockNumber

\* Every step, failed or not, keeps the types and the workers.
LEMMA TypeStep == TypeInv /\ [Next]_vars => TypeInv'
<1> SUFFICES ASSUME TypeInv, [Next]_vars
             PROVE  TypeInv'
  OBVIOUS
<1> USE DEF TypeInv, AlreadyFlushing
<1>1. CASE LogEvent
  <2>1. PICK key \in {active_key, keys + 1} : GetActiveKey(key) /\ Log(key)
    BY <1>1 DEF LogEvent
  <2>2. key \in Nat
    BY DEF TypeOK
  <2>3. active_key' \in 0..keys' /\ expired' \in BOOLEAN /\ keys' \in Nat
    BY <2>1, <2>2, KeysTyped DEF TypeOK
  <2> QED
    BY <1>1, <2>1, <2>2, <2>3, LogTyped DEF TypeOK, LogEvent, diskVars
<1>2. CASE RotateEncryptionKey
  <2>1. keys + 1 \in Nat
    BY DEF TypeOK
  <2>2. active_key' \in 0..keys' /\ expired' \in BOOLEAN /\ keys' \in Nat
    BY <1>2, KeysTyped DEF TypeOK, RotateEncryptionKey
  <2> QED
    BY <1>2, <2>1, <2>2, LogTyped DEF TypeOK, RotateEncryptionKey, diskVars
<1>3. ASSUME NEW by \in {"worker", "stop"}, FlushBlock(by)
      PROVE  TypeInv'
  <2>1. PICK key \in {active_key, keys + 1} :
          MakeBlock(key) /\ blocks' = [blocks EXCEPT ![block_counter] = NewBlock(key)]
    BY <1>3 DEF FlushBlock
  <2>2. key \in Nat
    BY DEF TypeOK
  <2>3. active_key' \in 0..keys' /\ expired' \in BOOLEAN /\ keys' \in Nat
    BY <2>1, <2>2, KeysTyped DEF TypeOK, MakeBlock
  <2>4. blocks' \in [BlockNumber -> AuditLogBlock \cup {NoBlock}]
    BY <1>3, <2>1, <2>2, CallerExists, NewBlockTyped DEF TypeOK, MakeBlock, FlushBlock, BlockNumber
  <2>5. block_counter' \in 0..MaxBlocks /\ hashes' \in Hash /\ chain_hash' \in Hash
    BY <1>3, <2>1 DEF TypeOK, MakeBlock, FlushBlock, Hash
  <2>6. _running' \in BOOLEAN /\ workers > 0
    BY <1>3, CallerExists DEF FlushBlock
  <2>7. /\ pending_entries' = <<>>
        /\ flushing' = <<"chain", by>>
        /\ UNCHANGED <<workers, chain_file, counter_file, history>>
    BY <1>3 DEF FlushBlock
  <2> QED
    BY <2>3, <2>4, <2>5, <2>6, <2>7 DEF TypeOK, history
<1>4. ASSUME NEW by \in {"worker", "stop"}, FlushBlockFails(by)
      PROVE  TypeInv'
  <2>1. PICK key \in {active_key, keys + 1} : MakeBlock(key)
    BY <1>4 DEF FlushBlockFails
  <2>2. active_key' \in 0..keys' /\ expired' \in BOOLEAN /\ keys' \in Nat
    BY <2>1, KeysTyped DEF TypeOK, MakeBlock
  <2>3. blocks' \in [BlockNumber -> AuditLogBlock \cup {NoBlock}]
    BY <1>4, <2>1 DEF TypeOK, FlushBlockFails
  <2>4. block_counter' \in 0..MaxBlocks /\ hashes' \in Hash
    BY <2>1 DEF TypeOK, MakeBlock, Hash
  <2>5. workers' \in Nat /\ (_running' => workers' > 0)
    BY <1>4, CallerExists DEF TypeOK, FlushBlockFails, CalledBy, AfterFailure
  <2> QED
    BY <1>4, <2>2, <2>3, <2>4, <2>5, CallerExists DEF TypeOK, FlushBlockFails, history
<1>5. CASE SaveChain
  BY <1>5 DEF TypeOK, SaveChain, Writing, memoryVars, keyVars, history
<1>6. CASE SaveCounter
  BY <1>6 DEF TypeOK, SaveCounter, Writing, memoryVars, keyVars, history
<1>7. CASE StateWriteFails
  <2>1. chain_file' \in Hash /\ counter_file' \in 0..MaxBlocks
    BY <1>7 DEF TypeOK, StateWriteFails, FilesWhenInterrupted, Hash
  <2> QED
    BY <1>7, <2>1 DEF TypeOK, StateWriteFails, AfterFailure, memoryVars, keyVars, history
<1>8. CASE Restart
  <2>1. chain_file' \in Hash /\ counter_file' \in 0..MaxBlocks
    BY <1>8 DEF TypeOK, Restart, FilesWhenInterrupted, Hash
  <2>2. torn' \in BOOLEAN
    BY <1>8 DEF TypeOK, Restart
  <2>3. overflowed' \subseteq Hash /\ starts' \subseteq Hash
    BY <1>8 DEF TypeOK, Restart
  <2>4. /\ pending_entries' = <<>> /\ flushing' = <<>> /\ active_key' = 0 /\ workers' = 0
        /\ chain_hash' = chain_file' /\ block_counter' = counter_file'
        /\ UNCHANGED <<keys, blocks, hashes>>
    BY <1>8 DEF Restart, Initialize
  <2>5. ~_running' /\ _running' \in BOOLEAN /\ expired' \in BOOLEAN
    BY <1>8 DEF Restart
  <2> QED
    BY <2>1, <2>2, <2>3, <2>4, <2>5 DEF TypeOK
<1>9. CASE KeyExpires \/ Start \/ Stop \/ WorkerEnds \/ UNCHANGED vars
  <2>1. CASE KeyExpires
    BY <2>1 DEF TypeOK, KeyExpires, memoryVars, diskVars, history
  <2>2. CASE Start
    BY <2>2 DEF TypeOK, Start, memoryVars, keyVars, diskVars, history
  <2>3. CASE Stop
    <3>1. ~_running' /\ _running' \in BOOLEAN
      BY <2>3 DEF Stop
    <3>2. /\ workers' \in Nat
          /\ UNCHANGED <<memoryVars, flushing, keyVars, diskVars, hashes, history>>
          /\ ~AlreadyFlushing
      BY <2>3 DEF TypeOK, Stop
    <3> QED
      BY <3>1, <3>2 DEF TypeOK, memoryVars, keyVars, diskVars, history
  <2>4. CASE WorkerEnds
    BY <2>4 DEF TypeOK, WorkerEnds, memoryVars, keyVars, diskVars, history
  <2>5. CASE UNCHANGED vars
    BY <2>5 DEF TypeOK, vars, memoryVars, keyVars, diskVars, history
  <2> QED
    BY <1>9, <2>1, <2>2, <2>3, <2>4, <2>5
<1> QED
  BY <1>1, <1>2, <1>3, <1>4, <1>5, <1>6, <1>7, <1>8, <1>9 DEF Next

\* Every reachable state of the trail is well typed: the deque keeps its bound, and the number
\* of workers never goes below 0, whatever stop() leaves behind when a flush fails.
THEOREM TypeCorrect == Spec => []TypeOK
<1>1. TypeInv => TypeOK
  BY DEF TypeInv
<1> QED
  BY <1>1, TypeInit, TypeStep, PTL DEF Spec
-------------------------------------------------------------------------------
(* What the steps do to the entries *)

Stored == {b \in BlockNumber : blocks[b] # NoBlock}

\* One more entry in memory, at the end; the others are old ones, with their neighbours.
EntryLogged ==
  /\ pending_entries' \in Seq(AuditEntry)
  /\ Len(pending_entries') =
       IF Len(pending_entries) = max_memory_entries
       THEN Len(pending_entries)
       ELSE Len(pending_entries) + 1
  /\ Len(pending_entries') > 0
  /\ pending_entries'[Len(pending_entries')].chain_hash = hashes + 1
  /\ pending_entries'[Len(pending_entries')].previous_hash = chain_hash
  /\ \A n \in 1..(Len(pending_entries') - 1) :
       \E m \in 1..Len(pending_entries) :
         /\ pending_entries'[n] = pending_entries[m]
         /\ n = 1 => m = IF Len(pending_entries) = max_memory_entries THEN 2 ELSE 1
         /\ n + 1 < Len(pending_entries') =>
              m + 1 \in 1..Len(pending_entries) /\ pending_entries'[n + 1] = pending_entries[m + 1]
         /\ n + 1 = Len(pending_entries') => m = Len(pending_entries)
  /\ overflowed' = overflowed \cup Dropped(pending_entries)
  /\ chain_hash' = hashes + 1
  /\ hashes' = hashes + 1
  /\ UNCHANGED <<block_counter, flushing, diskVars, starts, torn>>

\* log_event does what EntryLogged says.
LEMMA LogStep ==
  ASSUME TypeOK, NEW key \in Nat, Log(key),
         UNCHANGED <<block_counter, flushing, diskVars, starts, torn>>
  PROVE  EntryLogged
<1> DEFINE e == [chain_hash |-> hashes + 1, previous_hash |-> chain_hash, encryption_key_id |-> key]
<1>1. hashes + 1 \in Hash
  BY DEF TypeOK, Log, Hash
<1>3. e \in AuditEntry
  BY <1>1 DEF TypeOK, AuditEntry
<1>4. pending_entries' = Appended(pending_entries, e)
  BY DEF Log
<1>5. /\ pending_entries \in Seq(AuditEntry)
      /\ Len(pending_entries) <= max_memory_entries
  BY DEF TypeOK
<1>6. /\ pending_entries' \in Seq(AuditEntry)
      /\ Len(pending_entries') =
           IF Len(pending_entries) = max_memory_entries
           THEN Len(pending_entries)
           ELSE Len(pending_entries) + 1
      /\ Len(pending_entries') > 0
      /\ pending_entries'[Len(pending_entries')] = e
  <2> HIDE DEF e
  <2> QED
    BY <1>3, <1>4, <1>5, AppendedIsSeq
<1>7. \A n \in 1..(Len(pending_entries') - 1) :
       \E m \in 1..Len(pending_entries) :
         /\ pending_entries'[n] = pending_entries[m]
         /\ n = 1 => m = IF Len(pending_entries) = max_memory_entries THEN 2 ELSE 1
         /\ n + 1 < Len(pending_entries') =>
              m + 1 \in 1..Len(pending_entries) /\ pending_entries'[n + 1] = pending_entries[m + 1]
         /\ n + 1 = Len(pending_entries') => m = Len(pending_entries)
  <2> HIDE DEF e
  <2> SUFFICES ASSUME NEW n \in 1..(Len(Appended(pending_entries, e)) - 1)
               PROVE  \E m \in 1..Len(pending_entries) :
                        /\ Appended(pending_entries, e)[n] = pending_entries[m]
                        /\ n = 1 => m = IF Len(pending_entries) = max_memory_entries THEN 2 ELSE 1
                        /\ n + 1 < Len(Appended(pending_entries, e)) =>
                             /\ m + 1 \in 1..Len(pending_entries)
                             /\ Appended(pending_entries, e)[n + 1] = pending_entries[m + 1]
                        /\ n + 1 = Len(Appended(pending_entries, e)) => m = Len(pending_entries)
    BY <1>4, Zenon
  <2> QED
    BY <1>3, <1>5, AppendedElements, Zenon
<1>8. /\ e.chain_hash = hashes + 1 /\ e.previous_hash = chain_hash
      /\ overflowed' = overflowed \cup Dropped(pending_entries)
      /\ chain_hash' = hashes + 1 /\ hashes' = hashes + 1
  BY DEF Log
<1> HIDE DEF e
<1> QED
  BY <1>6, <1>7, <1>8 DEF EntryLogged

-------------------------------------------------------------------------------
(* The invariant *)

\* Hashes grow along the links, up to h.
Ordered(entries, h) ==
  /\ Linked(entries)
  /\ \A n \in 1..Len(entries) :
       /\ entries[n].previous_hash < entries[n].chain_hash
       /\ entries[n].chain_hash <= h

OrderedBlock(block, h) ==
  /\ Len(block.entries) > 0
  /\ Ordered(block.entries, h)
  /\ block.previous_block_hash = block.entries[Len(block.entries)].chain_hash
  /\ block.entries[1].previous_hash < block.block_hash
  /\ block.block_hash <= h

OrderInv ==
  /\ chain_hash <= hashes
  /\ chain_file <= hashes
  /\ Ordered(pending_entries, chain_hash)
  /\ pending_entries # <<>> => chain_hash = pending_entries[Len(pending_entries)].chain_hash
  /\ \A b \in Stored : OrderedBlock(blocks[b], hashes)

\* What was dropped, or is still in memory and may be.
Droppable == overflowed \cup {pending_entries[n].chain_hash : n \in 1..Len(pending_entries)}

\* A dropped event lies no later than the end of the chain, or than a start: nothing this
\* process adds can link over it.
GapInv ==
  /\ \A s \in starts : s <= hashes
  /\ \A t \in overflowed : t <= chain_hash \/ \E s \in starts : t <= s
  /\ \A t \in Droppable :
       /\ \A n \in 1..Len(pending_entries) :
            ~LinksOver(pending_entries[n].previous_hash, pending_entries[n].chain_hash, t)
       /\ \A b \in Stored :
            /\ ~LinksOver(blocks[b].previous_block_hash, blocks[b].block_hash, t)
            /\ \A n \in 1..Len(blocks[b].entries) :
                 ~LinksOver(blocks[b].entries[n].previous_hash, blocks[b].entries[n].chain_hash, t)

\* h is the hash of the last of these blocks before number n, or the empty hash if there is none.
Ends(bs, n, h) ==
  \/ h = 0 /\ \A b \in BlockNumber : bs[b] # NoBlock => b >= n
  \/ \E m \in BlockNumber :
       /\ bs[m] # NoBlock
       /\ m < n
       /\ h = bs[m].block_hash
       /\ \A b \in BlockNumber : bs[b] # NoBlock /\ b < n => b <= m

FileInv ==
  /\ counter_file <= block_counter
  /\ AlreadyFlushing =>
       /\ pending_entries = <<>>
       /\ counter_file < block_counter
       /\ block_counter - 1 \in Stored
  /\ Writing("counter") => chain_file = chain_hash

\* The last line: the files agree, or the counter's file shows that they may not.
ChainInv ==
  ~torn =>
    /\ \A b \in Stored : b < block_counter
    /\ \A b, c \in Stored : b < c => blocks[b].block_hash < blocks[c].block_hash
    /\ \A b \in Stored :
         \/ blocks[b].entries[1].previous_hash \in overflowed
         \/ Ends(blocks, b, blocks[b].entries[1].previous_hash)
    /\ pending_entries # <<>> =>
         \/ pending_entries[1].previous_hash \in overflowed
         \/ Ends(blocks, block_counter, pending_entries[1].previous_hash)
    /\ pending_entries = <<>> => Ends(blocks, block_counter, chain_hash)
    /\ (\E b \in Stored : b >= counter_file) \/ Ends(blocks, counter_file, chain_file)

-------------------------------------------------------------------------------
(* The steps *)

\* The two steps that log an event.
LEMMA EventLogged ==
  ASSUME TypeInv, LogEvent \/ RotateEncryptionKey
  PROVE  EntryLogged
<1>1. CASE LogEvent
  <2>1. PICK key \in {active_key, keys + 1} : GetActiveKey(key) /\ Log(key)
    BY <1>1 DEF LogEvent
  <2>2. key \in Nat
    BY DEF TypeInv, TypeOK
  <2>3. UNCHANGED <<block_counter, flushing, diskVars, starts, torn>>
    BY <1>1 DEF LogEvent
  <2> QED
    BY <2>1, <2>2, <2>3, LogStep DEF TypeInv
<1>2. CASE RotateEncryptionKey
  <2>1. keys + 1 \in Nat
    BY DEF TypeInv, TypeOK
  <2> QED
    BY <1>2, <2>1, LogStep DEF RotateEncryptionKey, TypeInv
<1> QED
  BY <1>1, <1>2

\* A block under its new number, with what its key says; numbers, hashes and memory move on.
BlockWritten(key) ==
  /\ ~AlreadyFlushing
  /\ Len(pending_entries) > 0
  /\ block_counter \in BlockNumber
  /\ NewBlock(key) \in AuditLogBlock
  /\ blocks' = [blocks EXCEPT ![block_counter] = NewBlock(key)]
  /\ pending_entries' = <<>>
  /\ chain_hash' = hashes + 1
  /\ hashes' = hashes + 1
  /\ block_counter' = block_counter + 1
  /\ flushing' # <<>> /\ flushing'[1] = "chain"
  /\ UNCHANGED <<chain_file, counter_file, history>>

\* A successful flush does what BlockWritten says.
LEMMA FlushStep ==
  ASSUME TypeInv, NEW by \in {"worker", "stop"}, FlushBlock(by)
  PROVE  \E key \in {active_key, keys + 1} : BlockWritten(key)
<1>1. PICK key \in {active_key, keys + 1} :
        MakeBlock(key) /\ blocks' = [blocks EXCEPT ![block_counter] = NewBlock(key)]
  BY DEF FlushBlock
<1>2. key \in Nat
  BY DEF TypeInv, TypeOK
<1>3. Len(pending_entries) > 0
  BY CallerExists DEF FlushBlock
<1>4. block_counter \in BlockNumber /\ hashes < MaxHashes
  BY <1>1 DEF TypeInv, TypeOK, MakeBlock, BlockNumber
<1>5. NewBlock(key) \in AuditLogBlock
  BY <1>2, <1>3, <1>4, NewBlockTyped DEF TypeInv
<1>6. /\ block_counter' = block_counter + 1 /\ hashes' = hashes + 1
  BY <1>1 DEF MakeBlock
<1>7. flushing' # <<>> /\ flushing'[1] = "chain"
  BY DEF FlushBlock
<1> QED
  BY <1>1, <1>3, <1>4, <1>5, <1>6, <1>7 DEF FlushBlock, BlockWritten

\* A number and a hash were used up, and perhaps what the number's file held.
BlockLost ==
  /\ ~AlreadyFlushing
  /\ block_counter \in BlockNumber
  /\ blocks' \in {blocks, [blocks EXCEPT ![block_counter] = NoBlock]}
  /\ hashes' = hashes + 1
  /\ block_counter' = block_counter + 1
  /\ UNCHANGED <<pending_entries, chain_hash, flushing, chain_file, counter_file, history>>

\* One that fails at the block's file does what BlockLost says.
LEMMA FlushFailsStep ==
  ASSUME TypeInv, NEW by \in {"worker", "stop"}, FlushBlockFails(by)
  PROVE  BlockLost
BY DEF TypeInv, TypeOK, FlushBlockFails, MakeBlock, BlockNumber, BlockLost

\* The steps that leave the entries, the chain, the blocks and the counters alone.
Quiet == KeyExpires \/ Start \/ Stop \/ WorkerEnds \/ UNCHANGED vars

\* Starting and stopping without a flush, and the expiry of a key, do not touch the log.
LEMMA QuietStep ==
  Quiet => UNCHANGED <<memoryVars, flushing, diskVars, hashes, history>>
BY DEF Quiet, KeyExpires, Start, Stop, WorkerEnds, vars

-------------------------------------------------------------------------------
(* The order of the hashes *)

\* The hashes of an entry can be compared.
LEMMA EntryTyped ==
  ASSUME NEW entries \in Seq(AuditEntry), NEW n \in 1..Len(entries)
  PROVE  entries[n].chain_hash \in Int /\ entries[n].previous_hash \in Int
<1>1. entries[n] \in AuditEntry
  OBVIOUS
<1> QED
  BY <1>1 DEF AuditEntry, Hash

\* So can what the rest of the state holds.
LEMMA StateTyped ==
  ASSUME TypeInv
  PROVE  /\ hashes \in Int /\ chain_hash \in Int /\ chain_file \in Int /\ block_counter \in Int
         /\ counter_file \in Int
         /\ pending_entries \in Seq(AuditEntry)
         /\ \A b \in Stored :
              /\ b \in Int /\ blocks[b] \in AuditLogBlock /\ blocks[b].entries \in Seq(AuditEntry)
              /\ blocks[b].block_hash \in Int /\ blocks[b].previous_block_hash \in Int
         /\ \A t \in overflowed \cup starts : t \in Int
<1>1. \A b \in Stored : b \in Int /\ blocks[b] \in AuditLogBlock
  BY DEF TypeInv, TypeOK, Stored, BlockNumber
<1>2. \A block \in AuditLogBlock :
        /\ block.entries \in Seq(AuditEntry)
        /\ block.block_hash \in Int /\ block.previous_block_hash \in Int
  BY DEF AuditLogBlock, Hash
<1>3. /\ hashes \in Int /\ chain_hash \in Int /\ chain_file \in Int /\ block_counter \in Int
      /\ counter_file \in Int
      /\ pending_entries \in Seq(AuditEntry)
      /\ \A t \in overflowed \cup starts : t \in Int
  BY DEF TypeInv, TypeOK, Hash
<1> QED
  BY <1>1, <1>2, <1>3

\* Entries in order up to h are so up to more.
LEMMA OrderedMore ==
  ASSUME NEW entries \in Seq(AuditEntry), NEW h \in Int, NEW k \in Int, h <= k, Ordered(entries, h)
  PROVE  Ordered(entries, k)
BY EntryTyped DEF Ordered

\* So is a block.
LEMMA OrderedBlockMore ==
  ASSUME NEW block \in AuditLogBlock, NEW h \in Int, NEW k \in Int, h <= k, OrderedBlock(block, h)
  PROVE  OrderedBlock(block, k)
<1>1. block.entries \in Seq(AuditEntry) /\ block.block_hash \in Int
  BY DEF AuditLogBlock, Hash
<1> QED
  BY <1>1, OrderedMore DEF OrderedBlock

\* One more entry keeps the order.
LEMMA OrderedAfterLog ==
  ASSUME TypeInv, OrderInv, EntryLogged
  PROVE  Ordered(pending_entries', hashes + 1)
<1> DEFINE L == Len(pending_entries')
<1>1. L \in Nat /\ L > 0
  BY DEF EntryLogged
<1>2. ASSUME NEW n \in 1..L
      PROVE  /\ pending_entries'[n].previous_hash < pending_entries'[n].chain_hash
             /\ pending_entries'[n].chain_hash <= hashes + 1
  <2>1. CASE n = L
    <3>1. pending_entries'[n].chain_hash = hashes + 1 /\ pending_entries'[n].previous_hash = chain_hash
      BY <2>1 DEF EntryLogged
    <3> QED
      BY <3>1, StateTyped DEF OrderInv
  <2>2. CASE n # L
    <3>1. n \in 1..(L - 1)
      BY <1>1, <2>2
    <3>2. PICK m \in 1..Len(pending_entries) : pending_entries'[n] = pending_entries[m]
      BY <3>1 DEF EntryLogged
    <3>3. /\ pending_entries[m].previous_hash < pending_entries[m].chain_hash
          /\ pending_entries[m].chain_hash <= chain_hash
          /\ chain_hash <= hashes
      BY DEF OrderInv, Ordered
    <3>4. pending_entries[m].chain_hash \in Int
      BY StateTyped, EntryTyped
    <3> QED
      BY <3>2, <3>3, <3>4, StateTyped
  <2> QED
    BY <2>1, <2>2
<1>3. ASSUME NEW n \in 1..(L - 1)
      PROVE  pending_entries'[n + 1].previous_hash = pending_entries'[n].chain_hash
  <2>1. PICK m \in 1..Len(pending_entries) :
          /\ pending_entries'[n] = pending_entries[m]
          /\ n + 1 < L => m + 1 \in 1..Len(pending_entries) /\ pending_entries'[n + 1] = pending_entries[m + 1]
          /\ n + 1 = L => m = Len(pending_entries)
    BY DEF EntryLogged
  <2>2. CASE n + 1 < L
    <3>1. m \in 1..(Len(pending_entries) - 1)
      BY <2>1, <2>2, StateTyped
    <3> QED
      BY <2>1, <2>2, <3>1 DEF OrderInv, Ordered, Linked
  <2>3. CASE n + 1 = L
    <3>1. pending_entries # <<>>
      BY <2>1, StateTyped
    <3>2. pending_entries'[n + 1].previous_hash = chain_hash
      BY <2>3 DEF EntryLogged
    <3> QED
      BY <2>1, <2>3, <3>1, <3>2 DEF OrderInv
  <2> QED
    BY <1>1, <2>2, <2>3
<1> HIDE DEF L
<1>4. Linked(pending_entries')
  BY <1>3 DEF Linked, L
<1> QED
  BY <1>2, <1>4 DEF Ordered, L

\* A block made of the entries in memory is in order.
LEMMA OrderedNewBlock ==
  ASSUME TypeInv, OrderInv, Len(pending_entries) > 0, NEW key
  PROVE  OrderedBlock(NewBlock(key), hashes + 1)
<1>1. /\ NewBlock(key).entries = pending_entries
      /\ NewBlock(key).block_hash = hashes + 1
      /\ NewBlock(key).previous_block_hash = chain_hash
  BY DEF NewBlock
<1>2. Ordered(pending_entries, hashes + 1)
  BY StateTyped, OrderedMore DEF OrderInv
<1>3. chain_hash = pending_entries[Len(pending_entries)].chain_hash
  BY StateTyped DEF OrderInv
<1>4. 1 \in 1..Len(pending_entries)
  BY StateTyped
<1>5. pending_entries[1].previous_hash < hashes + 1
  BY <1>2, <1>4, StateTyped, EntryTyped DEF Ordered
<1> QED
  BY <1>1, <1>2, <1>3, <1>5, StateTyped DEF OrderedBlock

\* The empty log is in order.
LEMMA OrderInit == Init => OrderInv
BY DEF Init, OrderInv, Ordered, Linked, Stored

\* Every step keeps the order of the hashes.
LEMMA OrderStep == TypeInv /\ OrderInv /\ [Next]_vars => OrderInv'
<1> SUFFICES ASSUME TypeInv, OrderInv, [Next]_vars
             PROVE  OrderInv'
  OBVIOUS
<1>1. CASE LogEvent \/ RotateEncryptionKey
  <2>1. EntryLogged
    BY <1>1, EventLogged
  <2>2. /\ hashes' = hashes + 1 /\ chain_hash' = hashes + 1 /\ UNCHANGED <<blocks, chain_file>>
        /\ pending_entries'[Len(pending_entries')].chain_hash = chain_hash'
    BY <2>1 DEF EntryLogged, diskVars
  <2>3. Ordered(pending_entries', chain_hash')
    BY <2>1, <2>2, OrderedAfterLog
  <2>4. \A b \in Stored' : OrderedBlock(blocks'[b], hashes')
    BY <2>2, StateTyped, OrderedBlockMore DEF OrderInv, Stored
  <2> QED
    BY <2>2, <2>3, <2>4, StateTyped DEF OrderInv
<1>2. ASSUME NEW by \in {"worker", "stop"}, FlushBlock(by)
      PROVE  OrderInv'
  <2>1. PICK key \in {active_key, keys + 1} : BlockWritten(key)
    BY <1>2, FlushStep
  <2>2. hashes' = hashes + 1 /\ chain_hash' = hashes + 1 /\ pending_entries' = <<>> /\ chain_file' = chain_file
    BY <2>1 DEF BlockWritten, history
  <2>3. \A b \in Stored' :
          \/ b \in Stored /\ blocks'[b] = blocks[b]
          \/ blocks'[b] = NewBlock(key)
    BY <2>1 DEF BlockWritten, Stored, TypeInv, TypeOK
  <2>4. OrderedBlock(NewBlock(key), hashes')
    BY <2>1, <2>2, OrderedNewBlock DEF BlockWritten
  <2>5. \A b \in Stored' : OrderedBlock(blocks'[b], hashes')
    BY <2>2, <2>3, <2>4, StateTyped, OrderedBlockMore DEF OrderInv
  <2>6. Ordered(pending_entries', chain_hash')
    BY <2>2 DEF Ordered, Linked
  <2> QED
    BY <2>2, <2>5, <2>6, StateTyped DEF OrderInv
<1>3. ASSUME NEW by \in {"worker", "stop"}, FlushBlockFails(by)
      PROVE  OrderInv'
  <2>1. BlockLost
    BY <1>3, FlushFailsStep
  <2>2. hashes' = hashes + 1 /\ UNCHANGED <<pending_entries, chain_hash, chain_file>>
    BY <2>1 DEF BlockLost
  <2>3. \A b \in Stored' : b \in Stored /\ blocks'[b] = blocks[b]
    BY <2>1 DEF BlockLost, Stored, TypeInv, TypeOK
  <2>4. \A b \in Stored' : OrderedBlock(blocks'[b], hashes')
    BY <2>2, <2>3, StateTyped, OrderedBlockMore DEF OrderInv
  <2> QED
    BY <2>2, <2>4, StateTyped DEF OrderInv
<1>4. CASE SaveChain \/ SaveCounter \/ StateWriteFails \/ Quiet
  <2>1. UNCHANGED <<pending_entries, chain_hash, blocks, hashes>> /\ chain_file' \in {chain_file, chain_hash, 0}
    BY <1>4, QuietStep DEF SaveChain, SaveCounter, StateWriteFails, FilesWhenInterrupted, memoryVars, diskVars
  <2>2. chain_file' <= hashes'
    BY <2>1 DEF OrderInv, TypeInv, TypeOK, Hash
  <2> QED
    BY <2>1, <2>2 DEF OrderInv, Stored
<1>5. CASE Restart
  <2>1. /\ pending_entries' = <<>> /\ chain_file' \in {chain_file, 0} /\ chain_hash' = chain_file'
        /\ UNCHANGED <<blocks, hashes>>
    BY <1>5 DEF Restart, FilesWhenInterrupted, Initialize
  <2>2. chain_file' <= hashes'
    BY <2>1 DEF OrderInv, TypeInv, TypeOK, Hash
  <2>3. Ordered(pending_entries', chain_hash')
    BY <2>1 DEF Ordered, Linked
  <2> QED
    BY <2>1, <2>2, <2>3 DEF OrderInv, Stored
<1> QED
  BY <1>1, <1>2, <1>3, <1>4, <1>5 DEF Next, Quiet
-------------------------------------------------------------------------------
(* Dropped events *)

\* Nothing is dropped at first.
LEMMA GapInit == Init => GapInv
BY DEF Init, GapInv, Droppable, Stored

\* What is in memory or was dropped lies no later than the end of the chain, or than a start,
\* and so than the last hash.
LEMMA DroppableBound ==
  ASSUME TypeInv, OrderInv, GapInv, NEW t \in Droppable
  PROVE  /\ t \in Int
         /\ t <= hashes
         /\ t <= chain_hash \/ \E s \in starts : t <= s
<1>1. \A n \in 1..Len(pending_entries) :
        pending_entries[n].chain_hash \in Int /\ pending_entries[n].chain_hash <= chain_hash
  BY StateTyped, EntryTyped DEF OrderInv, Ordered
<1>2. t \in Int
  BY <1>1, StateTyped DEF Droppable
<1>3. t <= chain_hash \/ \E s \in starts : t <= s
  BY <1>1 DEF Droppable, GapInv
<1>4. chain_hash <= hashes /\ \A s \in starts : s \in Int /\ s <= hashes
  BY StateTyped DEF GapInv, OrderInv
<1>5. t <= hashes
  BY <1>2, <1>3, <1>4, StateTyped
<1> QED
  BY <1>2, <1>3, <1>5

\* No link made now, from the end of the chain to a new hash, is over it.
LEMMA NoNewLinkOver ==
  ASSUME TypeInv, OrderInv, GapInv, NEW t \in Droppable
  PROVE  ~LinksOver(chain_hash, hashes + 1, t)
<1>1. CASE t <= chain_hash
  BY <1>1, DroppableBound, StateTyped DEF LinksOver
<1>2. ASSUME NEW s \in starts, t <= s
      PROVE  ~LinksOver(chain_hash, hashes + 1, t)
  <2>1. s < hashes + 1
    BY StateTyped DEF GapInv
  <2> QED
    BY <1>2, <2>1 DEF LinksOver
<1> QED
  BY <1>1, <1>2, DroppableBound

\* A step that computes no hash, after which the same or fewer hashes can be dropped, and the
\* log has the same or fewer entries and blocks.
LEMMA FewerGaps ==
  ASSUME GapInv,
         \A s \in starts' : s <= hashes',
         starts \subseteq starts',
         \A t \in overflowed' : t <= chain_hash' \/ \E s \in starts' : t <= s,
         Droppable' \subseteq Droppable,
         \A n \in 1..Len(pending_entries') :
           n \in 1..Len(pending_entries) /\ pending_entries'[n] = pending_entries[n],
         \A b \in Stored' : b \in Stored /\ blocks'[b] = blocks[b]
  PROVE  GapInv'
<1>1. ASSUME NEW previous, NEW hash, NEW t, ~LinksOver(previous, hash, t)
      PROVE  ~LinksOver(previous, hash, t)'
  BY <1>1 DEF LinksOver
<1>2. ASSUME NEW t \in Droppable', NEW n \in 1..Len(pending_entries')
      PROVE  ~LinksOver(pending_entries[n].previous_hash, pending_entries[n].chain_hash, t)'
  <2>1. /\ pending_entries'[n] = pending_entries[n]
        /\ ~LinksOver(pending_entries[n].previous_hash, pending_entries[n].chain_hash, t)
    BY <1>2 DEF GapInv
  <2> QED
    BY <2>1 DEF LinksOver
<1>3. ASSUME NEW t \in Droppable', NEW b \in Stored'
      PROVE  /\ ~LinksOver(blocks[b].previous_block_hash, blocks[b].block_hash, t)'
             /\ \A n \in 1..Len(blocks'[b].entries) :
                  ~LinksOver(blocks[b].entries[n].previous_hash, blocks[b].entries[n].chain_hash, t)'
  <2>1. b \in Stored /\ blocks'[b] = blocks[b] /\ t \in Droppable
    BY <1>3
  <2>2. /\ ~LinksOver(blocks[b].previous_block_hash, blocks[b].block_hash, t)
        /\ \A n \in 1..Len(blocks[b].entries) :
             ~LinksOver(blocks[b].entries[n].previous_hash, blocks[b].entries[n].chain_hash, t)
    BY <2>1 DEF GapInv
  <2> QED
    BY <2>1, <2>2 DEF LinksOver
<1> QED
  BY <1>2, <1>3 DEF GapInv

\* No step makes a link over a hash that was dropped or may be.
LEMMA GapStep == TypeInv /\ OrderInv /\ GapInv /\ [Next]_vars => GapInv'
<1> SUFFICES ASSUME TypeInv, OrderInv, GapInv, [Next]_vars
             PROVE  GapInv'
  OBVIOUS
<1>0. \A s \in starts : s \in Int /\ s <= hashes
  BY StateTyped DEF GapInv
<1>1. CASE LogEvent \/ RotateEncryptionKey
  <2> DEFINE L == Len(pending_entries')
  <2>1. EntryLogged
    BY <1>1, EventLogged
  <2>2. /\ L \in Nat /\ L > 0 /\ blocks' = blocks /\ starts' = starts
        /\ chain_hash' = hashes + 1 /\ hashes' = hashes + 1
        /\ overflowed' = overflowed \cup Dropped(pending_entries)
        /\ pending_entries'[L].chain_hash = hashes + 1
        /\ pending_entries'[L].previous_hash = chain_hash
    BY <2>1 DEF EntryLogged, diskVars
  <2>3. \A n \in 1..(L - 1) : \E m \in 1..Len(pending_entries) : pending_entries'[n] = pending_entries[m]
    BY <2>1 DEF EntryLogged
  <2> HIDE DEF L
  <2>4. Dropped(pending_entries) \subseteq Droppable
    BY StateTyped DEF Dropped, Droppable
  <2>5. \A t \in Droppable' : t \in Droppable \/ t = hashes + 1
    <3>1. \A n \in 1..L : n = L \/ n \in 1..(L - 1)
      BY <2>2
    <3> QED
      BY <2>2, <2>3, <2>4, <3>1 DEF Droppable, L
  <2>6. \A t \in overflowed' : t <= chain_hash'
    BY <2>2, <2>4, DroppableBound, StateTyped DEF Droppable
  <2>7. \A previous, hash, t : LinksOver(previous, hash, t)' <=> LinksOver(previous, hash, t)
    BY <2>2 DEF LinksOver
  <2>8. ASSUME NEW previous, NEW hash \in Int, hash <= hashes
        PROVE  ~LinksOver(previous, hash, hashes + 1)
    BY <2>8, StateTyped DEF LinksOver
  <2>9. ASSUME NEW t \in Droppable', NEW n \in 1..L
        PROVE  ~LinksOver(pending_entries'[n].previous_hash, pending_entries'[n].chain_hash, t)
    <3>1. CASE n = L
      <4>1. CASE t \in Droppable
        BY <2>2, <3>1, <4>1, NoNewLinkOver
      <4>2. CASE t = hashes + 1
        BY <2>2, <3>1, <4>2, StateTyped DEF LinksOver
      <4> QED
        BY <2>5, <4>1, <4>2
    <3>2. CASE n # L
      <4>1. n \in 1..(L - 1)
        BY <2>2, <3>2
      <4>2. PICK m \in 1..Len(pending_entries) : pending_entries'[n] = pending_entries[m]
        BY <2>3, <4>1
      <4>3. CASE t \in Droppable
        BY <4>2, <4>3 DEF GapInv
      <4>4. CASE t = hashes + 1
        <5>1. pending_entries[m].chain_hash \in Int /\ pending_entries[m].chain_hash <= hashes
          BY StateTyped, EntryTyped DEF OrderInv, Ordered
        <5> QED
          BY <2>8, <4>2, <4>4, <5>1
      <4> QED
        BY <2>5, <4>3, <4>4
    <3> QED
      BY <3>1, <3>2
  <2>10. ASSUME NEW t \in Droppable', NEW b \in Stored'
         PROVE  /\ ~LinksOver(blocks'[b].previous_block_hash, blocks'[b].block_hash, t)
                /\ \A n \in 1..Len(blocks'[b].entries) :
                     ~LinksOver(blocks'[b].entries[n].previous_hash, blocks'[b].entries[n].chain_hash, t)
    <3>1. b \in Stored /\ blocks'[b] = blocks[b]
      BY <2>2 DEF Stored
    <3>2. CASE t \in Droppable
      BY <3>1, <3>2 DEF GapInv
    <3>3. CASE t = hashes + 1
      <4>1. blocks[b].entries \in Seq(AuditEntry) /\ Ordered(blocks[b].entries, hashes)
        BY <3>1, StateTyped DEF OrderInv, OrderedBlock
      <4>2. \A n \in 1..Len(blocks[b].entries) :
              blocks[b].entries[n].chain_hash \in Int /\ blocks[b].entries[n].chain_hash <= hashes
        BY <4>1, EntryTyped DEF Ordered
      <4>3. blocks[b].block_hash \in Int /\ blocks[b].block_hash <= hashes
        BY <3>1, StateTyped DEF OrderInv, OrderedBlock
      <4> QED
        BY <2>8, <3>1, <3>3, <4>2, <4>3
    <3> QED
      BY <2>5, <3>2, <3>3
  <2>11. \A s \in starts' : s <= hashes'
    BY <1>0, <2>2, StateTyped
  <2>12. GapInv' <=>
           /\ \A s \in starts' : s <= hashes'
           /\ \A t \in overflowed' : t <= chain_hash' \/ \E s \in starts' : t <= s
           /\ \A t \in Droppable' :
                /\ \A n \in 1..L :
                     ~LinksOver(pending_entries'[n].previous_hash, pending_entries'[n].chain_hash, t)
                /\ \A b \in Stored' :
                     /\ ~LinksOver(blocks'[b].previous_block_hash, blocks'[b].block_hash, t)
                     /\ \A n \in 1..Len(blocks'[b].entries) :
                          ~LinksOver(blocks'[b].entries[n].previous_hash,
                                     blocks'[b].entries[n].chain_hash, t)
    BY <2>2 DEF GapInv, LinksOver, L
  <2> QED
    BY <2>6, <2>9, <2>10, <2>11, <2>12
<1>2. ASSUME NEW by \in {"worker", "stop"}, FlushBlock(by)
      PROVE  GapInv'
  <2>1. PICK key \in {active_key, keys + 1} : BlockWritten(key)
    BY <1>2, FlushStep
  <2>2. /\ chain_hash' = hashes + 1 /\ hashes' = hashes + 1 /\ pending_entries' = <<>>
        /\ overflowed' = overflowed /\ starts' = starts
    BY <2>1 DEF BlockWritten, history
  <2>3. \A b \in Stored' :
          \/ b \in Stored /\ blocks'[b] = blocks[b]
          \/ blocks'[b] = NewBlock(key)
    BY <2>1 DEF BlockWritten, Stored, TypeInv, TypeOK
  <2>4. /\ NewBlock(key).entries = pending_entries
        /\ NewBlock(key).previous_block_hash = chain_hash
        /\ NewBlock(key).block_hash = hashes + 1
    BY DEF NewBlock
  <2>5. \A s \in starts' : s <= hashes'
    BY <1>0, <2>2, StateTyped
  <2>6. \A t \in overflowed' : t <= chain_hash'
    BY <2>2, DroppableBound, StateTyped DEF Droppable
  <2>7. Droppable' \subseteq Droppable
    BY <2>2 DEF Droppable
  <2>8. ASSUME NEW t \in Droppable', NEW b \in Stored'
        PROVE  /\ ~LinksOver(blocks'[b].previous_block_hash, blocks'[b].block_hash, t)
               /\ \A n \in 1..Len(blocks'[b].entries) :
                    ~LinksOver(blocks'[b].entries[n].previous_hash, blocks'[b].entries[n].chain_hash, t)
    <3>1. CASE b \in Stored /\ blocks'[b] = blocks[b]
      BY <2>7, <3>1 DEF GapInv
    <3>2. CASE blocks'[b] = NewBlock(key)
      BY <2>4, <2>7, <3>2, NoNewLinkOver DEF GapInv
    <3> QED
      BY <2>3, <3>1, <3>2
  <2>9. 1..Len(pending_entries') = {}
    BY <2>2
  <2>10. GapInv' <=>
           /\ \A s \in starts' : s <= hashes'
           /\ \A t \in overflowed' : t <= chain_hash' \/ \E s \in starts' : t <= s
           /\ \A t \in Droppable' : \A b \in Stored' :
                /\ ~LinksOver(blocks'[b].previous_block_hash, blocks'[b].block_hash, t)
                /\ \A n \in 1..Len(blocks'[b].entries) :
                     ~LinksOver(blocks'[b].entries[n].previous_hash,
                                blocks'[b].entries[n].chain_hash, t)
    BY <2>2, <2>9 DEF GapInv, LinksOver
  <2> QED
    BY <2>5, <2>6, <2>8, <2>10
<1>3. ASSUME NEW by \in {"worker", "stop"}, FlushBlockFails(by)
      PROVE  GapInv'
  <2>1. BlockLost
    BY <1>3, FlushFailsStep
  <2>2. UNCHANGED <<pending_entries, chain_hash, overflowed, starts>> /\ hashes' = hashes + 1
    BY <2>1 DEF BlockLost, history
  <2>3. \A b \in Stored' : b \in Stored /\ blocks'[b] = blocks[b]
    BY <2>1 DEF BlockLost, Stored, TypeInv, TypeOK
  <2>4. \A s \in starts' : s <= hashes'
    BY <1>0, <2>2, StateTyped
  <2> QED
    BY <2>2, <2>3, <2>4, FewerGaps DEF GapInv, Droppable
<1>4. CASE SaveChain \/ SaveCounter \/ StateWriteFails \/ Quiet
  <2>1. UNCHANGED <<pending_entries, chain_hash, blocks, overflowed, starts, hashes>>
    BY <1>4, QuietStep DEF SaveChain, SaveCounter, StateWriteFails, memoryVars, diskVars, history
  <2>2. Droppable' = Droppable /\ Stored' = Stored
    BY <2>1 DEF Droppable, Stored
  <2>3. \A t \in overflowed' : t <= chain_hash' \/ \E s \in starts' : t <= s
    BY <2>1 DEF GapInv
  <2>4. \A b \in Stored' : b \in Stored /\ blocks'[b] = blocks[b]
    BY <2>1, <2>2
  <2>5. \A n \in 1..Len(pending_entries') :
          n \in 1..Len(pending_entries) /\ pending_entries'[n] = pending_entries[n]
    BY <2>1
  <2> QED
    BY <1>0, <2>1, <2>2, <2>3, <2>4, <2>5, FewerGaps
<1>5. CASE Restart
  <2>1. /\ pending_entries' = <<>> /\ blocks' = blocks /\ overflowed' = overflowed
        /\ starts' = starts \cup {hashes} /\ hashes' = hashes
    BY <1>5 DEF Restart
  <2>2. \A t \in overflowed' : t <= chain_hash' \/ \E s \in starts' : t <= s
    BY <2>1, DroppableBound DEF Droppable
  <2>3. Droppable' \subseteq Droppable
    BY <2>1 DEF Droppable
  <2>4. \A b \in Stored' : b \in Stored /\ blocks'[b] = blocks[b]
    BY <2>1 DEF Stored
  <2>5. \A n \in 1..Len(pending_entries') :
          n \in 1..Len(pending_entries) /\ pending_entries'[n] = pending_entries[n]
    BY <2>1
  <2>6. \A s \in starts' : s <= hashes'
    BY <1>0, <2>1, StateTyped
  <2> QED
    BY <2>1, <2>2, <2>3, <2>4, <2>5, <2>6, FewerGaps
<1> QED
  BY <1>1, <1>2, <1>3, <1>4, <1>5 DEF Next, Quiet

\* An event that the deque dropped is linked over by no entry and no block of the process that
\* dropped it, whatever fails and however often the trail is started.  (log_event,
\* _flush_pending_entries)
THEOREM OverflowShows == Spec => []OverflowLeavesAGap
<1>1. GapInv => OverflowLeavesAGap
  <2>1. Logged \subseteq Stored
    BY DEF Logged, Stored
  <2>2. overflowed \subseteq Droppable
    BY DEF Droppable
  <2> QED
    BY <2>1, <2>2 DEF GapInv, OverflowLeavesAGap
<1> QED
  BY <1>1, TypeInit, TypeStep, OrderInit, OrderStep, GapInit, GapStep, PTL DEF Spec
-------------------------------------------------------------------------------
(* The files *)

\* Every step keeps the files in step with the memory they were written from.
LEMMA FileStep == TypeInv /\ FileInv /\ [Next]_vars => FileInv'
<1> SUFFICES ASSUME TypeInv, FileInv, [Next]_vars
             PROVE  FileInv'
  OBVIOUS
<1> USE DEF AlreadyFlushing, Writing
<1>1. CASE LogEvent \/ RotateEncryptionKey
  <2>1. EntryLogged
    BY <1>1, EventLogged
  <2>2. flushing = <<>>
    BY <1>1 DEF LogEvent, RotateEncryptionKey
  <2> QED
    BY <2>1, <2>2 DEF EntryLogged, FileInv, diskVars
<1>2. ASSUME NEW by \in {"worker", "stop"}, FlushBlock(by)
      PROVE  FileInv'
  <2>1. PICK key \in {active_key, keys + 1} : BlockWritten(key)
    BY <1>2, FlushStep
  <2>2. block_counter \in BlockNumber /\ blocks'[block_counter] = NewBlock(key) /\ NewBlock(key) # NoBlock
    BY <2>1, BlockAssumption DEF BlockWritten, TypeInv, TypeOK
  <2>3. block_counter \in Stored'
    BY <2>2 DEF Stored
  <2>4. /\ pending_entries' = <<>> /\ flushing'[1] = "chain"
        /\ block_counter' = block_counter + 1 /\ counter_file' = counter_file
    BY <2>1 DEF BlockWritten
  <2> QED
    BY <2>3, <2>4, StateTyped DEF FileInv
<1>3. ASSUME NEW by \in {"worker", "stop"}, FlushBlockFails(by)
      PROVE  FileInv'
  <2>1. BlockLost
    BY <1>3, FlushFailsStep
  <2>2. flushing' = <<>> /\ block_counter' = block_counter + 1 /\ counter_file' = counter_file
    BY <2>1 DEF BlockLost
  <2> QED
    BY <2>2, StateTyped DEF FileInv
<1>4. CASE SaveChain
  <2>1. /\ flushing # <<>> /\ chain_file' = chain_hash
        /\ UNCHANGED <<pending_entries, chain_hash, block_counter, blocks, counter_file>>
    BY <1>4 DEF SaveChain, memoryVars
  <2> QED
    BY <2>1 DEF FileInv, Stored
<1>5. CASE SaveCounter
  <2>1. flushing' = <<>> /\ counter_file' = block_counter /\ block_counter' = block_counter
    BY <1>5 DEF SaveCounter, memoryVars
  <2> QED
    BY <2>1, StateTyped DEF FileInv
<1>6. CASE StateWriteFails
  <2>1. flushing' = <<>> /\ counter_file' \in {counter_file, 0} /\ block_counter' = block_counter
    BY <1>6 DEF StateWriteFails, FilesWhenInterrupted, memoryVars
  <2> QED
    BY <2>1 DEF FileInv, TypeInv, TypeOK
<1>7. CASE Restart
  <2>1. flushing' = <<>> /\ block_counter' = counter_file' /\ counter_file' \in {counter_file, 0}
    BY <1>7 DEF Restart, Initialize, FilesWhenInterrupted
  <2> QED
    BY <2>1, StateTyped DEF FileInv
<1>8. CASE Quiet
  BY <1>8, QuietStep DEF FileInv, memoryVars, diskVars, Stored
<1> QED
  BY <1>1, <1>2, <1>3, <1>4, <1>5, <1>6, <1>7, <1>8 DEF Next, Quiet

-------------------------------------------------------------------------------
(* The chain *)

\* The end of the chain before n depends only on the blocks before n.
LEMMA EndsAgree ==
  ASSUME NEW bs, NEW cs, NEW n \in Int, NEW h, Ends(bs, n, h),
         \A b \in BlockNumber : b < n => bs[b] = cs[b]
  PROVE  Ends(cs, n, h)
BY DEF Ends, BlockNumber

\* Numbers without a block move the end of the chain nowhere.
LEMMA EndsExtended ==
  ASSUME NEW bs, NEW n \in Int, NEW k \in Int, NEW h, Ends(bs, n, h),
         \A b \in BlockNumber : bs[b] # NoBlock => b < n,
         n <= k
  PROVE  Ends(bs, k, h)
BY DEF Ends, BlockNumber

\* The first entry in memory names the last block or a dropped entry, also after one more.
LEMMA ChainAfterLog ==
  ASSUME TypeInv, OrderInv, ChainInv, EntryLogged, ~torn
  PROVE  \/ pending_entries'[1].previous_hash \in overflowed'
         \/ Ends(blocks, block_counter, pending_entries'[1].previous_hash)
<1> DEFINE L == Len(pending_entries')
<1>1. L = IF Len(pending_entries) = max_memory_entries
          THEN Len(pending_entries)
          ELSE Len(pending_entries) + 1
  BY DEF EntryLogged
<1>6. L \in Nat /\ L > 0
  BY DEF EntryLogged
<1>2. overflowed' = overflowed \cup Dropped(pending_entries)
  BY DEF EntryLogged
<1>3. CASE L = 1
  <2>1. pending_entries'[1].previous_hash = chain_hash
    BY <1>3 DEF EntryLogged
  <2>2. CASE pending_entries = <<>>
    BY <2>1, <2>2 DEF ChainInv
  <2>3. CASE pending_entries # <<>>
    <3>1. Len(pending_entries) = 1 /\ max_memory_entries = 1
      <4>1. Len(pending_entries) \in Nat /\ Len(pending_entries) > 0
        BY <2>3, StateTyped
      <4>2. 1 = IF Len(pending_entries) = max_memory_entries
                THEN Len(pending_entries)
                ELSE Len(pending_entries) + 1
        BY <1>1, <1>3
      <4> QED
        BY <4>1, <4>2
    <3>2. chain_hash \in Dropped(pending_entries)
      BY <2>3, <3>1 DEF Dropped, OrderInv
    <3> QED
      BY <1>2, <2>1, <3>2
  <2> QED
    BY <2>2, <2>3
<1>4. CASE L > 1
  <2>1. 1 \in 1..(L - 1)
    BY <1>4, <1>6
  <2>2. PICK m \in 1..Len(pending_entries) :
          /\ pending_entries'[1] = pending_entries[m]
          /\ m = IF Len(pending_entries) = max_memory_entries THEN 2 ELSE 1
    BY <2>1 DEF EntryLogged
  <2>3. CASE m = 1
    <3>1. pending_entries # <<>>
      BY StateTyped
    <3> QED
      BY <1>2, <2>2, <2>3, <3>1 DEF ChainInv
  <2>4. CASE m = 2
    <3>1. Len(pending_entries) = max_memory_entries
      BY <2>2, <2>4
    <3>2. 1 \in 1..(Len(pending_entries) - 1)
      BY <2>4, StateTyped
    <3>3. pending_entries[1 + 1].previous_hash = pending_entries[1].chain_hash
      BY <3>2 DEF OrderInv, Ordered, Linked
    <3>4. pending_entries[1].chain_hash \in Dropped(pending_entries)
      BY <3>1 DEF Dropped
    <3> QED
      BY <1>2, <2>2, <2>4, <3>3, <3>4
  <2> QED
    BY <2>2, <2>3, <2>4
<1>5. L = 1 \/ L > 1
  <2> HIDE DEF L
  <2> QED
    BY <1>6
<1> QED
  BY <1>3, <1>4, <1>5

\* A new trail's chain is empty, in memory and on disk.
LEMMA ChainInit == Init => FileInv /\ ChainInv
BY DEF Init, FileInv, ChainInv, Ends, Stored, AlreadyFlushing, Writing, BlockNumber

\* Every step keeps the chain, unless it shows that a block was not counted.
LEMMA ChainStep == TypeInv /\ OrderInv /\ FileInv /\ ChainInv /\ [Next]_vars => ChainInv'
<1> SUFFICES ASSUME TypeInv, OrderInv, FileInv, ChainInv, [Next]_vars, ~torn'
             PROVE  ChainInv'
  BY DEF ChainInv
<1> USE DEF AlreadyFlushing, Writing
<1>1. CASE LogEvent \/ RotateEncryptionKey
  <2>1. EntryLogged
    BY <1>1, EventLogged
  <2>2. /\ UNCHANGED <<block_counter, blocks, chain_file, counter_file, torn>>
        /\ overflowed \subseteq overflowed'
        /\ pending_entries' # <<>>
    <3>1. pending_entries' # <<>>
      BY <2>1 DEF EntryLogged
    <3> QED
      BY <2>1, <3>1 DEF EntryLogged, diskVars
  <2>3. \/ pending_entries'[1].previous_hash \in overflowed'
        \/ Ends(blocks', block_counter', pending_entries'[1].previous_hash)
    BY <2>1, <2>2, ChainAfterLog
  <2>4. Stored' = Stored /\ ~torn
    BY <2>2 DEF Stored
  <2> QED
    BY <2>2, <2>3, <2>4 DEF ChainInv
<1>2. ASSUME NEW by \in {"worker", "stop"}, FlushBlock(by)
      PROVE  ChainInv'
  <2>1. PICK key \in {active_key, keys + 1} : BlockWritten(key)
    BY <1>2, FlushStep
  <2>2. /\ ~torn
        /\ Len(pending_entries) > 0 /\ pending_entries' = <<>>
        /\ chain_hash' = hashes + 1 /\ block_counter' = block_counter + 1
        /\ counter_file' = counter_file /\ overflowed' = overflowed
    BY <2>1 DEF BlockWritten, history
  <2>3. pending_entries # <<>>
    BY <2>2, StateTyped
  <2>4. /\ block_counter \in BlockNumber
        /\ blocks'[block_counter] = NewBlock(key)
        /\ \A b \in BlockNumber : b # block_counter => blocks'[b] = blocks[b]
        /\ NewBlock(key) # NoBlock
    BY <2>1, BlockAssumption DEF BlockWritten, TypeInv, TypeOK
  <2>5. NewBlock(key).block_hash = hashes + 1 /\ NewBlock(key).entries = pending_entries
    BY DEF NewBlock
  <2>6. \A b \in Stored' :
          \/ b = block_counter
          \/ b \in Stored /\ b < block_counter /\ blocks'[b] = blocks[b]
    <3>1. \A b \in Stored : b < block_counter
      BY <2>2 DEF ChainInv
    <3>2. \A b \in Stored' :
            \/ b = block_counter
            \/ b \in Stored /\ blocks'[b] = blocks[b]
      BY <2>4 DEF Stored
    <3> QED
      BY <3>1, <3>2
  <2>7. block_counter \in Stored'
    BY <2>4 DEF Stored
  <2>8. \A b \in Stored' : b < block_counter'
    BY <2>2, <2>6, StateTyped
  <2>9. ASSUME NEW b \in Stored', NEW c \in Stored', b < c
        PROVE  blocks'[b].block_hash < blocks'[c].block_hash
    <3>1. b \in Stored /\ b < block_counter /\ blocks'[b] = blocks[b]
      BY <2>6, <2>9, StateTyped
    <3>2. CASE c = block_counter
      <4>1. blocks[b].block_hash <= hashes /\ blocks[b].block_hash \in Int /\ hashes \in Int
        BY <3>1, StateTyped DEF OrderInv, OrderedBlock
      <4> QED
        BY <2>4, <2>5, <3>1, <3>2, <4>1
    <3>3. CASE c # block_counter
      BY <2>2, <2>6, <2>9, <3>1, <3>3 DEF ChainInv
    <3> QED
      BY <3>2, <3>3
  <2>10. ASSUME NEW b \in Stored'
         PROVE  \/ blocks'[b].entries[1].previous_hash \in overflowed'
                \/ Ends(blocks', b, blocks'[b].entries[1].previous_hash)
    <3>1. b \in Int /\ b <= block_counter
      BY <2>6, StateTyped
    <3>2. \A c \in BlockNumber : c < b => blocks[c] = blocks'[c]
      BY <2>4, <3>1, StateTyped DEF BlockNumber
    <3>3. \/ blocks'[b].entries[1].previous_hash \in overflowed
          \/ Ends(blocks, b, blocks'[b].entries[1].previous_hash)
      BY <2>2, <2>3, <2>4, <2>5, <2>6 DEF ChainInv
    <3> QED
      BY <2>2, <3>1, <3>2, <3>3, EndsAgree
  <2>11. Ends(blocks', block_counter', chain_hash')
    <3>1. block_counter < block_counter' /\ \A b \in BlockNumber : b < block_counter' => b <= block_counter
      BY <2>2, StateTyped DEF BlockNumber
    <3> QED
      BY <2>2, <2>4, <2>5, <3>1 DEF Ends
  <2>12. \E b \in Stored' : b >= counter_file'
    BY <2>2, <2>7, StateTyped DEF FileInv
  <2> QED
    BY <2>2, <2>8, <2>9, <2>10, <2>11, <2>12 DEF ChainInv
<1>3. ASSUME NEW by \in {"worker", "stop"}, FlushBlockFails(by)
      PROVE  ChainInv'
  <2>1. BlockLost
    BY <1>3, FlushFailsStep
  <2>2. /\ ~torn /\ block_counter' = block_counter + 1
        /\ UNCHANGED <<pending_entries, chain_hash, overflowed, chain_file, counter_file>>
    BY <2>1 DEF BlockLost, history
  <2>3. blocks[block_counter] = NoBlock /\ \A b \in Stored : b < block_counter
    BY <2>1, <2>2, StateTyped DEF BlockLost, ChainInv, Stored
  <2>4. \A b \in BlockNumber : blocks[b] = blocks'[b]
    BY <2>1, <2>3 DEF BlockLost, TypeInv, TypeOK
  <2>5. Stored' = Stored
    BY <2>4 DEF Stored
  <2>6. ASSUME NEW n \in Int, NEW h, Ends(blocks, n, h)
        PROVE  Ends(blocks', n, h)
    BY <2>4, <2>6, EndsAgree
  <2>7. ASSUME NEW h, Ends(blocks, block_counter, h)
        PROVE  Ends(blocks', block_counter', h)
    <3>1. block_counter \in Int /\ block_counter' \in Int /\ block_counter <= block_counter'
      BY <2>2, StateTyped
    <3>2. \A b \in BlockNumber : blocks[b] # NoBlock => b < block_counter
      BY <2>3 DEF Stored
    <3>3. Ends(blocks, block_counter', h)
      BY <2>7, <3>1, <3>2, EndsExtended
    <3> QED
      BY <2>6, <3>1, <3>3
  <2>8. \A b \in Stored' : b < block_counter'
    BY <2>2, <2>3, <2>5, StateTyped
  <2>9. \A b \in Stored : b \in BlockNumber /\ blocks'[b] = blocks[b] /\ b \in Int
    BY <2>4, StateTyped DEF Stored
  <2>10. \A b \in Stored' :
           \/ blocks'[b].entries[1].previous_hash \in overflowed'
           \/ Ends(blocks', b, blocks'[b].entries[1].previous_hash)
    BY <2>2, <2>5, <2>6, <2>9 DEF ChainInv
  <2>11. (\E b \in Stored' : b >= counter_file') \/ Ends(blocks', counter_file', chain_file')
    BY <2>2, <2>5, <2>6, StateTyped DEF ChainInv
  <2> QED
    BY <2>2, <2>5, <2>7, <2>8, <2>9, <2>10, <2>11 DEF ChainInv
<1>4. CASE SaveChain \/ StateWriteFails
  <2>1. /\ flushing # <<>> /\ counter_file' \in {counter_file, 0}
        /\ UNCHANGED <<pending_entries, chain_hash, block_counter, blocks, overflowed, torn>>
    BY <1>4 DEF SaveChain, StateWriteFails, FilesWhenInterrupted, memoryVars, history
  <2>2. Stored' = Stored
    BY <2>1 DEF Stored
  <2>3. block_counter - 1 \in Stored' /\ block_counter - 1 >= counter_file'
    BY <2>1, <2>2, StateTyped DEF FileInv, TypeInv, TypeOK
  <2> QED
    BY <2>1, <2>2, <2>3 DEF ChainInv
<1>5. CASE SaveCounter
  <2>1. /\ flushing # <<>> /\ flushing[1] = "counter" /\ counter_file' = block_counter
        /\ UNCHANGED <<pending_entries, chain_hash, block_counter, blocks, chain_file, overflowed, torn>>
    BY <1>5 DEF SaveCounter, memoryVars, history
  <2>2. Stored' = Stored
    BY <2>1 DEF Stored
  <2>3. Ends(blocks', counter_file', chain_file')
    BY <2>1 DEF FileInv, ChainInv
  <2> QED
    BY <2>1, <2>2, <2>3 DEF ChainInv
<1>6. CASE Restart
  <2>1. ~torn /\ \A b \in Stored : ~(b >= counter_file')
    BY <1>6 DEF Restart, Stored
  <2>2. flushing = <<>>
    <3> SUFFICES ASSUME flushing # <<>> PROVE FALSE
      OBVIOUS
    <3>1. counter_file' \in {counter_file, 0}
      BY <1>6 DEF Restart, FilesWhenInterrupted
    <3>2. block_counter - 1 \in Stored /\ block_counter - 1 >= counter_file'
      BY <3>1, StateTyped DEF FileInv, TypeInv, TypeOK
    <3> QED
      BY <2>1, <3>2
  <2>3. /\ counter_file' = counter_file /\ chain_file' = chain_file
        /\ chain_hash' = chain_file /\ block_counter' = counter_file
        /\ pending_entries' = <<>> /\ blocks' = blocks
        /\ overflowed' = overflowed
    BY <1>6, <2>2 DEF Restart, FilesWhenInterrupted, Initialize
  <2>4. Stored' = Stored /\ \A b \in Stored : b < counter_file
    BY <2>1, <2>3, StateTyped DEF Stored
  <2>5. Ends(blocks, counter_file, chain_file)
    BY <2>1, <2>3 DEF ChainInv
  <2>6. \A b \in Stored' :
          \/ blocks'[b].entries[1].previous_hash \in overflowed'
          \/ Ends(blocks', b, blocks'[b].entries[1].previous_hash)
    BY <2>1, <2>3, <2>4 DEF ChainInv
  <2> QED
    BY <2>1, <2>3, <2>4, <2>5, <2>6 DEF ChainInv
<1>7. CASE Quiet
  <2>1. UNCHANGED <<memoryVars, diskVars, history>>
    BY <1>7, QuietStep
  <2> QED
    BY <2>1 DEF ChainInv, memoryVars, diskVars, history, Stored
<1> QED
  BY <1>1, <1>2, <1>3, <1>4, <1>5, <1>6, <1>7 DEF Next, Quiet

\* The relation above names the block that EndBefore chooses.
LEMMA EndBeforeIs ==
  ASSUME TypeInv, ChainInv, ~torn, NEW n \in Int, NEW h, Ends(blocks, n, h)
  PROVE  EndBefore(n) = h
<1>1. \A b : b \in Logged <=> b \in BlockNumber /\ blocks[b] # NoBlock
  BY DEF ChainInv, Logged, Stored
<1>2. CASE h = 0 /\ \A b \in BlockNumber : blocks[b] # NoBlock => b >= n
  <2>1. ~\E b \in Logged : b < n
    BY <1>1, <1>2 DEF BlockNumber
  <2> QED
    BY <1>2, <2>1 DEF EndBefore
<1>3. ASSUME NEW m \in BlockNumber,
             blocks[m] # NoBlock, m < n, h = blocks[m].block_hash,
             \A b \in BlockNumber : blocks[b] # NoBlock /\ b < n => b <= m
      PROVE  EndBefore(n) = h
  <2> DEFINE IsLast(b) == b \in Logged /\ b < n /\ \A c \in Logged : c < n => c <= b
  <2>1. IsLast(m)
    BY <1>1, <1>3
  <2>2. \A b : IsLast(b) => b = m
    BY <1>1, <1>3 DEF BlockNumber
  <2>3. (CHOOSE b \in Logged : b < n /\ \A c \in Logged : c < n => c <= b) = m
    BY <2>1, <2>2
  <2>4. \E b \in Logged : b < n
    BY <2>1
  <2> QED
    BY <1>3, <2>3, <2>4 DEF EndBefore
<1> QED
  BY <1>2, <1>3 DEF Ends

\* The log is one chain, through failed writes and restarts at any moment, as long as no process
\* starts at a counter that does not count a block.  (log_event, _flush_pending_entries,
\* _save_chain_state, _initialize_system)
THEOREM LogIsOneChain == Spec => []OneChain
<1>1. TypeInv /\ OrderInv /\ ChainInv => OneChain
  <2> SUFFICES ASSUME TypeInv, OrderInv, ChainInv PROVE OneChain
    OBVIOUS
  <2>1. Logged \subseteq Stored
    BY DEF Logged, Stored
  <2>2. /\ \A b \in Logged :
             /\ Linked(blocks[b].entries)
             /\ blocks[b].previous_block_hash = blocks[b].entries[Len(blocks[b].entries)].chain_hash
        /\ Linked(pending_entries)
        /\ pending_entries # <<>> => chain_hash = pending_entries[Len(pending_entries)].chain_hash
    BY <2>1 DEF OrderInv, OrderedBlock, Ordered
  <2>3. ASSUME ~torn, NEW b \in Logged
        PROVE  blocks[b].entries[1].previous_hash \in {EndBefore(b)} \cup overflowed
    BY <2>1, <2>3, StateTyped, EndBeforeIs DEF ChainInv
  <2>4. ASSUME ~torn, pending_entries # <<>>
        PROVE  pending_entries[1].previous_hash \in {EndBefore(block_counter)} \cup overflowed
    BY <2>4, StateTyped, EndBeforeIs DEF ChainInv
  <2>5. ASSUME ~torn, pending_entries = <<>>
        PROVE  chain_hash = EndBefore(block_counter)
    BY <2>5, StateTyped, EndBeforeIs DEF ChainInv
  <2> QED
    BY <2>2, <2>3, <2>4, <2>5 DEF OneChain
<1> QED
  BY <1>1, TypeInit, TypeStep, OrderInit, OrderStep, ChainInit, FileStep, ChainStep, PTL DEF Spec
=============================================================================
