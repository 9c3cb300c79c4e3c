---------------------------- MODULE WebSocketPool ----------------------------
(***************************************************************************)
(* WebSocketPoolManager (resync/core/websocket_pool_manager.py) under      *)
(* ConnectionManager (resync/core/connection_manager.py): the register of  *)
(* live WebSocket connections by client id, and the dictionary the manager *)
(* keeps beside it.                                                        *)
(*                                                                         *)
(* Everything the pool does under its lock runs without suspending, with   *)
(* two exceptions.  shutdown() awaits the end of the cleanup task; and     *)
(* _cleanup_connections and _close_all_connections call                    *)
(* _remove_connection, which takes the same lock.  asyncio.Lock is not     *)
(* reentrant, so with one connection to remove the cleanup loop, or        *)
(* shutdown(), waits for itself: the lock then stays theirs.  There is no  *)
(* step that resumes them.                                                 *)
(*                                                                         *)
(* connect() and disconnect() have no caller in the repository but its     *)
(* tests; here one task serves each socket, with a connect() and then a    *)
(* disconnect() of its client id, as the tests do.                         *)
(*                                                                         *)
(* _remove_connection never closes a socket (client_state.DISCONNECTED is  *)
(* an enumeration member and never false), so the socket plays no part in  *)
(* it.  Message and error counters are left out; that a connection is      *)
(* stale, unhealthy or too old is one set, `removable`.                    *)
(***************************************************************************)
EXTENDS Integers, FiniteSets

CONSTANTS
  Sockets,           \* WebSocket objects, each served by one task
  Clients,           \* client ids
  ClientOf,          \* ClientOf[s]: the id that socket s connects with
  WS_POOL_MAX_SIZE,  \* the limit on the number of connections
  None               \* no socket

ASSUME PoolAssumption ==
  /\ ClientOf \in [Sockets -> Clients]
  /\ WS_POOL_MAX_SIZE \in Nat
  /\ None \notin Sockets

VARIABLES
  connections,         \* pool: the socket registered for each client id
  active_connections,  \* manager: the socket it knows for each client id
  pc,                  \* pc[s]: what the task that serves s is doing
  sending,             \* sockets that a send captured and still awaits
  removable,           \* sockets that are stale, unhealthy or too old
  lock,                \* who suspended while holding the pool's lock
  _shutdown            \* "no", "begun" (the flag is set) or "done"

vars == <<connections, active_connections, pc, sending, removable, lock, _shutdown>>

-------------------------------------------------------------------------------
\* Both registers file a socket under the client id it connected with.
Registers ==
  {reg \in [Clients -> Sockets \cup {None}] :
     \A c \in Clients : reg[c] # None => ClientOf[reg[c]] = c}

TypeOK ==
  /\ connections \in Registers
  /\ active_connections \in Registers
  /\ pc \in [Sockets -> {"new", "accepting", "rejecting", "serving", "leaving", "closed"}]
  /\ sending \subseteq Sockets
  /\ removable \subseteq Sockets
  /\ lock \in {"free", "cleanup", "shutdown"}
  /\ _shutdown \in {"no", "begun", "done"}

Init ==
  /\ connections = [c \in Clients |-> None]
  /\ active_connections = [c \in Clients |-> None]
  /\ pc = [s \in Sockets |-> "new"]
  /\ sending = {}
  /\ removable = {}
  /\ lock = "free"
  /\ _shutdown = "no"

Registered == {c \in Clients : connections[c] # None}

-------------------------------------------------------------------------------
(* connect *)

\* The checks before the handshake.  They hold no lock, and nothing repeats them
\* after `await websocket.accept()`.
BeginConnect(s) ==
  /\ pc[s] = "new"
  /\ \/ /\ _shutdown # "no"
        /\ pc' = [pc EXCEPT ![s] = "closed"]
     \/ /\ _shutdown = "no"
        /\ Cardinality(Registered) >= WS_POOL_MAX_SIZE
        /\ pc' = [pc EXCEPT ![s] = "rejecting"]
     \/ /\ _shutdown = "no"
        /\ Cardinality(Registered) < WS_POOL_MAX_SIZE
        /\ pc' = [pc EXCEPT ![s] = "accepting"]
  /\ UNCHANGED <<connections, active_connections, sending, removable, lock, _shutdown>>

\* The rejected socket is closed and connect() returns as usual: the manager
\* enters it in its dictionary all the same.
Rejected(s) ==
  /\ pc[s] = "rejecting"
  /\ pc' = [pc EXCEPT ![s] = "serving"]
  /\ active_connections' = [active_connections EXCEPT ![ClientOf[s]] = s]
  /\ UNCHANGED <<connections, sending, removable, lock, _shutdown>>

HandshakeFails(s) ==
  /\ pc[s] \in {"accepting", "rejecting"}
  /\ pc' = [pc EXCEPT ![s] = "closed"]
  /\ UNCHANGED <<connections, active_connections, sending, removable, lock, _shutdown>>

Register_Under_a_wrong_id(s) ==
  /\ pc[s] = "accepting"
  /\ lock = "free"
  /\ \E c \in Clients :
       /\ connections' = [connections EXCEPT ![c] = s]
       /\ active_connections' = [active_connections EXCEPT ![c] = s]
  /\ pc' = [pc EXCEPT ![s] = "serving"]
  /\ UNCHANGED <<sending, removable, lock, _shutdown>>

Register_Without_manager(s) ==
  /\ pc[s] = "accepting"
  /\ lock = "free"
  /\ connections' = [connections EXCEPT ![ClientOf[s]] = s]
  /\ pc' = [pc EXCEPT ![s] = "serving"]
  /\ UNCHANGED <<active_connections, sending, removable, lock, _shutdown>>

\* After the handshake: register in the pool, in place of any other socket of the
\* same client, and in the manager.
Register(s) ==
  /\ pc[s] = "accepting"
  /\ lock = "free"
  /\ connections' = [connections EXCEPT ![ClientOf[s]] = s]
  /\ active_connections' = [active_connections EXCEPT ![ClientOf[s]] = s]
  /\ pc' = [pc EXCEPT ![s] = "serving"]
  /\ UNCHANGED <<sending, removable, lock, _shutdown>>

-------------------------------------------------------------------------------
(* disconnect *)

Known(s) == active_connections[ClientOf[s]] # None

\* ConnectionManager.disconnect finds the pool's lock taken and waits for it.
BeginDisconnect(s) ==
  /\ pc[s] = "serving"
  /\ lock # "free"
  /\ pc' = [pc EXCEPT ![s] = IF Known(s) THEN "leaving" ELSE "closed"]
  /\ UNCHANGED <<connections, active_connections, sending, removable, lock, _shutdown>>

Disconnect_Manager_only(s) ==
  /\ pc[s] \in {"serving", "leaving"}
  /\ lock = "free"
  /\ active_connections' = [active_connections EXCEPT ![ClientOf[s]] = None]
  /\ pc' = [pc EXCEPT ![s] = "closed"]
  /\ UNCHANGED <<connections, sending, removable, lock, _shutdown>>

\* Both entries of the client id go, whichever socket they hold by now; a call for
\* an id the manager does not know does nothing.  (After a wait, `del` raises
\* KeyError when another call came first; the state is the same.)
Disconnect(s) ==
  /\ pc[s] \in {"serving", "leaving"}
  /\ lock = "free"
  /\ IF pc[s] = "leaving" \/ Known(s)
     THEN /\ connections' = [connections EXCEPT ![ClientOf[s]] = None]
          /\ active_connections' = [active_connections EXCEPT ![ClientOf[s]] = None]
     ELSE UNCHANGED <<connections, active_connections>>
  /\ pc' = [pc EXCEPT ![s] = "closed"]
  /\ UNCHANGED <<sending, removable, lock, _shutdown>>

-------------------------------------------------------------------------------
(* send_personal_message, broadcast, broadcast_json *)

BeginSend(s) ==
  /\ connections[ClientOf[s]] = s
  /\ s \notin sending
  /\ sending' = sending \cup {s}
  /\ UNCHANGED <<connections, active_connections, pc, removable, lock, _shutdown>>

\* The message went out, and update_activity makes a stale connection fresh; or
\* an error other than a disconnection: no change, or the connection is unhealthy.
EndSend(s) ==
  /\ s \in sending
  /\ sending' = sending \ {s}
  /\ removable' \in {removable, removable \ {s}, removable \cup {s}}
  /\ UNCHANGED <<connections, active_connections, pc, lock, _shutdown>>

SendFails_Without_lock(s) ==
  /\ s \in sending
  /\ sending' = sending \ {s}
  /\ connections' = [connections EXCEPT ![ClientOf[s]] = None]
  /\ UNCHANGED <<active_connections, pc, removable, lock, _shutdown>>

\* The peer is gone: _remove_connection(client_id), whichever socket is registered
\* for the client id by now.  The manager's entry stays.
SendFails(s) ==
  /\ s \in sending
  /\ lock = "free"
  /\ sending' = sending \ {s}
  /\ connections' = [connections EXCEPT ![ClientOf[s]] = None]
  /\ UNCHANGED <<active_connections, pc, removable, lock, _shutdown>>

-------------------------------------------------------------------------------
(* Cleanup and shutdown *)

\* A registered connection becomes stale, or too old.
Age(s) ==
  /\ connections[ClientOf[s]] = s
  /\ removable' = removable \cup {s}
  /\ UNCHANGED <<connections, active_connections, pc, sending, lock, _shutdown>>

\* _cleanup_connections with something to remove: it holds the lock and waits for
\* it.  (With nothing to remove it changes nothing.)
Cleanup ==
  /\ _shutdown = "no"
  /\ lock = "free"
  /\ \E c \in Registered : connections[c] \in removable
  /\ lock' = "cleanup"
  /\ UNCHANGED <<connections, active_connections, pc, sending, removable, _shutdown>>

\* shutdown(): it takes the lock and awaits the cleanup task, or finds the lock
\* taken by that very task.
BeginShutdown ==
  /\ _shutdown = "no"
  /\ _shutdown' = "begun"
  /\ lock' = IF lock = "free" THEN "shutdown" ELSE lock
  /\ UNCHANGED <<connections, active_connections, pc, sending, removable>>

\* The cleanup task has ended and there is no connection to close.  With one,
\* _close_all_connections waits for the lock.
EndShutdown ==
  /\ _shutdown = "begun"
  /\ lock = "shutdown"
  /\ Registered = {}
  /\ _shutdown' = "done"
  /\ lock' = "free"
  /\ UNCHANGED <<connections, active_connections, pc, sending, removable>>

-------------------------------------------------------------------------------
ConnectStep(s) ==
  BeginConnect(s) \/ Rejected(s) \/ Register(s) \/ HandshakeFails(s)

Next ==
  \/ \E s \in Sockets :
       \/ ConnectStep(s) \/ BeginDisconnect(s) \/ Disconnect(s)
       \/ BeginSend(s) \/ EndSend(s) \/ SendFails(s)
       \/ Age(s)
  \/ Cleanup
  \/ BeginShutdown
  \/ EndShutdown

Spec == Init /\ [][Next]_vars

\* The event loop runs what is ready and hands the lock on in FIFO order; a
\* handshake and a send end; the cleanup loop comes round.  Nobody has to connect,
\* to disconnect or to shut the pool down.
Fairness ==
  /\ \A s \in Sockets :
       /\ WF_vars(pc[s] # "new" /\ ConnectStep(s))
       /\ WF_vars(pc[s] = "leaving" /\ Disconnect(s))
       /\ WF_vars(EndSend(s) \/ SendFails(s))
  /\ WF_vars(Cleanup)
  /\ WF_vars(EndShutdown)

FairSpec == Spec /\ Fairness

-------------------------------------------------------------------------------
(* Properties *)

\* The two registers do not drift apart in the dangerous direction: a client the
\* pool sends to is one the manager knows, so its disconnect() reaches the pool,
\* whichever of two sockets of the same client connects, is rejected, fails or
\* leaves first.  (The converse is false: a failed send and a rejected connection
\* leave the manager with a dead socket; and the two sockets may differ.)
PoolClientIsKnown ==
  \A c \in Registered : active_connections[c] # None

\* No entry of the pool outlives the last task that would disconnect its client.
EntryHasADisconnector ==
  \A c \in Registered :
    \E s \in Sockets : ClientOf[s] = c /\ pc[s] \in {"serving", "leaving"}

\* The cleanup loop or shutdown() waits for the lock it holds.
Frozen == lock = "cleanup" \/ (lock = "shutdown" /\ Registered # {})

\* A frozen pool stays frozen: no connection is registered or removed again.
FrozenForever ==
  [][Frozen => UNCHANGED <<lock, connections>>]_vars

\* The pool has to remove the connection of s: shutdown() is under way, or the connection
\* is stale, unhealthy or too old and the pool still in use.
Due(s) ==
  /\ connections[ClientOf[s]] = s
  /\ _shutdown = "begun" \/ (_shutdown = "no" /\ s \in removable)

\* "Automatic cleanup of stale and unhealthy connections"
\* (CONNECTION_POOL_IMPLEMENTATION_SUMMARY.md:31) and "Close all WebSocket connections."
\* (websocket_pool_manager.py:198): a connection that the cleanup or shutdown() has to
\* remove does not stay so for ever.  Both wait for the lock they hold instead.
DueConnectionsAreRemoved == \A s \in Sockets : Due(s) ~> ~Due(s)
==============================================================================
