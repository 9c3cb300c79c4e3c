------------------------- MODULE WebSocketPoolProofs -------------------------
(***************************************************************************)
(* Theorems about WebSocketPool, for any sockets, clients and room.        *)
(*                                                                         *)
(* The two safety properties carry each other: disconnect() looks only at  *)
(* the manager's dictionary, so a socket that leaves would leave the       *)
(* pool's entry behind if the manager did not know the client.             *)
(***************************************************************************)
EXTENDS WebSocketPool, TLAPS

IInv == TypeOK /\ PoolClientIsKnown /\ EntryHasADisconnector

USE PoolAssumption

-------------------------------------------------------------------------------
(* The registers, as the steps change them *)

\* A socket registered under the id it connected with keeps the register's type.
LEMMA RegisterTyped ==
  ASSUME NEW reg \in Registers, NEW s \in Sockets
  PROVE  [reg EXCEPT ![ClientOf[s]] = s] \in Registers
BY DEF Registers

\* So does an entry that goes.
LEMMA ForgetTyped ==
  ASSUME NEW reg \in Registers, NEW s \in Sockets
  PROVE  [reg EXCEPT ![ClientOf[s]] = None] \in Registers
BY DEF Registers

\* The empty register has that type.
LEMMA NoneTyped == [c \in Clients |-> None] \in Registers
BY DEF Registers

\* What an entry of the pool needs, said of one client.
LEMMA Entries ==
  ASSUME IInv, NEW c \in Clients, connections[c] # None
  PROVE  /\ active_connections[c] # None
         /\ \E s \in Sockets : ClientOf[s] = c /\ pc[s] \in {"serving", "leaving"}
BY DEF IInv, PoolClientIsKnown, EntryHasADisconnector, Registered

-------------------------------------------------------------------------------
\* A new pool satisfies the invariant.
LEMMA InitInv == Init => IInv
BY NoneTyped DEF Init, IInv, TypeOK, PoolClientIsKnown, EntryHasADisconnector, Registered

\* Steps that change neither register, and take no task away from serving or leaving.
LEMMA RegistersUntouched ==
  ASSUME IInv, TypeOK',
         UNCHANGED <<connections, active_connections>>,
         \A s \in Sockets : pc[s] \in {"serving", "leaving"} => pc'[s] \in {"serving", "leaving"}
  PROVE  IInv'
BY Entries DEF IInv, PoolClientIsKnown, EntryHasADisconnector, Registered

\* The checks before the handshake move the socket only.
LEMMA BeginConnectInv ==
  ASSUME IInv, NEW s \in Sockets, BeginConnect(s)
  PROVE  IInv'
<1>1. TypeOK'
  BY DEF IInv, TypeOK, BeginConnect
<1>2. \A t \in Sockets : pc[t] \in {"serving", "leaving"} => pc'[t] \in {"serving", "leaving"}
  BY DEF IInv, TypeOK, BeginConnect
<1> QED
  BY <1>1, <1>2, RegistersUntouched DEF BeginConnect

\* A failed handshake moves the socket only.
LEMMA HandshakeFailsInv ==
  ASSUME IInv, NEW s \in Sockets, HandshakeFails(s)
  PROVE  IInv'
<1>1. TypeOK'
  BY DEF IInv, TypeOK, HandshakeFails
<1>2. \A t \in Sockets : pc[t] \in {"serving", "leaving"} => pc'[t] \in {"serving", "leaving"}
  BY DEF IInv, TypeOK, HandshakeFails
<1> QED
  BY <1>1, <1>2, RegistersUntouched DEF HandshakeFails

\* The rejected socket overwrites an entry of the manager, which stays an entry.
LEMMA RejectedInv ==
  ASSUME IInv, NEW s \in Sockets, Rejected(s)
  PROVE  IInv'
<1>1. TypeOK'
  BY RegisterTyped DEF IInv, TypeOK, Rejected
<1>2. ASSUME NEW c \in Clients, connections'[c] # None
      PROVE  /\ active_connections'[c] # None
             /\ \E t \in Sockets : ClientOf[t] = c /\ pc'[t] \in {"serving", "leaving"}
  <2>1. connections[c] # None
    BY <1>2 DEF Rejected
  <2>2. active_connections'[c] # None
    BY <2>1, Entries DEF Rejected, IInv, TypeOK, Registers
  <2>3. PICK t \in Sockets : ClientOf[t] = c /\ pc[t] \in {"serving", "leaving"}
    BY <2>1, Entries
  <2>4. pc'[t] \in {"serving", "leaving"}
    BY <2>3 DEF Rejected, IInv, TypeOK
  <2> QED
    BY <2>2, <2>3, <2>4
<1> QED
  BY <1>1, <1>2 DEF IInv, PoolClientIsKnown, EntryHasADisconnector, Registered

\* The socket that registers is from then on the one that will disconnect.
LEMMA RegisterInv ==
  ASSUME IInv, NEW s \in Sockets, Register(s)
  PROVE  IInv'
<1>1. TypeOK'
  BY RegisterTyped DEF IInv, TypeOK, Register
<1>2. ASSUME NEW c \in Clients, connections'[c] # None
      PROVE  /\ active_connections'[c] # None
             /\ \E t \in Sockets : ClientOf[t] = c /\ pc'[t] \in {"serving", "leaving"}
  <2>1. CASE c = ClientOf[s]
    <3>1. active_connections'[c] = s /\ pc'[s] = "serving"
      BY <2>1 DEF Register, IInv, TypeOK, Registers
    <3> QED
      BY <2>1, <3>1
  <2>2. CASE c # ClientOf[s]
    <3>1. connections[c] # None /\ active_connections'[c] = active_connections[c]
      BY <1>2, <2>2 DEF Register, IInv, TypeOK, Registers
    <3>2. PICK t \in Sockets : ClientOf[t] = c /\ pc[t] \in {"serving", "leaving"}
      BY <3>1, Entries
    <3>3. pc'[t] \in {"serving", "leaving"}
      BY <2>2, <3>2 DEF Register, IInv, TypeOK
    <3> QED
      BY <3>1, <3>2, <3>3, Entries
  <2> QED
    BY <2>1, <2>2
<1> QED
  BY <1>1, <1>2 DEF IInv, PoolClientIsKnown, EntryHasADisconnector, Registered

\* The task of a client in the pool waits for the lock: the manager knows the client.
LEMMA BeginDisconnectInv ==
  ASSUME IInv, NEW s \in Sockets, BeginDisconnect(s)
  PROVE  IInv'
<1>1. TypeOK'
  BY DEF IInv, TypeOK, BeginDisconnect
<1>2. ASSUME NEW c \in Clients, connections'[c] # None
      PROVE  /\ active_connections'[c] # None
             /\ \E t \in Sockets : ClientOf[t] = c /\ pc'[t] \in {"serving", "leaving"}
  <2>1. connections[c] # None /\ active_connections'[c] # None
    BY <1>2, Entries DEF BeginDisconnect
  <2>2. PICK t \in Sockets : ClientOf[t] = c /\ pc[t] \in {"serving", "leaving"}
    BY <2>1, Entries
  <2>3. CASE t = s
    <3>1. Known(s)
      BY <2>1, <2>2, <2>3, Entries DEF Known
    <3> QED
      BY <2>1, <2>2, <2>3, <3>1 DEF BeginDisconnect, IInv, TypeOK
  <2>4. CASE t # s
    BY <2>1, <2>2, <2>4 DEF BeginDisconnect, IInv, TypeOK
  <2> QED
    BY <2>3, <2>4
<1> QED
  BY <1>1, <1>2 DEF IInv, PoolClientIsKnown, EntryHasADisconnector, Registered

\* Whoever disconnects leaves no entry of its client in the pool: a call that does nothing
\* finds no entry in the manager, hence none in the pool.
LEMMA DisconnectInv ==
  ASSUME IInv, NEW s \in Sockets, Disconnect(s)
  PROVE  IInv'
<1>1. TypeOK'
  BY ForgetTyped DEF IInv, TypeOK, Disconnect
<1>2. ASSUME NEW c \in Clients, connections'[c] # None
      PROVE  /\ active_connections'[c] # None
             /\ \E t \in Sockets : ClientOf[t] = c /\ pc'[t] \in {"serving", "leaving"}
  <2>1. c # ClientOf[s]
    <3>1. CASE pc[s] = "leaving" \/ Known(s)
      BY <1>2, <3>1 DEF Disconnect, IInv, TypeOK, Registers
    <3>2. CASE ~Known(s) /\ pc[s] # "leaving"
      BY <1>2, <3>2, Entries DEF Disconnect, Known
    <3> QED
      BY <3>1, <3>2
  <2>2. connections[c] # None /\ active_connections'[c] = active_connections[c]
    BY <1>2, <2>1 DEF Disconnect, IInv, TypeOK, Registers
  <2>3. PICK t \in Sockets : ClientOf[t] = c /\ pc[t] \in {"serving", "leaving"}
    BY <2>2, Entries
  <2>4. pc'[t] \in {"serving", "leaving"}
    BY <2>1, <2>3 DEF Disconnect, IInv, TypeOK
  <2> QED
    BY <2>2, <2>3, <2>4, Entries
<1> QED
  BY <1>1, <1>2 DEF IInv, PoolClientIsKnown, EntryHasADisconnector, Registered

\* A failed send takes an entry from the pool and leaves the manager's.
LEMMA SendFailsInv ==
  ASSUME IInv, NEW s \in Sockets, SendFails(s)
  PROVE  IInv'
<1>1. TypeOK'
  BY ForgetTyped DEF IInv, TypeOK, SendFails
<1>2. \A c \in Clients : connections'[c] # None => connections[c] # None
  BY DEF SendFails, IInv, TypeOK, Registers
<1> QED
  BY <1>1, <1>2, Entries DEF SendFails, IInv, PoolClientIsKnown, EntryHasADisconnector, Registered

\* The other steps of a socket, and those of the cleanup and the shutdown.
LEMMA QuietInv ==
  ASSUME IInv,
         \/ \E s \in Sockets : BeginSend(s) \/ EndSend(s) \/ Age(s)
         \/ Cleanup \/ BeginShutdown \/ EndShutdown
         \/ UNCHANGED vars
  PROVE  IInv'
<1>1. TypeOK' /\ UNCHANGED <<connections, active_connections, pc>>
  BY DEF IInv, TypeOK, BeginSend, EndSend, Age, Cleanup, BeginShutdown, EndShutdown, vars
<1> QED
  BY <1>1, RegistersUntouched

\* Every step keeps the invariant.
LEMMA NextInv == IInv /\ [Next]_vars => IInv'
<1> SUFFICES ASSUME IInv, [Next]_vars
             PROVE  IInv'
  OBVIOUS
<1>1. ASSUME NEW s \in Sockets, ConnectStep(s)
      PROVE  IInv'
  BY <1>1, BeginConnectInv, RejectedInv, RegisterInv, HandshakeFailsInv DEF ConnectStep
<1>2. ASSUME NEW s \in Sockets, BeginDisconnect(s) \/ Disconnect(s) \/ SendFails(s)
      PROVE  IInv'
  BY <1>2, BeginDisconnectInv, DisconnectInv, SendFailsInv
<1>3. ASSUME NEW s \in Sockets, BeginSend(s) \/ EndSend(s) \/ Age(s)
      PROVE  IInv'
  BY <1>3, QuietInv
<1>4. CASE Cleanup \/ BeginShutdown \/ EndShutdown \/ UNCHANGED vars
  BY <1>4, QuietInv
<1> QED
  BY <1>1, <1>2, <1>3, <1>4 DEF Next

\* The invariant holds in every reachable state.
LEMMA Invariance == Spec => []IInv
BY InitInv, NextInv, PTL DEF Spec

-------------------------------------------------------------------------------
(* Theorems *)

\* Both registers only ever hold a socket under the client id it connected with, and every
\* other part of the pool's state has its type.
THEOREM TypeCorrect == Spec => []TypeOK
<1>1. IInv => TypeOK
  BY DEF IInv
<1> QED
  BY <1>1, Invariance, PTL

\* A client the pool sends to is known to the manager, whichever of several sockets of that
\* client connects, is rejected, fails or leaves first.  (ConnectionManager.connect and disconnect)
THEOREM PoolClientKnown == Spec => []PoolClientIsKnown
<1>1. IInv => PoolClientIsKnown
  BY DEF IInv
<1> QED
  BY <1>1, Invariance, PTL

\* No entry of the pool outlives the last task that would disconnect its client.
THEOREM DisconnectorExists == Spec => []EntryHasADisconnector
<1>1. IInv => EntryHasADisconnector
  BY DEF IInv
<1> QED
  BY <1>1, Invariance, PTL

\* Once the cleanup loop or shutdown() waits for the lock it holds, no step of any socket, and
\* no shutdown, changes the register or frees the lock.  (_cleanup_connections and
\* _close_all_connections call _remove_connection under the lock it takes)
THEOREM FrozenIsForever == Spec => FrozenForever
<1>1. [Next]_vars => [Frozen => UNCHANGED <<lock, connections>>]_vars
  <2> SUFFICES ASSUME Next, Frozen
               PROVE  UNCHANGED <<lock, connections>>
    OBVIOUS
  <2>1. lock # "free"
    BY DEF Frozen
  <2>2. ~EndShutdown
    BY DEF Frozen, EndShutdown
  <2> QED
    BY <2>1, <2>2
    DEF Next, ConnectStep, BeginConnect, Rejected, Register, HandshakeFails, BeginDisconnect,
        Disconnect, BeginSend, EndSend, SendFails, Age, Cleanup, BeginShutdown
<1> QED
  BY <1>1, PTL DEF Spec, FrozenForever
=============================================================================
