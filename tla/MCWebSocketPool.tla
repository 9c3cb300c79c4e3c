--------------------------- MODULE MCWebSocketPool ---------------------------
(* Instance of WebSocketPool for TLC: a client that connects twice with the   *)
(* same id, another client, and room for one connection.                      *)
EXTENDS WebSocketPool, TLC

CONSTANTS first, again, other, alice, bob

MCClientOf == (first :> alice) @@ (again :> alice) @@ (other :> bob)
==============================================================================
