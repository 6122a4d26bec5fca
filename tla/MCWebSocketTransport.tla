------------------------ MODULE MCWebSocketTransport ------------------------
(* WebSocketTransport with a lease renewal, a task that is never cancelled, and the poll *)
(* for commands.                                                                       *)
EXTENDS WebSocketTransport
=============================================================================
