---------------------------- MODULE PageConnection ----------------------------
(***************************************************************************)
(* The connection of one browser page to the gateway: the page's side is   *)
(* the effect of frontend/src/hooks/use-websocket.ts, the server's the     *)
(* room of the session in src/council/gateways/discussion.gateway.ts.      *)
(* SessionPage and PageMessages extend this module with what the           *)
(* connection carries.                                                     *)
(*                                                                         *)
(* A socket is a FIFO, and a handler of the page only folds its event into *)
(* the page's state: an event is applied in the step that emits it.        *)
(* Requests may be lost or late, which the steps of their handlers are     *)
(* free to be.                                                             *)
(***************************************************************************)
EXTENDS Integers

CONSTANT
  MaxSockets   \* connections the page makes (bound)

ASSUME SocketsAssumption == MaxSockets \in Nat \ {0}

Sockets == 1..MaxSockets

VARIABLES
  room,      \* the page's newest socket, while it is in the room of the session; an
             \* older one that the server has not yet given up reaches nobody, and is left out
  mounted,   \* the page is shown
  conn,      \* state of its connection
  gen        \* the newest connection it made

connectionVars == <<room, mounted, conn, gen>>

\* The page's socket is in the room and alive: an event to the room reaches it.
Hears == mounted /\ conn = "up" /\ gen \in room

ConnectionInit == room = {} /\ mounted = TRUE /\ conn = "token" /\ gen = 0

\* getSessionToken answers, or fails; the page may have been left meanwhile.
Token ==
  /\ conn = "token"
  /\ conn' \in {"down", IF mounted THEN "failed" ELSE "closed"}
  /\ UNCHANGED <<room, mounted, gen>>

\* The handshake: the middleware has verified the token, and handleConnection joins
\* the room before its first await.
Handshake ==
  /\ conn = "down" /\ gen < MaxSockets
  /\ conn' = "up"
  /\ gen' = gen + 1
  /\ room' = {gen'}
  /\ UNCHANGED mounted

\* The middleware refuses the token, or the attempts to reconnect are used up.
Refusal ==
  /\ conn = "down"
  /\ conn' = "failed"
  /\ UNCHANGED <<room, mounted, gen>>

\* The page and the server notice a lost connection in either order.
Drop ==
  /\ conn = "up"
  /\ conn' = "down"
  /\ UNCHANGED <<room, mounted, gen>>

HandleDisconnect(s) ==
  /\ s \in room
  /\ room' = room \ {s}
  /\ UNCHANGED <<mounted, conn, gen>>

\* The cleanups of the effects: they disconnect the socket of socketRef, if there is
\* one yet.
Leave ==
  /\ mounted
  /\ mounted' = FALSE
  /\ conn' = IF conn = "token" THEN conn ELSE "closed"
  /\ UNCHANGED <<room, gen>>

\* Steps of the connection that carry nothing and change nothing else.
Silence == Token \/ Refusal \/ Drop \/ \E s \in Sockets : HandleDisconnect(s)

ConnectionTypeOK ==
  /\ room \subseteq 1..gen /\ gen \in 0..MaxSockets
  /\ mounted \in BOOLEAN
  /\ conn \in {"token", "failed", "down", "up", "closed"}
==============================================================================
