---------------------------- MODULE Notifications ----------------------------
(***************************************************************************)
(* Live updates over WebSockets (UnsecureWebSocketsProtocol): clients that *)
(* subscribe to resources and are told when one of them has changed.  What *)
(* a client sends is a script, its lines come in order.                    *)
(***************************************************************************)
EXTENDS Authorization

VARIABLES
  listeners,     \* WebSocketListener: state, subscriptions, messages sent
  script         \* the lines that each client still sends

socketVars == <<listeners, script>>

Sockets == DOMAIN listeners

NewListener == [state |-> "new", subscribedPaths |-> {}, sent |-> {}]

Connection(s) == scenario.sockets[s]

NotificationsInit ==
  /\ listeners = [s \in DOMAIN scenario.sockets |-> NewListener]
  /\ script = [s \in DOMAIN scenario.sockets |-> Connection(s).lines]

sendMessage(listener, type, value) ==
  [listener EXCEPT !.sent = @ \cup {<<type, value>>}]

stop(listener) == [listener EXCEPT !.state = "closed", !.subscribedPaths = {}]

\* UnsecureWebSocketsProtocol.handle, WebSocketListener.start
start(s) ==
  /\ listeners[s].state = "new"
  /\ LET greeted == sendMessage([listeners[s] EXCEPT !.state = "open"], "protocol", "solid-0.1")
         protocols == Connection(s).protocols
     IN  listeners' = [listeners EXCEPT ![s] =
           IF protocols = {} THEN sendMessage(greeted, "warning", "protocol")
           ELSE IF "solid-0.1" \in protocols THEN greeted
           ELSE stop(sendMessage(greeted, "error", "protocol"))]
  /\ UNCHANGED script

\* The host and the protocol that the client connected to.
connectedTo(s) ==
  LET headers == Connection(s).headers
      forwarded == parseForwarded(headers)
  IN  [host |-> IF forwarded.host # "none" THEN forwarded.host
                ELSE IF headers.host # "none" THEN headers.host ELSE "localhost",
       proto |-> IF forwarded.proto = "https" \/ headers.secure THEN "https" ELSE "http"]

\* onMessage, subscribe: only to resources of the host that was connected to.
subscribe(listener, s, line) ==
  IF [host |-> line.host, proto |-> line.proto] # connectedTo(s)
  THEN sendMessage(listener, "error", line.resource)
  ELSE sendMessage([listener EXCEPT !.subscribedPaths = @ \cup {line.resource}],
                   "ack", line.resource)

onMessage(s) ==
  /\ listeners[s].state = "open" /\ script[s] # <<>>
  /\ script' = [script EXCEPT ![s] = Tail(@)]
  /\ LET line == Head(script[s]) IN
     /\ line.type # "close"
     /\ listeners' = [listeners EXCEPT ![s] =
          IF line.type = "sub" THEN subscribe(@, s, line)
          ELSE sendMessage(@, "warning", line.type)]

\* The connection is closed, or has an error.
close(s) ==
  /\ listeners[s].state = "open" /\ script[s] # <<>> /\ Head(script[s]).type = "close"
  /\ listeners' = [listeners EXCEPT ![s] = stop(@)]
  /\ script' = [script EXCEPT ![s] = Tail(@)]

\* onResourceChanged, for every resource; only in the model does a message say
\* which request it is about.
onResourceChanged(listener, changed, c) ==
  [listener EXCEPT !.sent = @ \cup {<<"pub", <<r, c>>>> : r \in changed \cap listener.subscribedPaths}]

\* A mistake for emitChanged: containers are not announced.
emitDocuments(changed, c) ==
  listeners' = [s \in Sockets |->
    onResourceChanged(listeners[s], {r \in changed : r[2] \notin Containers}, c)]

emitChanged(changed, c) ==
  listeners' = [s \in Sockets |-> onResourceChanged(listeners[s], changed, c)]

NotificationsStep == \E s \in Sockets : start(s) \/ onMessage(s) \/ close(s)
=============================================================================
