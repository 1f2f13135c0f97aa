--------------------------- MODULE ClientLifecycle ---------------------------
(***************************************************************************)
(* The connections of an RpcClient (src/src/RpcClient.ts) and of its       *)
(* client transport, SocketIoClientTransport or MqttTransport, from        *)
(* construction to close.                                                  *)
(*                                                                         *)
(* An RpcClient opens up to three connections, named here after the call   *)
(* that opens them:                                                        *)
(*   "default"  the SocketIoClientTransport of the options field           *)
(*              initializer, built for every client whatever the options;  *)
(*              init() replaces it in options.transport and never closes   *)
(*              it; its listeners only touch that unreferenced transport;  *)
(*   "option"   the one a transport the caller passes in options opened  *)
(*              in its own constructor (RpcServer.test.ts passes an        *)
(*              MqttTransport); init() replaces it too, unclosed;          *)
(*   "ctor"     the one the transport chosen by init() opens in its        *)
(*              constructor;                                               *)
(*   "init"     the one init() opens once proxy('manageRpc') has returned, *)
(*              by calling the transport's open() a second time.           *)
(* A connection is "connecting" from its creation (socket.io and mqtt.js   *)
(* reconnect by themselves after a drop) until its connect event,         *)
(* "stopped" once a socket.io server has disconnected it (socket.io does   *)
(* not reconnect then), and "closed" once closed.  The transport holds one *)
(* connection (socket or client, `current`); the listeners of "ctor" and   *)
(* "init" both set the transport's connected and readyFlag fields.  One    *)
(* frame the encoder hands to the transport stands for the client's        *)
(* traffic; what it carries and where it goes after the socket are         *)
(* RpcSystem's and Routing's.                                              *)
(***************************************************************************)
EXTENDS Naturals

CONSTANTS
    None,  \* model value: this.socket is undefined
    Urls   \* URL kinds a client is given: "http" (or ws), "mqtt", "none"

Conns == {"default", "option", "ctor", "init"}
ConnStates == {"absent", "connecting", "connected", "stopped", "closed"}
\* The connections whose listeners were registered by the client's transport.
Owned == {"ctor", "init"}

VARIABLES
    url,        \* RpcClient.url
    conn,       \* [Conns -> ConnStates]
    current,    \* the transport's socket (or MQTT client), or None
    connected,  \* the transport's connected field
    readyFlag,  \* the transport's readyFlag (GenericModule)
    pc,         \* init(): "polling" in ready(), "done" after its last line
    closed,     \* RpcClient.close() has been called
    frame       \* a frame handed to the transport's receive():
                \* "idle", "waiting" (the 1 s wait), "emitted", "dropped"

vars == <<url, conn, current, connected, readyFlag, pc, closed, frame>>

\* RpcClient.init: the transport class the URL selects.
TransportOf(u) == IF u = "mqtt" THEN "mqtt" ELSE "socket.io"

\* MqttTransport.open sets readyFlag as soon as it has called mqtt.connect;
\* SocketIoClientTransport.open leaves it to the connect listener.
ReadyAtOpen(u) == TransportOf(u) = "mqtt"

\* new RpcClient(url): the field initializer builds the default transport,
\* which opens "default"; init() runs up to its first await: it builds the
\* transport for url, which opens "ctor", wires the parser, handler and
\* encoder to it, sets RpcClient.readyFlag, and calls proxy('manageRpc'),
\* which waits in ready() for the transport's readyFlag.  The caller may
\* have passed a transport of its own in options.
Init ==
    /\ url \in Urls
    /\ \E given \in BOOLEAN :
         conn = [c \in Conns |-> CASE c = "init" -> "absent"
                                   [] c = "option" -> IF given THEN "connecting" ELSE "absent"
                                   [] OTHER -> "connecting"]
    /\ current = "ctor"
    /\ connected = FALSE
    /\ readyFlag = ReadyAtOpen(url)
    /\ pc = "polling"
    /\ closed = FALSE
    /\ frame = "idle"

\* Mutation of Connect: the socket.io connect listener does not set
\* readyFlag.
ConnectNoReadyFlag(c) ==
    /\ conn[c] = "connecting"
    /\ conn' = [conn EXCEPT ![c] = "connected"]
    /\ IF c \in Owned
       THEN /\ connected' = TRUE
            /\ readyFlag' = ReadyAtOpen(url)
       ELSE UNCHANGED <<connected, readyFlag>>
    /\ UNCHANGED <<url, current, pc, closed, frame>>

\* The connect event of connection c: the transport's listener sets
\* connected and readyFlag (an MQTT client sets connected and subscribes;
\* its readyFlag is already set).
Connect(c) ==
    /\ conn[c] = "connecting"
    /\ conn' = [conn EXCEPT ![c] = "connected"]
    /\ IF c \in Owned
       THEN /\ connected' = TRUE
            /\ readyFlag' = TRUE
       ELSE UNCHANGED <<connected, readyFlag>>
    /\ UNCHANGED <<url, current, pc, closed, frame>>

\* The disconnect (MQTT: close) event of a connection that drops: the
\* listener clears connected, whichever connection the transport now holds.
Disconnect(c) ==
    /\ conn[c] = "connected"
    /\ conn' = [conn EXCEPT ![c] = "connecting"]
    /\ IF c \in Owned THEN connected' = FALSE ELSE UNCHANGED connected
    /\ UNCHANGED <<url, current, readyFlag, pc, closed, frame>>

\* The server disconnects connection c (its close() calls
\* io.disconnectSockets()): the disconnect listener clears connected, and
\* socket.io does not reconnect after a disconnect the server asked for.
Kicked(c) ==
    /\ conn[c] = "connected"
    /\ c \in Owned => TransportOf(url) = "socket.io"
    /\ conn' = [conn EXCEPT ![c] = "stopped"]
    /\ IF c \in Owned THEN connected' = FALSE ELSE UNCHANGED connected
    /\ UNCHANGED <<url, current, readyFlag, pc, closed, frame>>

\* Mutation of InitResumes: open() records the new socket in this.socket
\* but the socket is never created.
InitResumesNoSocket ==
    /\ pc = "polling"
    /\ readyFlag
    /\ pc' = "done"
    /\ current' = "init"
    /\ UNCHANGED <<url, conn, connected, readyFlag, closed, frame>>

\* ready()'s 10 ms poll finds both readyFlags set; proxy('manageRpc')
\* returns and init() awaits transport.open() again, which opens "init" and
\* stores it as the transport's connection, closed client or not.
InitResumes ==
    /\ pc = "polling"
    /\ readyFlag
    /\ pc' = "done"
    /\ conn' = [conn EXCEPT !["init"] = "connecting"]
    /\ current' = "init"
    /\ UNCHANGED <<url, connected, readyFlag, closed, frame>>

\* RpcClient.close(): the handler's close() is GenericModule's no-op, then
\* the transport's close(): SocketIoClientTransport closes its socket, if it
\* has one, and clears socket and connected; MqttTransport inherits the
\* no-op.  readyFlag is left set.
Close ==
    /\ closed' = TRUE
    /\ IF TransportOf(url) = "socket.io"
       THEN /\ conn' = IF current # None THEN [conn EXCEPT ![current] = "closed"] ELSE conn
            /\ current' = None
            /\ connected' = FALSE
       ELSE UNCHANGED <<conn, current, connected>>
    /\ UNCHANGED <<url, readyFlag, pc, frame>>

\* The frame leaves on the transport's connection, read when it is
\* emitted; with none (this.socket?.emit, this.client?.publish) it is
\* dropped.  A socket.io socket buffers what is emitted while it is not
\* connected, and mqtt.js queues what is published while offline.
EmitFrame ==
    frame' = IF current = None THEN "dropped" ELSE "emitted"

\* The encoder hands a frame to the transport once the user's ready() has
\* returned.  SocketIoClientTransport.receive first waits 1 s if it is not
\* connected; MqttTransport.receive publishes at once.
Receive ==
    /\ frame = "idle"
    /\ readyFlag
    /\ IF TransportOf(url) = "socket.io" /\ ~connected
       THEN frame' = "waiting"
       ELSE EmitFrame
    /\ UNCHANGED <<url, conn, current, connected, readyFlag, pc, closed>>

\* The 1 s timer of receive() fires.
WaitElapses ==
    /\ frame = "waiting"
    /\ EmitFrame
    /\ UNCHANGED <<url, conn, current, connected, readyFlag, pc, closed>>

Next ==
    \/ \E c \in Conns : Connect(c) \/ Disconnect(c) \/ Kicked(c)
    \/ InitResumes
    \/ Close
    \/ Receive
    \/ WaitElapses

\* The server is up: socket.io and mqtt.js retry a connection until it
\* connects.  Node runs ready()'s poll timer and receive()'s 1 s timer.
\* The connections of the discarded transports are given no fairness; the
\* user need not close.
Fairness == /\ \A c \in Owned : WF_vars(Connect(c))
            /\ WF_vars(InitResumes)
            /\ WF_vars(WaitElapses)

Spec == Init /\ [][Next]_vars /\ Fairness

-----------------------------------------------------------------------------
(* Properties.                                                             *)

\* Every variable has its type, and this.socket only ever holds a
\* connection open() created.
TypeOK ==
    /\ url \in Urls
    /\ conn \in [Conns -> ConnStates]
    /\ current \in {c \in Owned : conn[c] # "absent"} \cup {None}
    /\ connected \in BOOLEAN
    /\ readyFlag \in BOOLEAN
    /\ pc \in {"polling", "done"}
    /\ closed \in BOOLEAN
    /\ frame \in {"idle", "waiting", "emitted", "dropped"}

\* Spec 3, pipeline node lifecycle: closing a client releases the
\* transport resources it holds, so once close() has run no connection the
\* client opened stays open.
CloseReleasesConnections ==
    closed => \A c \in Conns : conn[c] \in {"absent", "stopped", "closed"}
=============================================================================
