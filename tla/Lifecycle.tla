------------------------------ MODULE Lifecycle ------------------------------
(***************************************************************************)
(* An RpcClient (ClientLifecycle) and the RpcServer it connects to         *)
(* (ServerLifecycle).  The client's own transport connects to one          *)
(* transport of the server, its endpoint: a socket.io connection opens     *)
(* only while that transport accepts connections, and the server's close() *)
(* disconnects it for good.  An MQTT client connects to the broker, which  *)
(* the server's close() leaves up.  The connections of the discarded       *)
(* client transports ("default", "option") go elsewhere and are the        *)
(* environment's, as in ClientLifecycle.                                   *)
(***************************************************************************)
EXTENDS Naturals

CONSTANTS None, Urls, Options

VARIABLES
    url, conn, current, connected, readyFlag, pc, closed, frame,
    options, transports, closedT, extListening,
    endpoint   \* the server transport the client's URL designates

Client == INSTANCE ClientLifecycle
Server == INSTANCE ServerLifecycle

clientVars == <<url, conn, current, connected, readyFlag, pc, closed, frame>>
serverVars == <<options, transports, closedT, extListening>>
vars == <<clientVars, serverVars, endpoint>>

\* The server transport a client URL reaches: an MQTT URL the broker, no
\* URL the default http://localhost:3000, an http or ws URL a socket.io
\* server of the caller's or on a given port.
Serves(u, k) ==
    CASE u = "mqtt" -> k = "broker"
      [] u = "none" -> k = "default"
      [] OTHER      -> k \in {"port", "external"}

\* The connections the client's transport opens to the server's socket.io
\* transport.
ToServer(c) == c \in Client!Owned /\ Client!TransportOf(url) = "socket.io"

\* A client and a server it is configured to reach.
Init ==
    /\ Client!Init
    /\ Server!Init
    /\ endpoint \in {k \in Server!Built(options) : Serves(url, k)}

ClientConnect(c) ==
    /\ ToServer(c) => Server!Accepting(endpoint)
    /\ Client!Connect(c)
    /\ UNCHANGED <<serverVars, endpoint>>

\* The server's close() disconnected the socket: the client's listener runs
\* when the disconnect packet arrives.
ClientKicked(c) ==
    /\ ToServer(c)
    /\ endpoint \in closedT
    /\ Client!Kicked(c)
    /\ UNCHANGED <<serverVars, endpoint>>

\* The client's other steps do not involve the server.
ClientDisconnect(c) == Client!Disconnect(c) /\ UNCHANGED <<serverVars, endpoint>>
ClientInitResumes == Client!InitResumes /\ UNCHANGED <<serverVars, endpoint>>
ClientClose == Client!Close /\ UNCHANGED <<serverVars, endpoint>>
ClientReceive == Client!Receive /\ UNCHANGED <<serverVars, endpoint>>
ClientWaitElapses == Client!WaitElapses /\ UNCHANGED <<serverVars, endpoint>>

ServerListen ==
    /\ Server!ExternalListen
    /\ UNCHANGED <<clientVars, endpoint>>

ServerClose ==
    /\ Server!Close
    /\ UNCHANGED <<clientVars, endpoint>>

Next ==
    \/ \E c \in Client!Conns : ClientConnect(c) \/ ClientKicked(c) \/ ClientDisconnect(c)
    \/ ClientInitResumes
    \/ ClientClose
    \/ ClientReceive
    \/ ClientWaitElapses
    \/ ServerListen
    \/ ServerClose

\* The connections retry while the server accepts (ClientLifecycle), a
\* disconnect packet of the server's close() is delivered, and Node runs
\* the client's timers.  An application that gives the server its own http
\* server listens on it (NodeServerTest).  The user need not close either
\* side.
Fairness ==
    /\ WF_vars(ServerListen)
    /\ \A c \in Client!Owned : WF_vars(ClientConnect(c)) /\ WF_vars(ClientKicked(c))
    /\ WF_vars(ClientInitResumes)
    /\ WF_vars(ClientWaitElapses)

Spec == Init /\ [][Next]_vars /\ Fairness

-----------------------------------------------------------------------------
(* Properties.                                                             *)

\* Both sides have their types, and the client's endpoint is a transport
\* the server built.
TypeOK ==
    /\ Client!TypeOK
    /\ Server!TypeOK
    /\ endpoint \in Server!Built(options)

\* init() completes (proxy('manageRpc') returns and the transport is
\* opened again) unless the transport never connected before the client
\* was closed or the server's transport was closed, which leaves ready()
\* polling for good.
InitCompletes ==
    <>(pc = "done" \/ (~readyFlag /\ (closed \/ endpoint \in closedT)))

\* Once RpcServer.close() has run, every socket.io connection of the
\* client to it ends up disconnected and stays so: the server's close()
\* must reach every transport it built, whatever the order of the two
\* sides' steps.
ServerCloseStopsClients ==
    (transports = {}) ~> [](\A c \in Client!Conns : ToServer(c) => conn[c] # "connected")
=============================================================================
