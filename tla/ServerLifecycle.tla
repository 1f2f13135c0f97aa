--------------------------- MODULE ServerLifecycle ---------------------------
(***************************************************************************)
(* The transports of an RpcServer (src/src/RpcServer.ts) from construction *)
(* to close, as seen by the clients that connect to them.                  *)
(*                                                                         *)
(* Each entry of options.transports gives one transport; the kinds are     *)
(*   "port"      a SocketIoServerTransport on an http server it creates;   *)
(*   "external"  a SocketIoServerTransport on the caller's http server;    *)
(*   "broker"    an MqttTransport connected to a broker;                   *)
(* and a server given none gets "default", a SocketIoServerTransport on an *)
(* http server it creates on port 3000.  A transport instance passed as is *)
(* is one of these.  The constructor's listen() binds the port before it   *)
(* returns, so a transport on a server it created accepts connections from *)
(* construction until its close() has run; the 'listening' callback only   *)
(* logs.  The caller's server accepts once the caller has called listen()  *)
(* on it, which NodeServerTest does after building the RpcServer.          *)
(***************************************************************************)
EXTENDS FiniteSets

CONSTANTS
    Options   \* the kinds of entries options.transports may hold

Kinds == {"port", "external", "broker", "default"}
SocketIoKinds == {"port", "external", "default"}

VARIABLES
    options,     \* the kinds in options.transports
    transports,  \* RpcServer.transports, as the set of their kinds
    closedT,     \* the socket.io transports whose closed field is set
    extListening \* the caller's http server is listening

serverVars == <<options, transports, closedT, extListening>>

\* RpcServer constructor: one transport per option entry, or the default
\* socket.io transport on port 3000 when there is none.
Built(o) == IF o = {} THEN {"default"} ELSE o

\* new RpcServer(options): the transports, then the parser, handler,
\* encoder and Switch wired to them; no transport is closed.
Init ==
    /\ options \in SUBSET Options
    /\ transports = Built(options)
    /\ closedT = {}
    /\ extListening \in BOOLEAN

\* A socket.io transport's server accepts and keeps connections from the
\* constructor until its close() has run.
Accepting(k) ==
    /\ k \in SocketIoKinds \cap Built(options)
    /\ k \notin closedT
    /\ k = "external" => extListening

\* The application calls listen() on the http server it gave the server.
ExternalListen ==
    /\ "external" \in options
    /\ ~extListening
    /\ extListening' = TRUE
    /\ UNCHANGED <<options, transports, closedT>>

\* Mutation of Close: transports is cleared before the forEach walks it.
CloseClearsFirst ==
    /\ transports' = {}
    /\ UNCHANGED <<options, closedT, extListening>>

\* The transports whose closed field close() on transport k sets.
\* SocketIoServerTransport.close returns at once if closed is set, and
\* otherwise disconnects every socket (io.disconnectSockets), closes the
\* http server if it created it, sets closed and closes io;
\* MqttTransport.close is GenericModule's no-op and leaves the broker
\* connection open.
Closes(k) == IF k \in SocketIoKinds THEN {k} ELSE {}

\* RpcServer.close(): forEach calls close() on every transport in
\* transports and then empties it.  The forEach does not await the
\* promises, but each close() body runs to its end before returning one.
\* A second close() finds transports empty.
Close ==
    /\ closedT' = closedT \cup UNION {Closes(k) : k \in transports}
    /\ transports' = {}
    /\ UNCHANGED <<options, extListening>>

Spec == Init /\ [][ExternalListen \/ Close]_serverVars

\* The server's variables have their types, and only a transport the
\* constructor built is ever closed.
TypeOK ==
    /\ options \in SUBSET Options
    /\ transports \subseteq Built(options)
    /\ closedT \subseteq Built(options) \cap SocketIoKinds
    /\ extListening \in BOOLEAN
=============================================================================
