------------------------------ MODULE MCRouting ------------------------------
(***************************************************************************)
(* Pipe graphs for Routing, as RpcServer and RpcClient assemble them.      *)
(* A topology maps node ids to the node's kind, name, destinations,        *)
(* Switch targets, process and (for a socket.io client) the server socket  *)
(* it is connected to.  Converters and client transports get distinct      *)
(* names, as uuidv4 gives them; the server's transports take the server's  *)
(* name (RpcServer.ts:49-60) and an MQTT client transport the client's     *)
(* (RpcClient.ts:43).                                                      *)
(***************************************************************************)
EXTENDS Routing, FiniteSets

CONSTANT Topo

N(kind, name, dests, targets, proc, peer) ==
    [kind |-> kind, name |-> name, dests |-> dests, targets |-> targets, proc |-> proc, peer |-> peer]

\* RpcServer with a socket.io and an MQTT transport: both pipe into the
\* parser, the handler into the encoder, the encoder into the Switch,
\* whose targets are the transports (RpcServer.ts:68-74).
Server(proc) ==
    [TS |-> N("ioServer", "*", <<"PS">>, <<>>, proc, None),
     TM |-> N("mqtt", "*", <<"PS">>, <<>>, proc, None),
     PS |-> N("converter", "pS", <<"S">>, <<>>, proc, None),
     S  |-> N("handler", "*", <<"ES">>, <<>>, proc, None),
     ES |-> N("converter", "eS", <<"SW">>, <<>>, proc, None),
     SW |-> N("switch", "sw", <<>>, <<"TS", "TM">>, proc, None)]

\* RpcClient.init: transport -> parser -> handler -> encoder -> transport.
SocketIoClient(proc) ==
    [TA |-> N("ioClient", "tA", <<"PA">>, <<>>, proc, "TS"),
     PA |-> N("converter", "pA", <<"A">>, <<>>, proc, None),
     A  |-> N("handler", "cA", <<"EA">>, <<>>, proc, None),
     EA |-> N("converter", "eA", <<"TA">>, <<>>, proc, None)]
SocketIoClientB(proc) ==
    [TB |-> N("ioClient", "tB", <<"PB">>, <<>>, proc, "TS"),
     PB |-> N("converter", "pB", <<"B">>, <<>>, proc, None),
     B  |-> N("handler", "cB", <<"EB">>, <<>>, proc, None),
     EB |-> N("converter", "eB", <<"TB">>, <<>>, proc, None)]
MqttClient(proc) ==
    [TC |-> N("mqtt", "cC", <<"PC">>, <<>>, proc, None),
     PC |-> N("converter", "pC", <<"C">>, <<>>, proc, None),
     C  |-> N("handler", "cC", <<"EC">>, <<>>, proc, None),
     EC |-> N("converter", "eC", <<"TC">>, <<>>, proc, None)]

\* Each endpoint in a process of its own.
SepTopo == Server("srv") @@ SocketIoClient("pA") @@ SocketIoClientB("pB") @@ MqttClient("pC")

\* Server and clients in one process, as the library's tests run them.
SharedTopo == Server("one") @@ SocketIoClient("one") @@ SocketIoClientB("one") @@ MqttClient("one")

\* A client in the server's process wired to it without a transport: its
\* encoder pipes into the server's parser, and its parser is added as a
\* Switch target (RpcServer.addTarget); a remote socket.io client too.
LoopTopo ==
    [SW |-> N("switch", "sw", <<>>, <<"TS", "PL">>, "srv", None),
     PL |-> N("converter", "pL", <<"L">>, <<>>, "srv", None),
     L  |-> N("handler", "cL", <<"EL">>, <<>>, "srv", None),
     EL |-> N("converter", "eL", <<"PS">>, <<>>, "srv", None)]
    @@ Server("srv") @@ SocketIoClientB("pB")

MCNodes == DOMAIN Topo
MCKind == [n \in MCNodes |-> Topo[n].kind]
MCNameOf == [n \in MCNodes |-> Topo[n].name]
MCDests == [n \in MCNodes |-> Topo[n].dests]
MCSwitchTargets == [n \in MCNodes |-> Topo[n].targets]
MCProcOf == [n \in MCNodes |-> Topo[n].proc]
MCPeer == [n \in MCNodes |-> Topo[n].peer]
MCServerHandlers == {"S"}
MCClientTargets == {"*", "x"}
MCMaxDepth == Cardinality(MCNodes) + 1
====
