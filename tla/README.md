# TLA+ models of msgrpc

msgrpc (`src/src/`) is a TypeScript RPC library. A client calls methods
of objects that a server exposes, and subscribes to the events of those
objects. Both ends are pipelines of modules, `GenericModule` and
`MessageModule` in `RPC/Core.ts`, connected with `pipe`:

```
client: RpcClientHandler -> encoder -> transport ~~~> transport -> decoder -> RpcServerHandler
                                                                                  |
client: RpcClientHandler <- decoder <- transport <~~~ transport <- Switch <- encoder
```

- A transport (socket.io client or server, or MQTT) prepends a JSON frame
  header to each outgoing message, with source, target, time and seq.
  It strips that header from each incoming message (`extractHeader`) and
  records the sender in the process-wide `knownSources` table.
- The `Switch` on the server routes replies by that table.
- Converters encode and decode with JSON or MessagePack.

This project models the RPC protocol that runs over this pipeline, the
frame codec, the address resolution of the pipe graph, the prototype
walk that decides which methods the server exposes, the connections a
client opens and closes, and the server's construction and close
composed with them.

## Inventory

| Component | State | Operations | Modelled in |
|---|---|---|---|
| RpcClientHandler (`RPC/RpcClientHandler.ts`) | `responsePromiseMap`, `responseTimeoutMap`, the caller's promises, the timers | `call` (send completes / fails), timer fires, `receive` (event / reply), `proxy` | `RpcClientHandler` |
| RpcServerHandler + ManageRpc (`RPC/RpcServerHandler.ts`) | method maps per name, exposed instances, exposed classes, created instances, `eventProxies` | `receivePayload` (dispatch / handler settles / subscribe / unknown method), `EventProxy.on`, `exposeClassInstance`, `exposeObject`, `exposeClass`, `createRpcInstance` | `RpcServerHandler` |
| Payload protocol | — | `POST`, `SUCCESS`, `ERROR`, `EVENT` payloads | `RpcMessages` |
| RpcClient facade | the options' transports, `readyFlag` | construction, `init` (waits in `ready()`, opens the transport a second time), `close` | `ClientLifecycle`, `Lifecycle`, `RpcSystem` |
| RpcServer facade | `transports`, the pipeline | construction (one transport per option, or the default on port 3000), `close`, `expose*` | `ServerLifecycle`, `Lifecycle`, `RpcServerHandler` |
| Transports | sockets, broker, `connected`, `readyFlag` | `open`, `connect`/`disconnect` listeners, `receive` (the 1 s wait, the emit), `close`, socket `message` handler | `ClientLifecycle` (the client's connections), `ServerLifecycle` and `Lifecycle` (the server transports' `closed`, accepting and disconnecting), `RpcSystem` (lossy, ordered channels, duplicate delivery), `Routing` (who receives a frame, and the listener) |
| Frame codec (`prependHeader`, `extractHeader`) | `seq`, `knownSources` | prepend (text / binary), extract (text / binary) | `FrameCodec` |
| Routing (`targetExists`, `knownSources`, `Switch`) | `knownSources` per process, `destinations`, `targets` | a handler's send, a transport's listener, `Switch.receive` | `Routing`, `MCRouting` |
| Prototype walk (`exposeClassInstance`) | the method map of a name | collect the names up the prototype chain | `PrototypeWalk` |
| Converters, Filter, TryCatch, logging | — | pure | only the encoder's throw (`SendFails`) |

Hard behaviours of the code:
- Several calls are in flight at once.
- The server awaits each handler concurrently, so replies come back in
  completion order.
- A 10 s timer races the reply.
- Payloads can be lost:
  - MQTT publishes at QoS 0;
  - a socket.io emit is lost while disconnected;
  - a reply with no route is dropped by the Switch.
- Every broadcast reaches the client twice, because `RpcClient.init`
  opens the transport a second time (`RpcClient.ts:54`) after the
  transport's constructor already opened it.

## Modules

- **`RpcMessages`**: the constants and the payload records. A payload has
  one record shape, and its unused fields are `None`. A result is not a
  value. It is the record `[call, obj, kind]`: the call answered and the
  object that ran it. That is exactly what a correlation bug would get
  wrong. `ghostFor` names the call that a reply answers. It is not on the
  wire, since an error payload has no id.
- **`RpcClientHandler`**: one action per step of the client.
  - `Call` is the body of `call()`, up to `sendPayload`.
  - `SendCompletes` is the `.then` callback: it stores the resolver and
    arms the timer.
  - `SendFails` is the `.catch` callback.
  - `Timeout` is the timer callback.
  - `ReceiveEvent` and `ReceiveResponse` are the two paths through
    `receive()`.
  - `promise[id]` is the caller's promise. `Resolve` and `Reject` do
    nothing once it has settled, as a JavaScript promise does.
- **`RpcServerHandler`**: `receivePayload` in its five outcomes, plus the
  application's own calls (`ExposeClassInstance`, `ExposeObject`,
  `ExposeClass`, `Emit`).
  - `DispatchCall` looks the handler up and starts it. When the handler is
    `createRpcInstance`, its synchronous body (construct, register,
    expose) happens in the same step.
  - `HandlerSettles` is the continuation after `await handler(...)`.
  - `SubscribeEvent` is the `on` branch. `RejectUnknownMethod` is the
    MethodNotFound branch.
  - `HasMethodMap` is `getNameSpaceMethodMap`'s plain-object lookup: an
    instance name that `Object.prototype` supplies (`ProtoNames`, here
    `"toString"`) yields an inherited member with no `get`, and
    `DispatchThrows` is the `TypeError` that follows, with no reply.
    The client may send such a name, since `proxy()` and `call()` take
    any string (`CallPaths`).
  - Object identity is `[cls, n]`, where `n` counts allocations.
  - The `eventProxies` Map is keyed by a fresh object literal, so a lookup
    never hits. `EventKeyFor` gives each key a new `ref`.
- **`RpcCall`**: the abstract promise of one call.
  - A call is issued once.
  - It is answered at most once, after it was issued.
  - It resolves only with its own non-error answer, or it is rejected.
- **`RpcSystem`**: one client and one server. Their handlers are
  instantiated as `Client` and `Server` and share the two payload queues.
  The network may lose any queued payload (`LoseRequest`, `LoseReply`).
  It may also deliver a server-to-client payload twice
  (`DuplicateReply`, at most `MaxDup` times).
  - `serverUp` is the server process. `receive()` neither awaits nor
    catches `receivePayload`, so `DispatchThrows` leaves a rejection
    unhandled. With Node 15 or later that ends the process
    (`UnhandledRejectionExits`); an older Node only logs it, and the
    server goes on (`DispatchThrows` inside `ServerNext`). The repository
    pins no Node version, so both are steps of the model.
  - `RpcCallRefinement` checks that this system implements `RpcCall`,
    under the mapping status/result ← the promises and
    answer ← the server's `answered`.
- **`MCRpcSystem`**: the model values for TLC. `ClassMethods` is given by
  `MCClassMethods`.
- **`FrameCodec`**: `prependHeader` and `extractHeader` (`Core.ts:53-99`)
  as operators, and one transport sending frames to another.
  - A text is a sequence of characters. A binary frame is a sequence of
    bytes `[of, k]`: the k-th UTF-8 byte of character `of`.
    `WideChars` are the characters with two-byte encodings.
    `Utf8Decode` replaces a cut character with U+FFFD, as `TextDecoder`
    does.
  - The header JSON is abstracted to `{ source , target , seq }`. The
    quotes, keys and time are a fixed overhead, so `MaxHeaderLength` is the
    256-byte window less that overhead. `JsonParse` accepts exactly the
    texts of that shape and returns `None` where `JSON.parse` throws.
  - `Send` is a transport's `receive` (prepend with `seq++`). `Receive` is
    its peer's listener (extract, then `setKnownSource`).
- **`PrototypeWalk`**: the `while` loop of `exposeClassInstance`
  (`RpcServerHandler.ts:163-182`) as the RECURSIVE operator `CollectProps`.
  - A chain is a sequence of prototypes, each with its function and data
    property names, that ends at `EventEmitter.prototype` or
    `Object.prototype`.
  - `ExposedMethods` is the filter: not `constructor`, and
    `typeof instance[f] === 'function'`, resolved from the bottom of the
    chain.
- **`ClientLifecycle`**: the connections of one `RpcClient`
  (`RpcClient.ts`, `SocketIoClientTransport.ts`, `MqttTransport.ts`).
  - `conn` holds the state of each connection: the default transport's
    (built by the options initializer), the one of a transport the
    caller passed in options, the chosen transport's constructor's, and
    the one `init()` opens after `proxy('manageRpc')` returns.
  - `current` is the transport's `socket` (or MQTT `client`).
    `connected` and `readyFlag` are the transport's fields, which the
    listeners of both of its connections write.
  - `Init` is the constructor plus `init()` up to its first await.
    `InitResumes` is the rest of `init()`. `Connect` and `Disconnect`
    are the listeners. `Close` is `RpcClient.close()`. `Receive` and
    `WaitElapses` are `receive()` with its 1 s wait.
  - An MQTT transport sets `readyFlag` in `open()` and inherits the
    no-op `close()`.
  - `Kicked` is the disconnect listener when the server disconnected the
    socket; socket.io does not reconnect then, so the connection is
    `"stopped"` for good.
- **`ServerLifecycle`**: the transports of one `RpcServer`
  (`RpcServer.ts`, `SocketIoServerTransport.ts`).
  - `options` is the kinds of `options.transports` entries (a port, an
    external http server, a broker URL); `Built` is what the constructor
    makes of them, with the default socket.io transport on port 3000 when
    there are none.
  - `transports` is `RpcServer.transports`; `closedT` the socket.io
    transports whose `closed` field is set. `Accepting(k)` holds from the
    constructor (its `listen()` binds the port before returning) until
    the transport's `close()`; on the caller's own http server, only once
    the caller has called `listen()` (`ExternalListen`, which
    `NodeServerTest` does after building the server).
  - `Close` is `RpcServer.close()`: the `forEach` of `Closes(k)`, each
    transport's `close()` with its `closed` guard (MQTT's is the
    inherited no-op), then `transports = []`.
- **`Lifecycle`**: composes the two through `INSTANCE`. The client's
  URL designates one transport of the server (`endpoint`, chosen by
  `Serves`). A socket.io connection of the client's own transport
  connects only while that transport is `Accepting` (`ClientConnect`, the
  server's `connection` handler), and once it is closed the connection
  is disconnected (`ClientKicked`, `io.disconnectSockets()`). Every other
  client step is the `ClientLifecycle` action with the server unchanged.
- **`Routing`**: address resolution over a constant pipe graph. Each node
  has a kind, a name, its destinations in pipe order, its Switch targets in
  insertion order, and a process.
  - `GenericTargetExists`, `TargetExists` and `SearchIn` are
    `GenericModule.targetExists` and `Switch.targetExists`, mutually
    recursive. `SwitchRoute` is `Switch.receive`'s resolution.
  - `Flow` is a chain of synchronous `receive` calls: a converter forwards
    to all of its destinations, a Switch to the node it resolves, a
    transport emits, and a handler takes delivery. Nothing in the chain
    awaits a pending promise before the emit, so one step models it.
  - `Receivers` is the wire:
    - a socket.io client reaches its server;
    - a socket.io server reaches all of its sockets (`io.emit`);
    - MQTT reaches the transports subscribed to the target's topic.
  - `HandlerSends` is a handler's `sendPayload`. A server sends only to a
    source it received from (a reply or an event).
  - `Receive` is a transport's message listener: `setKnownSource`, then
    `targetExists`, then `send`.
  - `knownSources` is per process, because the table is static.
  - A message is its `(source, target)` pair; `FrameCodec` covers the
    bytes.
  - The recursion depth is bounded by `MaxDepth` = the number of nodes + 1.
    A node's answer depends only on the name and on `knownSources`, so a
    deeper search has met a node again on its own path and would recurse
    forever. The code then throws `RangeError`, which the model records in
    `thrown`.
- **`MCRouting`**: the pipe graphs that `RpcServer` (`RpcServer.ts:43-77`)
  and `RpcClient.init` build.
  - `SepTopo`: a server with a socket.io and an MQTT transport; two
    socket.io clients and one MQTT client; each endpoint in its own
    process.
  - `LoopTopo`: a client in the server's process. Its encoder pipes into
    the server's parser, and its parser is a Switch target (`addTarget`).
    There is also a remote socket.io client.
  - `SharedTopo`: `SepTopo` in a single process, as the library's tests
    run it.

## Runs

`MCRpcSystem` runs use one instance name, two call ids, methods `m1` and
`m2`, one event, `MaxObjects = 2`, `MaxEmits = 1` and `MaxDup = 1`. These
bounds are enough for the interesting cases:
- two calls whose replies cross;
- a duplicated reply;
- a reply that loses the race against its timer;
- a re-exposed name;
- a repeated subscription.

The core run has 102,552 distinct states and takes about 45 seconds.
Deadlock is not checked in the `MCRpcSystem`, `MCRouting`, `FrameCodec`
and `PrototypeWalk` runs: a client may simply stop calling, and a frame
exchange or a walk simply ends. The `Lifecycle` and `ClientLifecycle`
runs check it: their connections keep dropping and reconnecting, and a
repeated `close()` is always possible.

The `FrameCodec` runs use names of up to two characters and bodies of up to
one. The characters are `a`, `b` and the delimiter `$`, or a two-byte
character (`e_acute`). `MaxSeq = 2` frames are sent, and the window
`MaxHeaderLength = 8` cuts off the longest headers. That covers a name
containing `$`, an empty name, a header that does not fit the window, a
character cut by the window, and a body containing `$`.

The `PrototypeWalk` run enumerates every chain of up to three class
prototypes over the method and field names `f` and `g`, with either
stopping prototype and `prototypeSteps` in {none, 0, 1}. That covers
overriding, a method shadowed by a field, and a method found only two
levels up.

The `MCRouting` runs send one message from each client to the server's
name `*` and to an unknown name `x`, and let the server answer every
client it heard from. The network delivers every frame in any order.

The `Lifecycle` and `ClientLifecycle` runs take the three URL kinds
`init()` tells apart (socket.io, MQTT, none) and a caller's transport
given or not; `Lifecycle` adds every subset of the three server option
kinds, with the client reaching one of the server's transports. Every
connection may drop and come back any number of times, so each state of a
connection is reached in any order. No bound is needed: `Lifecycle` has
14,424 states and every interleaving of the client's `close()`, the
server's `close()`, `init()` and `receive()`'s wait.

| Run | Expect | What it shows |
|---|---|---|
| `rpc_core` (`MCRpcSystem.cfg`) | pass | `TypeOK`; `RpcCallRefinement`: whatever the order of calls, replies, timeouts, losses and duplicates, a promise settles once and resolves only with the answer to its own call; `SentCallsSettle`: a call whose send completed always settles (the timer covers lost payloads) |
| `send_failure_hangs` | violation of `CallsSettle` | a call whose send fails is never settled (`RpcClientHandler.ts:98`) |
| `proto_name_crashes_server` (`MCRpcSystem_crash.cfg`) | violation of `ServerProcessSurvives` | a call to instance `"toString"` makes `map.get` throw in `receivePayload` (`RpcServerHandler.ts:86,155`); the rejection is unhandled and can end the server, where spec 7 wants a MethodNotFound reply |
| `error_reply_dropped` | violation of `ErrorReplyRejectsCall` | error replies have no id and `receive` looks up only success replies; the caller sees `Call timeout` instead of the error |
| `event_proxy_duplicates` | violation of `OneEventProxyPerKey` | each `on()` stores another EventProxy (an identity-keyed Map) |
| `frame_codec` (`FrameCodec.cfg`) | pass | `FrameRoundTrip`: with ASCII names free of `$`, a non-empty target and a header that fits the window, extract(prepend(frame)) gives back the source, target, seq and exactly the body, for text and binary frames |
| `frame_delimiter_throw` | violation of `MalformedHeaderDropped` | a `$` in a source name cuts the header, and `JSON.parse` throws out of `extractHeader`; the socket.io server's and MQTT's listeners do not catch it (`SocketIoServerTransport.ts:40`) |
| `prototype_walk` (`PrototypeWalk.cfg`) | pass | `AllMethodsExposed`: without `prototypeSteps`, exactly the instance's methods below `Object`/`EventEmitter` are exposed, however deep the hierarchy, shadowed fields and `constructor` excluded. With a limit the code walks just as far (`DepthLimitBoundsWalk`, below) |
| `routing` (`MCRouting.cfg`) | pass | with each endpoint in its own process: `DeliveredOnlyToAddressee`: a handler receives only messages addressed to its name, although a socket.io server broadcasts every frame; `RepliesReachCaller`: once no frame is in flight, every reply or event the server sent has reached its client, over socket.io and over MQTT |
| `switch_steals_replies` | violation of `RepliesReachCaller` | in `LoopTopo`, `Switch.targetExists` asks the local client's parser about the remote client `cB`, and it answers truthy from `knownSources`; the reply goes to the local client and never to `cB` (`Switch.ts:56`) |
| `lifecycle` (`Lifecycle.cfg`) | pass | `TypeOK`; `InitCompletes`: `init()` completes unless the client's transport never connected before the client closed or the server stopped accepting; `ServerCloseStopsClients`: once `RpcServer.close()` has run, every socket.io connection of the client to it ends up disconnected and stays so |
| `close_leaks_connections` | violation of `CloseReleasesConnections` | after `close()`, the default transport's socket stays open (as does the caller's transport, the constructor's socket once `init()` reopened, and an MQTT client); spec 3 says closing releases the transport's resources (`RpcClient.ts:28,54`) |

More disagreements were found with properties that no run keeps:
- **`SettledCallsReleaseTables`** (`RpcSystem`, the `rpc_core`
  constants): `receive()` clears a call's timer but never deletes its
  `responseTimeoutMap` entry, and the timeout callback deletes neither
  entry (`RpcClientHandler.ts:60,94`), so settled calls stay in the
  tables for the life of the client.
- **`DeliveredOnlyToAddressee` in `SharedTopo`** (topology in
  `MCRouting`): with the server and two socket.io clients in one process,
  `knownSources['cA']` is the server's transport. Client B's transport
  therefore accepts the server's broadcast of an event for `cA`.
- **`MethodsBoundToExposedInstance`** (`RpcServerHandler`, with
  `Classes = {C1, C2}`): re-exposing a name merges the method maps, so the
  old instance's extra methods stay bound.
- **`DepthLimitBoundsWalk`** (`PrototypeWalk`): the break test
  `prototypeSteps && prototypeSteps-- === 0` is never true, so
  `prototypeSteps` limits nothing (`RpcServerHandler.ts:172`), against
  spec 4.5's "bounded by `depthLimit` if given". `prototype_walk` checks
  only the walk without a limit.
- **`FrameRoundTrip` with a two-byte character in a name** (`FrameCodec`,
  `WideChars = {e_acute}` allowed in names): the binary payload is sliced
  at the delimiter's UTF-16 index used as a byte offset (`Core.ts:90`), so
  the body arrives shifted.
- **`RoutingTerminates` in `LoopTopo`**: a frame for `x` makes
  `targetExists` go round parser, handler, encoder, Switch and the local
  client until `RangeError` (`Core.ts:114`); spec 8 says it must not.
  The `routing` run's topology has no cycle of non-transport nodes, so it
  does not keep this property.
- **MQTT readiness** (`ClientLifecycle`): `MqttTransport.open` sets
  `readyFlag` before the client connects and subscribes to its reply
  topic; spec 6 says a transport sets it only once connected. What is
  published meanwhile is queued by mqtt.js, not dropped; whether the
  reply can outrun the `SUBSCRIBE` is mqtt.js's and the broker's.
- **`RpcServer.ready()`** (`RpcServer.ts:101`): it waits for the
  transports' `readyFlag`s, which both server transports set in their
  constructors. It therefore returns before the caller's http server
  listens and before an MQTT transport connects. After `close()` it
  returns at once, because the emptied `transports` passes its filter.
  Spec 4 says a node not wired to a live transport never becomes ready.
  `ServerLifecycle` keeps no property for it: every flag is set from
  construction, so it would fail in the initial state.
- **`RpcServer.test.ts`'s pairing**: the test's server has only an MQTT
  transport, while its client is given an `MqttTransport` in options and
  no URL; `init()` ignores `options.transport` and connects socket.io to
  `localhost:3000`, where nothing listens, so `ready()` polls until
  something does. `Lifecycle`'s `Init` keeps only a client whose URL
  reaches one of the server's transports, the pairing `InitCompletes` is
  about.

To check one of them, point a copy of the matching cfg at that topology or
those constants, with that property as the invariant.

Each property of a passing run has a mutant in PROJECT.json, and TLC
finds each mutant. For example:
- `DispatchCall` without the `!handler` early return;
- `HandlerSettles` replying with the id of another executing call;
- `SendCompletes` without `setTimeout`;
- `JsonParse` reading `seq` one place early, and a window one byte short;
- `ExposedMethods` without skipping `constructor`, and the walk's loop
  condition without its `EventEmitter` test;
- the connect listener without `readyFlag = true`, and `open()`
  recording a socket it never created;
- `RpcServer.close()` emptying `transports` before its `forEach`;
- MQTT on a single shared topic;
- `extractHeader` without `setKnownSource`. The Switch then has no route
  for replies.

## Fairness

`RpcSystem`'s `Spec` assumes weak fairness for two things, and nothing
else:
- an armed timer fires (Node's event loop runs due timers);
- a started `sendPayload` settles. The transport waits at most 1 s for a
  connection and then emits, and the encoder either returns or throws.

The user, the server's methods and the network are not assumed to make
progress. `CallsSettle` fails under exactly this fairness.

`ClientLifecycle` assumes weak fairness for the connect event of the
chosen transport's connections (socket.io and mqtt.js retry until the
server answers, so this assumes the server is up at the URL), for
`ready()`'s 10 ms poll and for `receive()`'s 1 s timer. Drops, `close()`
and the discarded transports' connections get none.

`Lifecycle` restricts the connect fairness to the server's side: a
socket.io connection connects only while its server transport accepts.
It assumes an application that gives the server its own http server
listens on it (weak fairness for `ServerListen`, as `NodeServerTest`
does), and weak fairness for the delivery of the server's disconnect to a
connected socket once that transport's `close()` has run. The server's
`close()` gets none: the application need not close it.

`Routing` needs no fairness. Its network loses nothing and its sends are
finite, so every behaviour reaches a state with no frame in flight.
`RepliesReachCaller` is stated over those states. A reply that has not
been delivered by then never is.

## Not modelled, and the plan

Done: the RPC core, the frame codec, the routing, the prototype walk,
the client's connection lifecycle and the server's construction and
close, composed. Left:
1. `ManageRpc.expose(name, fn)`: it binds a bare function under one
   string used as both namespace and method name. Modelling it needs
   names shared by the namespace and method sets, and function objects
   besides instances; `rpc_core` with that product does not finish within
   its time budget.
2. `Switch.setTarget`'s removal closure, and `pipe`'s unsubscribe:
   removing edges while messages are in flight. The library never calls
   either remover. `Routing` takes the pipe graph as constants of its
   recursive lookups, so this needs the graph as a variable. The Switch
   remover deletes by name, so after a second `setTarget` under the same
   name (`RpcServer` registers every transport under `options.name`) the
   first remover deletes the second target, against spec 3.
3. `RpcServer.addTarget`, which ignores its `target` argument.
4. socket.io-client's send buffer. `receive()` reads `this.socket`
   after its 1 s wait, and what it emits on a socket that is not
   connected waits in the buffer until the socket reconnects, for good
   after the server disconnected it. `ClientLifecycle` records only
   whether the frame was emitted or dropped, so no property says where
   an emitted frame ends up.

Logging, the package entry points and the Filter/TryCatch utilities hold
no protocol state. The sockets and the broker are I/O. They appear as the
connection states of `ClientLifecycle`, as the lossy, duplicating
channels of `RpcSystem` and as the `Receivers` of `Routing`.
