------------------------------- MODULE Routing -------------------------------
(***************************************************************************)
(* Address resolution in the pipe graph (src/src/RPC/Core.ts,              *)
(* src/src/Utilities/Switch.ts) and the transports' message listeners:     *)
(* GenericModule.targetExists with the process-wide knownSources table,    *)
(* Switch.receive and Switch.targetExists, and the socket.io and MQTT      *)
(* transports delivering frames to each other.                             *)
(*                                                                         *)
(* The pipe graph is a constant: each node has a kind, a name, its         *)
(* destinations (in pipe order) and, for a Switch, its targets (in         *)
(* insertion order), and lives in a process, which has its own             *)
(* knownSources.  A message is abstracted to its (source, target) pair;    *)
(* the header framing is FrameCodec's subject.  The recursive searches     *)
(* are given a depth bound, MaxDepth: a search deeper than the number of   *)
(* nodes has visited a node twice on one path, and since a node's answer   *)
(* depends only on the name and knownSources, it recurses without end;     *)
(* the code then throws RangeError when the stack is exhausted.            *)
(***************************************************************************)
EXTENDS Naturals, Sequences, SequencesExt

CONSTANTS
    None,
    Overflow,       \* the RangeError of an exhausted stack
    Nodes,          \* the modules of all processes
    Kind,           \* Nodes -> {"handler", "converter", "switch", "ioServer", "ioClient", "mqtt"}
    NameOf,         \* Nodes -> the module's name
    Dests,          \* Nodes -> its destinations, in pipe order
    SwitchTargets,  \* Nodes -> a Switch's targets, in insertion order
    ProcOf,         \* Nodes -> the process it runs in
    Peer,           \* an ioClient -> the ioServer its socket is connected to
    ServerHandlers, \* the RpcServerHandlers; the other handlers are clients
    ClientTargets,  \* the targets clients address: the server's name, and others
    MaxDepth        \* bound: recursion depth standing for the stack limit

Procs == {ProcOf[n] : n \in Nodes}
Handlers == {n \in Nodes : Kind[n] = "handler"}
ClientHandlers == Handlers \ ServerHandlers
Transports == {n \in Nodes : Kind[n] \in {"ioServer", "ioClient", "mqtt"}}
Addresses == {NameOf[h] : h \in Handlers} \cup ClientTargets

\* isTransport(): true only for the transports.
IsTransport(n) == n \in Transports

\* A process's knownSources: name -> the transport that last extracted a
\* header with that source, or None.
Registry == [Addresses -> Nodes \cup {None}]

RECURSIVE TargetExists(_, _, _, _), GenericTargetExists(_, _, _, _), SearchIn(_, _, _, _)

\* The result of the search: the RangeError propagates, a node under which
\* the name exists is the answer, otherwise the search goes on with rest.
Found(d, r, rest) == CASE r = Overflow -> Overflow [] r # None -> d [] OTHER -> rest

\* The first of the nodes s, other than transports, under which name
\* exists one level down (the forEach/map with the !result guard).
SearchIn(s, name, level, ks) ==
    IF s = <<>> THEN None
    ELSE IF IsTransport(Head(s)) THEN SearchIn(Tail(s), name, level, ks)
    ELSE Found(Head(s), TargetExists(Head(s), name, level + 1, ks), SearchIn(Tail(s), name, level, ks))

\* GenericModule.targetExists: self-match, overridden by knownSources,
\* and otherwise the search of the destinations.
GenericTargetExists(n, name, level, ks) ==
    LET r == IF ks[name] # None THEN ks[name]
             ELSE IF NameOf[n] = name THEN n ELSE None
    IN IF r # None THEN r ELSE SearchIn(Dests[n], name, level, ks)

\* n.targetExists(name, level), dispatched on n's class: a Switch
\* searches its targets only.
TargetExists(n, name, level, ks) ==
    IF level > MaxDepth THEN Overflow
    ELSE IF Kind[n] = "switch" THEN SearchIn(SwitchTargets[n], name, level, ks)
    ELSE GenericTargetExists(n, name, level, ks)

\* Switch.receive's resolution: its own targetExists, then
\* super.targetExists.  No getTarget resolver is given (RpcServer.ts:73).
SwitchRoute(n, target, ks) ==
    LET r1 == TargetExists(n, target, 0, ks)
    IN IF r1 # None THEN r1 ELSE GenericTargetExists(n, target, 0, ks)

\* What a message does once a node receives it: delivered to a handler,
\* emitted by a transport, or thrown out of the chain of receive calls.
Effect(kind, n, source, target) == [kind |-> kind, at |-> n, src |-> source, tgt |-> target]

RECURSIVE Flow(_, _, _, _, _)
\* Mutation of Flow: a converter consumes the message, as a module whose
\* receive hands it to its own receivePayload, instead of forwarding it.
FlowAnyDeliver(n, source, target, ks, depth) ==
    CASE Kind[n] \in {"handler", "converter"} -> {Effect("deliver", n, source, target)}
      [] Kind[n] = "switch" ->
           LET r == SwitchRoute(n, target, ks)
           IN IF r \in {Overflow, None} THEN {} ELSE Flow(r, source, target, ks, depth + 1)
      [] OTHER -> {Effect("emit", n, source, target)}

\* n.receive(message, source, target) and everything it calls
\* synchronously: a converter sends to all its destinations, a Switch to
\* the node it resolves (or drops the message), a transport emits.
Flow(n, source, target, ks, depth) ==
    IF depth > MaxDepth THEN {Effect("throw", n, source, target)}
    ELSE CASE Kind[n] = "handler" -> {Effect("deliver", n, source, target)}
           [] Kind[n] = "converter" ->
                UNION {Flow(d, source, target, ks, depth + 1) : d \in ToSet(Dests[n])}
           [] Kind[n] = "switch" ->
                LET r == SwitchRoute(n, target, ks)
                IN IF r = Overflow THEN {Effect("throw", n, source, target)}
                   ELSE IF r = None THEN {}
                   ELSE Flow(r, source, target, ks, depth + 1)
           [] OTHER -> {Effect("emit", n, source, target)}

\* node.send(message, source, target): receive on every destination.
SendFrom(n, source, target, ks, depth) ==
    UNION {Flow(d, source, target, ks, depth) : d \in ToSet(Dests[n])}

\* Mutation of Receivers: MQTT transports share one topic.
ReceiversOneTopic(t, target) ==
    CASE Kind[t] = "ioClient" -> {Peer[t]}
      [] Kind[t] = "ioServer" -> {c \in Nodes : Kind[c] = "ioClient" /\ Peer[c] = t}
      [] OTHER -> {m \in Nodes : Kind[m] = "mqtt"}

\* The transports a frame emitted by t reaches: a socket.io client's
\* server; every socket of a socket.io server (io.emit); the MQTT
\* transports subscribed to the topic of the frame's target.
Receivers(t, target) ==
    CASE Kind[t] = "ioClient" -> {Peer[t]}
      [] Kind[t] = "ioServer" -> {c \in Nodes : Kind[c] = "ioClient" /\ Peer[c] = t}
      [] OTHER -> {m \in Nodes : Kind[m] = "mqtt" /\ NameOf[m] = target}
-----------------------------------------------------------------------------
VARIABLES
    knownSources,  \* per process: GenericModule.knownSources
    net,           \* frames in flight: [to, src, tgt]
    delivered,     \* messages handed to a handler: Effect records
    thrown,        \* Effect records of exceptions thrown out of a listener or a send
    sent           \* <<handler, target>> pairs a handler has sent to

vars == <<knownSources, net, delivered, thrown, sent>>

Frames == [to : Transports, src : Addresses, tgt : Addresses]

\* The network, the deliveries and the exceptions a set of effects adds
\* to the frames left in flight.
Apply(inFlight, effects) ==
    /\ net' = inFlight \cup UNION {{[to |-> r, src |-> e.src, tgt |-> e.tgt] : r \in Receivers(e.at, e.tgt)} :
                                     e \in {x \in effects : x.kind = "emit"}}
    /\ delivered' = delivered \cup {e \in effects : e.kind = "deliver"}
    /\ thrown' = thrown \cup {e \in effects : e.kind = "throw"}

Init ==
    /\ knownSources = [p \in Procs |-> [a \in Addresses |-> None]]
    /\ net = {}
    /\ delivered = {}
    /\ thrown = {}
    /\ sent = {}

\* A handler's sendPayload(payload, type, this.name, target): a client's
\* call to one of ClientTargets, or a server's reply or event to a source
\* it received a message from.  Each pair is sent once, which bounds the
\* runs.
HandlerSends(h, target) ==
    /\ <<h, target>> \notin sent
    /\ h \in ServerHandlers => \E d \in delivered : d.at = h /\ d.src = target
    /\ sent' = sent \cup {<<h, target>>}
    /\ Apply(net, SendFrom(h, NameOf[h], target, knownSources[ProcOf[h]], 1))
    /\ UNCHANGED knownSources

\* Mutation of Receive: extractHeader does not call setKnownSource.
ReceiveNoKnownSource(f) ==
    LET t == f.to
        ks == knownSources[ProcOf[t]]
        found == GenericTargetExists(t, f.tgt, 0, ks)
    IN /\ f \in net
       /\ UNCHANGED knownSources
       /\ Apply(net \ {f}, IF found = Overflow THEN {Effect("throw", t, f.src, f.tgt)}
                          ELSE IF found = None THEN {}
                          ELSE SendFrom(t, f.src, f.tgt, ks, 1))
       /\ UNCHANGED sent

\* A transport's message listener: extractHeader, which records the
\* source in knownSources, then targetExists(header.target), and when it
\* finds something, send(payload, source, target) to its destinations.
Receive(f) ==
    LET t == f.to
        ks == [knownSources[ProcOf[t]] EXCEPT ![f.src] = t]
        found == GenericTargetExists(t, f.tgt, 0, ks)
    IN /\ f \in net
       /\ knownSources' = [knownSources EXCEPT ![ProcOf[t]] = ks]
       /\ Apply(net \ {f}, IF found = Overflow THEN {Effect("throw", t, f.src, f.tgt)}
                          ELSE IF found = None THEN {}
                          ELSE SendFrom(t, f.src, f.tgt, ks, 1))
       /\ UNCHANGED sent

Next ==
    \/ \E h \in ClientHandlers, a \in ClientTargets : HandlerSends(h, a)
    \/ \E h \in ServerHandlers, a \in Addresses : HandlerSends(h, a)
    \/ \E f \in net : Receive(f)

Spec == Init /\ [][Next]_vars

-----------------------------------------------------------------------------
(* Properties.                                                             *)

TypeOK ==
    /\ knownSources \in [Procs -> Registry]
    /\ net \subseteq Frames
    /\ delivered \subseteq [kind : {"deliver"}, at : Handlers, src : Addresses, tgt : Addresses]
    /\ thrown \subseteq [kind : {"throw"}, at : Nodes, src : Addresses, tgt : Addresses]
    /\ sent \subseteq Handlers \X Addresses

\* Spec 8: targetExists, and the Switch's resolution built on it, never
\* recurses without end, whatever the pipe graph: no listener and no
\* send ever throws the RangeError of an exhausted stack.  LoopTopo, where
\* a lookup goes round a cycle of handlers and Switches, breaks it (see the
\* README); in the other topologies no such cycle exists.
RoutingTerminates == thrown = {}

\* A message reaches only the handler it is addressed to: a frame a
\* transport's listener accepts, or a reply the Switch resolves, is
\* handed to a handler whose name is the message's target.  The listeners
\* accept whatever targetExists answers truthy for, and targetExists
\* answers from the process-wide knownSources before anything else.
DeliveredOnlyToAddressee == \A d \in delivered : NameOf[d.at] = d.tgt

\* A reply or event the server sends to a client it heard from reaches
\* that client's handler: the Switch routes it by knownSources to the
\* transport the client's messages arrived on, and that transport's
\* frames reach the client.  Stated over the states in which no frame is
\* in flight: the network loses nothing here and the sends are finite, so
\* every run reaches one, and a reply not delivered by then never is.
RepliesReachCaller ==
    net = {} =>
        \A h \in ServerHandlers, c \in ClientHandlers :
            <<h, NameOf[c]>> \in sent =>
                \E d \in delivered : d.at = c /\ d.src = NameOf[h] /\ d.tgt = NameOf[c]
====
