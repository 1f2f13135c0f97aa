\* Server, two socket.io clients and an MQTT client, each in its own process.
CONSTANTS
    None = None
    Overflow = Overflow
    Topo <- SepTopo
    Nodes <- MCNodes
    Kind <- MCKind
    NameOf <- MCNameOf
    Dests <- MCDests
    SwitchTargets <- MCSwitchTargets
    ProcOf <- MCProcOf
    Peer <- MCPeer
    ServerHandlers <- MCServerHandlers
    ClientTargets <- MCClientTargets
    MaxDepth <- MCMaxDepth
SPECIFICATION Spec
INVARIANT TypeOK
INVARIANT DeliveredOnlyToAddressee
INVARIANT RepliesReachCaller
CHECK_DEADLOCK FALSE
