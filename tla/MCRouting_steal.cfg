\* A client wired into the server through a Switch target: the Switch hands it the replies of remote clients.
CONSTANTS
    None = None
    Overflow = Overflow
    Topo <- LoopTopo
    Nodes <- MCNodes
    Kind <- MCKind
    NameOf <- MCNameOf
    Dests <- MCDests
    SwitchTargets <- MCSwitchTargets
    ProcOf <- MCProcOf
    Peer <- MCPeer
    ServerHandlers <- MCServerHandlers
    ClientTargets <- MCClientTargets
    MaxDepth <- MCMaxDepth
SPECIFICATION Spec
INVARIANT RepliesReachCaller
CHECK_DEADLOCK FALSE
