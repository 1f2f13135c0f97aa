------------------------------ MODULE RpcSystem ------------------------------
(***************************************************************************)
(* One RpcClient and one RpcServer (src/src/RpcClient.ts, RpcServer.ts)    *)
(* talking through a transport.  The client handler and the server handler *)
(* share the two payload queues; everything between them (encoder, frame   *)
(* header, socket or MQTT broker, header extraction, decoder, switch) is   *)
(* the network of this module, which keeps the order of each direction    *)
(* and may lose payloads: an MQTT publish is QoS 0 and a socket.io server  *)
(* emit to a disconnected socket is gone.  In the server-to-client         *)
(* direction it may also deliver a payload twice: RpcClient.init opens its *)
(* transport a second time after the constructor already opened it, so    *)
(* the client holds two connections and the server's broadcast reaches it *)
(* on both.                                                                *)
(***************************************************************************)
EXTENDS RpcMessages

CONSTANTS
    MaxEmits,  \* bound: events the application emits
    MaxDup     \* bound: server-to-client payloads delivered twice

VARIABLES
    \* RpcClientHandler
    promise, sending, responsePromiseMap, responseTimeoutMap, timerArmed,
    \* RpcServerHandler and ManageRpc
    nameSpaces, methodMaps, instances, exposedClasses, createdInstances,
    allocated, eventProxies, executing, emitted, answered,
    \* the network
    toServer, toClient, dups,
    \* the server process
    serverUp

vars == <<promise, sending, responsePromiseMap, responseTimeoutMap, timerArmed,
          nameSpaces, methodMaps, instances, exposedClasses, createdInstances,
          allocated, eventProxies, executing, emitted, answered,
          toServer, toClient, dups, serverUp>>

LOCAL Seqs == INSTANCE SequencesExt

Client == INSTANCE RpcClientHandler
Server == INSTANCE RpcServerHandler

clientVars == <<promise, sending, responsePromiseMap, responseTimeoutMap, timerArmed>>
serverVars == <<nameSpaces, methodMaps, instances, exposedClasses, createdInstances,
                allocated, eventProxies, executing, emitted, answered>>

-----------------------------------------------------------------------------
(* The network.                                                            *)

\* A call payload is lost on its way to the server.
LoseRequest(i) ==
    /\ toServer' = Seqs!RemoveAt(toServer, i)
    /\ UNCHANGED <<clientVars, serverVars, toClient, dups, serverUp>>

\* A reply or event payload is lost on its way to the client.
LoseReply(i) ==
    /\ toClient' = Seqs!RemoveAt(toClient, i)
    /\ UNCHANGED <<clientVars, serverVars, toServer, dups, serverUp>>

\* The payload at the head reaches the client on both of its connections.
DuplicateReply ==
    /\ toClient # <<>>
    /\ dups < MaxDup
    /\ dups' = dups + 1
    /\ toClient' = <<Head(toClient)>> \o toClient
    /\ UNCHANGED <<clientVars, serverVars, toServer, serverUp>>

NetworkNext ==
    \/ \E i \in 1..Len(toServer) : LoseRequest(i)
    \/ \E i \in 1..Len(toClient) : LoseReply(i)
    \/ DuplicateReply

-----------------------------------------------------------------------------
Init ==
    /\ Client!ClientInit
    /\ Server!ServerInit
    /\ toServer = <<>>
    /\ toClient = <<>>
    /\ dups = 0
    /\ serverUp = TRUE

\* The rejection DispatchThrows leaves unhandled ends the server process
\* (Node 15 and later, with no 'unhandledRejection' listener, which neither
\* the library nor the examples install); Node before 15 only logs a
\* warning, which is ServerNext's DispatchThrows.  The server handles
\* nothing after it; the client keeps running.
UnhandledRejectionExits ==
    /\ serverUp
    /\ Server!DispatchThrows
    /\ serverUp' = FALSE
    /\ UNCHANGED <<clientVars, dups>>

Next ==
    \/ Client!ClientNext /\ UNCHANGED <<serverVars, dups, serverUp>>
    \/ serverUp /\ Server!ServerNext /\ UNCHANGED <<clientVars, dups, serverUp>>
    \/ UnhandledRejectionExits
    \/ NetworkNext

\* A timer armed by setTimeout fires unless it is cleared: Node's event loop
\* runs every due timer.
TimerFires(id) == Client!Timeout(id) /\ UNCHANGED <<serverVars, dups, serverUp>>

\* A started sendPayload settles, one way or the other: the transport emits
\* at once or after waiting 1 s for its connection, and the encoder either
\* returns or throws.
SendSettles(id) ==
    \E msg \in sending :
        /\ msg.id = id
        /\ Client!SendCompletes(msg) \/ Client!SendFails(msg)
        /\ UNCHANGED <<serverVars, dups, serverUp>>

\* Nothing else is assumed to happen: the user need not call, the server's
\* methods need not return, the network need not deliver.
Fairness == \A id \in Ids : WF_vars(TimerFires(id)) /\ WF_vars(SendSettles(id))

Spec == Init /\ [][Next]_vars /\ Fairness

-----------------------------------------------------------------------------
(* Properties.                                                             *)

\* Every variable holds a value of its type.
TypeOK ==
    /\ Client!ClientTypeOK
    /\ Server!ServerTypeOK
    /\ toServer \in Seq(Payloads)
    /\ toClient \in Seq(Payloads)
    /\ dups \in 0..MaxDup
    /\ serverUp \in BOOLEAN

\* Call correlation (RpcClientHandler.call/receive with the server's
\* receivePayload): the caller's promise settles at most once and resolves
\* only with the server's success answer to that same call, whatever the
\* order in which calls, replies, timeouts, losses and duplicates happen.
CallAbstraction == INSTANCE RpcCall WITH
    status <- [id \in Ids |-> promise[id].state],
    result <- [id \in Ids |-> promise[id].result],
    answer <- answered

RpcCallRefinement == CallAbstraction!Spec

\* Once call()'s send has completed (its timer handle is in
\* responseTimeoutMap), its promise eventually settles, even if the request
\* or the reply is lost: the 10 s timer of RpcClientHandler.call rejects it.
SentCallsSettle ==
    \A id \in Ids :
        id \in responseTimeoutMap ~> promise[id].state \in {"resolved", "rejected"}

\* Every promise call() returns eventually settles (spec 4.4: a send
\* failure is reported to the caller).
CallsSettle ==
    \A id \in Ids :
        promise[id].state = "pending" ~> promise[id].state \in {"resolved", "rejected"}

\* Spec 3, pending call table: once a call is resolved or rejected neither
\* responsePromiseMap nor responseTimeoutMap holds its id.
SettledCallsReleaseTables ==
    \A id \in Ids :
        promise[id].state \in {"resolved", "rejected"} =>
            id \notin responsePromiseMap \cup responseTimeoutMap

\* Spec 4.4: when RpcClientHandler.receive takes the server's error reply
\* to a call that is still waiting, it rejects that call with the code.
ErrorReplyRejectsCall ==
    [][ LET m == Head(toClient) IN
        (/\ Client!ReceiveResponse
         /\ m.type = "ERROR"
         /\ m.ghostFor \in responsePromiseMap
         /\ promise[m.ghostFor].state = "pending")
        => promise'[m.ghostFor].state = "rejected" /\ promise'[m.ghostFor].reason = m.code
      ]_vars

\* Spec 3, event bridge registry: repeated "on" calls for the same
\* instance name and event from the same source leave one EventProxy.
OneEventProxyPerKey ==
    \A n \in UserNames, e \in Events :
        Cardinality({p \in eventProxies : p.key.name = n /\ p.key.event = e}) <= 1

\* Spec 3, instance registry: exposing an instance under a name replaces the
\* method map of that name, so every method of the map is bound to the
\* instance now exposed under it.
MethodsBoundToExposedInstance ==
    \A n \in UserNames :
        instances[n] # None =>
            \A f \in Methods : methodMaps[n][f] \in {None, instances[n]}

\* Spec 7, errors: a call naming an instance or method the server does not
\* have is a dispatch error, answered with an Error payload, and no error
\* of a call terminates the server process.  RpcServerHandler.receive, given
\* a call whose instance name Object.prototype supplies ("toString"), must
\* therefore leave the server running.
ServerProcessSurvives == serverUp
=============================================================================
