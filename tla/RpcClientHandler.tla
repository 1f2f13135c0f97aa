-------------------------- MODULE RpcClientHandler --------------------------
(***************************************************************************)
(* The client side of the RPC protocol: RpcClientHandler in                *)
(* src/src/RPC/RpcClientHandler.ts.  call() builds a call payload and      *)
(* starts sending it; only when the send has completed does it record the  *)
(* promise's resolver in responsePromiseMap and arm a 10 s timer whose     *)
(* handle it keeps in responseTimeoutMap.  receive() settles the promise   *)
(* of a success reply and clears its timer.                                *)
(*                                                                         *)
(* State:                                                                  *)
(*   promise[id]         the caller's promise for the call with that id   *)
(*   sending             call payloads whose sendPayload has not settled   *)
(*                       (the transport waits for its connection first)    *)
(*   responsePromiseMap  ids with a resolver in responsePromiseMap         *)
(*   responseTimeoutMap  ids with a timer handle in responseTimeoutMap     *)
(*   timerArmed          ids whose setTimeout has neither fired nor been   *)
(*                       cleared                                           *)
(*   toServer, toClient  the payloads in flight in each direction; the     *)
(*                       composing module owns the network between them    *)
(***************************************************************************)
EXTENDS RpcMessages

VARIABLES promise, sending, responsePromiseMap, responseTimeoutMap, timerArmed,
          toServer, toClient

clientVars == <<promise, sending, responsePromiseMap, responseTimeoutMap, timerArmed>>

PromiseStates == {"unused", "pending", "resolved", "rejected"}
Reasons == {None, "Call timeout"} \cup ErrorKinds
Promises == [state : PromiseStates, result : Answers \cup {None}, reason : Reasons]

ClientTypeOK ==
    /\ promise \in [Ids -> Promises]
    /\ sending \subseteq Payloads
    /\ responsePromiseMap \subseteq Ids
    /\ responseTimeoutMap \subseteq Ids
    /\ timerArmed \subseteq Ids

ClientInit ==
    /\ promise = [id \in Ids |-> [state |-> "unused", result |-> None, reason |-> None]]
    /\ sending = {}
    /\ responsePromiseMap = {}
    /\ responseTimeoutMap = {}
    /\ timerArmed = {}

\* A JavaScript promise settles once; later resolve/reject calls do nothing.
Resolve(p, r) ==
    IF p.state = "pending" THEN [p EXCEPT !.state = "resolved", !.result = r] ELSE p
Reject(p, why) ==
    IF p.state = "pending" THEN [p EXCEPT !.state = "rejected", !.reason = why] ELSE p

\* The calls a proxy makes (RpcClientHandler.proxy): a method of a remote
\* instance, "on" with the event name as its one argument, and the remote
\* ManageRpc's createRpcInstance(className, instanceName).  The name is any
\* string, one of Object.prototype's members included.
ProxyCalls ==
    { <<p, m, None>> : p \in UserNames \cup ProtoNames, m \in UserMethods }
    \cup { <<p, "on", e>> : p \in UserNames, e \in Events }
    \cup { <<ManagerName, "createRpcInstance", a>> : a \in CreateArgs }

\* call(): a fresh uuid, the payload, and sendPayload started inside the
\* promise executor.
Call(id, path, method, arg) ==
    /\ promise[id].state = "unused"
    /\ promise' = [promise EXCEPT ![id].state = "pending"]
    /\ sending' = sending \cup {CallPayload(id, path, method, arg)}
    /\ UNCHANGED <<responsePromiseMap, responseTimeoutMap, timerArmed, toServer, toClient>>

\* Mutation of SendCompletes: the resolver is stored but setTimeout is
\* never called.
SendCompletesNoTimer(msg) ==
    /\ msg \in sending
    /\ sending' = sending \ {msg}
    /\ toServer' = Append(toServer, msg)
    /\ responsePromiseMap' = responsePromiseMap \cup {msg.id}
    /\ responseTimeoutMap' = responseTimeoutMap \cup {msg.id}
    /\ UNCHANGED <<promise, timerArmed, toClient>>

\* sendPayload resolved: the payload has been handed to the transport, and
\* the .then callback stores the resolver and arms the timeout.
SendCompletes(msg) ==
    /\ msg \in sending
    /\ sending' = sending \ {msg}
    /\ toServer' = Append(toServer, msg)
    /\ responsePromiseMap' = responsePromiseMap \cup {msg.id}
    /\ responseTimeoutMap' = responseTimeoutMap \cup {msg.id}
    /\ timerArmed' = timerArmed \cup {msg.id}
    /\ UNCHANGED <<promise, toClient>>

\* sendPayload rejected (the encoder throws on a value JSON.stringify
\* cannot serialise): the .catch callback deletes the resolver, which was
\* never stored, and settles nothing.
SendFails(msg) ==
    /\ msg \in sending
    /\ sending' = sending \ {msg}
    /\ responsePromiseMap' = responsePromiseMap \ {msg.id}
    /\ UNCHANGED <<promise, responseTimeoutMap, timerArmed, toServer, toClient>>

\* The timer fires: reject('Call timeout').  Neither map is touched.
Timeout(id) ==
    /\ id \in timerArmed
    /\ timerArmed' = timerArmed \ {id}
    /\ promise' = [promise EXCEPT ![id] = Reject(@, "Call timeout")]
    /\ UNCHANGED <<sending, responsePromiseMap, responseTimeoutMap, toServer, toClient>>

\* receive() of an event payload: it is emitted to the local listeners and
\* the pending calls are not consulted.
ReceiveEvent ==
    /\ toClient # <<>>
    /\ Head(toClient).type = "EVENT"
    /\ toClient' = Tail(toClient)
    /\ UNCHANGED <<clientVars, toServer>>

\* receive() of any other payload.  Only a success payload is looked up in
\* responsePromiseMap (and its timer cleared); for every other payload the
\* resolver stays undefined and receive() returns, so the error branch that
\* follows is reached only for success payloads.
ReceiveResponse ==
    /\ toClient # <<>>
    /\ LET m == Head(toClient)
           isSuccess == m.type = "SUCCESS"
           found == isSuccess /\ m.id \in responsePromiseMap
       IN /\ m.type # "EVENT"
          /\ toClient' = Tail(toClient)
          /\ responsePromiseMap' = IF isSuccess THEN responsePromiseMap \ {m.id}
                                                ELSE responsePromiseMap
          /\ timerArmed' = IF isSuccess THEN timerArmed \ {m.id} ELSE timerArmed
          /\ promise' = IF ~found THEN promise
                        ELSE IF m.type = "ERROR"
                             THEN [promise EXCEPT ![m.id] = Reject(@, m.code)]
                             ELSE [promise EXCEPT ![m.id] = Resolve(@, m.result)]
          /\ UNCHANGED <<sending, responseTimeoutMap, toServer>>

ClientNext ==
    \/ \E id \in Ids, c \in ProxyCalls : Call(id, c[1], c[2], c[3])
    \/ \E msg \in sending : SendCompletes(msg) \/ SendFails(msg)
    \/ \E id \in Ids : Timeout(id)
    \/ ReceiveEvent
    \/ ReceiveResponse
=============================================================================
