-------------------------- MODULE RpcServerHandler --------------------------
(***************************************************************************)
(* The server side of the RPC protocol: RpcServerHandler and its instance  *)
(* registry ManageRpc, src/src/RPC/RpcServerHandler.ts.                    *)
(*                                                                         *)
(* receivePayload looks the called method up in the method map of the     *)
(* call's path (creating an empty map for an unknown path), invokes the    *)
(* bound method and, once its promise settles, replies with a success or  *)
(* an Exception error.  A call of "on" that has no method of that name     *)
(* subscribes the caller to an event of an EventEmitter instance through   *)
(* an EventProxy; anything else is answered MethodNotFound.  The           *)
(* application exposes instances and classes locally, and a remote peer    *)
(* creates instances through the exposed ManageRpc.                        *)
(*                                                                         *)
(* State:                                                                  *)
(*   nameSpaces      names that have a map in exposedNameSpaceMethodMaps   *)
(*   methodMaps      [path -> [method -> the object the method is bound    *)
(*                   to, or None]]                                         *)
(*   instances       exposedNameSpaceInstances                             *)
(*   exposedClasses  the classes in exposedClasses                         *)
(*   createdInstances the createdInstances map                             *)
(*   allocated       how many application objects the process created      *)
(*   eventProxies    the entries of the eventProxies map; key holds the    *)
(*                   identity of the key object the entry was stored under *)
(*   executing       invoked methods whose promise has not settled yet     *)
(*   emitted         events the application has emitted (bounded)          *)
(*   answered        history: what the server answered each call id with   *)
(***************************************************************************)
EXTENDS RpcMessages

CONSTANTS
    MaxEmits   \* bound: events the application emits

ASSUME MaxEmits \in Nat

VARIABLES nameSpaces, methodMaps, instances, exposedClasses, createdInstances,
          allocated, eventProxies, executing, emitted, answered,
          toServer, toClient

serverVars == <<nameSpaces, methodMaps, instances, exposedClasses, createdInstances,
                allocated, eventProxies, executing, emitted, answered>>
registryVars == <<nameSpaces, methodMaps, instances, exposedClasses, createdInstances,
                  allocated>>

EventKeys == [ref : 1..Cardinality(Ids), name : UserNames, event : Events]
EventProxies == [key : EventKeys, obj : UserObjects]
Invocations == [id : Ids, obj : Objects, fails : BOOLEAN]

ServerTypeOK ==
    /\ nameSpaces \subseteq Paths
    /\ methodMaps \in [Paths -> [CalledMethods -> Objects \cup {None}]]
    /\ instances \in [Paths -> Objects \cup {None}]
    /\ exposedClasses \subseteq Classes
    /\ createdInstances \in [UserNames -> UserObjects \cup {None}]
    /\ allocated \in 0..MaxObjects
    /\ eventProxies \subseteq EventProxies
    /\ executing \subseteq Invocations
    /\ emitted \in 0..MaxEmits
    /\ answered \in [Ids -> Answers \cup {None}]

\* new RpcServerHandler: its ManageRpc exposes itself under "manageRpc".
ServerInit ==
    /\ nameSpaces = {ManagerName}
    /\ methodMaps = [p \in Paths |-> [f \in CalledMethods |->
                        IF p = ManagerName /\ f = "createRpcInstance" THEN Manager ELSE None]]
    /\ instances = [p \in Paths |-> IF p = ManagerName THEN Manager ELSE None]
    /\ exposedClasses = {}
    /\ createdInstances = [n \in UserNames |-> None]
    /\ allocated = 0
    /\ eventProxies = {}
    /\ executing = {}
    /\ emitted = 0
    /\ answered = [id \in Ids |-> None]

\* ManageRpc.getNameSpaceMethodMap(name) reads exposedNameSpaceMethodMaps,
\* a plain object, and creates a Map only when the read is falsy.  For a
\* name the object inherits from Object.prototype the read returns that
\* member (a function, or Object.prototype for "__proto__"), which is
\* truthy and has no get: only the names the server knows, or has never
\* heard of, yield a method map.
HasMethodMap(path) == path \notin ProtoNames

\* The object the next `new` creates.
NewObject(c) == [cls |-> c, n |-> allocated + 1]

\* ManageRpc.exposeClassInstance(o, name): every method of o's prototype
\* chain is set in the method map of name, which getNameSpaceMethodMap
\* returns as it is: entries of an earlier instance stay.
ExposeClassInstanceOp(o, name) ==
    /\ instances' = [instances EXCEPT ![name] = o]
    /\ nameSpaces' = nameSpaces \cup {name}
    /\ methodMaps' = [methodMaps EXCEPT ![name] =
                        [f \in CalledMethods |-> IF f \in ClassMethods[o.cls] THEN o ELSE @[f]]]

\* ManageRpc.createRpcInstance(className, instanceName) when the class is
\* exposed and its constructor returns.
CreateRpcInstanceOp(c, name) ==
    /\ allocated < MaxObjects
    /\ allocated' = allocated + 1
    /\ createdInstances' = [createdInstances EXCEPT ![name] = NewObject(c)]
    /\ ExposeClassInstanceOp(NewObject(c), name)
    /\ UNCHANGED exposedClasses

Reply(payload, id, answer) ==
    /\ toClient' = Append(toClient, payload)
    /\ answered' = [answered EXCEPT ![id] = answer]

\* Whether invoking h may throw: an application method may; createRpcInstance
\* throws only from the constructor, which it calls only for an exposed class.
MayFail(h, m) ==
    IF h = Manager /\ m.arg.cls \notin exposedClasses THEN {FALSE} ELSE BOOLEAN

\* Mutation of DispatchCall: the `if (!handler)` early return is dropped, so
\* an unknown method is "invoked" as undefined.
DispatchCallNoHandlerCheck ==
    /\ toServer # <<>>
    /\ HasMethodMap(Head(toServer).path)
    /\ LET m == Head(toServer)
           h == methodMaps[m.path][m.method]
       IN /\ toServer' = Tail(toServer)
          /\ \E fails \in MayFail(h, m) :
               /\ executing' = executing \cup {[id |-> m.id, obj |-> h, fails |-> fails]}
               /\ IF h = Manager /\ m.arg.cls \in exposedClasses /\ ~fails
                  THEN CreateRpcInstanceOp(m.arg.cls, m.arg.name)
                  ELSE UNCHANGED registryVars
          /\ UNCHANGED <<eventProxies, emitted, answered, toClient>>

\* receivePayload of a call whose method is in the map: the bound method is
\* invoked (createRpcInstance runs to completion inside the invocation) and
\* the reply waits for its promise.  fails: the method throws or rejects;
\* for createRpcInstance, the constructor throws.
DispatchCall ==
    /\ toServer # <<>>
    /\ HasMethodMap(Head(toServer).path)
    /\ LET m == Head(toServer)
           h == methodMaps[m.path][m.method]
       IN /\ h # None
          /\ toServer' = Tail(toServer)
          /\ \E fails \in MayFail(h, m) :
               /\ executing' = executing \cup {[id |-> m.id, obj |-> h, fails |-> fails]}
               /\ IF h = Manager /\ m.arg.cls \in exposedClasses /\ ~fails
                  THEN CreateRpcInstanceOp(m.arg.cls, m.arg.name)
                  ELSE UNCHANGED registryVars
          /\ UNCHANGED <<eventProxies, emitted, answered, toClient>>

\* Mutation of HandlerSettles: the reply takes its id from another call that
\* is being executed, as if the id were read from shared state after the
\* await instead of from this invocation's payload.
HandlerSettlesStaleId(inv) ==
    /\ inv \in executing
    /\ \E other \in executing :
         /\ executing' = executing \ {inv}
         /\ IF inv.fails
            THEN Reply(ErrorPayload("Exception", other.id), inv.id,
                       [call |-> inv.id, obj |-> inv.obj, kind |-> "Exception"])
            ELSE Reply(SuccessPayload(other.id, [call |-> inv.id, obj |-> inv.obj, kind |-> "return"]),
                       inv.id, [call |-> inv.id, obj |-> inv.obj, kind |-> "return"])
    /\ UNCHANGED <<registryVars, eventProxies, emitted, toServer>>

\* The invoked method's promise settles: a success reply with the call's id,
\* or an Exception error reply without it.
HandlerSettles(inv) ==
    /\ inv \in executing
    /\ executing' = executing \ {inv}
    /\ IF inv.fails
       THEN Reply(ErrorPayload("Exception", inv.id), inv.id,
                  [call |-> inv.id, obj |-> inv.obj, kind |-> "Exception"])
       ELSE Reply(SuccessPayload(inv.id, [call |-> inv.id, obj |-> inv.obj, kind |-> "return"]),
                  inv.id, [call |-> inv.id, obj |-> inv.obj, kind |-> "return"])
    /\ UNCHANGED <<registryVars, eventProxies, emitted, toServer>>

\* The eventProxies map is keyed by the object literal built for this call;
\* Map.get compares keys by identity, so the lookup finds an entry only if
\* it was stored under this very key object.
EventKeyFor(m) == [ref |-> Cardinality(eventProxies) + 1, name |-> m.path, event |-> m.arg]
ProxyStored(key) == \E p \in eventProxies : p.key = key

\* receivePayload of "on" with no method of that name on an EventEmitter
\* instance: an EventProxy listening to the event is stored and "ok"
\* replied; an existing one is answered "ok - already exists".
SubscribeEvent ==
    /\ toServer # <<>>
    /\ HasMethodMap(Head(toServer).path)
    /\ LET m == Head(toServer)
           inst == instances[m.path]
           key == EventKeyFor(m)
       IN /\ methodMaps[m.path][m.method] = None
          /\ m.method = "on" /\ inst # None /\ inst.cls \in Emitters
          /\ toServer' = Tail(toServer)
          /\ nameSpaces' = nameSpaces \cup {m.path}
          /\ IF ~ProxyStored(key)
             THEN /\ eventProxies' = eventProxies \cup {[key |-> key, obj |-> inst]}
                  /\ Reply(SuccessPayload(m.id, [call |-> m.id, obj |-> inst, kind |-> "subscribed"]),
                           m.id, [call |-> m.id, obj |-> inst, kind |-> "subscribed"])
             ELSE /\ UNCHANGED eventProxies
                  /\ Reply(SuccessPayload(m.id, [call |-> m.id, obj |-> inst, kind |-> "resubscribed"]),
                           m.id, [call |-> m.id, obj |-> inst, kind |-> "resubscribed"])
          /\ UNCHANGED <<methodMaps, instances, exposedClasses, createdInstances, allocated,
                         executing, emitted>>

\* receivePayload of any other call with no method in the map: a
\* MethodNotFound error reply without the call's id.
RejectUnknownMethod ==
    /\ toServer # <<>>
    /\ HasMethodMap(Head(toServer).path)
    /\ LET m == Head(toServer)
           inst == instances[m.path]
       IN /\ methodMaps[m.path][m.method] = None
          /\ ~(m.method = "on" /\ inst # None /\ inst.cls \in Emitters)
          /\ toServer' = Tail(toServer)
          /\ nameSpaces' = nameSpaces \cup {m.path}
          /\ Reply(ErrorPayload("MethodNotFound", m.id), m.id,
                   [call |-> m.id, obj |-> None, kind |-> "MethodNotFound"])
          /\ UNCHANGED <<methodMaps, instances, exposedClasses, createdInstances, allocated,
                         eventProxies, executing, emitted>>

\* receive() of a call whose instance name has no method map: map.get(...)
\* throws a TypeError inside receivePayload, before any reply is sent.
\* receive() calls receivePayload without await or catch, so the promise
\* rejects unhandled; what the process then does is RpcSystem's.
DispatchThrows ==
    /\ toServer # <<>>
    /\ ~HasMethodMap(Head(toServer).path)
    /\ toServer' = Tail(toServer)
    /\ UNCHANGED <<serverVars, toClient>>

\* The application emits e on object o: every EventProxy listening to it
\* sends an event payload to its subscriber (EventProxy.on, sendEvent).
Emit(o, e) ==
    LET listeners == {p \in eventProxies : p.obj = o /\ p.key.event = e}
    IN /\ emitted < MaxEmits
       /\ listeners # {}
       /\ emitted' = emitted + 1
       /\ toClient' = toClient \o [i \in 1..Cardinality(listeners) |-> EventPayload(e)]
       /\ UNCHANGED <<registryVars, eventProxies, executing, answered, toServer>>

\* The application creates an object of class c and exposes it under name.
ExposeClassInstance(c, name) ==
    /\ allocated < MaxObjects
    /\ allocated' = allocated + 1
    /\ ExposeClassInstanceOp(NewObject(c), name)
    /\ UNCHANGED <<exposedClasses, createdInstances, eventProxies, executing, emitted,
                   answered, toServer, toClient>>

\* The application exposes a plain object under name (exposeObject): each
\* own property of the object that is a function is set, unbound, in the
\* name's method map; getNameSpaceMethodMap is called only for such a
\* property.  The object's own functions are those of its class c here;
\* that they are unbound only changes whether invoking one throws, which
\* DispatchCall leaves open.
ExposeObject(c, name) ==
    LET o == NewObject(c)
    IN /\ allocated < MaxObjects
       /\ allocated' = allocated + 1
       /\ instances' = [instances EXCEPT ![name] = o]
       /\ nameSpaces' = IF ClassMethods[c] = {} THEN nameSpaces ELSE nameSpaces \cup {name}
       /\ methodMaps' = [methodMaps EXCEPT ![name] =
                           [f \in CalledMethods |-> IF f \in ClassMethods[c] THEN o ELSE @[f]]]
       /\ UNCHANGED <<exposedClasses, createdInstances, eventProxies, executing, emitted,
                      answered, toServer, toClient>>

\* The application exposes class c for createRpcInstance.
ExposeClass(c) ==
    /\ c \notin exposedClasses
    /\ exposedClasses' = exposedClasses \cup {c}
    /\ UNCHANGED <<nameSpaces, methodMaps, instances, createdInstances, allocated,
                   eventProxies, executing, emitted, answered, toServer, toClient>>

ServerNext ==
    \/ DispatchCall
    \/ DispatchThrows
    \/ \E inv \in executing : HandlerSettles(inv)
    \/ SubscribeEvent
    \/ RejectUnknownMethod
    \/ \E o \in UserObjects, e \in Events : Emit(o, e)
    \/ \E c \in Classes, n \in UserNames : ExposeClassInstance(c, n)
    \/ \E c \in Classes, n \in UserNames : ExposeObject(c, n)
    \/ \E c \in Classes : ExposeClass(c)
=============================================================================
