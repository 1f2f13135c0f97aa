---------------------------- MODULE RpcMessages ----------------------------
(***************************************************************************)
(* The RPC message protocol of src/src/RPC/RpcServerHandler.ts: the        *)
(* payload taxonomy (call, success, error, event) that the client and the  *)
(* server handlers exchange inside pipeline messages, and the data both    *)
(* sides name (instance names, methods, events, classes, objects).        *)
(*                                                                         *)
(* Data abstraction: a payload is a record of one fixed shape whose        *)
(* unused fields hold None.  Parameters and results are not values but    *)
(* the identity of what produced them: a result is the record of the call  *)
(* it answers and the object that ran it, which is what correlation can    *)
(* get wrong.  The field ghostFor of a reply names the call the server was *)
(* answering; it is not on the wire (an error payload carries no id).     *)
(***************************************************************************)
EXTENDS Naturals, FiniteSets, Sequences

CONSTANTS
    None,         \* model value: an absent field, map entry or result
    Ids,          \* correlation ids the client's uuidv4() may return
    UserNames,    \* instance names (namespaces) the application may use
    UserMethods,  \* method names of the application's classes
    Events,       \* event names the application's emitters may emit
    Classes,      \* the application's classes
    ClassMethods, \* [Classes -> SUBSET UserMethods]: prototype-chain methods
    Emitters,     \* the classes that extend EventEmitter
    MaxObjects,   \* bound: objects the server process allocates
    ProtoNames    \* names every object literal inherits from Object.prototype
                  \* ("toString", "constructor", ...), which a client may
                  \* still give proxy() as an instance name

ASSUME ClassMethods \in [Classes -> SUBSET UserMethods]
ASSUME Emitters \subseteq Classes
ASSUME MaxObjects \in Nat \ {0}
ASSUME ProtoNames \cap (UserNames \cup {"manageRpc"}) = {}

\* ManageRpc is exposed under the lower-camel-case name of its class
\* (RpcServerHandler.ts:151); createRpcInstance is the management method a
\* remote peer can use with serialisable arguments.
ManagerName == "manageRpc"
Paths == UserNames \cup {ManagerName}
\* The instance names a call may carry: proxy(name) sends any string.
CallPaths == Paths \cup ProtoNames
Methods == UserMethods \cup {"createRpcInstance"}
\* The method names a call may carry: "on" is never a key of a method map,
\* since the prototype walk of exposeClassInstance stops at EventEmitter.
CalledMethods == Methods \cup {"on"}

\* An object of the server process: the ManageRpc instance, or the n-th
\* object the process allocated, of class cls.
Manager == [cls |-> "ManageRpc", n |-> 0]
UserObjects == [cls : Classes, n : 1..MaxObjects]
Objects == UserObjects \cup {Manager}

\* What the server answered a call with.  "return": the method's result;
\* "subscribed" / "resubscribed": the two success replies of an "on" call;
\* the two error codes the server sends (ClassNotFound is never sent).
AnswerKinds == {"return", "subscribed", "resubscribed", "MethodNotFound", "Exception"}
ErrorKinds == {"MethodNotFound", "Exception"}
Answers == [call : Ids, obj : Objects \cup {None}, kind : AnswerKinds]

\* Arguments of a call: none, the event name of an "on" call, or the
\* (className, instanceName) pair of createRpcInstance.
CreateArgs == [cls : Classes, name : UserNames]
Args == {None} \cup Events \cup CreateArgs

\* RpcCallInstanceMethodPayload, built in RpcClientHandler.call.
CallPayload(id, path, method, arg) ==
    [type |-> "POST", id |-> id, path |-> path, method |-> method,
     arg |-> arg, result |-> None, code |-> None, ghostFor |-> id]

\* RpcSuccessPayload: carries the id of the call it answers.
SuccessPayload(id, result) ==
    [type |-> "SUCCESS", id |-> id, path |-> None, method |-> None,
     arg |-> None, result |-> result, code |-> None, ghostFor |-> id]

\* RpcErrorPayload: the server sends it without the call's id.
ErrorPayload(code, call) ==
    [type |-> "ERROR", id |-> None, path |-> None, method |-> None,
     arg |-> None, result |-> None, code |-> code, ghostFor |-> call]

\* RpcEventPayload: unsolicited, routed by address only.
EventPayload(e) ==
    [type |-> "EVENT", id |-> None, path |-> None, method |-> None,
     arg |-> e, result |-> None, code |-> None, ghostFor |-> None]

Payloads ==
    { CallPayload(i, p, m, a) : i \in Ids, p \in CallPaths, m \in CalledMethods, a \in Args }
    \cup { SuccessPayload(i, r) : i \in Ids, r \in Answers }
    \cup { ErrorPayload(c, i) : c \in ErrorKinds, i \in Ids }
    \cup { EventPayload(e) : e \in Events }
=============================================================================
