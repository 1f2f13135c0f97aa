------------------------------ MODULE RpcCall ------------------------------
(***************************************************************************)
(* What an RPC call promises its caller, independent of how the pipeline  *)
(* carries it: a call is issued once; the server answers it at most once   *)
(* and only after it was issued; the caller's promise settles at most once,*)
(* resolving only with the server's non-error answer to that same call, or *)
(* rejecting (the client may give up at any time).                         *)
(***************************************************************************)
EXTENDS RpcMessages

VARIABLES status, result, answer

vars == <<status, result, answer>>

Init ==
    /\ status = [id \in Ids |-> "unused"]
    /\ result = [id \in Ids |-> None]
    /\ answer = [id \in Ids |-> None]

Issue(id) ==
    /\ status[id] = "unused"
    /\ status' = [status EXCEPT ![id] = "pending"]
    /\ UNCHANGED <<result, answer>>

Answer(id, a) ==
    /\ status[id] # "unused"
    /\ answer[id] = None
    /\ a.call = id
    /\ answer' = [answer EXCEPT ![id] = a]
    /\ UNCHANGED <<status, result>>

Resolve(id) ==
    /\ status[id] = "pending"
    /\ answer[id] # None
    /\ answer[id].kind \notin ErrorKinds
    /\ status' = [status EXCEPT ![id] = "resolved"]
    /\ result' = [result EXCEPT ![id] = answer[id]]
    /\ UNCHANGED answer

Reject(id) ==
    /\ status[id] = "pending"
    /\ status' = [status EXCEPT ![id] = "rejected"]
    /\ UNCHANGED <<result, answer>>

Next ==
    \E id \in Ids :
        \/ Issue(id)
        \/ \E a \in Answers : Answer(id, a)
        \/ Resolve(id)
        \/ Reject(id)

Spec == Init /\ [][Next]_vars
=============================================================================
