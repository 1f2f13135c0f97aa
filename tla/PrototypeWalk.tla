---------------------------- MODULE PrototypeWalk ----------------------------
(***************************************************************************)
(* How ManageRpc.exposeClassInstance (src/src/RPC/RpcServerHandler.ts)     *)
(* finds the methods to expose: it collects the own property names of the  *)
(* instance's class prototype, then of each parent prototype until one     *)
(* whose constructor is Object or EventEmitter, optionally stopping after  *)
(* prototypeSteps parents; then it binds every collected name other than   *)
(* "constructor" under which the instance has a function.                  *)
(*                                                                         *)
(* A prototype chain is a sequence of levels, the class's own prototype    *)
(* first; each level has the names of its function properties (fns) and   *)
(* of its other properties (data).  The chain ends with the level at which *)
(* the walk stops: EventEmitter.prototype or Object.prototype.             *)
(***************************************************************************)
EXTENDS Naturals, Sequences, SequencesExt

CONSTANTS
    None,
    PropNames,    \* method and field names of the application's classes
    MaxDepth,     \* bound: prototypes of a class below the stopping one
    MaxSteps      \* bound: prototypeSteps values tried

Levels == {[fns |-> F, data |-> D] : F \in SUBSET PropNames, D \in SUBSET PropNames}
UserLevels == {l \in Levels : l.fns \cap l.data = {}}
\* A prototype of the application: it has its own "constructor" function.
ClassProto(l) == [fns |-> l.fns \cup {"constructor"}, data |-> l.data, stop |-> None]

EventEmitterProto == [fns |-> {"constructor", "on", "emit"}, data |-> {}, stop |-> "EventEmitter"]
ObjectProto == [fns |-> {"constructor", "toString"}, data |-> {}, stop |-> "Object"]

Chains ==
    { [i \in 1..Len(s) |-> ClassProto(s[i])] \o <<top>> :
        s \in SeqOf(UserLevels, MaxDepth) \ {<<>>}, top \in {EventEmitterProto, ObjectProto} }

\* Object.getOwnPropertyNames(level)
OwnNames(l) == l.fns \cup l.data

\* typeof instance[f] === 'function': f resolves, from the class's own
\* prototype upwards, to a function at the first level that has it.
IsFunctionOn(chain, f) ==
    LET i == SelectInSeq(chain, LAMBDA l : f \in OwnNames(l))
    IN i # 0 /\ f \in chain[i].fns

\* The while loop: props of the levels visited.  steps is prototypeSteps
\* (None when not given); the break test `prototypeSteps &&
\* prototypeSteps-- === 0` decrements a non-zero value and is true only if
\* that value was 0.
RECURSIVE CollectPropsObjectOnly(_, _, _, _), CollectProps(_, _, _, _)

\* Mutation of CollectProps: the loop condition tests only for Object, so
\* the walk goes on into EventEmitter.prototype.
CollectPropsObjectOnly(chain, i, steps, props) ==
    IF i > Len(chain) \/ chain[i].stop = "Object" THEN props
    ELSE LET props2 == props \cup OwnNames(chain[i])
             truthy == steps # None /\ steps # 0
         IN IF truthy /\ steps = 0 THEN props2
            ELSE CollectPropsObjectOnly(chain, i + 1, IF truthy THEN steps - 1 ELSE steps, props2)

CollectProps(chain, i, steps, props) ==
    IF i > Len(chain) \/ chain[i].stop # None THEN props
    ELSE LET props2 == props \cup OwnNames(chain[i])
             truthy == steps # None /\ steps # 0
         IN IF truthy /\ steps = 0 THEN props2
            ELSE CollectProps(chain, i + 1, IF truthy THEN steps - 1 ELSE steps, props2)

\* Mutation of ExposedMethods: "constructor" is not skipped.
ExposedMethodsWithConstructor(chain, steps) ==
    { f \in CollectProps(chain, 2, steps, OwnNames(chain[1])) : IsFunctionOn(chain, f) }

\* The methods exposeClassInstance binds into the name's method map.
ExposedMethods(chain, steps) ==
    { f \in CollectProps(chain, 2, steps, OwnNames(chain[1])) :
        f # "constructor" /\ IsFunctionOn(chain, f) }

-----------------------------------------------------------------------------
VARIABLES chain, prototypeSteps, exposed

vars == <<chain, prototypeSteps, exposed>>

Steps == {None} \cup 0..MaxSteps

\* The application exposes an instance of a class with some prototype
\* chain, with or without prototypeSteps.
Init ==
    /\ chain \in Chains
    /\ prototypeSteps \in Steps
    /\ exposed = None

ExposeClassInstance ==
    /\ exposed = None
    /\ exposed' = ExposedMethods(chain, prototypeSteps)
    /\ UNCHANGED <<chain, prototypeSteps>>

Spec == Init /\ [][ExposeClassInstance]_vars

-----------------------------------------------------------------------------
(* Properties.                                                             *)

TypeOK ==
    /\ chain \in Chains
    /\ prototypeSteps \in Steps
    /\ exposed \in (SUBSET PropNames) \cup {None}

\* The methods of a class below the stopping prototype: every name a level
\* below it defines and the instance resolves to a function, except
\* "constructor" (spec 4.5).  Levels from 1 to depth.
MethodsUpTo(c, depth) ==
    { f \in UNION {OwnNames(c[i]) : i \in {j \in 1..depth : c[j].stop = None}} :
        f # "constructor" /\ IsFunctionOn(c, f) }
Depth(c) == Len(c) - 1

\* Spec 4.5: exposeClassInstance without a depth limit exposes exactly the
\* methods the instance has as functions on a prototype below Object or
\* EventEmitter: none of the class hierarchy is missed, however deep, none
\* that a field of a lower prototype shadows is bound, and none of
\* EventEmitter's or Object's ("on", "toString") is exposed
\* (RpcServerHandler.ts:166-181).
AllMethodsExposed ==
    exposed # None /\ prototypeSteps = None =>
        exposed = MethodsUpTo(chain, Depth(chain))

\* Spec 4.5: with a depth limit, the walk is bounded by it: no method is
\* exposed that only a prototype more than prototypeSteps + 1 levels above
\* the class's own one defines.
DepthLimitBoundsWalk ==
    exposed # None /\ prototypeSteps \in Nat =>
        exposed \subseteq MethodsUpTo(chain, IF prototypeSteps + 2 < Depth(chain)
                                               THEN prototypeSteps + 2 ELSE Depth(chain))
=============================================================================
