\* The rpc_core instance; the client's proxy may name an instance
\* "toString", a member every object literal inherits.
CONSTANTS
    None = None
    Ids = {i1, i2}
    UserNames = {n1}
    UserMethods = {m1, m2}
    Events = {e1}
    C1 = C1
    C2 = C2
    m1 = m1
    m2 = m2
    Classes = {C1}
    ClassMethods <- MCClassMethods
    Emitters = {C1}
    MaxObjects = 2
    MaxEmits = 1
    MaxDup = 1
    ProtoNames = {"toString"}


SPECIFICATION Spec

INVARIANT ServerProcessSurvives

CHECK_DEADLOCK FALSE
