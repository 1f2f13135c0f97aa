\* Two calls and one instance name; the application may expose a C1 instance
\* or the class C1 at any time, may emit once, and the network may lose any
\* payload and deliver one reply twice.  The system may go idle (the client
\* makes no further call once its ids are used), so deadlock is not checked.
CONSTANTS
    None = None
    Ids = {i1, i2}
    UserNames = {n1}
    UserMethods = {m1, m2}
    Events = {e1}
    C1 = C1
    C2 = C2
    m1 = m1
    m2 = m2
    Classes = {C1}
    ClassMethods <- MCClassMethods
    Emitters = {C1}
    MaxObjects = 2
    MaxEmits = 1
    MaxDup = 1
    ProtoNames = {"toString"}

SPECIFICATION Spec

INVARIANT TypeOK
PROPERTY RpcCallRefinement
PROPERTY SentCallsSettle

CHECK_DEADLOCK FALSE
