\* Whether a name holding the delimiter "$" makes extractHeader throw;
\* bounds as in FrameCodec.cfg.
CONSTANTS
    None = None
    NameChars = {"a", "$"}
    WideChars = {}
    BodyChars = {"b", "$"}
    MaxNameLength = 2
    MaxBodyLength = 1
    MaxSeq = 2
    MaxHeaderLength = 8

SPECIFICATION Spec

INVARIANT MalformedHeaderDropped

CHECK_DEADLOCK FALSE
