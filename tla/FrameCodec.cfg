\* Names of up to two characters over "a" and the delimiter "$", bodies of up
\* to one character, text and binary frames.  MaxHeaderLength = 8 puts the
\* window boundary among the frames: a header with its delimiter takes
\* |source| + |target| + 6 positions, so frames with 2 name characters end
\* exactly at the window and longer ones do not fit.  A node's seq is
\* bounded, so behaviours end after MaxSeq frames: deadlock is not checked.
CONSTANTS
    None = None
    NameChars = {"a", "$"}
    WideChars = {}
    BodyChars = {"b", "$"}
    MaxNameLength = 2
    MaxBodyLength = 1
    MaxSeq = 2
    MaxHeaderLength = 8

SPECIFICATION Spec

INVARIANT TypeOK
INVARIANT FrameRoundTrip

CHECK_DEADLOCK FALSE
