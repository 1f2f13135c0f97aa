\* Classes with up to three prototypes below EventEmitter or Object, each
\* defining methods and fields among f and g (so that a field can shadow an
\* inherited method and a method can override one), exposed without a
\* depth limit or with prototypeSteps 0 or 1.  AllMethodsExposed is about
\* the walk without a limit; with one the code walks just as far, which
\* spec 4.5 rules out (DepthLimitBoundsWalk, in the README).  Each behaviour
\* is one exposure, after which nothing happens: deadlock is not checked.
CONSTANTS
    None = None
    PropNames = {"f", "g"}
    MaxDepth = 3
    MaxSteps = 1

SPECIFICATION Spec

INVARIANT TypeOK
INVARIANT AllMethodsExposed

CHECK_DEADLOCK FALSE
