CONSTANTS
    MaxCalls = 1
    MaxTyped = 0
    MaxEintr = 0
SPECIFICATION Spec
INVARIANT DispositionsRestored
