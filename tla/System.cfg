CONSTANTS
    MaxCalls = 2
    MaxTyped = 2
    MaxEintr = 1
SPECIFICATION Spec
INVARIANTS MaskAndIntRestored StatusNotLost KeyboardSignals
PROPERTY CallReturns
