SPECIFICATION Spec

CONSTANTS
    Walker = {a, b}
    Sources <- MCSources
    Strides <- MCStrides

INVARIANTS
    RefersToItsElement
    OrderIsPosition
