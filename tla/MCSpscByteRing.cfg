CONSTANTS
    Byte = {0, 1}
    Capacity = 4
    IndexModulus = 8
    MaxChunk = 3
SPECIFICATION Spec
INVARIANTS
    CopiesDoNotOverlap
PROPERTIES
    ImplementsQueue
