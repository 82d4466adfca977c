CONSTANTS
    Data = {d1, d2, d3}
    Capacity = 3
    Null = Null
SPECIFICATION Spec
PROPERTIES
    ImplementsFifo
