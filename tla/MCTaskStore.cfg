SPECIFICATION Spec
CONSTANTS
    first = first
    second = second
    one = one
    two = two
    None = None
    Processes = {first, second}
    Tasks = {one, two}
    Files = 1
INVARIANTS
    KeptIsWhole
SYMMETRY Symmetry
