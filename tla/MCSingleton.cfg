CONSTANTS
    Processes = {p1, p2, p3}
    Nobody = nobody
SPECIFICATION Spec
INVARIANTS
    AtMostOne
PROPERTIES
    RefusedBesideAnother
