\* A 10-bit usize.  Lengths 128 and 129 are too large for 8-byte elements, all others fit.
CONSTANTS
    Modulus = 1024
    Page = 16
    Endpoints = {e1, e2, e3}
    Lengths = {0, 1, 2, 8, 12, 16, 128, 129}
    Counts = {0, 1, 3}
SPECIFICATION Spec
INVARIANTS SlotsInside ElementsAgree LengthHonoured
SYMMETRY EndpointSymmetry
