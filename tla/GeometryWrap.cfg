\* 8 slots of 128 bytes do not fit a 10-bit usize.
CONSTANTS
    Modulus = 1024
    Page = 16
    Endpoints = {e1, e2}
    Lengths = {15}
    Counts = {8}
SPECIFICATION Spec
INVARIANT SlotsInside
SYMMETRY EndpointSymmetry
