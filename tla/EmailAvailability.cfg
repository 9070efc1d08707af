\* Two gateway instances, one check at a time, two addresses that share a bit.
CONSTANTS
    e1 = e1
    e2 = e2
    e3 = e3
    Instances = {i1, i2}
    Checks = {c1}
    Emails = {e1, e2}
    Bits <- MCBits
    BitsOf <- MCBitsOf
    MaxSaves = 2
    None = None
SPECIFICATION Spec
INVARIANTS TypeOK CalmNeverForgets StoredCatchesUp TakenIsCovered
SYMMETRY InstanceSymmetry
