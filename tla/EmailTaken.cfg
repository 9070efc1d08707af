\* A check of an address that only others have put in the filter.
CONSTANTS
    e1 = e1
    e2 = e2
    e3 = e3
    Instances = {i1}
    Checks = {c1}
    Emails = {e1, e2, e3}
    Bits <- MCBits
    BitsOf <- MCBitsOf
    MaxSaves = 2
    None = None
SPECIFICATION Spec
INVARIANTS TakenIsRegistered
