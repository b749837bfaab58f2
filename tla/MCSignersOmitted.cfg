CONSTANTS
    a = a
    b = b
    c = c
    d = d
    m1 = m1
    m2 = m2
    None = None
    User = {a, b, c, d}
    Msig = {m1, m2}
    Confirmed = {m1}
    Members <- MCMembers
    Threshold <- MCThreshold
SPECIFICATION Spec
INVARIANT OmittedSignersAreAllMembers
