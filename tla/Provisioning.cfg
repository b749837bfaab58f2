CONSTANTS
    ann = ann
    ANN = ANN
    bob = bob
    cy = cy
    x = x
    y = y
    z = z
    m = m
    n = n
    Name = {ann, ANN, bob, cy}
    Like <- MCLike
    Address = {x, y, z}
    Password = {x}
    Batches <- MCBatches
    Sid = {i1}
    Handler = {h1, h2}
    Attempts = 2
    MaxAttempts = 0
    MaxUsers = 4
    MsigName = {m, n}
    MsigSetups <- MCMsigSetups
    Maker = {k1}
    Counts = {0, 1, 2, 3}
    PageMax = 3
    MaxMsigs = 2
SYMMETRY HandlersAlike
SPECIFICATION ProvisionSpec
INVARIANTS
    ProvisionTypeOK
    MsigIntact
    NamedSignersSuffice
    WalkSeesAll
PROPERTY NameKeepsAccount
