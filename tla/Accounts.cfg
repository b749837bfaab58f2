CONSTANTS
    ann = ann
    x = x
    y = y
    Name = {ann}
    Like <- MCLike
    Address = {x}
    Password = {x, y}
    Batches <- MCAnn
    Sid = {i1}
    Handler = {h1, h2}
    Attempts = 2
    MaxAttempts = 3
    MaxUsers = 1
SPECIFICATION Spec
INVARIANTS
    TypeOK
    LimitLocksOut
PROPERTY LockStands
