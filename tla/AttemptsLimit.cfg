CONSTANTS
    ann = ann
    x = x
    y = y
    Name = {ann}
    Like <- MCLike
    Address = {x}
    Password = {x, y}
    Batches <- MCAnn
    Sid = {i1, i2}
    Handler = {h1}
    Attempts = 2
    MaxAttempts = 3
    MaxUsers = 1
SPECIFICATION Spec
INVARIANT FailuresStayAllowed
