SPECIFICATION Spec
CONSTANTS
    None = None
    a = a
    b = b
    Paths = {None, a, b}
    Lifecycles = {"php", "user"}
    Runtimes = {"cpp", "rust"}
    MaxRequests = 3
    MaxConns = 2
    MaxExecs = 2
    MaxLate = 1
SYMMETRY PathSymmetry
INVARIANTS OwnReply OwnContext  
