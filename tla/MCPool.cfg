SPECIFICATION Spec
CONSTANTS
    Processes <- MCProcesses
    MaxConns <- MCMaxConns
    Conns <- MCConnsSpare
    Sessions = {"loop", "operator"}
    Webhooks = {"h1", "h2"}
    Queries = {}
    ProcessOf <- MCProcessOf
    Subjects = {1, 2, 3}
    Moves <- MCMoves
    Hash <- MCHash
    c1 = c1
    c2 = c2
    c3 = c3
    c4 = c4
SYMMETRY MCSymmetry
INVARIANTS
    PoolIsSound
    Exclusive
