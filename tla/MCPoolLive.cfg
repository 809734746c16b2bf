SPECIFICATION Spec
CONSTANTS
    Processes <- MCProcesses
    MaxConns <- MCMaxConns
    Conns <- MCConns
    Sessions = {"loop"}
    Webhooks = {"h1", "h2"}
    Queries = {"probe"}
    ProcessOf <- MCProcessOf
    Subjects = {1, 2}
    Moves <- MCMovesLive
    Hash <- MCHash
    c1 = c1
    c2 = c2
    c3 = c3
    c4 = c4
PROPERTY
    EveryoneEnds
