SPECIFICATION Spec
CONSTANTS
    Accounts = {a, b}
    MaxLoads = 2
INVARIANTS ListKept
