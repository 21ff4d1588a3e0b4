\* Every objective over three accounts with and without a reserve.
SPECIFICATION Spec
CONSTANTS
    Accounts = {a1, a2, a3}
    MinOrder = 2
    MaxOrder = 4
    MaxCount = 5
    Requests <- AllRequests
    Balances <- Small
    NoOrders = NoOrders
SYMMETRY Same
INVARIANTS
    CountsAreFeasible
    VolumeIsConserved
    NeverStuck
    NeverOverdrawn
    
\* A finished plan stays as it is.
CHECK_DEADLOCK FALSE
