CONSTANTS
    noop = noop
    capture = capture
    transfer = transfer
    Commands <- MCCommands
    ParamsOf <- MCParamsOf
    None = None
    MaxSends = 2
    MaxVisits = 2
SPECIFICATION Spec
INVARIANTS
    TypeOK
    ShownIsSelected
    RowFillsItsCommand
    LogTells
CHECK_DEADLOCK FALSE
