SPECIFICATION LiveSpec
CONSTANTS
    Lengths <- MCLengths
    Schemes = {"http", "sftp"}
    MaxTries = 3
INVARIANT DeliveredIsSpliced
PROPERTY ResumptionCompletes
CHECK_DEADLOCK FALSE
