CONSTANTS
    N = 2
    MaxLevel = 1
    MaxGen = 2
    CommitOrders <- MCCommitOrders
    NaN = NaN
SPECIFICATION Spec
INVARIANT TypeOK
INVARIANT AnsweredOnce
PROPERTY DownloadEnds
