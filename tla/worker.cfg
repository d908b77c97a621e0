\* Requests that fail and leave the worker alive, a fatal one, and one after it.
SPECIFICATION FairSpec
CONSTANTS
    MaxRequests = 4
    MaxCandidates = 3
INVARIANTS
    IInv
    VerdictsMatchCandidates
    NothingOutlivesTheWorker
PROPERTIES
    IsAnRpcSession
    EveryRequestReturns
CHECK_DEADLOCK FALSE
