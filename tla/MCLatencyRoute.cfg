CONSTANTS
    NaN = NaN
    MCNaN = NaN
    Blank = Blank
    HostName = HostName
    Refused = Refused
    Silent = Silent
    Null = Null
    PortValues <- MCPortValues
    TimeoutValues <- MCTimeoutValues
    ConnectTimes <- MCConnectTimes

SPECIFICATION Spec

\* A single request: the handler stops once it has answered.
CHECK_DEADLOCK FALSE

INVARIANTS
    TypeOK

PROPERTIES
    RequestAnswered
