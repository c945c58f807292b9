\* Two calls through the gateway, whose patience ends during the attempts at
\* the primary provider or later.
SPECIFICATION FlowSpec
CONSTANTS
    Call = {c1, c2}
    PairKey = {pair}
    BaseKey = {base}
    Known = {pair}
    Reliable = {"fallback"}
    Attempts = 2
    BreakerTimeout = 1
    ResetTimeout = 2
    ApiTimeout = 2
    BaseDelay = 1
    TTL = 2
    GatewayTimeout = 2
    LastArrival = 2
    MaxDelay = 1
    MaxNow = 4
    None = None
SYMMETRY Symmetry
VIEW View
INVARIANTS AnswersAreFresh FallbackIsUsed ShownIsTrue
\* The calls are answered and the clock stops.
CHECK_DEADLOCK FALSE
