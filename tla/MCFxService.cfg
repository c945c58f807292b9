\* Two calls of either kind while providers and Redis may fail at any moment;
\* the clock outlives the longest call.  The pair has no default rate, so that
\* a conversion may end with an error and a getRates call with default rates.
SPECIFICATION FxSpec
CONSTANTS
    Call = {c1, c2}
    PairKey = {pair}
    BaseKey = {base}
    Known = {}
    Reliable = {}
    Attempts = 2
    BreakerTimeout = 1
    ResetTimeout = 2
    ApiTimeout = 2
    BaseDelay = 1
    TTL = 2
    LastArrival = 1
    MaxDelay = 1
    MaxNow = 7
    None = None
SYMMETRY Symmetry
VIEW View
INVARIANTS FxTypeOK SourceIsTrue BreakerShields OnlyRedisDelays
\* The calls are answered and the clock stops.
CHECK_DEADLOCK FALSE
