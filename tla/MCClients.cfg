SPECIFICATION ClientsSpec
CONSTANTS
    PageSize = 1
    Old = 2
    New = 1
    MaxMoves = 4
    MaxClicks = 4
    Orders = {o1, o2}
    NoOrder = NoOrder
    MaxInputs = 3
    None = None
    GTQ = GTQ
    USD = USD
    EUR = EUR
    Home = GTQ
    Currencies <- MCCurrencies
    Amounts <- MCAmounts
INVARIANTS
    ClientsTypeOK
    RowsMatchPage
    WalkSeesAll
    TokensSeeAll
    CancelIsShown
    PanelIsTrue
    ConverterIsTrue
    PageIsTrue
    CancelsWhatIsShown
PROPERTIES
    SpinnerEnds
    EveryOrderIsVisited
\* Every page comes to rest when the user does nothing more.
CHECK_DEADLOCK FALSE
