SPECIFICATION Spec
CONSTANTS
    NoCall = NoCall
    NoQuote = NoQuote
    PlanOrder <- MCPlanOrder
    Perps <- MCPerps
    GrossCap = 110
    MarginDivisor = 4
    Reserve = 20
    CommissionDivisor = 20
    StartingCash = 100
    TargetBooks <- MCTargetBooks
    PriceBooks <- MCPriceBooks
    DataStates <- MCDataStates
    QuoteBooks <- MCQuoteBooks
    FundingEvents <- MCFundingEvents
    IntentTTL = 2
    CyclePeriod = 3
    ParticipationDivisor = 2
    MaxSlippage = 10
    MaintenanceDivisor = 10
    TrackingDivisor = 50
    MaxCycles = 2
    MaxCalls = 2
INVARIANTS
    BrokerTypeOK
    EventsExplainTheAccount
    ProgressExplainsPositions
    LiquidityIsShared
    PlansFitTheBudget
    GuardsNeverGoOff
PROPERTIES
    ReductionsFundIncreases
    AccountIsChronological
    ImplementsOrderBook
CHECK_DEADLOCK FALSE
