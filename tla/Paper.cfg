CONSTANTS
    Opps <- MCOpps
    Snapshot <- MCSnapshot
    Delivered <- MCDelivered
    Chain <- MCChain
    MaxSeeds = 8
    Starting = 20
    Reserve = 5
    MaxFills = 3
    Modulus = 1024
    Native = "W"
    FlashLoan = TRUE
    FeeBps = 900
    Tolerance = 5
    Deploys <- MCDeploys
    Executes <- MCExecutes
    Price <- MCPrice
    MaxFaults = 4
CHECK_DEADLOCK FALSE
SPECIFICATION Spec
INVARIANTS
    AnswersStand
    QuoteIsExecuted
    ModesSettle
