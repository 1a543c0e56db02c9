SPECIFICATION AllSpec
CONSTANTS
    a1 = a1
    market = market
    trade = trade
    w1 = w1
    w2 = w2
    Accounts = {a1}
    Confs = {market, trade}
    Owner <- MCOwner
    AutoConfs = {market}
    Filters <- MCFilters
    Hopeless = {}
    NoMafile = {a1}
    Threshold = 1
    BulkCap = 1
    MaxAudit = 2
    Slots = {w1, w2}
    MaxPosted = 1
    t1 = t1
    t2 = t2
    o1 = o1
    o2 = o2
    i1 = i1
    i2 = i2
    Traders = {t1, t2}
    Offers = {o1, o2}
    OfferTo <- MCOfferTo
    Items <- MCItems
    AutoConfirm = TRUE
    MaxSends = 2
    MaxGen = 1
    Tasks = {w1, w2}
    MaxPresses = 3
    WUser = {a, b}
    NoWUser = NoWUser
    Known = {a}
    MaxJobs = 5
SYMMETRY Symmetry
INVARIANTS ConfInv AnswersAreAudited TradeInv EverySendAccounted TokensSettle WizardInv WaitingIsPolled
PROPERTIES NothingDropsUnanswered
CHECK_DEADLOCK FALSE
