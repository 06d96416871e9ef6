SPECIFICATION FairSpec
CONSTANTS
    NoValue = NoValue
    m1 = m1
    p1 = p1
    s1 = s1
    s2 = s2
    Setups = {s1, s2}
    Merchants = {m1}
    MerchantOrder <- Order
    Projects = {p1}
    HmacKeys = {1, 2, 3, 4, 5, 6}
    Configurations <- SomeConfigurations
    Resources <- SomeResources
    InitialContents <- Older
    InitialWebhooks <- SomeWebhooks
    MaxMishaps = 2
INVARIANTS TypeOK SuccessIsEffective OneWebhookEach ConfiguredKeyIsCurrent
PROPERTIES EventuallySetUp
CHECK_DEADLOCK FALSE
