SPECIFICATION MCSpec
CONSTANTS
    NULL = NULL
    Urls = {"login", "home", "orders"}
    Names = {"sid", "token"}
    MaxHops = 2
    Answers <- SiteUnderTest
    Client = {q1, q2}
    Object = {o1, o2, o3}
    Tests <- Collection
    Failing = {"load", "save", "delete"}
    openapi = openapi
    postman = postman
    template = template
    command = command
    address = address
    page3 = page3
    login = login
    orders = orders
    Missing = Missing
    Nowhere = Nowhere
    Doc = {openapi, postman, template, command, address, page3}
    Text <- Described
    Served = {openapi, postman, template, page3}
    Url = {home, inner}
    Home = home
    Dialable = {home}
    MaxRedirects = 1
    MaxVersions = 3
    Caller = {q1, q2}
    Fragile = {"version", "update", "insert"}
    None = None
    Tab = {q1, q2}
    Secret = {s1, s2, s3}
    Code = {k1, k2, k3}
    Breaks = {"store", "wipe", "enable", "mark", "drop", "consume"}
    Absent = Absent
    JiraSite = {acme, globex}
    OAuthClient = {own}
    EnvClient = Absent
    Status = {"passed"}
    Call = {q1, q2}
    Nil = Nil
    Env = {dev, prod}
    Member = {ann, bob}
    Page = {q1, q2}
    Nothing = Nothing
    AutomatedTest = {login, orders}
    TypeOf <- Types
    Case = {c1}
    MaxExecutions = 2
    RunsListed = 1
    FailuresListed = 1
    Viewer = {v1}
    Unset = Unset
    Key = {host}
    Value = {a}
    Editor = {q1, q2}
    Stream = {b1, b2}
    Vacant = Vacant
    CollectionId = {c1}
    ProjectId = {p1, p2}
    FolderId = {f1, f2}
    TestId = {t1, t2}
    Cleaner = {w1}
SYMMETRY Interchangeable
INVARIANTS SessionsHold HistoryIsHonest FactorHolds TokensFitTheSite RunsKnowTheirEnvironment DashboardAddsUp StreamsFollowRows
PROPERTIES ImportIsWhole FoldersLoseNothing
CHECK_DEADLOCK FALSE
