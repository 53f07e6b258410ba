SPECIFICATION Spec
CONSTANTS
    NULL = NULL
    alice = alice
    bob = bob
    guest = guest
    acme = acme
    Email = {alice, bob}
    Domain = {acme}
    DomainOf <- Domains
    Consumer = {}
    Invitable = {}
    Guests = {}
    User = {u1, u2}
    Org = {o1, o2}
    Link = {l1, l2}
    Session = {s1}
    Request = {r1, r2}
    Fatal = {"owner"}
    Suspendable = {acme}
    Schemas = {TRUE, FALSE}
    MaxBoots = 1
INVARIANTS SessionsAreOfVerifiedUsers LiveUsersKeepTheirOrg ColleaguesShareOrg
PROPERTIES ImplementsClaims
SYMMETRY Symmetry
CHECK_DEADLOCK FALSE
