SPECIFICATION Spec
CONSTANTS
    NULL = NULL
    alice = alice
    bob = bob
    guest = guest
    acme = acme
    Email = {alice, bob}
    Domain = {acme}
    DomainOf <- Domains
    Consumer = {}
    Invitable = {}
    Guests = {}
    User = {u1, u2}
    Org = {o1, o2, o3}
    Link = {l1, l2}
    Session = {s1}
    Request = {r1, r2}
    Fatal = {}
    Suspendable = {}
    Schemas = {TRUE}
    MaxBoots = 1
INVARIANTS VerifiedByLink
CHECK_DEADLOCK FALSE
