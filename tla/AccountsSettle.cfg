SPECIFICATION FairSpec
CONSTANTS
    NULL = NULL
    alice = alice
    bob = bob
    guest = guest
    acme = acme
    Email = {alice, bob}
    Domain = {acme}
    DomainOf <- Domains
    Consumer = {}
    Invitable = {bob}
    Guests = {}
    User = {u1, u2}
    Org = {o1, o2, o3}
    Link = {l1, l2}
    Session = {s1}
    Request = {r1, r2}
    Fatal = {"owner", "memberRow", "inviteRow", "accept"}
    Suspendable = {}
    Schemas = {TRUE}
    MaxBoots = 0
PROPERTIES SignupsEnd
CHECK_DEADLOCK FALSE
