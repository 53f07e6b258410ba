SPECIFICATION MCSpec
CONSTANTS
    NULL = NULL
    ann = ann
    bob = bob
    User = {ann, bob}
    Founder <- Founders
    Invite = {i1, i2}
    Request = {q1, q2}
    Given = {"member"}
    Granted = {"owner"}
    Invited = {bob}
    Subject = {bob}
    Fatal = {"attach", "detach"}
    Nobody = Nobody
    Account = {ann, bob}
    Company = {"acme"}
    HomeOf <- Homes
    Chosen = {ann, bob}
    Target = {bob}
    Body <- Bodies
    Desk = {q1, q2}
    CacheTTL = 1
    AccessTTL = 1
    LentTTL = 1
    EnterTTL = 1
    Latency = 0
SYMMETRY Interchangeable
INVARIANTS MembershipWhole InvitesTellTruth StandingIsRecent
PROPERTIES OwnersStay
CHECK_DEADLOCK FALSE
