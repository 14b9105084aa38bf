SPECIFICATION Spec
CONSTANTS
    Threads = {1, 2}
    alice = alice
    bob = bob
    carol = carol
    member = member
    admin = admin
    Users = {alice, bob, carol}
    Roles = {member, admin}
    Emails = {"a", "b"}
    Passwords = {"p", "q"}
    NoUser = NoUser
    Gone = Gone
    NoRole = NoRole
    NoPassword = NoPassword
    Ttl <- Lifetimes
    Kept <- Lifetimes
    Setups <- AllSetups
INVARIANTS
    TypeOK
    LinkWorksOnce
    OldCredentialsDie
    RotatesOnce
    ConfirmedIsProven
CHECK_DEADLOCK FALSE
