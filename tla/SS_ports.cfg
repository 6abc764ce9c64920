SPECIFICATION Spec
CONSTANTS
    alice = alice
    bob = bob
    null = null
    local = local
    ghost = ghost
    foreign = foreign
    post = post
    mx = mx
    submit = submit
    optional = optional
    one = one
    two = two
    Conns = {mx, submit, optional, one, two}
    Port <- Ports
    Users = {alice}
    Senders = {alice, bob, null}
    Owns <- AliceOwns
    Rcpts = {local, ghost, foreign, post}
    Managed = {local, ghost, post}
    Known = {local}
    Postmasters = {post}
    Postmaster <- PostmasterOf
    Nobody = Nobody
    MaxRecipients = 2
    MaxAuthFailures = 2
    DataBudget = 1
    Says <- AllSay
    Ahead <- SendAhead
    Together <- Meetings
INVARIANT NoOpenRelay
INVARIANT SenderBound
INVARIANT NothingInjected
INVARIANT CredentialsSecret
INVARIANT GuessesBounded
INVARIANT AckedIsQueued
CHECK_DEADLOCK FALSE
