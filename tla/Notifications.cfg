\* Two addresses, three links, three changes of address, four ticks.
SPECIFICATION Spec
CONSTANTS
    Emails = {"a", "b"}
    NoEmail = "none"
    Cooldown = 2
    Lifetime = 3
    MaxTime = 4
    MaxTokens = 3
    MaxChanges = 3
INVARIANTS VerifiedIsProven OnlyToVerified LinkSingleUse
PROPERTY RateLimited
CHECK_DEADLOCK FALSE
