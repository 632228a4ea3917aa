CONSTANTS
    Phones = {p1, p2}
    Emails = {e1}
    Codes = {k1, k2}
    Passwords = {good}
    Weak = {weak}
    Handlers = {h1, h2}
    MaxAttempts = 1
    OtpTTL = 1
    SessionTTL = 2
    MaxOtps = 2
    MaxTokens = 2
    MaxTime = 1
    MaxFaults = 1
    Nobody = Nobody
SPECIFICATION Spec
SYMMETRY Symmetry
INVARIANTS
    AuthInv
    SessionIsEarned
    CodeIsSingleUse
CHECK_DEADLOCK FALSE
