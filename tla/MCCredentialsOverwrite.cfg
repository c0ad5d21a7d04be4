SPECIFICATION Spec
CONSTANTS
    Challenges = {ch1, ch2, ch3}
    Tickets = {t1, t2}
    Keys = {k1, k2}
    Verifiers = {v1, v2}
    Reqs = {q1, q2}
    NoVerifier = NoVerifier
    NoKey = NoKey
    NoRequest = NoRequest
    MaxCounter = 2
    MaxRedeemers = 2
    MAX_OUTSTANDING_CHALLENGES = 2
SYMMETRY Symmetry
PROPERTY VerifierNotOverwritten
