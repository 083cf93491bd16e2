\* Three concurrent logins of one user.
SPECIFICATION UsersFairSpec
CONSTANTS
    Users = {u1}
    Logins = {l1, l2, l3}
    max_failed_attempts = 3
    lockout_duration = 2
    MaxCount = 4
    MaxCuts = 2
INVARIANT LockAndCountAgree
PROPERTY LocksLift
