SPECIFICATION PackagesSpec
CONSTANTS
    PackageCalls = {1, 2, 3}
    SigningKeys = {"ours", "theirs"}
    TrustedKeys = {"ours"}
    NamedKey = "ours"
    MaxRevisions = 2
    Nil = Nil
INVARIANT VerificationIsDeterministic
CHECK_DEADLOCK FALSE
