SPECIFICATION Spec
CONSTANTS
    s1 = s1
    s2 = s2
    Shells = {s1, s2}
    Lifetime = 4
    Buffer = 1
    AwsBuffer = 2
    MaxLag = 1
    MaxAwsLag = 2
    MaxLogins = 3
SYMMETRY ShellSymmetry
INVARIANTS
    OneLoginInTheFile
    UsedTokensAreLive
    NothingLost
CHECK_DEADLOCK FALSE
