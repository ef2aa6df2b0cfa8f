\* The mode of a directory differs between the captures.
SPECIFICATION Spec
CONSTANTS
    c1 = c1
    c2 = c2
    m1 = m1
    m2 = m2
    PathOrder <- TheOrder
    Objects <- TheObjects
    DefaultMode = m1
    Variables = {plain, secret}
    Secrets = {secret}
    Values = {empty}
    Empty = empty
    MaxFiles = 4
    MaxFactors = 2
    OracleFile <- df
    OracleContent = c1
    None = None
INVARIANT DirectoriesIntervened
CHECK_DEADLOCK FALSE
