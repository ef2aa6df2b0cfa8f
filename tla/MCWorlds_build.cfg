\* Two captures of small trees and environments, and every experiment on them.
SPECIFICATION Spec
CONSTANTS
    c1 = c1
    c2 = c2
    m1 = m1
    m2 = m2
    PathOrder <- TheOrder
    Objects <- TheObjects
    DefaultMode = m1
    Variables = {plain, secret}
    Secrets = {secret}
    Values = {empty}
    Empty = empty
    MaxFiles = 4
    MaxFactors = 2
    OracleFile <- df
    OracleContent = c1
    None = None
INVARIANTS
    
    InterventionIsExact
    InterventionIsLocal
    
    OraclesAgree
CHECK_DEADLOCK FALSE
