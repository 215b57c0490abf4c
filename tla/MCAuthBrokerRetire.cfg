CONSTANTS
    r1 = r1
    r2 = r2
    s1 = s1
    None = None
    Owner = Owner
    Rows = {r1, r2}
    Sessions = {s1}
    MaxVersion = 2
    MaxPolicies = 1
    MaxCalls = 1
    MaxUpsets = 1
SPECIFICATION Spec
PROPERTIES
    RetirementKeepsUncertainty
CHECK_DEADLOCK FALSE
