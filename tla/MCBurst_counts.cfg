SPECIFICATION Spec
CONSTANTS
    p1 = p1  p2 = p2  p3 = p3  o1 = o1  o2 = o2  a = a  b = b
    PhaseOne = {p1, p2, p3}
    Conflict = Conflict
    Refs = {o1, o2}
    Contents = {a, b}
    BodyOf <- MCBodyOf
    MaxAttempts = 2
    MaxRuns = 1
    NoOrder = NoOrder  Nobody = Nobody
CHECK_DEADLOCK FALSE
INVARIANTS
    CountsAreDeterministic
