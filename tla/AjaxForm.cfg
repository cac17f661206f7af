SPECIFICATION Spec
CONSTANTS
    i1 = i1
    i2 = i2
    d1 = d1
    d2 = d2
    d3 = d3
    c1 = c1
    c2 = c2
    Inputs = {i1, i2}
    Dependents = {d1, d2, d3}
    Controls = {c1, c2}
    Constraint <- MCConstraint
    Wrapper <- MCWrapper
    MaxRequests = 3
INVARIANTS TypeOK ShownRight Usable
PROPERTY Released
