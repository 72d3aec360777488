SPECIFICATION Spec
CONSTANTS
    b1 = b1
    b2 = b2
    o1 = o1
    o2 = o2
    run1 = run1
    Builds = {b1, b2}
    Owners = {o1, o2}
    OwnerOf <- MCOwnerOf
    Commands = {run1}
    Dockerfile <- MCDockerfile
    LabelsOf <- MCLabelsOf
    Options <- MCOptions
    Base = Base
    Earlier <- MCEarlier
    Past = Past
    None = None
INVARIANTS TypeOK NamesAreBuilt SuccessIsReal
 
CHECK_DEADLOCK FALSE
