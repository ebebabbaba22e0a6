\* A save while the market source reports an error.
SPECIFICATION Spec
CONSTANTS
    Value = {1, 2}
    MaxTasks = 2
INVARIANTS
    SourceFollowsCanvas
