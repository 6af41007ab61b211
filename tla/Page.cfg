SPECIFICATION Spec
CHECK_DEADLOCK FALSE
CONSTANTS
    p1 = p1
    p2 = p2
    g1 = g1
    Pods <- MCPods
    ComponentOf <- MCComponentOf
    Interval = 3
    StatusTimeout = 2
    PromTimeout = 2
    MaxTime = 10
    MaxChanges = 1
INVARIANTS
    SteadyWorldShown
    MetricsGoBackOneAtMost
PROPERTIES
    StatusNeverGoesBack
    SecondComes
