CONSTANTS
    N = 5
    PathDepth = 6
SPECIFICATION Spec
INVARIANTS RestsInState PathFits
PROPERTY ImplementsChart
