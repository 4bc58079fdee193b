CONSTANTS
    Item = {x, y, z}
    Size = 4
SPECIFICATION Spec
PROPERTY ImplementsDeque
