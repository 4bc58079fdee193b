CONSTANTS
    m1 = m1
    m2 = m2
    s1 = s1
    HeapMem = {m1, m2}
    StaticMem = {s1}
    GenericHeap = m2
    Capacity <- SomeCapacity
    Sizes = {2, 5, 10, 22}
    NPools = 2
SPECIFICATION Spec
INVARIANTS HeapsTiled FreeListIsRing BlocksAreOwned NoRoomIsWasted SmallestIsPicked
PROPERTY ImplementsAllocator
