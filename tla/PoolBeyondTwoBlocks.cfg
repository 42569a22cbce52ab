SPECIFICATION Spec
CONSTANTS
    N = 2
    MaxLive = 6
    MaxBlock = 4
INVARIANTS
    PopGivesFreeCoroutine
