SPECIFICATION Spec
CONSTANTS
    near = near
    far = far
    Senders = {near, far}
    Addresses <- MCAddresses
    MaxActive = 2
    MaxFinished = 1
    MaxBytes <- MCBytes
INVARIANTS
    GrantsSuffice
    ViewAgrees
    NothingHidden
CHECK_DEADLOCK FALSE
