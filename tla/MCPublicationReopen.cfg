CONSTANTS
    a = a
    b = b
    payload = payload
    folder = folder
    User = User
    Torn = Torn
    Nothing = Nothing
    Tasks <- MCTasks
    Manifests <- OnDesktop
    Contents = {payload, folder}
    MaxSuffix = 1
SPECIFICATION Spec
INVARIANT
    UnpublishedReopens
