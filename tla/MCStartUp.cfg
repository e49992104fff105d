\* An api and a sync process start on a new database.
SPECIFICATION SplitSpec
CONSTANTS
    mono = mono
    api = api
    sync = sync
    Replicas = {mono, api, sync}
    Role <- Roles
    Genesis = 3
    Tip = 6
    Batch = 2
    Stores <- SomeStores
    Anchors = 3
    WorkerRestarts = 2
    MaxMishaps = 3
INVARIANT RootSafeOnEveryBoot
CHECK_DEADLOCK FALSE
