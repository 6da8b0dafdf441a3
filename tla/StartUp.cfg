SPECIFICATION FairSpec
CONSTANTS
    Calls = {1, 2}  Readers <- TheReaders
    Namespaces <- TheNamespaces  AllNamespaces <- NoNamespace
    Kinds = {"CronJob", "Job"}  Objects <- TheObjects  OwnerOf <- TheOwners
    p1 = p1  p2 = p2  Unset = Unset
    Environments <- AllEnvironments  ValidLabels <- Labels
    MaxWork = 3
INVARIANTS
    TypeOK WatchesAsConfigured HubsAreComplete FiltersIgnoreCase
    ExistingIsFound MetadataIsClean LinkIsOfItsPod
PROPERTIES EveryNamespaceIsCached
CHECK_DEADLOCK FALSE
