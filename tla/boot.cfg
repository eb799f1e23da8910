SPECIFICATION FairSpec
CONSTANTS
    Instances = {a, b}
    LinkIds = {l1, l2}
    MaxCrashes = 2
INVARIANTS TypeOK DescriptionTruthful ServesOwnVersion UniqueWhenServing
PROPERTIES LinksKept UpgradeResumes
CHECK_DEADLOCK FALSE
