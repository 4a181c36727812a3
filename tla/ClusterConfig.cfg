CONSTANTS
    Members = {1, 2, 3}
    First = 1
    None = None
    MaxPromotions = 2
    MaxDelays = 1
SPECIFICATION FairSpec
PROPERTIES OwnersAgree EpochsDiffer
