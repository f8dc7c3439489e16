SPECIFICATION FairSpec
CONSTANTS
    WordSpace = 4
    Polls = 1
    OpTries = 2
    Lbas = {3}
    Nums = {1, 2}
    Cards <- MCCards
INVARIANTS ReadIsRight ReadLeavesIdle
PROPERTIES InitMeansSelected NoStaleAnswer CallsEnd
