SPECIFICATION Spec
CONSTANTS
    Byte = 4
    LimbBytes = 2
    Limbs = 3
    NewtonSteps = 1
    ExpBits = 3
    MinPadding = 1
    Prefix <- MCPrefix
    DigestSize = 1
    Block = 5
    LenBytes = 3
    Lengths = {0, 1, 2, 4, 5, 6, 7, 10, 11, 12, 13}
    Digests <- MCDigests
    Keys <- MCKeys
    Signatures <- MCSignatures
CHECK_DEADLOCK FALSE
INVARIANTS HashesThePaddedImage RoundsArePowers PassesExactlyTheSigned
