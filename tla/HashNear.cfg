SPECIFICATION Spec
CONSTANTS
    Bit <- MCBit
    Cut <- MCCut
    Photo <- MCFarPhoto
    Image <- MCImage
    Adder = {a1}
    Threashold = 5
    PostAmount = 6
    MaxRows = 3
    MaxBlind = 0
SYMMETRY Symmetry
INVARIANT EveryNearPhotoIsFound
