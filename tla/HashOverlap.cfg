SPECIFICATION Spec
CONSTANTS
    Bit <- MCBit
    Cut <- MCCut
    Photo <- MCPhoto
    Image <- MCImage
    Adder = {a1, a2}
    Threashold = 5
    PostAmount = 6
    MaxRows = 7
    MaxBlind = 1
SYMMETRY Symmetry
INVARIANT TypeOK
INVARIANT SharedOnlyAcrossAdders
INVARIANT NearPhotoIsFound
