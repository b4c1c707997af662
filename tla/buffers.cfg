SPECIFICATION BuffersSpec
CONSTANTS
  Bufs = {x, y, z}
  Blocks = {b, c}
  BlockSize = 1
  MaxBuffers = 2
  MaxAssigns = 3
  MaxSequence = 3
SYMMETRY Symmetry
INVARIANTS
  BuffersTypeOK
  BytesAreThere
