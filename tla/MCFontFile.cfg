SPECIFICATION Spec
CONSTANTS
  GlyphWidth = 3
  GlyphHeight = 2
  IndexModulus = 64
  Pictures <- SomePictures
  Characters <- SomeCharacters
INVARIANTS
  DrawsPicture
  TableWhole
CHECK_DEADLOCK FALSE
