SPECIFICATION Spec
CONSTANTS
  a = a
  NoLayer = NoLayer
  Layers = {a}
  ZOrder <- OneLayer
  Plots <- UselessBuffer
CHECK_DEADLOCK FALSE
PROPERTIES
  ProducersReturn
