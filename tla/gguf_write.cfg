SPECIFICATION Spec
CONSTANTS
  Magic <- MCMagic
  Alignment = 32
  AlignmentKey <- MCAlignmentKey
  ArchKey <- MCArchKey
  NameHas <- MCNameHas
  Inputs <- MCInputs
  Base = 1
INVARIANTS
  LoadInvertsWrite
  CutFileRefused
  InspectorAgrees
PROPERTIES
  LayoutSpec
