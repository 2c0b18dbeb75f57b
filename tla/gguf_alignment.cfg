SPECIFICATION Spec
CONSTANTS
  Magic <- MCMagic
  Alignment = 32
  AlignmentKey <- MCAlignmentKey
  ArchKey <- MCArchKey
  NameHas <- MCNameHas
  Inputs <- MCInputsAligned
  Base = 1
INVARIANT LoadInvertsWrite
