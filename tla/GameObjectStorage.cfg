SPECIFICATION StorageSpec
CONSTANTS
  N = 3
  Groups = {0, 1}
INVARIANTS StackIsFreeIds StorageAgrees
PROPERTIES AllocatorSpec SequencesSpec ResetPoolRestores
