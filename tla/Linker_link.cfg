SPECIFICATION Spec
CONSTANTS
  Programs <- MCPrograms
  NamePrefixes <- MCNamePrefixes
  Sources <- MCSources
  MaxFileCount = 2
INVARIANTS LinkedOnce AddressExact PastedInOrder
CHECK_DEADLOCK FALSE
