SPECIFICATION StorageSpec
CONSTANTS
  Strings = {"a", "b"}
  Arrays = {"x"}
  Owners = {}
  Marks = {"m"}
  MaxCells = 3
  MaxItems = 1
  Forms = {"iif"}
CHECK_DEADLOCK FALSE
INVARIANT HeldIsAlive
