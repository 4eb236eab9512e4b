SPECIFICATION LiveSpec
CONSTANTS
  Processes = {p1, p2, p3}
  Inodes = {i1, i2, i3}
  NoInode = NoInode
INVARIANTS TypeOK HolderOwnsPath NoStrayLockFile
PROPERTIES ImplementsReadWriteLock LockReturns
