SPECIFICATION StoresSpec
CONSTANTS
  Ref = {1, 2, 3}
  Use = {4, 5}
  PAGE = 2
  MAX_EDGES = 4
  Insn = {a, b}
  Junk = junk
  CHUNK = 3
  MAX_COUNT = 6
  MAX_N = 2
  k1 = k1
  k2 = k2
  k3 = k3
  Key <- MCKey
  AddrKey <- MCAddrKey
  Hash <- MCHash
  HASH_SIZE = 4
  MAX_CONSTS = 10
INVARIANTS Disjoint Fits ArrayTypeOK FreshRefsUnused NoConstMadeTwice
PROPERTIES ImplementsUseLists RefsStable CallReturns
