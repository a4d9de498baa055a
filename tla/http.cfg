SPECIFICATION Spec
CONSTANTS
  w1 = w1
  w2 = w2
  Writers <- MCWriters
  ClientMaps <- MCClientMaps
  TokenLists <- MCTokenLists
  MaxSessions = 2
INVARIANTS
  TypeOK
  TokenSuitable
  WrittenOnce
  HeadersComplete
