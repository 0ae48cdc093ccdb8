SPECIFICATION FairSpec
CONSTANTS
  c1 = c1
  c2 = c2
  c3 = c3
  d1 = d1
  d2 = d2
  m1 = m1
  m2 = m2
  m3 = m3
  r1 = r1
  r2 = r2
  r3 = r3
  Chats <- MCChats
  Home = c1
  Entries <- MCEntries
  Deliveries <- MCDeliveries
  Messages <- MCMessages
  ChatOf <- MCChatOf
  Records <- MCRecords
  Open <- MCOpen
  MaxCrashes = 1
  None = None
INVARIANTS NothingIsLost JournalIsSound VisibleIsNotRepeated CutoverIsComplete
PROPERTIES ComesUp
CHECK_DEADLOCK FALSE
