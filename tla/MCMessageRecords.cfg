SPECIFICATION FairSpec
CONSTANTS
  MaxSyncs = 2
  MaxFaults = 2
INVARIANTS
  TypeOK
  StatusHasACause
PROPERTIES
  
  MessagesAreStored
  ReceiptsLeaveAMark
