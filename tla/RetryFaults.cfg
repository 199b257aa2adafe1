SPECIFICATION FairSpec
CONSTANTS
  p1 = p1
  p2 = p2
  Payments = {p1, p2}
  MaxRetries = 1
  Faults = {"node", "db", "mail", "lostReply", "save", "crash", "oldMined"}
INVARIANTS TypeOK OneOpenRow BumpsBounded CompletedIsMined
PROPERTIES StatusesFinal KnownIsRecorded
