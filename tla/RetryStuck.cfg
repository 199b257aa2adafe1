SPECIFICATION FairSpec
CONSTANTS
  p1 = p1
  p2 = p2
  Payments = {p1, p2}
  MaxRetries = 1
  Faults = {"save"}
PROPERTY MinedIsRecorded
