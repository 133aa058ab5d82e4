SPECIFICATION MCSpec
CONSTANTS
  Users = {u1, u2}
  NoUser = NoUser
  Clicks = {c1, c2}
  Sweepers = {s1}
  MaxNotes = 2
  First = u1
  MaxRuns = 1
  MaxFaults = 1
  Executions = {"", "assigned", "completed"}
  Operators = {o1, o2}
  Categories = {orders, inquiries}
  NoCategory = NoCategory
INVARIANTS SentOnce  PendingHasSender  ReviewOffered 
INVARIANTS FoundAreListed OrderHolds
PROPERTY ForwardSettles
CHECK_DEADLOCK FALSE
