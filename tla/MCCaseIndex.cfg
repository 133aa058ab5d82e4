\* One mail: three operators at work on it, or two writers of its assignment.
SPECIFICATION MCSpec
SYMMETRY Symmetry
CONSTANTS
  Mails = {m1}
  Threaded = {m1}
  Users = {u1, u2, u3}
  NoUser = NoUser
  Writers = {w1, w2}
  MaxFaults = 1
INVARIANTS
  ProgressOnRecord
  WorkItemFollows
  IndexFollows
PROPERTIES CompletedStays
