\* A connected Gmail account, or a POP3/IMAP mailbox, through one restart.
SPECIFICATION Spec
SYMMETRY Symmetry
CONSTANTS
  Addresses = {a1, a2}
  Nobody = Nobody
  NoToken = NoToken
  Unreadable = Unreadable
  NoAccount = NoAccount
  Handlers = {h1, h2}
  MaxRestarts = 1
  Owners = {o1, o2}
  NoOwner = NoOwner
  Letters = {l1, l2}
  NoLetter = NoLetter
  Syncs = {s1}
  MaxResults = 1
  MaxMailbox = 2
  MaxDeaths = 1
INVARIANTS
  ShownIsUsed
  ConnectedWasSynced
  
CHECK_DEADLOCK FALSE
