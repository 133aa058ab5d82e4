SPECIFICATION Spec
CONSTANTS
  Mails = {m1}
  Attachments = {a1}
  Syncers = {s1}
  Readers = {r1}
  Threads = {t1, t2}
  NoRequest = NoRequest
  NoThread = NoThread
  NoMail = NoMail
  MaxVersions = 2
  MaxFaults = 1
SYMMETRY Symmetry
INVARIANTS CountMatchesAttachments  
CHECK_DEADLOCK FALSE
