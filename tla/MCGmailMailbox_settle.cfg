SPECIFICATION FairSpec
CONSTANTS
  Mails = {m1}
  Attachments = {a1}
  Syncers = {s1}
  Readers = {r1}
  Threads = {t1, t2}
  NoRequest = NoRequest
  NoThread = NoThread
  NoMail = NoMail
  MaxVersions = 1
  MaxFaults = 1
PROPERTY MissingAttachmentsAnalysed
CHECK_DEADLOCK FALSE
