SPECIFICATION FairSpec
CONSTANTS
  Mails = {m1}
  Threaded = {m1}
  Users = {u1}
  NoUser = NoUser
PROPERTIES RepliesDetected
