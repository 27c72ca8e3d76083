SPECIFICATION FairSpec
CONSTANTS
  Emails = {e1, e2, e3}
  Dead = {e2, e3}
  BatchSize = 2
  MaxAttempts = 1
  Far = 2
  MaxCopies = 2
  MaxFailures = 2
INVARIANTS
  TypeOK
  OneCopyUnlessDoubtful
PROPERTIES
  ImplementsMail
  MailArrives
