CONSTANTS
  Contexts = {c1, c2, c3}
  QueryRetries = 2
  MaxLinks = 3
  Retries = 2
  MaxClock = 2
  Messages = {m1, m2}
  Grace = 1
  Skew = 2
  Ttl = 3
  SweepEvery = 1
  MaxNow = 6
  Owners = {o1, o2, o3}
  MaxEdits = 2
  MaxJobs = 3
  Users = {u1, u2, u3}
  Threads = {t1, t2}
  MaxCalls = 3
SPECIFICATION Spec
INVARIANTS
  PublishedMeansApplied
  NotesAgree
  LoginAgrees
  MessageOnce
  EditSurvives
  RunsVerifiedBridge
  SenderSound
CHECK_DEADLOCK FALSE
