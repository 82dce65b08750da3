SPECIFICATION FairSpec
CONSTANTS
  Turn = {t1, t2}
  None = None
  Faults = {"refused", "lostReply", "crash", "orphan"}
  MaxFaults = 2
  MaxEntries = 1
  MaxRecords = 1
INVARIANTS
  TypeOK
  JournalIsRecoverable
  IdleIsClosed
  AnswerIsStored
  NotStrandedLightly
PROPERTIES
  TurnsAreSerial
  TurnsSettle
