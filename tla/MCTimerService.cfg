SPECIFICATION FairSpec
CONSTANTS
  Main = main
  Isr = {i1, i2}
  NoOne = noone
  T1000ms = 4
  TmrFreq = 2
  NoAct = noact
  event = event
  inhibit = inhibit
  Acts <- MCActs
  Cycle <- MCCycle
  Delays <- MCDelays
  ServiceLocks = TRUE
INVARIANTS
  TypeOK
  TimersKeepRunning
  ReloadNotTorn
PROPERTIES
  EveryTimerElapses
  ImplementsAlarms
  InsertionKeepsTime
CHECK_DEADLOCK FALSE
