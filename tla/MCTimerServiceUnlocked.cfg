SPECIFICATION FairSpec
CONSTANTS
  Main = main
  Isr = {i1}
  NoOne = noone
  T1000ms = 4
  TmrFreq = 2
  NoAct = noact
  event = event
  inhibit = inhibit
  Acts <- MCActs
  Cycle <- MCCycle
  Delays <- MCDelays
  ServiceLocks = FALSE
PROPERTIES
  EveryTimerElapses
CHECK_DEADLOCK FALSE
