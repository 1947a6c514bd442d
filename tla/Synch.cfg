CONSTANTS
  shell = shell
  job = job
  event = event
  Proc0 = Proc0
  NoProc = NoProc
  Procs <- TwoProcs
  Parent <- ShellAndJob
  Events <- OneEvent
  Hash <- RunoutApart
  Action <- Actions
  Sends <- JobControl
  Sleeps <- JobSleeps
SPECIFICATION Spec
INVARIANTS
  NoPanic
  QueuesExact
  NoStaleTimer
  NoLostRunout
  NoLostStop
PROPERTIES
  TsleepReturns
CHECK_DEADLOCK FALSE
