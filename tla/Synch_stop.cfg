CONSTANTS
  shell = shell
  job = job
  event = event
  Proc0 = Proc0
  NoProc = NoProc
  Procs <- TwoProcs
  Parent <- ShellAndJob
  Events <- OneEvent
  Hash <- RunoutApart
  Action <- NoChildSignal
  Sends <- JobControl
  Sleeps <- JobSleeps
SPECIFICATION Spec
INVARIANT NoLostStop
CHECK_DEADLOCK FALSE
