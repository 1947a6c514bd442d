CONSTANTS
  shell = shell
  job = job
  event = event
  Proc0 = Proc0
  NoProc = NoProc
  Procs <- TwoProcs
  Parent <- ShellAndJob
  Events <- OneEvent
  Hash <- Together
  Action <- Actions
  Sends <- JobControl
  Sleeps <- JobSleeps
SPECIFICATION Spec
INVARIANT NoPanic
CHECK_DEADLOCK FALSE
