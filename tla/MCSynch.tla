------------------------------ MODULE MCSynch ------------------------------
(* Instances of Synch for TLC: a parent and its child.                     *)
EXTENDS Synch, TLC

CONSTANTS shell, job, event

TwoProcs == {shell, job}
OneEvent == {event}
ShellAndJob == [p \in TwoProcs |-> IF p = job THEN shell ELSE NoProc]

(* All channels share a sleep queue, or all but that of runout.            *)
RunoutApart == [c \in Chans |-> IF c = RUNOUT THEN 1 ELSE 0]
Together == [c \in Chans |-> 0]

(* The shell catches SIGCHLD and ignores SIGTSTP.  The job catches SIGINT  *)
(* and leaves the others at their defaults.                                *)
Actions ==
  [p \in TwoProcs |->
     [g \in Sigs |->
        CASE g = SIGINT -> "CATCH"
          [] g = SIGCHLD -> IF p = shell THEN "CATCH" ELSE "IGN"
          [] g = SIGTSTP -> IF p = shell THEN "IGN" ELSE "DFL"
          [] OTHER -> "DFL"]]
(* The shell has left SIGCHLD at its default, which is to ignore it.       *)
NoChildSignal == [Actions EXCEPT ![shell][SIGCHLD] = "IGN"]

JobControl == { <<job, g>> : g \in {SIGINT, SIGKILL, SIGTSTP, SIGCONT} }

Interruptible == [chan |-> Ev(event), catch |-> TRUE, timo |-> FALSE]
Timed == [chan |-> Ev(event), catch |-> TRUE, timo |-> TRUE]
Uninterruptible == [chan |-> Ev(event), catch |-> FALSE, timo |-> FALSE]
(* The shell only waits for its job.                                       *)
JobSleeps ==
  [p \in TwoProcs |->
     IF p = job THEN {Interruptible, Timed, Uninterruptible} ELSE {}]
=============================================================================
