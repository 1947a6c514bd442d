-------------------------- MODULE MCBufferCacheCalls --------------------------
(***************************************************************************)
(* The buffer cache under a finite load: process p makes at most           *)
(* MaxCalls[p] calls, so that what must end can be told from what merely   *)
(* goes on being called.                                                   *)
(***************************************************************************)
EXTENDS MCBufferCache

CONSTANT MaxCalls
OneAndTwo == [p \in TwoProcs |-> IF p = p1 THEN 2 ELSE 1]

VARIABLE calls

MCInit == Init /\ calls = [p \in Procs |-> 0]

MCStart(p) ==
  /\ calls[p] < MaxCalls[p]
  /\ Start(p)
  /\ calls' = [calls EXCEPT ![p] = @ + 1]

MCProceed(p) == Proceed(p) /\ UNCHANGED calls
MCInterrupt == Interrupt /\ UNCHANGED calls

MCNext == MCInterrupt \/ \E p \in Procs : MCStart(p) \/ MCProceed(p)

MCSpec ==
  /\ MCInit /\ [][MCNext]_<<vars, calls>>
  /\ WF_<<vars, calls>>(MCInterrupt)
  /\ \A p \in Procs : WF_<<vars, calls>>(MCProceed(p))
=============================================================================
