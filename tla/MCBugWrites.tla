----------------------------- MODULE MCBugWrites -----------------------------
(* For TLC: a command that writes bugs, or the making of the bugs to create.  *)
(* One of the two is at work, the other at rest.                              *)
EXTENDS BugWrites, MCNewBug

NoWrites ==
  /\ form = "update" /\ items = <<>> /\ stale = {} /\ changed = {}
  /\ gate = 1 /\ i = 1 /\ k = 1 /\ found = 0
  /\ succeeded = {} /\ failed = {} /\ ended = "ok"
  /\ thread = [b \in Places |-> <<>>]
  /\ applied = {} /\ late = {} /\ tagged = {}
  /\ others = MaxOthers

NoNewBug ==
  /\ templates = <<>> /\ ordered = MaxOrders
  /\ maker = [m \in Makers |-> Taken(NoOrder, "idle")]

MCWritesInit == (Init /\ NoNewBug) \/ (NewBugInit /\ NoWrites)
MCWritesNext == (Next /\ UNCHANGED makerVars) \/ (NewBugNext /\ UNCHANGED vars)
MCWritesSpec == MCWritesInit /\ [][MCWritesNext]_<<vars, makerVars>>
=============================================================================
