---------------------------- MODULE MCProcessWait ------------------------------
(***************************************************************************)
(* Init and two more processes: both its children, or one the child of the *)
(* other, so that a parent dies before, while and after its child does.    *)
(***************************************************************************)
EXTENDS ProcessWait

MCWaitRequests ==
    {[target |-> NoPid, mode |-> "block", wnowait |-> FALSE],
     [target |-> NumPids, mode |-> "block", wnowait |-> TRUE],
     [target |-> NoPid, mode |-> "nohang", wnowait |-> FALSE]}

================================================================================
