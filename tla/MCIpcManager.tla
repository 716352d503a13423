----------------------------- MODULE MCIpcManager ------------------------------
(***************************************************************************)
(* The IPC manager with two processes, room for one channel (so the second *)
(* create_channel is refused and consumes an id), a ring of two slots and  *)
(* pending queues of at most two operations.                               *)
(***************************************************************************)
EXTENDS IpcManager

================================================================================
