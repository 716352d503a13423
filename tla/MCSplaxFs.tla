------------------------------ MODULE MCSplaxFs --------------------------------
(***************************************************************************)
(* Two names, one of which can become a directory; a device on which       *)
(* inodes, blocks and the slots of a directory all run out; one fault, at  *)
(* any point: a failed call can still be followed by a mount or an unmount *)
(* that drops the memory.                                                  *)
(***************************************************************************)
EXTENDS SplaxFs

CONSTANTS a, b, v, w

MCPaths == {<<a>>, <<b>>, <<a, b>>}
MCBuffers == {<<>>, <<v>>, <<w, v>>}

================================================================================
