--------------------------- MODULE MCServiceManager ----------------------------
(***************************************************************************)
(* A critical service, one that requires it and a third that requires      *)
(* both: the second can fail and take the third along.  Each of the three  *)
(* is restarted under another policy.  link is built in and none of boot's *)
(* services: the highest runlevel starts it.                               *)
(***************************************************************************)
EXTENDS ServiceManager, TLC

CONSTANTS gpu, canvas, atlas, link

MCServices == <<gpu, canvas, atlas>>
MCBuiltIn == <<link>>
MCRequires == (gpu :> {}) @@ (canvas :> {gpu}) @@ (atlas :> {canvas, gpu}) @@ (link :> {gpu})
MCPolicy == (gpu :> "Always") @@ (canvas :> "OnAbnormal") @@ (atlas :> "OnFailure") @@ (link :> "Always")
MCCritical == [s \in {gpu, canvas, atlas, link} |-> s = gpu]
MCLevels == (0 :> << >>) @@ (1 :> <<gpu>>) @@ (5 :> <<gpu, link, atlas>>)

================================================================================
