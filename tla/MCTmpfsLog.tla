----------------------------- MODULE MCTmpfsLog -----------------------------
(***************************************************************************)
(* Two names, both of files in the ramdisk, so that three requests reach a *)
(* rename over an existing file with something before or after it.         *)
(***************************************************************************)
EXTENDS TmpfsLog

CONSTANTS a, b

MCLoaded == a :> <<1, 1>> @@ b :> <<1>>
=============================================================================
