------------------------------ MODULE MCLoader -------------------------------
(***************************************************************************)
(* The instance of Loader that TLC checks.  The numbers of the modules     *)
(* mean nothing, so the modules the page names are 1, 2 and so on in the   *)
(* order it names them: every other graph is one of these with its modules *)
(* renamed, and no property names a module.                                *)
(***************************************************************************)
EXTENDS Loader

UpToRenaming == deps[Main] = [i \in 1..Len(deps[Main]) |-> i]

MCInit == Init /\ UpToRenaming

MCSpec == MCInit /\ [][Next]_vars /\ Fairness
==============================================================================
