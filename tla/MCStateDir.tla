----------------------------- MODULE MCStateDir -----------------------------
(* The two users of the state directory, explored by one run: `part' picks  *)
(* the changes to pf (PfLifecycle, with every fault) or those to the system *)
(* files (SystemFiles).                                                     *)
EXTENDS MCPfLifecycle, SystemFiles

VARIABLE part

StateInit == part \in {"pf", "files"} /\ Init /\ FilesInit

StateNext ==
    \/ part = "pf" /\ Next /\ UNCHANGED <<part, filesVars>>
    \/ part = "files" /\ FilesNext /\ UNCHANGED <<part, vars>>

StateSpec == StateInit /\ [][StateNext]_<<part, vars, filesVars>>
=============================================================================
