----------------------------- MODULE Identities -----------------------------
(* The random tokens that name the processes of the system.                *)
CONSTANTS
  Launchers,   \* one public invocation each, named by its owner token
  Executions,  \* one prepared controller each, named by its execution token
  None         \* SQL NULL in a token column

ASSUME NoneIsNoToken == None \notin Launchers /\ None \notin Executions
=============================================================================
