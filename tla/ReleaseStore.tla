---------------------------- MODULE ReleaseStore ----------------------------
(***************************************************************************)
(* What an installation promises to the runs that use the program: a       *)
(* release, once published, stays as it is, and the command always resolves *)
(* to a published release that was whole when it was chosen.               *)
(***************************************************************************)
CONSTANTS Digests,  \* what release directories are named after
          NoRelease

VARIABLES whole,    \* the published releases that match their names
          broken,   \* the published ones that somebody edited beforehand
          active    \* what the current link names

store == <<whole, broken, active>>

StoreInit ==
  /\ whole \subseteq Digests
  /\ broken \subseteq Digests \ whole
  /\ active \in whole \cup broken \cup {NoRelease}

Publish(d) ==
  /\ d \notin whole \cup broken
  /\ whole' = whole \cup {d}
  /\ UNCHANGED <<broken, active>>

Activate(d) ==
  /\ d \in whole
  /\ active' = d
  /\ UNCHANGED <<whole, broken>>

StoreNext == \E d \in Digests : Publish(d) \/ Activate(d)

StoreSpec == StoreInit /\ [][StoreNext]_store
=============================================================================
