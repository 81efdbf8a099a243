------------------------ MODULE SingleLiveExecution ------------------------
(***************************************************************************)
(* What reconciliation promises to everybody else, with launchers,         *)
(* controllers, messages and crashes out of sight.  A scan is one          *)
(* execution together with the generation it reconciles.  Scans happen one *)
(* at a time, each at most once, each after the request it answers; a      *)
(* generation is reported complete only by a scan that has ended, and only *)
(* while none is under way (SINGLE_LIVE_GIT_EXECUTION and "every wakeup    *)
(* causes reconciliation after the latest observed change").               *)
(***************************************************************************)
EXTENDS Naturals

CONSTANT Executions

VARIABLES
  live,   \* scans that may touch repositories
  spent,  \* scans that have ended, successfully or not
  asked,  \* the newest requested generation
  done    \* the newest generation reported complete

vars == <<live, spent, asked, done>>

Init == live = {} /\ spent = {} /\ asked = 0 /\ done = 0

Ask ==
  /\ asked' = asked + 1
  /\ UNCHANGED <<live, spent, done>>

Begin(e, g) ==
  /\ live = {}
  /\ \A s \in spent : s[1] # e
  /\ done < g /\ g <= asked
  /\ live' = {<<e, g>>}
  /\ UNCHANGED <<spent, asked, done>>

End ==
  /\ live # {}
  /\ live' = {}
  /\ spent' = spent \cup live
  /\ UNCHANGED <<asked, done>>

Complete(g) ==
  /\ live = {}
  /\ done < g
  /\ \E e \in Executions : <<e, g>> \in spent
  /\ done' = g
  /\ UNCHANGED <<live, spent, asked>>

Next ==
  \/ Ask \/ End
  \/ \E e \in Executions, g \in 1 .. asked : Begin(e, g) \/ Complete(g)

Spec == Init /\ [][Next]_vars
=============================================================================
