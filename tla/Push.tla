-------------------------------- MODULE Push --------------------------------
(***************************************************************************)
(* Publication of a branch: the push that ends a commit run (push.ts,      *)
(* mode "exact") and the push of a clean branch that is ahead, whose       *)
(* snapshot is checkpointed first (push-only.ts, mode "tracked").  Runs    *)
(* follow one another in one clone while its user commits, moves HEAD and  *)
(* changes the configuration, other clones push, requests and answers are  *)
(* lost, and the process dies.                                             *)
(*                                                                         *)
(* A destination is what the clone's configuration resolves to: a push URL *)
(* and the name of a remote and a branch.  The code pins both, but checks  *)
(* them again one at a time.  Each Git command is one step, but            *)
(* a push is three: the client reads the advertised branch, the server     *)
(* decides, the answer arrives.  A request outlives the client that sent   *)
(* it.                                                                     *)
(***************************************************************************)
EXTENDS Naturals

CONSTANTS Commits,       \* objects; a commit never changes
          Ancestry,      \* pairs <<ancestor, descendant>>, reflexive
          Destinations, Url, Name,  \* the latter per destination
          Slots,         \* bounds the requests on their way to a server
          None,          \* null: a branch that does not exist
          Faults

FaultKinds ==
  {"local", "read", "connect", "lost", "refused", "crash", "move", "rewrite"}

ASSUME NoneIsNoCommit == None \notin Commits /\ None \notin Slots
ASSUME AncestryIsOrder ==
  /\ Ancestry \subseteq Commits \X Commits
  /\ \A c \in Commits : <<c, c>> \in Ancestry
  /\ \A a, b, c \in Commits :
       <<a, b>> \in Ancestry /\ <<b, c>> \in Ancestry => <<a, c>> \in Ancestry
ASSUME FaultsAreKinds == Faults \subseteq FaultKinds

VARIABLES
  remote,    \* what each destination's branch holds
  head, clean, target, tracked,  \* the clone: HEAD, an empty `git status`,
             \* the configured destination, whether an upstream resolves
  place,     \* the Git command the run has reached
  mode, dest, source, baseline, establish,  \* the run's frozen values; in mode
             \* "tracked" the first four are the durable snapshot
  retries,   \* retryCount
  repeats,   \* how often the run repeated a remote command (not in the code)
  outcome,   \* of the last run
  flight,    \* requests no server has decided
  awaited, verdict, \* the request the run waits for, and the server's answer
  calm       \* from here on nothing interferes any more (not in the code): a
             \* run that fails and one that meets trouble can end alike

clone == <<head, clean, target, tracked, calm>>
frozen == <<mode, dest, source, baseline, establish>>
wire == <<flight, awaited, verdict>>
vars == <<remote, clone, place, frozen, retries, repeats, outcome, wire>>

Branch == Commits \cup {None}
Modes == {"exact", "tracked"}
Places == {"idle", "source", "preflight", "publish", "sent", "recover",
           "settle", "postflight", "track", "captured", "checkpointed",
           "validated", "revalidated"}
Outcomes == {"none", "published", "failed", "nothing"}
Requests == [slot : Slots, dest : Destinations, from : Branch, to : Commits]

AncestorOf(a, b) == <<a, b>> \in Ancestry
FastForward(old, new) == old = None \/ AncestorOf(old, new)

Init ==
  /\ remote \in [Destinations -> Branch]
  /\ head \in Commits /\ clean \in BOOLEAN
  /\ target \in Destinations /\ tracked \in BOOLEAN
  /\ place = "idle" /\ mode = "exact" /\ dest = target
  /\ source = head /\ baseline = None /\ establish = FALSE
  /\ retries = 0 /\ repeats = 0 /\ outcome = "none"
  /\ flight = {} /\ awaited = None /\ verdict = "none" /\ calm = FALSE

May(fault) == ~calm /\ fault \in Faults
End(result) == place' = "idle" /\ outcome' = result
Go(next) == place' = next /\ UNCHANGED outcome

-----------------------------------------------------------------------------
(* The push that ends a commit run.                                        *)

StartExact ==
  /\ place = "idle"
  /\ mode' = "exact" /\ dest' = target /\ establish' = ~tracked
  /\ Go("source")
  /\ retries' = 0 /\ repeats' = 0
  /\ UNCHANGED <<remote, clone, source, baseline, wire>>

PinSource ==
  /\ place = "source"
  /\ source' = head
  /\ Go("preflight")
  /\ UNCHANGED <<remote, clone, mode, dest, baseline, establish, retries,
                 repeats, wire>>

(* Mutant: any source replaces any baseline.                               *)
PreflightUnchecked ==
  /\ place = "preflight"
  /\ baseline' = remote[dest]
  /\ IF remote[dest] = source THEN Go("postflight") ELSE Go("publish")
  /\ UNCHANGED <<remote, clone, mode, dest, source, establish, retries,
                 repeats, wire>>

Preflight ==
  /\ place = "preflight"
  /\ baseline' = remote[dest]
  /\ \/ remote[dest] = source /\ Go("postflight")
     \/ /\ remote[dest] # source /\ FastForward(remote[dest], source)
        /\ Go("publish")
     \/ ~FastForward(remote[dest], source) /\ End("failed")
  /\ UNCHANGED <<remote, clone, mode, dest, source, establish, retries,
                 repeats, wire>>

(* An unanswered publication is decided by what the destination holds.     *)
Recover ==
  /\ place = "recover"
  /\ \/ remote[dest] = source /\ Go("postflight") /\ UNCHANGED repeats
     \/ /\ remote[dest] = baseline
        /\ Go("publish") /\ repeats' = repeats + 1
     \/ /\ remote[dest] \notin {source, baseline}
        /\ End("failed") /\ UNCHANGED repeats
  /\ UNCHANGED <<remote, clone, frozen, retries, wire>>

(* Mutant: waits for an unchanged destination to change.                   *)
SettleByWaiting ==
  /\ place = "settle"
  /\ \/ remote[dest] = source /\ Go("postflight")
     \/ remote[dest] = baseline /\ Go("settle")
     \/ remote[dest] \notin {source, baseline} /\ End("failed")
  /\ UNCHANGED <<remote, clone, frozen, retries, repeats, wire>>

Settle ==
  /\ place = "settle"
  /\ \/ remote[dest] = source /\ Go("postflight")
     \/ remote[dest] # source /\ End("failed")
  /\ UNCHANGED <<remote, clone, frozen, retries, repeats, wire>>

Postflight ==
  /\ place = "postflight"
  /\ \/ /\ remote[dest] = source
        /\ IF mode = "exact" /\ establish THEN Go("track") ELSE End("published")
     \/ remote[dest] # source /\ End("failed")
  /\ UNCHANGED <<remote, clone, frozen, retries, repeats, wire>>

(* Three configuration commands; an upstream resolves after the last.      *)
Track ==
  /\ place = "track"
  /\ tracked' = TRUE
  /\ End("published")
  /\ UNCHANGED <<remote, head, clean, target, calm, frozen, retries, repeats,
                 wire>>

(* A local command that fails, a failing test, a secret in the patches.     *)
LocalFails ==
  /\ May("local")
  /\ place \in {"source", "track", "captured", "checkpointed", "validated"}
  /\ End("failed")
  /\ UNCHANGED <<remote, clone, frozen, retries, repeats, wire>>

(* Mutant: the repeat is not refused after an earlier one.                 *)
ReadFailsAgain ==
  /\ May("read")
  /\ place = "postflight" /\ mode = "exact"
  /\ retries' = 1 /\ repeats' = repeats + 1
  /\ UNCHANGED <<remote, clone, place, outcome, frozen, wire>>

(* A read of the destination that fails ends the run, but for one repeat   *)
(* of the last read when nothing has been repeated yet.                    *)
ReadFails ==
  /\ May("read")
  /\ place \in {"preflight", "recover", "settle", "postflight", "revalidated"}
  /\ \/ End("failed") /\ UNCHANGED <<retries, repeats>>
     \/ /\ place = "postflight" /\ mode = "exact" /\ retries = 0
        /\ retries' = 1 /\ repeats' = repeats + 1
        /\ UNCHANGED <<place, outcome>>
  /\ UNCHANGED <<remote, clone, frozen, wire>>

-----------------------------------------------------------------------------
(* The push of a clean tracked branch that is ahead.                       *)

CaptureBaseline ==
  /\ place = "idle" /\ clean /\ tracked
  /\ mode' = "tracked" /\ dest' = target /\ establish' = FALSE
  /\ baseline' = remote[target]
  /\ IF remote[target] = None THEN End("failed") ELSE Go("captured")
  /\ retries' = 0 /\ repeats' = 0
  /\ UNCHANGED <<remote, clone, source, wire>>

(* Mutant: the second comparison repeats the first, so that a branch that  *)
(* is ahead passes for one that has diverged.                              *)
CaptureHeadSwapped ==
  /\ place = "captured"
  /\ source' = head
  /\ IF AncestorOf(head, baseline) THEN End("nothing") ELSE End("failed")
  /\ UNCHANGED <<remote, clone, mode, dest, baseline, establish, retries,
                 repeats, wire>>

(* A branch that is behind looks diverged as long as the commits of the    *)
(* destination were not fetched.                                           *)
CaptureHead ==
  /\ place = "captured"
  /\ source' = head
  /\ \/ AncestorOf(head, baseline) /\ End("nothing")
     \/ /\ ~AncestorOf(head, baseline) /\ AncestorOf(baseline, head)
        /\ Go("checkpointed")
     \/ ~AncestorOf(baseline, head) /\ End("failed")
  /\ UNCHANGED <<remote, clone, mode, dest, baseline, establish, retries,
                 repeats, wire>>

(* Tests, outgoing list, secrets and the fingerprint of the push URL.      *)
Validate ==
  /\ place = "checkpointed"
  /\ IF Url[target] = Url[dest] THEN Go("validated") ELSE End("failed")
  /\ UNCHANGED <<remote, clone, frozen, retries, repeats, wire>>

(* The URL is not read again: what is pushed to is the pinned one.         *)
RevalidateClone ==
  /\ place = "validated"
  /\ IF tracked /\ clean /\ head = source /\ Name[target] = Name[dest]
     THEN Go("revalidated") ELSE End("failed")
  /\ UNCHANGED <<remote, clone, frozen, retries, repeats, wire>>

RevalidateRemote ==
  /\ place = "revalidated"
  /\ \/ remote[dest] = source /\ End("published")
     \/ remote[dest] = baseline /\ Go("publish")
     \/ remote[dest] \notin {source, baseline} /\ End("failed")
  /\ UNCHANGED <<remote, clone, frozen, retries, repeats, wire>>

-----------------------------------------------------------------------------
(* git push --force-with-lease=<branch>:<baseline> <source>:<branch>       *)

(* A failed publication is classified by its message; only a transient     *)
(* first one of a commit run is looked into.                               *)
PublicationFails(permanent) ==
  /\ \/ /\ mode = "tracked" \/ (permanent /\ retries = 0)
        /\ End("failed") /\ UNCHANGED retries
     \/ /\ mode = "exact" /\ ~permanent /\ retries = 0
        /\ Go("recover") /\ retries' = 1
     \/ /\ mode = "exact" /\ retries = 1
        /\ Go("settle") /\ UNCHANGED retries
  /\ awaited' = None /\ verdict' = "none"
  /\ UNCHANGED <<remote, clone, frozen, repeats>>

ConnectFails ==
  /\ May("connect")
  /\ place = "publish"
  /\ \E permanent \in BOOLEAN : PublicationFails(permanent)
  /\ UNCHANGED flight

UpToDate ==
  /\ place = "publish"
  /\ remote[dest] = source
  /\ Go("postflight")
  /\ UNCHANGED <<remote, clone, frozen, retries, repeats, wire>>

LeaseIsStale ==
  /\ place = "publish"
  /\ remote[dest] \notin {source, baseline}
  /\ PublicationFails(FALSE)
  /\ UNCHANGED flight

(* Mutant: without the lease the client offers whatever the branch holds.  *)
SendWithoutLease ==
  /\ place = "publish"
  /\ remote[dest] # source
  /\ \E n \in Slots :
       /\ \A r \in flight : r.slot # n
       /\ awaited' = n
       /\ flight' = flight \cup
            {[slot |-> n, dest |-> dest, from |-> remote[dest], to |-> source]}
  /\ Go("sent")
  /\ UNCHANGED <<remote, clone, frozen, retries, repeats, verdict>>

Send ==
  /\ place = "publish"
  /\ remote[dest] = baseline /\ baseline # source
  /\ \E n \in Slots :
       /\ \A r \in flight : r.slot # n
       /\ awaited' = n
       /\ flight' = flight \cup
            {[slot |-> n, dest |-> dest, from |-> baseline, to |-> source]}
  /\ Go("sent")
  /\ UNCHANGED <<remote, clone, frozen, retries, repeats, verdict>>

(* The server moves the branch only from the value the client offered.     *)
Decide(r, accepted) ==
  /\ flight' = flight \ {r}
  /\ IF accepted THEN remote' = [remote EXCEPT ![r.dest] = r.to]
                 ELSE UNCHANGED remote
  /\ verdict' = IF awaited # r.slot THEN verdict
                ELSE IF accepted THEN "accepted" ELSE "refused"
  /\ UNCHANGED <<clone, place, frozen, retries, repeats, outcome, awaited>>

ServerDecides == \E r \in flight : Decide(r, remote[r.dest] = r.from)

ServerRefuses == May("refused") /\ \E r \in flight : Decide(r, FALSE)

Answered ==
  /\ place = "sent"
  /\ verdict = "accepted"
  /\ Go("postflight")
  /\ awaited' = None /\ verdict' = "none"
  /\ UNCHANGED <<remote, clone, frozen, retries, repeats, flight>>

Refused ==
  /\ place = "sent"
  /\ verdict = "refused"
  /\ \E permanent \in BOOLEAN : PublicationFails(permanent)
  /\ UNCHANGED flight

(* The connection breaks; the request may be decided before or after.      *)
AnswerLost ==
  /\ May("lost")
  /\ place = "sent"
  /\ PublicationFails(FALSE)
  /\ UNCHANGED flight

(* The process dies.  A checkpointed run may be resumed from its snapshot. *)
Crash ==
  /\ May("crash")
  /\ place # "idle"
  /\ \/ End("failed")
     \/ /\ mode = "tracked" /\ place # "captured"
        /\ Go("checkpointed")
  /\ awaited' = None /\ verdict' = "none"
  /\ UNCHANGED <<remote, clone, frozen, retries, repeats, flight>>

-----------------------------------------------------------------------------
(* The user of this clone, and other clones.                               *)

UserCommits ==
  /\ ~calm
  /\ \E c \in Commits : AncestorOf(head, c) /\ c # head /\ head' = c
  /\ UNCHANGED <<remote, clean, target, tracked, calm, place, frozen, retries,
                 repeats, outcome, wire>>

UserMoves ==
  /\ May("move")
  /\ \/ head' \in Commits /\ UNCHANGED <<clean, target>>
     \/ clean' \in BOOLEAN /\ UNCHANGED <<head, target>>
     \/ target' \in Destinations /\ UNCHANGED <<head, clean>>
  /\ UNCHANGED <<remote, tracked, calm, place, frozen, retries, repeats,
                 outcome, wire>>

OthersPush ==
  /\ ~calm
  /\ \E d \in Destinations, c \in Commits :
       /\ FastForward(remote[d], c)
       /\ remote' = [remote EXCEPT ![d] = c]
  /\ UNCHANGED <<clone, place, frozen, retries, repeats, outcome, wire>>

OthersRewrite ==
  /\ May("rewrite")
  /\ \E d \in Destinations, b \in Branch : remote' = [remote EXCEPT ![d] = b]
  /\ UNCHANGED <<clone, place, frozen, retries, repeats, outcome, wire>>

CalmsDown ==
  /\ ~calm /\ calm' = TRUE
  /\ UNCHANGED <<remote, head, clean, target, tracked, place, frozen, retries,
                 repeats, outcome, wire>>

-----------------------------------------------------------------------------
ExactStep == PinSource \/ Preflight \/ Recover \/ Settle \/ Track
TrackedStep == CaptureHead \/ Validate \/ RevalidateClone \/ RevalidateRemote
PublishStep == UpToDate \/ LeaseIsStale \/ Send \/ Answered \/ Refused
               \/ Postflight
RunStep == ExactStep \/ TrackedStep \/ PublishStep
Trouble == \/ LocalFails \/ ReadFails \/ ConnectFails \/ AnswerLost
           \/ ServerRefuses \/ Crash
World == UserCommits \/ UserMoves \/ OthersPush \/ OthersRewrite \/ CalmsDown

Next == StartExact \/ CaptureBaseline \/ RunStep \/ ServerDecides \/ Trouble
        \/ World

Spec == Init /\ [][Next]_vars

(* Every command ends and every server decides: the commands of Git and    *)
(* their hooks end.  A clean branch is visited again: the program runs     *)
(* from hooks and by hand.                                                 *)
Fairness ==
  /\ WF_vars(RunStep) /\ WF_vars(ServerDecides)
  /\ WF_vars(CaptureBaseline)

FairSpec == Spec /\ Fairness

-----------------------------------------------------------------------------
TypeOK ==
  /\ remote \in [Destinations -> Branch]
  /\ head \in Commits /\ clean \in BOOLEAN
  /\ target \in Destinations /\ tracked \in BOOLEAN
  /\ place \in Places /\ mode \in Modes /\ dest \in Destinations
  /\ source \in Commits /\ baseline \in Branch /\ establish \in BOOLEAN
  /\ retries \in Nat /\ repeats \in Nat /\ outcome \in Outcomes
  /\ flight \subseteq Requests /\ awaited \in Slots \cup {None}
  /\ verdict \in {"none", "accepted", "refused"} /\ calm \in BOOLEAN

(* No request of this program ever drops a commit from a branch, however   *)
(* late it is decided and whatever others did meanwhile: the fast-forward  *)
(* check, the lease and the answers that were lost work together.          *)
BranchMovesForward ==
  [][flight' # flight =>
       \A d \in Destinations :
         remote'[d] = remote[d] \/ FastForward(remote[d], remote'[d])]_vars

Contains(b, c) == b # None /\ AncestorOf(c, b)

(* A success is not only reported: unless somebody rewrites the branch, it *)
(* still contains the pushed commit when the run has ended.                *)
PublishedStaysPublished ==
  "rewrite" \notin Faults =>
    (place = "track" \/ (place = "idle" /\ outcome = "published")
       => Contains(remote[dest], source))

(* Over all its error paths a run repeats at most one remote command, and  *)
(* the retry count it reports covers the repetition; a checkpointed run    *)
(* repeats none.                                                           *)
RetriesAreCounted ==
  repeats <= retries /\ retries <= IF mode = "exact" THEN 1 ELSE 0

(* Every run ends, whatever fails, once the process does not die any more. *)
RunsEnd == <>[][~Crash]_vars => (place # "idle" ~> place = "idle")

(* Once nothing goes wrong any more, the commits of a clean branch with an *)
(* upstream get published although no run knows what earlier runs did,     *)
(* unless the branch has diverged or was deleted.  How the runs end is not *)
(* assumed: one that keeps failing without a cause breaks the property.    *)
CommitsGetPublished ==
  <>calm => <>[](clean /\ tracked =>
                   \/ remote[target] = None
                   \/ AncestorOf(head, remote[target])
                   \/ ~AncestorOf(remote[target], head))
=============================================================================
