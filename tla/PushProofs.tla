----------------------------- MODULE PushProofs -----------------------------
(***************************************************************************)
(* What TLAPS proves of publication for every commit graph, every set of   *)
(* destinations and any number of requests on their way (Push).            *)
(***************************************************************************)
EXTENDS Push, TLAPS

(* Between the fast-forward check and the answer the run holds a forward   *)
(* pair, which a resumed checkpoint brings back.                           *)
PairIsForward ==
  place \in {"publish", "sent", "recover", "settle", "postflight",
             "checkpointed", "validated", "revalidated"}
    => FastForward(baseline, source)

(* What is on its way stays forward without its client.                    *)
RequestsAreForward == \A r \in flight : FastForward(r.from, r.to)

(* Where in a run something may have been repeated, and in which mode.     *)
RepetitionsArePlaced ==
  /\ place = "recover" => retries = 1 /\ repeats = 0
  /\ place \in {"source", "preflight", "recover", "settle", "track"}
       => mode = "exact"
  /\ place = "captured" => mode = "tracked"

IInv == /\ TypeOK /\ PairIsForward /\ RequestsAreForward
        /\ RepetitionsArePlaced /\ RetriesAreCounted

(* The initial states satisfy the inductive invariant. *)
LEMMA InitIInv == Init => IInv
<1>1. Init => TypeOK
  <2> SUFFICES ASSUME Init PROVE TypeOK
    OBVIOUS
  <2>1. /\ clean \in BOOLEAN /\ tracked \in BOOLEAN
        /\ establish \in BOOLEAN /\ calm \in BOOLEAN
    BY Zenon DEF Init
  <2>2. /\ remote \in [Destinations -> Branch] /\ head \in Commits
        /\ target \in Destinations /\ dest \in Destinations
        /\ source \in Commits /\ baseline \in Branch
    BY DEF Init, Branch
  <2>3. /\ place \in Places /\ mode \in Modes
        /\ retries \in Nat /\ repeats \in Nat /\ outcome \in Outcomes
    BY DEF Init, Places, Modes, Outcomes
  <2>4. /\ flight \subseteq Requests /\ awaited \in Slots \cup {None}
        /\ verdict \in {"none", "accepted", "refused"}
    BY DEF Init
  <2> QED
    BY <2>1, <2>2, <2>3, <2>4 DEF TypeOK
<1>2. Init => /\ PairIsForward /\ RequestsAreForward
              /\ RepetitionsArePlaced /\ RetriesAreCounted
  BY DEF Init, PairIsForward, RequestsAreForward, RepetitionsArePlaced,
    RetriesAreCounted
<1> QED
  BY <1>1, <1>2 DEF IInv

(* A step that leaves requests and the branch alone keeps the facts about  *)
(* them; what is left is what it writes.                                   *)
LEMMA CommandsKeepIInv ==
  ASSUME IInv,
         StartExact \/ PinSource \/ Preflight \/ Recover \/ Settle
           \/ Postflight \/ Track \/ LocalFails \/ ReadFails
  PROVE  IInv'
<1> USE DEF IInv, TypeOK, Branch, Modes, Places, Outcomes, PairIsForward,
      RequestsAreForward, RepetitionsArePlaced, RetriesAreCounted, wire, clone,
      frozen, End, Go
<1>1. CASE StartExact
  BY <1>1 DEF StartExact
<1>2. CASE PinSource
  BY <1>2 DEF PinSource
<1>3. CASE Preflight
  BY <1>3, AncestryIsOrder DEF Preflight, FastForward, AncestorOf
<1>4. CASE Recover
  BY <1>4 DEF Recover
<1>5. CASE Settle
  BY <1>5 DEF Settle
<1>6. CASE Postflight
  BY <1>6 DEF Postflight
<1>7. CASE Track
  BY <1>7 DEF Track
<1>8. CASE LocalFails
  BY <1>8 DEF LocalFails
<1>9. CASE ReadFails
  BY <1>9 DEF ReadFails
<1> QED
  BY <1>1, <1>2, <1>3, <1>4, <1>5, <1>6, <1>7, <1>8, <1>9

(* The steps of a checkpointed run up to its push, and the clone's user.   *)
LEMMA CheckpointKeepsIInv ==
  ASSUME IInv,
         \/ CaptureBaseline \/ TrackedStep \/ Crash
         \/ UserCommits \/ UserMoves \/ CalmsDown
  PROVE  IInv'
<1> USE DEF IInv, TypeOK, Branch, Modes, Places, Outcomes, PairIsForward,
      RequestsAreForward, RepetitionsArePlaced, RetriesAreCounted, wire, clone,
      frozen, End, Go
<1>1. CASE CaptureBaseline
  <2>1. TypeOK'
    BY <1>1 DEF CaptureBaseline
  <2> QED
    BY <1>1, <2>1 DEF CaptureBaseline
<1>2. CASE CaptureHead
  BY <1>2 DEF CaptureHead, FastForward
<1>3. CASE Validate
  BY <1>3 DEF Validate
<1>4. CASE RevalidateClone
  BY <1>4 DEF RevalidateClone
<1>5. CASE RevalidateRemote
  BY <1>5 DEF RevalidateRemote
<1>6. CASE Crash
  BY <1>6 DEF Crash
<1>7. CASE UserCommits
  BY <1>7 DEF UserCommits
<1>8. CASE UserMoves
  BY <1>8 DEF UserMoves
<1>9. CASE CalmsDown
  BY <1>9 DEF CalmsDown
<1> QED
  BY <1>1, <1>2, <1>3, <1>4, <1>5, <1>6, <1>7, <1>8, <1>9 DEF TrackedStep

(* A failed publication, whatever failed.                                  *)
LEMMA FailingKeepsIInv ==
  ASSUME IInv, NEW permanent \in BOOLEAN, PublicationFails(permanent),
         flight' = flight, place \in {"publish", "sent"}
  PROVE  IInv'
BY DEF IInv, TypeOK, Branch, Modes, Places, Outcomes, PairIsForward,
  RequestsAreForward, RepetitionsArePlaced, RetriesAreCounted, clone, frozen,
  End, Go, PublicationFails

(* The client's side of a push: it sends forward pairs only.               *)
LEMMA PublishingKeepsIInv ==
  ASSUME IInv, ConnectFails \/ UpToDate \/ LeaseIsStale \/ Send \/ Answered
               \/ Refused \/ AnswerLost
  PROVE  IInv'
<1>1. CASE UpToDate \/ Answered
  BY <1>1 DEF UpToDate, Answered, IInv, TypeOK, Branch, Modes, Places,
    Outcomes, PairIsForward, RequestsAreForward, RepetitionsArePlaced,
    RetriesAreCounted, clone, frozen, wire, Go
<1>2. CASE Send
  <2>1. PICK n \in Slots :
          /\ awaited' = n
          /\ flight' = flight \cup {[slot |-> n, dest |-> dest,
                                     from |-> baseline, to |-> source]}
    BY <1>2 DEF Send
  <2>2. TypeOK'
    BY <1>2, <2>1 DEF Send, IInv, TypeOK, Branch, Modes, Places, Outcomes,
      Requests, clone, frozen, Go
  <2>3. RequestsAreForward'
    <3>1. FastForward(baseline, source)
      BY <1>2 DEF Send, IInv, PairIsForward
    <3>2. ASSUME NEW r \in flight' PROVE FastForward(r.from, r.to)
      BY <2>1, <3>1, <3>2 DEF IInv, RequestsAreForward
    <3> QED
      BY <3>2 DEF RequestsAreForward, FastForward, AncestorOf
  <2>4. PairIsForward' /\ RepetitionsArePlaced' /\ RetriesAreCounted'
    BY <1>2 DEF Send, IInv, PairIsForward, RepetitionsArePlaced,
      RetriesAreCounted, clone, frozen, Go
  <2> QED
    BY <2>2, <2>3, <2>4 DEF IInv
<1>3. CASE ConnectFails \/ LeaseIsStale \/ Refused \/ AnswerLost
  BY <1>3, FailingKeepsIInv
    DEF ConnectFails, LeaseIsStale, Refused, AnswerLost
<1> QED
  BY <1>1, <1>2, <1>3

(* Servers and other clones move branches within Branch.                   *)
LEMMA RemotesKeepIInv ==
  ASSUME IInv, ServerDecides \/ ServerRefuses \/ OthersPush \/ OthersRewrite
  PROVE  IInv'
<1> USE DEF IInv, PairIsForward, RequestsAreForward, RepetitionsArePlaced,
      RetriesAreCounted, clone, frozen, wire
<1>1. CASE OthersPush \/ OthersRewrite
  BY <1>1 DEF OthersPush, OthersRewrite, TypeOK, Branch
<1>2. ASSUME NEW r \in flight, NEW accepted \in BOOLEAN, Decide(r, accepted)
      PROVE  IInv'
  <2>1. r.dest \in Destinations /\ r.to \in Branch /\ flight' \subseteq flight
    BY <1>2 DEF TypeOK, Requests, Decide, Branch
  <2>2. TypeOK'
    BY <1>2, <2>1 DEF TypeOK, Decide
  <2> QED
    BY <1>2, <2>1, <2>2 DEF Decide
<1> QED
  BY <1>1, <1>2 DEF ServerDecides, ServerRefuses

(* Every step keeps the invariant.                                         *)
LEMMA NextKeepsIInv == IInv /\ [Next]_vars => IInv'
<1> SUFFICES ASSUME IInv, [Next]_vars PROVE IInv'
  OBVIOUS
<1>1. CASE UNCHANGED vars
  BY <1>1 DEF vars, IInv, TypeOK, PairIsForward, RequestsAreForward,
    RepetitionsArePlaced, RetriesAreCounted, clone, frozen, wire
<1>2. CASE Next
  BY <1>2, CommandsKeepIInv, CheckpointKeepsIInv, PublishingKeepsIInv,
    RemotesKeepIInv
    DEF Next, RunStep, ExactStep, PublishStep, Trouble, World
<1> QED
  BY <1>1, <1>2

(* The inductive invariant of publication.                                 *)
THEOREM Invariance == Spec => []IInv
BY InitIInv, NextKeepsIInv, PTL DEF Spec

(* Every variable keeps its type.                                          *)
THEOREM TypeCorrect == Spec => []TypeOK
BY Invariance, PTL DEF IInv

(* A run repeats at most one remote command and reports it.                *)
THEOREM RepetitionsAreCounted == Spec => []RetriesAreCounted
BY Invariance, PTL DEF IInv

(* Requests of this program only move branches forward.                    *)
THEOREM NoCommitIsDropped == Spec => BranchMovesForward
<1> DEFINE Moves == flight' # flight =>
              \A d \in Destinations :
                remote'[d] = remote[d] \/ FastForward(remote[d], remote'[d])
<1>1. IInv /\ [Next]_vars => [Moves]_vars
  <2> SUFFICES ASSUME IInv, [Next]_vars, flight' # flight,
                      NEW d \in Destinations
               PROVE  remote'[d] = remote[d]
                        \/ FastForward(remote[d], remote'[d])
    OBVIOUS
  <2>1. CASE \E r \in flight : Decide(r, remote[r.dest] = r.from)
    BY <2>1 DEF Decide, IInv, RequestsAreForward, TypeOK, Requests
  <2>2. CASE remote' = remote
    BY <2>2
  <2>3. CASE ~ServerDecides
    BY <2>2, <2>3 DEF vars, wire, Next, RunStep, ExactStep, PublishStep,
      TrackedStep, Trouble, World, StartExact, CaptureBaseline, PinSource,
      Preflight, Recover, Settle, Track, CaptureHead, Validate,
      RevalidateClone, RevalidateRemote, UpToDate, LeaseIsStale, Send,
      Answered, Refused, Postflight, LocalFails, ReadFails, ConnectFails,
      AnswerLost, ServerRefuses, Decide, Crash, UserCommits, UserMoves,
      OthersPush, OthersRewrite, CalmsDown, PublicationFails
  <2> QED
    BY <2>1, <2>3 DEF ServerDecides
<1> QED
  BY <1>1, Invariance, PTL DEF Spec, BranchMovesForward

(* A branch that contains a commit still does after a move forward.        *)
LEMMA ContainedStays ==
  ASSUME NEW old \in Branch, NEW new \in Commits, NEW c \in Commits,
         Contains(old, c), FastForward(old, new)
  PROVE  Contains(new, c)
BY AncestryIsOrder, NoneIsNoCommit DEF Contains, FastForward, AncestorOf, Branch

(* While nobody rewrites, every move of a branch is forward.               *)
LEMMA BranchesMoveForward ==
  ASSUME IInv, "rewrite" \notin Faults, NEW d \in Destinations,
         ServerDecides \/ ServerRefuses \/ OthersPush \/ OthersRewrite
  PROVE  \/ remote'[d] = remote[d]
         \/ remote'[d] \in Commits /\ FastForward(remote[d], remote'[d])
<1>1. CASE OthersPush
  BY <1>1 DEF OthersPush, IInv, TypeOK
<1>2. CASE ServerDecides
  BY <1>2 DEF ServerDecides, Decide, IInv, RequestsAreForward, TypeOK, Requests
<1>3. CASE ServerRefuses \/ OthersRewrite
  BY <1>3 DEF ServerRefuses, Decide, OthersRewrite, May
<1> QED
  BY <1>1, <1>2, <1>3

(* Every step keeps what was published.                                    *)
LEMMA NextKeepsPublished ==
  IInv /\ PublishedStaysPublished /\ [Next]_vars => PublishedStaysPublished'
<1> SUFFICES ASSUME IInv, PublishedStaysPublished, [Next]_vars,
                    "rewrite" \notin Faults,
                    place' = "track"
                      \/ (place' = "idle" /\ outcome' = "published")
             PROVE  Contains(remote'[dest'], source')
  BY DEF PublishedStaysPublished, Contains, AncestorOf
<1> USE DEF IInv, TypeOK
<1>1. CASE ServerDecides \/ ServerRefuses \/ OthersPush \/ OthersRewrite
  <2>1. /\ place' = place /\ outcome' = outcome
        /\ dest' = dest /\ source' = source
    BY <1>1 DEF ServerDecides, ServerRefuses, OthersPush, OthersRewrite, Decide,
      frozen
  <2>2. Contains(remote[dest], source)
    BY <2>1 DEF PublishedStaysPublished
  <2>3. remote[dest] \in Branch
    OBVIOUS
  <2> QED
    BY <1>1, <2>1, <2>2, <2>3, BranchesMoveForward, ContainedStays
<1>2. CASE Postflight \/ RevalidateRemote
  BY <1>2, AncestryIsOrder, NoneIsNoCommit
    DEF Postflight, RevalidateRemote, End, Go, frozen, Contains, AncestorOf
<1>3. CASE UserCommits \/ UserMoves \/ CalmsDown \/ Track \/ UNCHANGED vars
  BY <1>3 DEF UserCommits, UserMoves, CalmsDown, Track, vars, frozen, End,
    PublishedStaysPublished
<1>4. CASE \/ StartExact \/ CaptureBaseline \/ PinSource \/ Preflight
           \/ Recover \/ Settle \/ CaptureHead \/ Validate
           \/ RevalidateClone
  BY <1>4 DEF StartExact, CaptureBaseline, PinSource, Preflight, Recover,
    Settle, CaptureHead, Validate, RevalidateClone, End, Go
<1>5. CASE \/ UpToDate \/ LeaseIsStale \/ Send \/ Answered \/ Refused
           \/ LocalFails \/ ReadFails \/ ConnectFails \/ AnswerLost \/ Crash
  BY <1>5 DEF UpToDate, LeaseIsStale, Send, Answered, Refused, LocalFails,
    ReadFails, ConnectFails, AnswerLost, Crash, PublicationFails, End, Go
<1> QED
  BY <1>1, <1>2, <1>3, <1>4, <1>5 DEF Next, RunStep, ExactStep, TrackedStep,
    PublishStep, Trouble, World

(* While nobody rewrites the branch, a published commit stays on it.       *)
THEOREM PublicationIsKept == Spec => []PublishedStaysPublished
<1>1. Init => PublishedStaysPublished
  BY DEF Init, PublishedStaysPublished
<1> QED
  BY <1>1, Invariance, NextKeepsPublished, PTL DEF Spec

-----------------------------------------------------------------------------
(* That a run ends, but for fairness.                                      *)

(* How far each command is from the end of a run, and with a repetition    *)
(* to come.                                                                *)
Stage ==
  [captured |-> 12, checkpointed |-> 11, validated |-> 10, revalidated |-> 9,
   source |-> 9, preflight |-> 8, recover |-> 7, publish |-> 6, sent |-> 5,
   settle |-> 4, postflight |-> 3, track |-> 2, idle |-> 0]

Left == Stage[place] + 4 * (1 - retries)

(* Whatever fails, gets lost or changes at the destination, a run only     *)
(* comes nearer to its end: the branches of runPush that publish again,    *)
(* look at the destination or read it once more form no cycle.             *)
RunsOnlyGoOn ==
  [][place # "idle" /\ ~Crash
       => Left' < Left \/ UNCHANGED <<place, retries>>]_vars

(* The commands of a run: each one that is not the end brings it nearer.   *)
LEMMA CommandsGoOn ==
  ASSUME IInv, place # "idle",
         \/ RunStep \/ LocalFails \/ ReadFails \/ ConnectFails \/ AnswerLost
  PROVE  Left' < Left
<1> USE DEF IInv, RepetitionsArePlaced, RetriesAreCounted, Left, Stage, End, Go
<1>1. /\ retries \in {0, 1} /\ place \in Places
      /\ mode = "tracked" => retries = 0
  BY DEF TypeOK, Modes
<1>2. CASE PinSource \/ Preflight \/ Settle \/ Track
  BY <1>1, <1>2 DEF PinSource, Preflight, Settle, Track, Places
<1>3. CASE Recover
  BY <1>1, <1>3 DEF Recover
<1>4. CASE TrackedStep
  BY <1>1, <1>4 DEF TrackedStep, CaptureHead, Validate, RevalidateClone,
    RevalidateRemote
<1>5. ASSUME NEW permanent \in BOOLEAN, PublicationFails(permanent),
             place \in {"publish", "sent"}
      PROVE  Left' < Left
  BY <1>1, <1>5 DEF PublicationFails
<1>6. CASE LeaseIsStale \/ ConnectFails \/ Refused \/ AnswerLost
  BY <1>5, <1>6 DEF LeaseIsStale, ConnectFails, Refused, AnswerLost
<1>7. CASE UpToDate \/ Send \/ Answered \/ Postflight
  BY <1>1, <1>7 DEF UpToDate, Send, Answered, Postflight, frozen
<1>8. CASE LocalFails \/ ReadFails
  BY <1>1, <1>8 DEF LocalFails, ReadFails, frozen
<1> QED
  BY <1>2, <1>3, <1>4, <1>6, <1>7, <1>8 DEF RunStep, ExactStep, PublishStep

(* A run takes a bounded number of commands.                               *)
THEOREM RunsOnlyGoOnHolds == Spec => RunsOnlyGoOn
<1> DEFINE GoesOn == place # "idle" /\ ~Crash
              => Left' < Left \/ UNCHANGED <<place, retries>>
<1>1. IInv /\ [Next]_vars => [GoesOn]_vars
  <2> SUFFICES ASSUME IInv, Next, place # "idle", ~Crash
               PROVE  Left' < Left \/ UNCHANGED <<place, retries>>
    OBVIOUS
  <2>1. CASE World \/ ServerDecides \/ ServerRefuses
    BY <2>1 DEF World, UserCommits, UserMoves, OthersPush, OthersRewrite,
      CalmsDown, ServerDecides, ServerRefuses, Decide
  <2>2. ~StartExact /\ ~CaptureBaseline
    BY DEF StartExact, CaptureBaseline
  <2> QED
    BY <2>1, <2>2, CommandsGoOn DEF Next, Trouble
<1> QED
  BY <1>1, Invariance, PTL DEF Spec, RunsOnlyGoOn

(* A run that waits for an answer has asked for one: its request is before *)
(* a server or decided.  A run that is elsewhere waits for none, and none  *)
(* that comes late is taken for the answer of a later request.             *)
ServersAreAsked ==
  /\ place = "sent" => verdict # "none" \/ \E r \in flight : r.slot = awaited
  /\ place # "sent" => awaited = None /\ verdict = "none"

(* Every step keeps it. *)
LEMMA NextKeepsAsked == IInv /\ ServersAreAsked /\ [Next]_vars => ServersAreAsked'
<1> SUFFICES ASSUME IInv, ServersAreAsked, [Next]_vars PROVE ServersAreAsked'
  OBVIOUS
<1> USE DEF ServersAreAsked, wire, End, Go
<1>1. CASE ServerDecides \/ ServerRefuses
  <2>1. PICK r \in flight, accepted \in BOOLEAN : Decide(r, accepted)
    BY <1>1 DEF ServerDecides, ServerRefuses
  <2>2. CASE awaited = r.slot
    <3>1. place = "sent"
      BY <2>2, NoneIsNoCommit DEF IInv, TypeOK, Requests
    <3> QED
      BY <2>1, <2>2, <3>1 DEF Decide
  <2>3. CASE awaited # r.slot
    BY <2>1, <2>3 DEF Decide
  <2> QED
    BY <2>2, <2>3
<1>2. CASE World \/ UNCHANGED vars
  BY <1>2 DEF World, UserCommits, UserMoves, OthersPush, OthersRewrite,
      CalmsDown, vars
<1>3. CASE Send
  <2>1. PICK n \in Slots :
          /\ awaited' = n
          /\ flight' = flight \cup {[slot |-> n, dest |-> dest,
                                     from |-> baseline, to |-> source]}
    BY <1>3 DEF Send
  <2> DEFINE request == [slot |-> n, dest |-> dest, from |-> baseline,
                         to |-> source]
  <2>2. request \in flight' /\ request.slot = awaited'
    BY <2>1
  <2>3. place' = "sent"
    BY <1>3 DEF Send
  <2> HIDE DEF request
  <2> QED
    BY <2>2, <2>3
<1>4. CASE LeaseIsStale \/ ConnectFails \/ Refused \/ AnswerLost
  BY <1>4 DEF LeaseIsStale, ConnectFails, Refused, AnswerLost, PublicationFails
<1>5. CASE Answered \/ Crash
  BY <1>5 DEF Answered, Crash
<1>6. CASE UpToDate \/ Postflight \/ LocalFails \/ ReadFails
  BY <1>6 DEF UpToDate, Postflight, LocalFails, ReadFails
<1>7. CASE StartExact \/ CaptureBaseline \/ ExactStep \/ TrackedStep
  BY <1>7 DEF StartExact, CaptureBaseline, ExactStep, TrackedStep, PinSource,
    Preflight, Recover, Settle, Track, CaptureHead, Validate, RevalidateClone,
    RevalidateRemote
<1> QED
  BY <1>1, <1>2, <1>3, <1>4, <1>5, <1>6, <1>7
     DEF Next, RunStep, PublishStep, Trouble

(* Nobody waits for an answer that cannot come, and answers that come too  *)
(* late for a run that failed or died belong to nobody.                    *)
THEOREM ServersAreAskedHolds == Spec => []ServersAreAsked
<1>1. Init => ServersAreAsked
  BY DEF Init, ServersAreAsked
<1> QED
  BY <1>1, Invariance, NextKeepsAsked, PTL DEF Spec
=============================================================================
