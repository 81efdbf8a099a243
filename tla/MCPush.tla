------------------------------- MODULE MCPush -------------------------------
EXTENDS Push, TLC

CONSTANTS base, mine, theirs

\* base <- mine, and theirs beside mine.
AllCommits == {base, mine, theirs}
AllAncestry == {<<c, c>> : c \in AllCommits} \cup {<<base, mine>>, <<base, theirs>>}

\* The same remote and branch names, whose URL the user replaces.
UrlOf == [d \in Destinations |-> d]
OneName == [d \in Destinations |-> base]

\* For runs without liveness.
DestinationsAndSlots == Permutations(Destinations) \cup Permutations(Slots)
=============================================================================
