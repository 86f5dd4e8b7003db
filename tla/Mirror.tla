---- MODULE Mirror ----
(***************************************************************************)
(* What the presenter server promises a shell, with nothing of handshakes, *)
(* deltas, queues and goroutines: from the moment it is subscribed to the  *)
(* feed, whole states of the feed travel to the shell in order, the state  *)
(* of that moment first, until the connection is cut.  A cut shell is sent *)
(* nothing more: it never goes on with a state left out.                   *)
(***************************************************************************)
EXTENDS Feed, Sequences

VARIABLES
    ahead,      \* per shell: the states on their way to it
    held,       \* per shell: the state it has
    cut         \* per shell: not yet, or no longer, connected to the feed

mirrorVars == <<feedVars, ahead, held, cut>>

MirrorInit ==
    /\ FeedInit
    /\ ahead = [c \in Readers |-> <<>>]
    /\ held = [c \in Readers |-> Nothing]
    /\ cut = [c \in Readers |-> TRUE]

\* Shell c, which is cut, has nothing and nothing is on its way.
CutOff(c) ==
    /\ cut' = [cut EXCEPT ![c] = TRUE]
    /\ ahead' = [ahead EXCEPT ![c] = <<>>]
    /\ held' = [held EXCEPT ![c] = Nothing]

\* An event goes to the subscribed shell, or ends its subscription.
Forward ==
    /\ Event
    /\ IF reader = Nobody \/ cut[reader] THEN UNCHANGED <<ahead, held, cut>>
       ELSE \/ /\ reader' = reader
               /\ ahead' = [ahead EXCEPT ![reader] = Append(@, State(number', content'))]
               /\ UNCHANGED <<held, cut>>
            \/ /\ reader' = Nobody
               /\ CutOff(reader)

\* A shell is subscribed, unless it left before that.
Join ==
    /\ Subscribe
    /\ \/ /\ cut[reader']
          /\ cut' = [cut EXCEPT ![reader'] = FALSE]
          /\ ahead' = [ahead EXCEPT ![reader'] = <<State(number, content)>>]
          /\ UNCHANGED held
       \/ UNCHANGED <<ahead, held, cut>>

\* The next state arrives.
Arrive(c) ==
    /\ ahead[c] # <<>>
    /\ held' = [held EXCEPT ![c] = Head(ahead[c])]
    /\ ahead' = [ahead EXCEPT ![c] = Tail(@)]
    /\ UNCHANGED <<feedVars, cut>>

\* The shell leaves, fails or is replaced; its subscription may outlast it.
Part(c) == CutOff(c) /\ (Unsubscribe \/ UNCHANGED feedVars)

MirrorNext ==
    \/ Forward \/ Join
    \/ Unsubscribe /\ UNCHANGED <<ahead, held, cut>>
    \/ \E c \in Readers : Arrive(c) \/ Part(c)

MirrorSpec == MirrorInit /\ [][MirrorNext]_mirrorVars

====
