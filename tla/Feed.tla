---- MODULE Feed ----
(***************************************************************************)
(* What the state owner promises whoever subscribes to it, with nothing of *)
(* how it keeps its items or what it sends: a published set of items that  *)
(* changes by one item at a time, each change numbered, and one reader     *)
(* whose copy is always the published set of this moment.                  *)
(***************************************************************************)
EXTENDS Naturals

CONSTANTS Readers, Nobody

VARIABLES
    content,    \* the published items, each with the key it goes by
    number,     \* how many events there were
    reader,     \* who is subscribed, or Nobody
    copy        \* what the reader holds

feedVars == <<content, number, reader, copy>>

State(n, S) == [sequence |-> n, items |-> S]

Nothing == State(0, {})

\* S and T differ in the item of one key.
OneChange(S, T) ==
    \E k \in {e.key : e \in S \cup T} : {e \in S : e.key # k} = {e \in T : e.key # k}

\* No address appears under two generations.
Unambiguous(S) == \A e, f \in S : e.key.addr = f.key.addr => e = f

FeedInit == content = {} /\ number = 0 /\ reader = Nobody /\ copy = Nothing

\* Something is published (a menu leaves the items as they are); the reader
\* has it at once, or is no longer subscribed.
Event ==
    /\ number' = number + 1
    /\ content' = content \/ OneChange(content, content')
    /\ Unambiguous(content')
    /\ \/ reader # Nobody /\ reader' = reader /\ copy' = State(number', content')
       \/ reader' = Nobody /\ copy' = Nothing

Subscribe ==
    /\ reader' \in Readers
    /\ copy' = State(number, content)
    /\ UNCHANGED <<content, number>>

Unsubscribe ==
    /\ reader' = Nobody /\ copy' = Nothing
    /\ UNCHANGED <<content, number>>

FeedNext == Event \/ Subscribe \/ Unsubscribe

FeedSpec == FeedInit /\ [][FeedNext]_feedVars

====
