---------------------------- MODULE ReviewLedger ----------------------------
(***************************************************************************)
(* What the handling of requests promises of one pull request, without     *)
(* transactions, locks, or the runs' progress: every event is answered     *)
(* once, and either adds one review or none; a review, once added, keeps   *)
(* its event, revision and number; the reviews of a revision are numbered  *)
(* from 1 without gaps, in the order in which they are added.              *)
(***************************************************************************)
EXTENDS Naturals, Sequences, FiniteSets

CONSTANTS Event, Revisions

VARIABLES
    answered,  \* the events that have been answered
    reviews    \* the reviews: event, head and attempt

vars == <<answered, reviews>>

ReviewsOf(head) == {r \in DOMAIN reviews : reviews[r].head = head}

Init == answered = {} /\ reviews = <<>>

\* The event is coalesced with an earlier review, asks for none, or is refused.
Answer(e) ==
    /\ e \notin answered
    /\ answered' = answered \cup {e}
    /\ UNCHANGED reviews

Review(e, head) ==
    /\ e \notin answered
    /\ answered' = answered \cup {e}
    /\ reviews' = Append(reviews,
                         [event |-> e, head |-> head,
                          attempt |-> Cardinality(ReviewsOf(head)) + 1])

Next ==
    \E e \in Event \cap (answered' \ answered) :
        Answer(e) \/ \E head \in Revisions : Review(e, head)

Spec == Init /\ [][Next]_vars
=============================================================================
