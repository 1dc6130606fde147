------------------------------ MODULE PostBox ------------------------------
(***************************************************************************)
(* What the wake queue promises those who post: a batch is posted whole or *)
(* not at all, and every request of it is handed to a cycle exactly once.  *)
(* Rows, keys, merging, locks, retries and failures do not appear.         *)
(***************************************************************************)
CONSTANTS Senders,
          Letters(_),   \* what a sender posts, at once
          Left          \* what lies in the box from before

VARIABLES box,          \* posted and not handed out
          sent,         \* senders that have posted
          handed        \* handed to a cycle

bvars == <<box, sent, handed>>

Init == box = Left /\ sent = {} /\ handed = {}

Send(s) == /\ s \notin sent
           /\ box' = box \cup Letters(s) /\ sent' = sent \cup {s}
           /\ UNCHANGED handed

\* A cycle is handed some of what waits.
Hand == \E L \in (SUBSET box) \ {{}} :
            /\ box' = box \ L /\ handed' = handed \cup L
            /\ UNCHANGED sent

Next == (\E s \in Senders : Send(s)) \/ Hand

Spec == Init /\ [][Next]_bvars

=============================================================================
