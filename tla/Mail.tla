--------------------------------- MODULE Mail ---------------------------------
(***************************************************************************)
(* What callers of NotificationService are promised: a queued mail is      *)
(* delivered, possibly more than once, and it is settled only after that.  *)
(***************************************************************************)
EXTENDS Naturals

CONSTANTS
  Emails,
  MaxCopies    \* bound: copies of a mail beyond it are not told apart

VARIABLES
  box,         \* "none", "queued" or "settled" (never sent again)
  copies       \* copies its recipient has

Init ==
  /\ box = [e \in Emails |-> "none"]
  /\ copies = [e \in Emails |-> 0]

Queue(e) ==
  /\ box[e] = "none"
  /\ box' = [box EXCEPT ![e] = "queued"]
  /\ UNCHANGED copies

Deliver(e) ==
  /\ box[e] = "queued"
  /\ copies' = [copies EXCEPT ![e] = IF @ < MaxCopies THEN @ + 1 ELSE @]
  /\ UNCHANGED box

Settle(e) ==
  /\ box[e] = "queued"
  /\ copies[e] > 0
  /\ box' = [box EXCEPT ![e] = "settled"]
  /\ UNCHANGED copies

Next == \E e \in Emails : Queue(e) \/ Deliver(e) \/ Settle(e)

Spec == Init /\ [][Next]_<<box, copies>>

=============================================================================
