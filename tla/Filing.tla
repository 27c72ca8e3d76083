-------------------------------- MODULE Filing --------------------------------
(***************************************************************************)
(* What a student's reports promise: a report is filed once, changed only  *)
(* while its window is open, and nobody is told of it twice.  The faculty  *)
(* mentor is told, if at all, before the industry mentor is invited.  No   *)
(* request, transaction or token is to be seen.                            *)
(***************************************************************************)
EXTENDS Integers

CONSTANTS Periods, Contents, Times, Window, None

VARIABLES
  filed,    \* the report of a period
  told,     \* mails that told the faculty mentor of it
  invited   \* review links of all reports

Init ==
  /\ filed = [p \in Periods |-> None]
  /\ told = [p \in Periods |-> 0]
  /\ invited = {}

Filed(p) == filed[p] # None
Invitations(p) == {l \in invited : l.report = p}

File(p) ==
  /\ ~ Filed(p)
  /\ \E c \in Contents, t \in Times :
       filed' = [filed EXCEPT ![p] = [content |-> c, submitted |-> t, edited |-> t]]
  /\ UNCHANGED <<told, invited>>

\* At a time t that is within the window, counted from the first submission.
Edit(p) ==
  /\ Filed(p)
  /\ \E c \in Contents, t \in Times :
       /\ t - filed[p].submitted \in 0..Window
       /\ filed' = [filed EXCEPT ![p].content = c, ![p].edited = t]
  /\ UNCHANGED <<told, invited>>

Tell(p) ==
  /\ Filed(p) /\ told[p] = 0 /\ Invitations(p) = {}
  /\ told' = [told EXCEPT ![p] = 1]
  /\ UNCHANGED <<filed, invited>>

Invite(p) ==
  /\ Filed(p) /\ Invitations(p) = {}
  /\ \E l \in invited' : l.report = p /\ invited' = invited \cup {l}
  /\ UNCHANGED <<filed, told>>

Next == \E p \in Periods : File(p) \/ Edit(p) \/ Tell(p) \/ Invite(p)

Spec == Init /\ [][Next]_<<filed, told, invited>>

=============================================================================
