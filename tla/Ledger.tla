-------------------------------- MODULE Ledger --------------------------------
(***************************************************************************)
(* What faculty and administrators are promised of marks: they are entered *)
(* once, by one person, and from then on change only by corrections, each  *)
(* of which is kept and names marks that were once in force.  No request,  *)
(* transaction or lock is to be seen.                                      *)
(***************************************************************************)
EXTENDS Naturals, Sequences

CONSTANTS Key, Faculty, Admins, Marks, None

VARIABLES
  row,    \* the marks in force, and who entered them
  trail   \* the corrections of a key, oldest first

Init ==
  /\ row = [k \in Key |-> None]
  /\ trail = [k \in Key |-> <<>>]

\* The marks that are or were in force.
Had(k) ==
  {IF trail[k] = <<>> THEN row[k].marks ELSE trail[k][1].old}
    \cup {trail[k][n].new : n \in 1..Len(trail[k])}

Enter(k, f, m) ==
  /\ row[k] = None
  /\ row' = [row EXCEPT ![k] = [by |-> f, marks |-> m]]
  /\ UNCHANGED trail

Correct(k, a, o, m) ==
  /\ row[k] # None
  /\ o \in Had(k)
  /\ row' = [row EXCEPT ![k].marks = m]
  /\ trail' = [trail EXCEPT ![k] = Append(@, [old |-> o, new |-> m, by |-> a])]

Next ==
  \E k \in Key, m \in Marks :
    \/ \E f \in Faculty : Enter(k, f, m)
    \/ \E a \in Admins, o \in Marks : Correct(k, a, o, m)

Spec == Init /\ [][Next]_<<row, trail>>

=============================================================================
