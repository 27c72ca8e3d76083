------------------------------- MODULE Accounts -------------------------------
(***************************************************************************)
(* What people are promised of their accounts: an account is one person's  *)
(* for good, no two have one address or one Google account, whoever enters *)
(* does so by an account of their own, and with Google by the one Google   *)
(* is attached to.  No request, lookup or link is to be seen.              *)
(***************************************************************************)
CONSTANTS People, Names, Ids, None

VARIABLES
  account,  \* who can be reached where, and with Google or not
  entered   \* who has entered by which account, and how

Init ==
  /\ account = [u \in Ids |-> None]
  /\ entered = {}

Exists(u) == account[u] # None
Owner(u) == account[u].email[1]
Attached(u) == account[u].sub # None
Free(a) == \A u \in Ids : Exists(u) => account[u].email # a
Unattached(p) == \A u \in Ids : Exists(u) => account[u].sub # p

Open(u) ==
  /\ ~ Exists(u)
  /\ \E p \in People, n \in Names :
       /\ Free(<<p, n>>)
       /\ \E s \in {None, p} :
            /\ s = p => Unattached(p)
            /\ account' = [account EXCEPT ![u] = [email |-> <<p, n>>, sub |-> s]]

Attach(u) ==
  /\ Exists(u) /\ ~ Attached(u)
  /\ Unattached(Owner(u))
  /\ account' = [account EXCEPT ![u].sub = Owner(u)]

Move(u, n) ==
  /\ Exists(u)
  /\ Free(<<Owner(u), n>>)
  /\ account' = [account EXCEPT ![u].email = <<Owner(u), n>>]

\* With Google only by the account Google is attached to.
EnterBy(u, via) ==
  /\ Exists(u)
  /\ via = "google" => Attached(u)
  /\ entered' = entered \cup {[user |-> u, person |-> Owner(u), via |-> via]}

\* The row that changes.
Change(u) ==
  /\ account'[u] # account[u]
  /\ \/ Open(u)
     \/ Attach(u)
     \/ \E n \in Names : Move(u, n)

\* Entering for the first time that way, a person's address may be brought up
\* to date.
Enter(u) ==
  /\ \E via \in {"google", "verify"} : EnterBy(u, via)
  /\ UNCHANGED account \/ \E n \in Names : Move(u, n)

Next ==
  \/ UNCHANGED entered /\ \E u \in Ids : Change(u)
  \/ entered' # entered /\ \E u \in Ids : Enter(u)

Spec == Init /\ [][Next]_<<account, entered>>

=============================================================================
