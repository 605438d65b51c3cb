---------------------------- MODULE AccessPromise ----------------------------
(***************************************************************************)
(* What the panel promises its administrator about user access: every     *)
(* request takes effect in the records, in the file and in the running     *)
(* server together, or in none of them.  One that answers success has      *)
(* taken effect, and so has one that answers that the user or the          *)
(* artifacts to answer with could not be read.  One that answers any other *)
(* failure has not, with two exceptions in which the three agree all the   *)
(* same: a user whose record is gone but not everything kept about it, and *)
(* a failed delete that leaves its user disabled.                          *)
(***************************************************************************)
EXTENDS ManagedUsers

VARIABLES
  accounts,   \* the user records
  published,  \* the credentials in the server's configuration file
  served,     \* the credentials the running server accepts
  answer      \* the answer to the last request, or "pending"

promised == <<accounts, published, served, answer>>

Answers == {"ok", "failed", "unread"}

Asked ==
  /\ answer \in Answers
  /\ answer' = "pending"
  /\ UNCHANGED <<accounts, published, served>>

\* The request is answered, the record of one identifier becomes r, and the
\* file and the server follow.
Become(id, r, a) ==
  /\ answer = "pending"
  /\ answer' = a
  /\ accounts' = [accounts EXCEPT ![id] = r]
  /\ published' = ManagedAuth(accounts')
  /\ served' = ManagedAuth(accounts')

Created ==
  \E id \in UserIds \ Stored(accounts), n \in Names, w \in Passwords, 
     a \in {"ok", "unread"} :
    /\ NameFree(accounts, id, n)
    /\ Become(id, [name |-> n, pass |-> w, enabled |-> TRUE], a)

\* An update keeps the enabled flag and never takes another user's name.
Updated ==
  \E id \in Stored(accounts), n \in Names, w \in Passwords, a \in {"ok", "unread"} :
    /\ NameFree(accounts, id, n)
    /\ Become(id, [accounts[id] EXCEPT !.name = n, !.pass = w], a)

Switched ==
  \E id \in Stored(accounts) :
    Become(id, [accounts[id] EXCEPT !.enabled = ~@], "ok")

Removed ==
  \E id \in Stored(accounts), a \in {"ok", "failed"} : Become(id, NoUser, a)

\* Deleting has disabled and published, but the record could not be removed.
LeftDisabled ==
  \E id \in Enabled(accounts) :
    Become(id, [accounts[id] EXCEPT !.enabled = FALSE], "failed")

\* Saving or applying settings changes no user; a failure changes nothing.
Unchanged ==
  /\ answer = "pending"
  /\ answer' \in {"ok", "failed"}
  /\ UNCHANGED <<accounts, published, served>>

Init ==
  /\ accounts = [i \in UserIds |-> NoUser]
  /\ published = {Bootstrap}
  /\ served = {Bootstrap}
  /\ answer = "ok"

Next ==
  \/ Asked
  \/ Created
  \/ Updated
  \/ Switched
  \/ Removed
  \/ LeftDisabled
  \/ Unchanged

Spec == Init /\ [][Next]_promised
=============================================================================
