--------------------------- MODULE Correspondence ---------------------------
(***************************************************************************)
(* What the mail subsystem promises about a letter, whatever the network   *)
(* and the desktop process do.  A letter is revised freely until the user  *)
(* commits it; from then on its text is fixed and it reaches its recipient *)
(* at most once, from the account it was committed for; it may be revised  *)
(* again only if it is certain that it has not arrived and never will.     *)
(***************************************************************************)
EXTENDS Naturals

CONSTANTS
  Drafts,       \* letters
  Accounts,     \* accounts to send from
  MaxRevision   \* bound on the revisions of a letter

VARIABLES
  text,       \* text[d]: the current revision
  committed,  \* committed[d]: the accounts the letter is committed for, one at most
  arrived     \* arrived[d]: <<account, revision>> of what the recipient got

letters == <<text, committed, arrived>>

Init ==
  /\ text      = [d \in Drafts |-> 1]
  /\ committed = [d \in Drafts |-> {}]
  /\ arrived   = [d \in Drafts |-> {}]

Revise(d) ==
  /\ committed[d] = {} /\ text[d] < MaxRevision
  /\ text' = [text EXCEPT ![d] = @ + 1]
  /\ UNCHANGED <<committed, arrived>>

Commit(d, a) ==
  /\ committed[d] = {}
  /\ committed' = [committed EXCEPT ![d] = {a}]
  /\ UNCHANGED <<text, arrived>>

Arrive(d, a) ==
  /\ committed[d] = {a} /\ arrived[d] = {}
  /\ arrived' = [arrived EXCEPT ![d] = {<<a, text[d]>>}]
  /\ UNCHANGED <<text, committed>>

Release(d) ==
  /\ arrived[d] = {}
  /\ committed' = [committed EXCEPT ![d] = {}]
  /\ UNCHANGED <<text, arrived>>

Next ==
  \E d \in Drafts :
    \/ Revise(d)
    \/ Release(d)
    \/ \E a \in Accounts : Commit(d, a) \/ Arrive(d, a)

Spec == Init /\ [][Next]_letters
=============================================================================
