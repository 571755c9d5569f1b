------------------------------ MODULE TaskLease ------------------------------
(***************************************************************************)
(* What the task binding subsystem promises its callers: a task has at     *)
(* most one holder, every grant of a task carries a term larger than all   *)
(* earlier ones, and work is committed only by the current holder, under   *)
(* the current term.  Nothing is said of files, of the lock or of crashes. *)
(***************************************************************************)
EXTENDS Naturals

CONSTANTS Sessions, Tasks, NoSession

VARIABLES
  holder,   \* holder[t]: the session that owns task t, or NoSession
  term,     \* term[t]: the ownership token of the latest grant of t
  landed    \* landed[t]: the term the latest commit to t was made under

leaseVars == <<holder, term, landed>>

LeaseInit ==
  /\ holder \in [Tasks -> Sessions \cup {NoSession}]
  /\ term = [t \in Tasks |-> 0]
  /\ landed = [t \in Tasks |-> 0]

\* The term of t, and of no other task, moves to a larger number.
NewTerm(t) ==
  /\ term'[t] \in Nat /\ term'[t] > term[t]
  /\ term' = [term EXCEPT ![t] = term'[t]]

Grant(t) ==
  /\ holder[t] = NoSession
  /\ \E s \in Sessions : holder' = [holder EXCEPT ![t] = s]
  /\ NewTerm(t)
  /\ UNCHANGED landed

\* A holder from before terms existed is given its first one.
Upgrade(t) ==
  /\ holder[t] # NoSession /\ term[t] = 0
  /\ NewTerm(t)
  /\ UNCHANGED <<holder, landed>>

Revoke(t) ==
  /\ holder[t] # NoSession
  /\ holder' = [holder EXCEPT ![t] = NoSession]
  /\ UNCHANGED <<term, landed>>

Commit(t) ==
  /\ holder[t] # NoSession /\ term[t] > 0
  /\ landed' = [landed EXCEPT ![t] = term[t]]
  /\ UNCHANGED <<holder, term>>

LeaseNext == \E t \in Tasks : Grant(t) \/ Upgrade(t) \/ Revoke(t) \/ Commit(t)

LeaseSpec == LeaseInit /\ [][LeaseNext]_leaseVars
=============================================================================
