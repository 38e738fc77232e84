------------------------------ MODULE ChangeFeed ------------------------------
(***************************************************************************)
(* What every engine promises whoever follows its change log: the contract *)
(* of Engine.changes_since, operations_undone_since and purge.  Tables,    *)
(* triggers and transactions are hidden; what shows is what commits.       *)
(***************************************************************************)
EXTENDS Integers

CONSTANTS
  Ops,     \* operation ids
  Serial   \* whether writers commit one at a time, so that numbers come in order

VARIABLES
  log,     \* the captured changes that can be read
  undone,  \* the operations that have been undone
  used     \* the sequence numbers ever assigned

feed == <<log, undone, used>>

\* A writer of operation o commits the changes new, numbered from the fresh
\* numbers spent, and marks operations undone.  An undone operation is closed.
Publish(o, new, marks, spent) ==
  /\ o \notin undone \cup marks
  /\ marks \cap undone = {}
  /\ spent \cap used = {}
  /\ Serial => \A n \in spent, u \in used : u < n
  /\ \A e \in new : e.op = o /\ e.seq \in spent
  /\ \A e, f \in new : e.seq = f.seq => e = f
  /\ log' = log \cup new
  /\ undone' = undone \cup marks
  /\ used' = used \cup spent

\* Mutant of Forget: numbers are taken from the changes that are left.
ForgetNumbers(gone) ==
  /\ log' = {e \in log : e.op \notin gone}
  /\ undone' = undone \ gone
  /\ used' = {n \in used : \E e \in log : e.op \notin gone /\ n <= e.seq}

\* Retention removes operations with their changes; no number comes back.
Forget(gone) ==
  /\ log' = {e \in log : e.op \notin gone}
  /\ undone' = undone \ gone
  /\ used' = used

FeedInit == log = {} /\ undone = {} /\ used = {}

FeedNext ==
  \/ \E o \in Ops : Publish(o, log' \ log, undone' \ undone, used' \ used)
  \/ \E gone \in SUBSET Ops : Forget(gone)

FeedSpec == FeedInit /\ [][FeedNext]_feed
=============================================================================
