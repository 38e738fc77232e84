------------------------------ MODULE Guardrails ------------------------------
(***************************************************************************)
(* The three doors to the database and the one rulebook they apply (D2.6):   *)
(* the interceptor of the gateway, which remembers its verdicts, the          *)
(* toolkit's `run`, which the user may force, and the checker of the SDK,      *)
(* which may be told to warn only.  Tables are tracked and untracked           *)
(* meanwhile: the toolkit asks the database at every run, the interceptor      *)
(* knows what it was last told, a checker what it was made with.  The gateway  *)
(* and the SDK read SQL as PostgreSQL, the toolkit names no dialect, so that   *)
(* one rulebook does not make one verdict of a script the two read apart.      *)
(***************************************************************************)
EXTENDS Rulebook, FiniteSets

CONSTANTS
  Tables,                   \* what can be tracked
  Named, Literals,          \* tables and literals statements are made of
  Scripts, Actors,          \* what is asked of the database, and by whom
  Environment,              \* CTRLZ_ENVIRONMENT
  Rulebooks,                \* ctrlz.policy.yaml, in one installation or another
  MaxCache                  \* verdicts the interceptor remembers: 2048

ASSUME ConstantsOK ==
  /\ MaxCache \in Nat
  /\ Scripts \subseteq Script(Named, Literals)

VARIABLES
  policy,   \* the rulebook all doors have loaded
  tracked,  \* the tables with capture triggers
  gate,     \* the interceptor: the tables it knows of, its cache
  run,      \* the toolkit's run in progress
  said      \* what this step answered or put on record: a history variable

vars == <<policy, tracked, gate, run, said>>

Context(tables, actor) == [tracked |-> tables, environment |-> Environment, actor |-> actor]

Verdict(script, dialect, actor, tables) ==
  EvaluateScript(policy, script, dialect, Context(tables, actor))

\* The interceptor's and a checker's dialect, and the toolkit's.
Strictly == "postgres"
Loosely  == "unnamed"

\* An answer is about a script, an actor and the tables the door has in mind.
Nothing == [kind |-> "nothing"]
Said(kind, script, actor, tables, what) ==
  [kind |-> kind, script |-> script, actor |-> actor, tables |-> tables, what |-> what]

NoRun == [pc |-> "idle"]

-----------------------------------------------------------------------------
(* The interceptor.                                                          *)

\* Mutant of SetTracked: the cache outlives the tables it was filled under.
SetTrackedKeeping ==
  /\ \E T \in SUBSET Tables : gate' = [gate EXCEPT !.tracked = T]
  /\ said' = Nothing
  /\ UNCHANGED <<policy, tracked, run>>

SetTracked ==
  /\ \E T \in SUBSET Tables :
       gate' = IF T = gate.tracked THEN gate ELSE [tracked |-> T, cache |-> {}]
  /\ said' = Nothing
  /\ UNCHANGED <<policy, tracked, run>>

Cached(script, actor) ==
  {e \in gate.cache : e.key = Fingerprint(script) /\ e.actor = actor}

Remembered(script, actor, decision) ==
  IF Cached(script, actor) = {} /\ Cardinality(gate.cache) < MaxCache
  THEN gate.cache \cup {[key |-> Fingerprint(script), actor |-> actor, decision |-> decision]}
  ELSE gate.cache

\* A hit answers with what is remembered, a miss with a fresh verdict.
Recalled(script, actor) ==
  IF Cached(script, actor) = {} THEN Verdict(script, Strictly, actor, gate.tracked)
  ELSE (CHOOSE e \in Cached(script, actor) : TRUE).decision

Inspect ==
  /\ \E script \in Scripts, actor \in Actors :
       LET decision == Recalled(script, actor)
       IN  /\ gate' = [gate EXCEPT !.cache = Remembered(script, actor, decision)]
           /\ said' = Said(IF Blocked(decision) THEN "refuse" ELSE "pass",
                           script, actor, gate.tracked, decision)
  /\ UNCHANGED <<policy, tracked, run>>

\* Whatever goes wrong while judging, the statement is forwarded.
FailOpen ==
  /\ said' = Nothing
  /\ UNCHANGED <<policy, tracked, gate, run>>

-----------------------------------------------------------------------------
(* Toolkit.run, in two steps: the verdict, and the transaction it runs in.    *)

RunJudge ==
  /\ run.pc = "idle"
  /\ \E script \in Scripts, actor \in Actors, force \in BOOLEAN :
       LET decision == Verdict(script, Loosely, actor, tracked)
           refused  == Blocked(decision) /\ ~force
       IN  /\ said' = Said(IF refused THEN "refuse"
                           ELSE IF Blocked(decision) THEN "override" ELSE "pass",
                           script, actor, tracked, decision)
           /\ run' = IF refused THEN NoRun
                     ELSE [pc |-> "judged", script |-> script, actor |-> actor,
                           tables |-> tracked, force |-> force, decision |-> decision]
  /\ UNCHANGED <<policy, tracked, gate>>

\* A statement that ran despite a block was forced.
PolicyOutcome ==
  IF Blocked(run.decision) /\ run.force THEN "forced" ELSE run.decision.outcome

\* The transaction commits.  What it changed in tables tracked by now, if it
\* changed anything there, is on record.
RunExecute ==
  /\ run.pc = "judged"
  /\ \/ said' = Nothing
     \/ /\ tracked # {}
        /\ said' = Said("record", run.script, run.actor, run.tables,
                        [outcome |-> PolicyOutcome, risk |-> run.decision.risk])
  /\ run' = NoRun
  /\ UNCHANGED <<policy, tracked, gate>>

\* A dry run, a refused confirmation or an error leaves nothing behind.
RunRollback ==
  /\ run.pc = "judged"
  /\ run' = NoRun
  /\ said' = Nothing
  /\ UNCHANGED <<policy, tracked, gate>>

Track ==
  /\ \E T \in SUBSET Tables : tracked' = T
  /\ said' = Nothing
  /\ UNCHANGED <<policy, gate, run>>

-----------------------------------------------------------------------------

\* PolicyChecker.check, of any checker: its tables never change.
Check ==
  /\ \E script \in Scripts, actor \in Actors, T \in SUBSET Tables, warnOnly \in BOOLEAN :
       LET decision == Verdict(script, Strictly, actor, T)
       IN  said' = Said(IF ~Blocked(decision) THEN "pass"
                        ELSE IF warnOnly THEN "override" ELSE "refuse",
                        script, actor, T, decision)
  /\ UNCHANGED <<policy, tracked, gate, run>>

-----------------------------------------------------------------------------

Init ==
  /\ policy \in {Parsed(raw) : raw \in {r \in Rulebooks : IsSound(r)}}
  /\ tracked \in SUBSET Tables
  /\ \E T \in SUBSET Tables : gate = [tracked |-> T, cache |-> {}]
  /\ run = NoRun
  /\ said = Nothing

Next ==
  \/ SetTracked \/ Inspect \/ FailOpen
  \/ RunJudge \/ RunExecute \/ RunRollback \/ Track
  \/ Check

Spec == Init /\ [][Next]_vars

-----------------------------------------------------------------------------
(* What the guardrails promise.                                              *)

\* The scan of the text took the literals for what the analysis finds them to
\* be: it missed no two that are said equal and swallowed no clause.
Discerned(script) ==
  /\ script.scan # "swallowed"
  /\ \A i \in DOMAIN script.read[Strictly] :
        script.read[Strictly][i].where = "literals" => ComparesTwoLiterals(script)

Remembers(S) ==
  \A e \in gate.cache, script \in S :
     Fingerprint(script) = e.key =>
        e.decision = Verdict(script, Strictly, e.actor, gate.tracked)

\* interceptor.py:115-130 answers any statement with a cached fingerprint from
\* the cache, across set_tracked: what is remembered is the verdict on every
\* such script whose literals the scan tells from its text, by the tables the
\* interceptor knows of now.
CacheIsFresh == Remembers({script \in Scripts : Discerned(script)})

\* fingerprint.py:25-36 and tests/test_fingerprint.py:3 promise it of all
\* statements.  It fails: WHERE 1 /**/ = 1 and WHERE 1 /**/ = 2 share a key.
CacheServesAll == Remembers(Scripts)

\* An operation says it was forced if and only if the rulebook blocked it when
\* it was judged, and else what the rulebook said, even if by the time it runs
\* other tables are tracked (api.py:285-291).
ForcedIsOnRecord ==
  said.kind = "record" =>
    LET verdict == Verdict(said.script, Loosely, said.actor, said.tables)
    IN  said.what = [outcome |-> IF Blocked(verdict) THEN "forced" ELSE verdict.outcome,
                     risk    |-> verdict.risk]
=============================================================================
