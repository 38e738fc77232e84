--------------------------- MODULE GuardrailsProofs ---------------------------
(***************************************************************************)
(* What the doors remember and put on record: for any rulebooks, tables,      *)
(* actors, scripts and any size of the interceptor's cache.                   *)
(***************************************************************************)
EXTENDS Guardrails, TLAPS

(* A fingerprint keeps what the analysis finds, but for the literals and a   *)
(* clause the scan takes for part of a string.                                *)
LEMMA KeyKeeps ==
  ASSUME NEW s \in Scripts, NEW t \in Scripts, Fingerprint(s) = Fingerprint(t), NEW d \in Dialects,
         s.scan = "apart" \/ t.scan = "apart"
  PROVE  /\ s.scan = "apart" /\ t.scan = "apart"
         /\ DOMAIN s.read[d] = DOMAIN t.read[d]
         /\ \A i \in DOMAIN s.read[d] :
              /\ s.read[d][i].verb = t.read[d][i].verb
              /\ s.read[d][i].writes = t.read[d][i].writes
              /\ s.read[d][i].reads = t.read[d][i].reads
              /\ s.read[d][i].where = t.read[d][i].where
              /\ s.read[d][i].confidence = t.read[d][i].confidence
<1> DEFINE Key(u) == [e \in Dialects |-> [i \in DOMAIN u.read[e] |-> Blanked(u.read[e][i], u.scan)]]
<1>1. ASSUME NEW u \in Scripts
      PROVE  /\ u = [read |-> u.read, scan |-> u.scan]
             /\ u.read[d] \in Seq(Statement(Named, Literals))
             /\ Fingerprint(u) = [read |-> IF u.scan = "compared" THEN u.read ELSE Key(u),
                                  scan |-> u.scan]
  <2>1. u \in Script(Named, Literals)
    BY ConstantsOK
  <2>2. u = [read |-> u.read, scan |-> u.scan] /\ u.read[d] \in Seq(Statement(Named, Literals))
    BY <2>1 DEF Script
  <2> QED
    BY <2>1, <2>2 DEF Script, Fingerprint, ComparesTwoLiterals
<1>2. s.scan = "apart" /\ t.scan = "apart"
  <2>1. Fingerprint(s).scan = s.scan /\ Fingerprint(t).scan = t.scan
    BY <1>1
  <2> QED
    BY <2>1
<1>3. Key(s)[d] = Key(t)[d]
  <2> HIDE DEF Key
  <2>1. Fingerprint(s).read = Key(s)
    BY <1>1, <1>2
  <2>2. Fingerprint(t).read = Key(t)
    BY <1>1, <1>2
  <2> QED
    BY <2>1, <2>2
<1>4. DOMAIN s.read[d] = DOMAIN t.read[d]
  <2>1. DOMAIN Key(s)[d] = DOMAIN s.read[d] /\ DOMAIN Key(t)[d] = DOMAIN t.read[d]
    OBVIOUS
  <2> QED
    BY <1>3, <2>1
<1>5. ASSUME NEW u \in Scripts, u.scan = "apart", NEW i \in DOMAIN u.read[d]
      PROVE  /\ Key(u)[d][i].verb = u.read[d][i].verb
             /\ Key(u)[d][i].writes = u.read[d][i].writes
             /\ Key(u)[d][i].reads = u.read[d][i].reads
             /\ Key(u)[d][i].where = u.read[d][i].where
             /\ Key(u)[d][i].confidence = u.read[d][i].confidence
  <2>1. u.read[d][i] \in Statement(Named, Literals)
    BY <1>1, <1>5
  <2>2. Key(u)[d][i] = Blanked(u.read[d][i], "apart")
    BY <1>5
  <2> QED
    BY <2>1, <2>2 DEF Statement, Blanked
<1>6. ASSUME NEW i \in DOMAIN s.read[d]
      PROVE  /\ s.read[d][i].verb = t.read[d][i].verb
             /\ s.read[d][i].writes = t.read[d][i].writes
             /\ s.read[d][i].reads = t.read[d][i].reads
             /\ s.read[d][i].where = t.read[d][i].where
             /\ s.read[d][i].confidence = t.read[d][i].confidence
  <2> HIDE DEF Key
  <2> QED
    BY <1>2, <1>3, <1>4, <1>5
<1> QED
  BY <1>2, <1>4, <1>6

(* If the scan tells the literals of one, scripts with one fingerprint differ *)
(* in nothing an analysis looks at: what is blanked is compared with no other *)
(* literal.                                                                   *)
LEMMA FingerprintIsEnough ==
  ASSUME NEW s \in Scripts, NEW t \in Scripts, Fingerprint(s) = Fingerprint(t), Discerned(t)
  PROVE  Discerned(s) /\ AnalyzeScript(s.read[Strictly]) = AnalyzeScript(t.read[Strictly])
<1>1. Strictly \in Dialects
  BY DEF Strictly, Dialects
<1>2. ASSUME NEW u \in Scripts
      PROVE  u.scan \in {"compared", "apart", "swallowed"} /\ Fingerprint(u).scan = u.scan
  <2>1. u \in Script(Named, Literals)
    BY ConstantsOK
  <2> QED
    BY <2>1 DEF Script, Fingerprint
<1>3. CASE t.scan = "compared"
  <2>1. s.scan = "compared"
    BY <1>2, <1>3
  <2>2. s = t
    BY <1>3, <2>1 DEF Fingerprint, ComparesTwoLiterals
  <2> QED
    BY <2>2
<1>4. CASE t.scan = "apart"
  <2>1. /\ s.scan = "apart"
        /\ DOMAIN s.read[Strictly] = DOMAIN t.read[Strictly]
        /\ \A i \in DOMAIN s.read[Strictly] :
              /\ s.read[Strictly][i].verb = t.read[Strictly][i].verb
              /\ s.read[Strictly][i].writes = t.read[Strictly][i].writes
              /\ s.read[Strictly][i].reads = t.read[Strictly][i].reads
              /\ s.read[Strictly][i].where = t.read[Strictly][i].where
              /\ s.read[Strictly][i].confidence = t.read[Strictly][i].confidence
    BY <1>1, <1>4, KeyKeeps
  <2>2. \A i \in DOMAIN t.read[Strictly] : t.read[Strictly][i].where # "literals"
    BY <1>4 DEF Discerned, ComparesTwoLiterals
  <2>3. Discerned(s)
    BY <2>1, <2>2 DEF Discerned
  <2>4. ASSUME NEW i \in DOMAIN s.read[Strictly]
        PROVE  Analyze(s.read[Strictly][i]) = Analyze(t.read[Strictly][i])
    BY <2>1, <2>2 DEF Analyze, HasFilter, IsTautology
  <2> QED
    BY <2>1, <2>3, <2>4 DEF AnalyzeScript
<1> QED
  BY <1>2, <1>3, <1>4 DEF Discerned

LEMMA SameVerdict ==
  ASSUME NEW s \in Scripts, NEW t \in Scripts, Fingerprint(s) = Fingerprint(t), Discerned(t),
         NEW actor, NEW T
  PROVE  Discerned(s) /\ Verdict(s, Strictly, actor, T) = Verdict(t, Strictly, actor, T)
BY FingerprintIsEnough DEF Verdict, EvaluateScript

-----------------------------------------------------------------------------

RunIsJudged ==
  run.pc = "judged" =>
    /\ run.decision = Verdict(run.script, Loosely, run.actor, run.tables)
    /\ Blocked(run.decision) => run.force

IInv == CacheIsFresh /\ RunIsJudged /\ ForcedIsOnRecord

LEMMA Initially == ASSUME Init PROVE IInv
BY DEF Init, IInv, CacheIsFresh, Remembers, RunIsJudged, ForcedIsOnRecord, NoRun, Nothing

\* A script the scan tells is answered with its own verdict, remembered or not.
LEMMA RecalledIsRight ==
  ASSUME CacheIsFresh, NEW script \in Scripts, Discerned(script), NEW actor
  PROVE  Recalled(script, actor) = Verdict(script, Strictly, actor, gate.tracked)
<1>1. CASE Cached(script, actor) = {}
  BY <1>1 DEF Recalled
<1>2. CASE Cached(script, actor) # {}
  <2> DEFINE e == CHOOSE e \in Cached(script, actor) : TRUE
  <2>1. e \in gate.cache /\ e.key = Fingerprint(script) /\ e.actor = actor
    BY <1>2 DEF Cached
  <2> QED
    BY <1>2, <2>1 DEF Recalled, CacheIsFresh, Remembers
<1> QED
  BY <1>1, <1>2

\* A step keeps the verdicts, and with them what does not change.
LEMMA SamePolicy ==
  ASSUME [Next]_vars
  PROVE  /\ policy' = policy
         /\ \A s, d, actor, T : Verdict(s, d, actor, T)' = Verdict(s, d, actor, T)
BY DEF Next, vars, SetTracked, Inspect, FailOpen, RunJudge, RunExecute, RunRollback, Track, Check,
       Verdict, Context
LEMMA CacheStaysFresh ==
  ASSUME CacheIsFresh, [Next]_vars PROVE CacheIsFresh'
<1> USE SamePolicy
<1>1. CASE SetTracked
  <2>1. PICK T \in SUBSET Tables :
          gate' = IF T = gate.tracked THEN gate ELSE [tracked |-> T, cache |-> {}]
    BY <1>1 DEF SetTracked
  <2> QED
    BY <2>1 DEF CacheIsFresh, Remembers
<1>2. CASE Inspect
  <2>1. PICK script \in Scripts, actor \in Actors :
          gate' = [gate EXCEPT !.cache = Remembered(script, actor, Recalled(script, actor))]
    BY <1>2 DEF Inspect
  <2>2. SUFFICES ASSUME NEW e \in gate'.cache, NEW t \in Scripts, Discerned(t),
                        Fingerprint(t) = e.key
                 PROVE  e.decision = Verdict(t, Strictly, e.actor, gate'.tracked)
    BY DEF CacheIsFresh, Remembers
  <2>3. gate'.tracked = gate.tracked
    BY <2>1
  <2>4. CASE e \in gate.cache
    BY <2>2, <2>3, <2>4 DEF CacheIsFresh, Remembers
  <2>5. CASE e \notin gate.cache
    <3>1. e = [key |-> Fingerprint(script), actor |-> actor,
               decision |-> Recalled(script, actor)]
      BY <2>1, <2>2, <2>5 DEF Remembered
    <3>2. /\ Discerned(script)
          /\ Verdict(script, Strictly, actor, gate.tracked) = Verdict(t, Strictly, actor, gate.tracked)
      BY <2>2, <3>1, SameVerdict
    <3>3. Recalled(script, actor) = Verdict(script, Strictly, actor, gate.tracked)
      BY <3>2, RecalledIsRight
    <3> QED
      BY <2>3, <3>1, <3>2, <3>3
  <2> QED
    BY <2>4, <2>5
<1>3. CASE UNCHANGED gate
  BY <1>3 DEF CacheIsFresh, Remembers
<1> QED
  BY <1>1, <1>2, <1>3
     DEF Next, vars, FailOpen, RunJudge, RunExecute, RunRollback, Track, Check

LEMMA RunStaysJudged ==
  ASSUME RunIsJudged, [Next]_vars PROVE RunIsJudged'
<1> USE SamePolicy
<1>1. CASE RunJudge
  BY <1>1 DEF RunJudge, RunIsJudged, NoRun
<1>2. CASE run' = NoRun
  BY <1>2 DEF RunIsJudged, NoRun
<1>3. CASE UNCHANGED run
  BY <1>3 DEF RunIsJudged
<1> QED
  BY <1>1, <1>2, <1>3
     DEF Next, vars, SetTracked, Inspect, FailOpen, RunExecute, RunRollback, Track, Check

LEMMA RecordsTheTruth ==
  ASSUME RunIsJudged, ForcedIsOnRecord, [Next]_vars PROVE ForcedIsOnRecord'
<1> USE SamePolicy
<1>1. CASE said' = Nothing
  BY <1>1 DEF ForcedIsOnRecord, Nothing
<1>2. CASE Inspect \/ RunJudge \/ Check
  BY <1>2 DEF Inspect, RunJudge, Check, Said, ForcedIsOnRecord
<1>3. CASE RunExecute
  <2>1. CASE said' = Said("record", run.script, run.actor, run.tables,
                          [outcome |-> PolicyOutcome, risk |-> run.decision.risk])
    <3>1. /\ run.decision = Verdict(run.script, Loosely, run.actor, run.tables)
          /\ Blocked(run.decision) => run.force
      BY <1>3 DEF RunExecute, RunIsJudged
    <3> QED
      BY <2>1, <3>1 DEF Said, PolicyOutcome, ForcedIsOnRecord
  <2> QED
    BY <1>1, <1>3, <2>1 DEF RunExecute
<1>4. CASE UNCHANGED vars
  BY <1>4 DEF vars, ForcedIsOnRecord
<1> QED
  BY <1>1, <1>2, <1>3, <1>4 DEF Next, SetTracked, FailOpen, RunRollback, Track

LEMMA Inductive == Spec => []IInv
<1>1. Init => IInv
  BY Initially
<1>2. IInv /\ [Next]_vars => IInv'
  BY CacheStaysFresh, RunStaysJudged, RecordsTheTruth DEF IInv
<1> QED
  BY <1>1, <1>2, PTL DEF Spec

-----------------------------------------------------------------------------

\* What the interceptor remembers is what the rulebook says of every statement
\* that would be answered with it and whose literals the scan of its text tells
\* as the analysis does, across every change of the tracked tables.
THEOREM Fresh == Spec => []CacheIsFresh
BY Inductive, PTL DEF IInv

\* A run is recorded as forced exactly if the rulebook blocked it, whatever is
\* tracked by the time it executes.
THEOREM Forced == Spec => []ForcedIsOnRecord
BY Inductive, PTL DEF IInv
=============================================================================
