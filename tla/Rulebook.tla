------------------------------- MODULE Rulebook -------------------------------
(***************************************************************************)
(* How ctrlz judges a script: each statement is analysed, each rule of the  *)
(* rulebook is tried on it, the worst action and the highest risk stand, and *)
(* the verdicts of a script are merged by the same measure.  Pure functions;  *)
(* Guardrails is about the places that call them.                            *)
(*                                                                         *)
(* A script has two readers.  The analysis finds statements, which depend on  *)
(* the dialect it is told; a statement is abstracted to its verb, the tables  *)
(* it writes and reads, what its WHERE clause compares (literals are numbers) *)
(* and how well it could be read, in hundredths.  The gateway's fingerprint   *)
(* scans the text by itself and may see another comparison than the analysis. *)
(***************************************************************************)
EXTENDS Integers, Sequences

Verbs == {"SELECT", "INSERT", "UPDATE", "DELETE", "MERGE", "TRUNCATE", "CREATE", "ALTER", "DROP",
          "UNKNOWN"}

WriteStatements == {"INSERT", "UPDATE", "DELETE", "MERGE"}
DdlStatements   == {"CREATE", "ALTER", "DROP", "TRUNCATE"}
Filterable      == {"UPDATE", "DELETE"}

Textual == 50   \* the confidence of what was matched by pattern, not parsed

\* where: no clause, the constant TRUE, two literals said equal, anything else.
Statement(Tables, Literals) ==
  [verb : Verbs, writes : SUBSET Tables, reads : SUBSET Tables,
   where : {"none", "true", "literals", "other"}, left : Literals, right : Literals,
   confidence : {30, Textual, 60, 90, 100}]

\* Who names no dialect is read by a grammar of sqlglot's own.
Dialects == {"postgres", "unnamed"}

\* scan: two literals with at most an operator between them, none such, or a
\* WHERE clause inside what passes for a string (a backslash before its quote).
Script(Tables, Literals) ==
  [read : [Dialects -> Seq(Statement(Tables, Literals))],
   scan : {"compared", "apart", "swallowed"}]

-----------------------------------------------------------------------------
(* analysis: what a statement says.                                          *)

KindFor(verb) ==
  IF verb \in WriteStatements THEN "write" ELSE IF verb \in DdlStatements THEN "ddl"
  ELSE IF verb = "SELECT" THEN "read" ELSE "other"

\* The statement's own WHERE; there is none to speak of in the others.
HasFilter(t) == t.verb \in Filterable /\ t.where # "none"

\* A parser compares the literals of the statement's own clause; the pattern
\* knows WHERE 1 = 1 and WHERE true, wherever they stand in the text.
IsTautology(t) ==
  LET always == t.where = "true" \/ (t.where = "literals" /\ t.left = t.right)
  IN  IF t.confidence = Textual
      THEN always /\ (t.where = "literals" => t.left = 1)
      ELSE always /\ HasFilter(t)

Analyze(t) ==
  [statement  |-> t.verb,
   kind       |-> KindFor(t.verb),
   written    |-> t.writes,
   tables     |-> t.writes \cup t.reads,
   hasFilter  |-> HasFilter(t),
   tautology  |-> IsTautology(t),
   confidence |-> t.confidence]

Unfiltered(a) == a.statement \in Filterable /\ ~a.hasFilter

Least(N) == CHOOSE n \in N : \A m \in N : n <= m

\* The one reading of a script that reports show: that of the first write, or
\* else the first DDL, or else the first statement, made more alarming.
MergedAnalysis(as) ==
  LET lead(K)    == Least({i \in DOMAIN as : as[i].kind \in K})
      has(K)     == \E i \in DOMAIN as : as[i].kind \in K
      first      == as[IF has({"write"}) THEN lead({"write"})
                       ELSE IF has({"ddl"}) THEN lead({"ddl"}) ELSE 1]
      filterable == {i \in DOMAIN as : as[i].statement \in Filterable}
  IN  [statement  |-> first.statement,
       kind       |-> first.kind,
       written    |-> UNION {as[i].written : i \in DOMAIN as},
       tables     |-> UNION {as[i].tables : i \in DOMAIN as},
       hasFilter  |-> IF filterable = {} THEN first.hasFilter
                      ELSE \A i \in filterable : as[i].hasFilter,
       tautology  |-> \E i \in DOMAIN as : as[i].tautology,
       confidence |-> Least({as[i].confidence : i \in DOMAIN as})]

-----------------------------------------------------------------------------
(* policy.model: conditions, scopes and rules.  An empty set is no constraint. *)

Allows(constraint, value) == constraint = {} \/ value \in constraint

\* Tracked tables are compared by their bare names, and so are the patterns of
\* a rule, which name no schema here.
SameBareName(t, u) == t.name = u.name

WritesUntracked(a, context) ==
  /\ a.statement \in WriteStatements
  /\ \E t \in a.written : \A u \in context.tracked : ~SameBareName(t, u)

Matches(when, a, context) ==
  /\ Allows(when.statement, a.statement)
  /\ Allows(when.kind, a.kind)
  /\ Allows(when.hasFilter, a.hasFilter)
  /\ Allows(when.tautology, a.tautology)
  /\ Allows(when.unfiltered, Unfiltered(a))
  /\ when.tables = {} \/ \E t \in a.tables, u \in when.tables : SameBareName(t, u)
  /\ Allows(when.writesUntracked, WritesUntracked(a, context))
  /\ when.minConfidence <= a.confidence /\ a.confidence <= when.maxConfidence

Covers(rule, context) ==
  Allows(rule.environments, context.environment) /\ Allows(rule.actors, context.actor)

Applies(rule, a, context) == Covers(rule, context) /\ Matches(rule.when, a, context)

-----------------------------------------------------------------------------
(* policy.engine: the verdict.  Rules are named by their place; 0 is none.    *)

Severity(action) == CASE action = "allow" -> 0 [] action = "warn" -> 1 [] action = "block" -> 2

\* The first of the candidates with the greatest weight, if that is not zero.
FirstWorst(weight) ==
  LET worst == {n \in DOMAIN weight :
                  weight[n] > 0 /\ \A m \in DOMAIN weight : weight[m] <= weight[n]}
  IN  IF worst = {} THEN 0 ELSE Least(worst)

Evaluate(policy, a, context) ==
  LET matched   == {i \in DOMAIN policy.rules : Applies(policy.rules[i], a, context)}
      risk      == [i \in matched |-> policy.rules[i].risk]
      decided   == FirstWorst([i \in matched |-> Severity(policy.rules[i].action)])
      scored    == FirstWorst(risk)
      outcome   == IF decided = 0 THEN "allow" ELSE policy.rules[decided].action
      score     == IF scored = 0 THEN 0 ELSE risk[scored]
      onRisk    == policy.blockOnRisk /\ score >= policy.threshold /\ outcome # "block"
  IN  [outcome |-> IF onRisk THEN "block" ELSE outcome,
       risk    |-> score,
       matched |-> matched,
       decided |-> IF onRisk THEN scored ELSE decided,
       scored  |-> scored]

\* merge_decisions: the first statement with the worst outcome decides, the
\* first with the highest risk scores, and every rule that matched is named.
MergedDecisions(ds) ==
  LET worst    == FirstWorst([i \in DOMAIN ds |-> Severity(ds[i].outcome)])
      riskiest == FirstWorst([i \in DOMAIN ds |-> ds[i].risk])
  IN  [outcome |-> IF worst = 0 THEN "allow" ELSE ds[worst].outcome,
       risk    |-> IF riskiest = 0 THEN 0 ELSE ds[riskiest].risk,
       matched |-> UNION {ds[i].matched : i \in DOMAIN ds},
       decided |-> IF worst = 0 THEN 0 ELSE ds[worst].decided,
       scored  |-> IF riskiest = 0 THEN 0 ELSE ds[riskiest].scored]

\* The verdict on a script, from what its statements say.
Judge(policy, analyses, context) ==
  LET decisions == [i \in DOMAIN analyses |-> Evaluate(policy, analyses[i], context)]
  IN  IF DOMAIN analyses = {1} THEN decisions[1] ELSE MergedDecisions(decisions)

AnalyzeScript(statements) == [i \in DOMAIN statements |-> Analyze(statements[i])]

EvaluateScript(policy, script, dialect, context) ==
  Judge(policy, AnalyzeScript(script.read[dialect]), context)

Blocked(decision) == decision.outcome = "block"

\* The rules whose messages a refusal, and the warnings whose messages, quote.
Blockers(policy, d) == {i \in d.matched : policy.rules[i].action = "block"}
Warnings(policy, d) == {i \in d.matched : policy.rules[i].action = "warn"}

-----------------------------------------------------------------------------
(* policy.loader: what becomes of a rulebook as somebody wrote it.            *)

TopLevelKeys == {"version", "defaults", "rules"}
DefaultsKeys == {"risk_threshold", "block_on_risk"}
RuleKeys     == {"name", "when", "action", "risk", "message", "scope"}
ScopeKeys    == {"environments", "actors"}
ConditionFields == {"statement", "kind", "has_filter", "filter_is_tautology", "unfiltered", "tables",
                    "writes_untracked", "max_confidence", "min_confidence"}

\* A field that was left out has its default.  Values are of the right type.
Given(raw, field, default) == IF field \in DOMAIN raw THEN raw[field] ELSE default

ParsedRule(raw) ==
  LET when  == Given(raw, "when", <<>>)
      scope == Given(raw, "scope", <<>>)
  IN  [name |-> raw.name, action |-> Given(raw, "action", "warn"), risk |-> Given(raw, "risk", 0),
       environments |-> Given(scope, "environments", {}), actors |-> Given(scope, "actors", {}),
       when |-> [statement |-> Given(when, "statement", {}), kind |-> Given(when, "kind", {}),
                 hasFilter |-> Given(when, "has_filter", {}),
                 tautology |-> Given(when, "filter_is_tautology", {}),
                 unfiltered |-> Given(when, "unfiltered", {}),
                 tables |-> Given(when, "tables", {}),
                 writesUntracked |-> Given(when, "writes_untracked", {}),
                 minConfidence |-> Given(when, "min_confidence", 0),
                 maxConfidence |-> Given(when, "max_confidence", 100)]]

\* parse raises on anything else: a rule with a typo is no rule.
RuleIsSound(raw) ==
  /\ "name" \in DOMAIN raw /\ DOMAIN raw \subseteq RuleKeys
  /\ Given(raw, "action", "warn") \in {"allow", "warn", "block"}
  /\ Given(raw, "risk", 0) \in 0 .. 100
  /\ DOMAIN Given(raw, "when", <<>>) \subseteq ConditionFields
  /\ DOMAIN Given(raw, "scope", <<>>) \subseteq ScopeKeys

IsSound(raw) ==
  /\ DOMAIN raw \subseteq TopLevelKeys
  /\ Given(raw, "version", 1) = 1
  /\ DOMAIN Given(raw, "defaults", <<>>) \subseteq DefaultsKeys
  /\ LET rules == Given(raw, "rules", <<>>)
     IN  /\ \A i \in DOMAIN rules : RuleIsSound(rules[i])
         /\ \A i, j \in DOMAIN rules : rules[i].name = rules[j].name => i = j

Parsed(raw) ==
  LET defaults == Given(raw, "defaults", <<>>)
      rules    == Given(raw, "rules", <<>>)
  IN  [rules       |-> [i \in DOMAIN rules |-> ParsedRule(rules[i])],
       threshold   |-> Given(defaults, "risk_threshold", 70),
       blockOnRisk |-> Given(defaults, "block_on_risk", FALSE)]

-----------------------------------------------------------------------------
(* gateway.fingerprint: a key under which a verdict may be used again.        *)

Blank == 0

\* The text decides, and only the text: a comment or a leading point between a
\* literal and the operator hides the comparison from the scan.
ComparesTwoLiterals(script) == script.scan = "compared"

\* What is swallowed by a string is blanked with it.
Blanked(t, scan) ==
  [t EXCEPT !.left = Blank, !.right = Blank,
            !.where = IF scan = "swallowed" THEN "none" ELSE t.where]

Fingerprint(script) ==
  IF ComparesTwoLiterals(script) THEN script
  ELSE [script EXCEPT !.read = [d \in Dialects |->
         [i \in DOMAIN script.read[d] |-> Blanked(script.read[d][i], script.scan)]]]
=============================================================================
