----------------------------- MODULE MCGuardrails -----------------------------
(* Small instances of Guardrails for TLC, and the laws of the rulebook.        *)
EXTENDS Guardrails, SequencesExt

\* Three tables, of which two have the same bare name.
Users == [schema |-> "public", name |-> "users"]
Audit == [schema |-> "audit", name |-> "users"]
Orders == [schema |-> "public", name |-> "orders"]

Asked(verb, table, where, left, right, confidence) ==
  [verb |-> verb, writes |-> {table}, reads |-> {}, where |-> where,
   left |-> left, right |-> right, confidence |-> confidence]

\* UPDATE with literals that agree and that do not, with a column, with nothing.
Always  == Asked("UPDATE", Users, "literals", 1, 1, 90)
Never   == Asked("UPDATE", Users, "literals", 1, 2, 90)
True    == Asked("UPDATE", Users, "true", 0, 0, 90)
ByKey   == Asked("UPDATE", Users, "other", 1, 1, 90)
ByOther == Asked("UPDATE", Users, "other", 2, 2, 90)
Every   == Asked("UPDATE", Users, "none", 0, 0, 90)
All     == Asked("DELETE", Orders, "none", 0, 0, 90)
Unsure  == Asked("DELETE", Orders, "none", 0, 0, Textual)
Alike   == Asked("DELETE", Audit, "literals", 2, 2, Textual)
Dropped == Asked("DROP", Orders, "none", 0, 0, 90)
Emptied == Asked("TRUNCATE", Users, "none", 0, 0, 90)
Reads   == [Asked("SELECT", Users, "none", 0, 0, 90) EXCEPT !.writes = {}, !.reads = {Users}]

Statements ==
  {Always, Never, True, ByKey, ByOther, Every, All, Unsure, Alike, Dropped, Emptied, Reads}

\* A script both dialects read alike, and one only PostgreSQL's can parse.
Plain(statements, scan) == [read |-> [d \in Dialects |-> statements], scan |-> scan]
Foreign ==
  [read |-> [d \in Dialects |-> IF d = Strictly THEN <<All>> ELSE <<Unsure>>], scan |-> "apart"]

UsersOnly   == {Users}
AllTables   == {Users, Audit, Orders}
\* WHERE 1 = 1 and WHERE 1 = 2 with a comment in between; a pair of which only
\* the values differ, and the script the doors read apart.
SomeScripts ==
  {Plain(<<Always>>, "apart"), Plain(<<Never>>, "apart"),
   Plain(<<ByKey>>, "apart"), Plain(<<ByOther>>, "apart"), Foreign}

-----------------------------------------------------------------------------
(* Rulebooks: the one ctrlz ships, one of a team's own, one with a typo.       *)

Rule(name, when, action, risk) == [name |-> name, when |-> when, action |-> action, risk |-> risk]

Defaults ==
  [version |-> 1,
   defaults |-> [risk_threshold |-> 70, block_on_risk |-> FALSE],
   rules |-> <<
     Rule("unfiltered-write", [unfiltered |-> {TRUE}, min_confidence |-> 60], "block", 90),
     Rule("unfiltered-write-unverified", [unfiltered |-> {TRUE}, max_confidence |-> 59], "warn", 70),
     Rule("tautology-filter", [filter_is_tautology |-> {TRUE}, kind |-> {"write"}], "warn", 60),
     Rule("truncate", [statement |-> {"TRUNCATE"}], "block", 85),
     Rule("destructive-ddl", [statement |-> {"DROP", "ALTER"}], "warn", 70),
     Rule("untracked-table", [writes_untracked |-> {TRUE}], "warn", 50),
     Rule("unreadable-write", [kind |-> {"write"}, max_confidence |-> 40], "warn", 30)>>]

Strict ==
  [defaults |-> [risk_threshold |-> 60, block_on_risk |-> TRUE],
   rules |-> <<
     [name |-> "interns", scope |-> [actors |-> {"intern"}], action |-> "block", risk |-> 10,
      when |-> [tables |-> {Users}, writes_untracked |-> {TRUE}]],
     Rule("tautology-filter", [filter_is_tautology |-> {TRUE}], "warn", 60),
     [name |-> "watch-orders", when |-> [tables |-> {Orders}]]>>]

Mistyped ==
  [rules |-> <<Rule("unfiltered-write", [unfilterd |-> {TRUE}], "block", 90)>>]

SomeRulebooks == {Defaults, Strict, Mistyped}

-----------------------------------------------------------------------------
(* The laws, on all scripts of up to two statements.                           *)

Runs     == {<<s>> : s \in Statements} \cup {<<s, t>> : s, t \in Statements}
Short    == {Plain(r, "apart") : r \in Runs}
Policies == {Parsed(raw) : raw \in {r \in SomeRulebooks : IsSound(r)}}
Contexts == {Context(T, actor) : T \in SUBSET AllTables, actor \in {"dba", "intern"}}
Judged(p, s, c) == EvaluateScript(p, s, Strictly, c)

\* The shipped rulebook loads, and a rule with a typo is refused, not ignored.
ASSUME IsSound(Defaults) /\ IsSound(Strict) /\ ~IsSound(Mistyped)

\* A script is as dangerous as its most dangerous statement: it is blocked if
\* one of them is, its risk is the highest, and it warns of what each warns of.
ASSUME
  \A p \in Policies, c \in Contexts, r \in Runs :
     LET whole   == Judged(p, Plain(r, "apart"), c)
         part(i) == Judged(p, Plain(<<r[i]>>, "apart"), c)
     IN  /\ Blocked(whole) <=> \E i \in DOMAIN r : Blocked(part(i))
         /\ \A i \in DOMAIN r : part(i).risk <= whole.risk /\ part(i).matched \subseteq whole.matched
         /\ \E i \in DOMAIN r : part(i).risk = whole.risk

\* A verdict other than "allow", and a risk, point at a rule that matched: the
\* one whose action or whose risk it is.
ASSUME
  \A p \in Policies, c \in Contexts, s \in Short :
     LET d == Judged(p, s, c)
     IN  /\ d.outcome # "allow" =>
              /\ d.decided \in d.matched
              /\ \/ p.rules[d.decided].action = d.outcome
                 \/ p.blockOnRisk /\ p.rules[d.decided].risk >= p.threshold
         /\ d.risk > 0 => d.scored \in d.matched /\ p.rules[d.scored].risk = d.risk

\* Scripts with one fingerprint are judged alike if the scan tells the literals
\* of one, whoever asks, in any tables; of two statements at most.
ASSUME
  LET texts == {Plain(r, k) : r \in Runs, k \in {"compared", "apart", "swallowed"}}
      key   == [s \in texts |-> Fingerprint(s)]
  IN  \A s \in {s \in texts : Discerned(s)} : \A t \in {t \in texts : key[t] = key[s]} :
        \A p \in Policies, c \in Contexts : Judged(p, s, c) = Judged(p, t, c)

\* Where it does not, they are not, by the rulebook ctrlz ships: with a comment
\* between, and of SET x = '\' WHERE ... = '' and SET x = '\', y = ''.
ASSUME
  LET differ(s, t) == /\ Fingerprint(s) = Fingerprint(t)
                      /\ \E c \in Contexts : Judged(Parsed(Defaults), s, c) # Judged(Parsed(Defaults), t, c)
  IN  /\ differ(Plain(<<Always>>, "apart"), Plain(<<Never>>, "apart"))
      /\ differ(Plain(<<ByKey>>, "swallowed"), Plain(<<Every>>, "swallowed"))

\* Nor do the doors agree on a script that only PostgreSQL's grammar parses.
ASSUME
  \E c \in Contexts : EvaluateScript(Parsed(Defaults), Foreign, Strictly, c)
                       # EvaluateScript(Parsed(Defaults), Foreign, Loosely, c)

\* The reading of a whole script alarms whenever that of a statement does.
ASSUME
  \A r \in Runs :
     LET whole == MergedAnalysis(AnalyzeScript(r))
     IN  \A i \in DOMAIN r :
           LET a == Analyze(r[i])
           IN  /\ Unfiltered(a) => ~whole.hasFilter
               /\ a.tautology => whole.tautology
               /\ whole.confidence <= a.confidence
               /\ a.kind = "write" => whole.kind = "write"
=============================================================================
