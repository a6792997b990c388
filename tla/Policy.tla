------------------------------- MODULE Policy -------------------------------
(***************************************************************************)
(* harness/policy.py: an ordered set of induced threshold rules, and       *)
(* agent/hybrid.py's reading of it.  A rule is [id, clauses, hypothesis,   *)
(* call, precision], a clause <<feature, op, value>>; a feature vector     *)
(* maps features to numbers.  RuleSet.load takes a file as it is: the      *)
(* validation of from_dicts is induction's.                                *)
(***************************************************************************)
EXTENDS Integers, Sequences

CONSTANT Unreliable      \* UNRELIABLE_FEATURES

Holds(f, clause) ==
    LET name == clause[1]
        value == clause[3]
    IN  /\ name \in DOMAIN f
        /\ CASE clause[2] = ">"  -> f[name] > value
             [] clause[2] = ">=" -> f[name] >= value
             [] clause[2] = "<"  -> f[name] < value
             [] clause[2] = "<=" -> f[name] <= value
             [] clause[2] = "==" -> f[name] = value
             [] clause[2] = "!=" -> f[name] # value
             [] OTHER -> FALSE

\* A rule without clauses matches anything.
Matches(rule, f) == \A n \in DOMAIN rule.clauses : Holds(f, rule.clauses[n])

Fires(rules, f) == {n \in DOMAIN rules : Matches(rules[n], f)}

\* First match wins; a sequence of one rule, or of none.
Suggest(rules, f) ==
    LET fired == Fires(rules, f)
    IN  IF fired = {} THEN << >>
        ELSE <<rules[CHOOSE n \in fired : \A m \in fired : n <= m]>>

Leans(rule) == \E n \in DOMAIN rule.clauses : rule.clauses[n][1] \in Unreliable

\* The precision induction reported is believed.
TrustSlip(rules, id) ==
    LET last == CHOOSE n \in DOMAIN rules :
                   /\ rules[n].id = id
                   /\ \A m \in DOMAIN rules : rules[m].id = id => m <= n
    IN  rules[last].precision

\* rule_prec: the precision kept under an id is that of the last rule of the
\* file with it, and nothing for a rule that leans on an unreliable feature.
Trust(rules, id) ==
    LET last == CHOOSE n \in DOMAIN rules :
                   /\ rules[n].id = id
                   /\ \A m \in DOMAIN rules : rules[m].id = id => m <= n
    IN  IF Leans(rules[last]) THEN 0 ELSE rules[last].precision

\* Sorted for the hybrid: most clauses first, else in file order.
Ahead(rules, n, m) ==
    \/ Len(rules[n].clauses) > Len(rules[m].clauses)
    \/ Len(rules[n].clauses) = Len(rules[m].clauses) /\ n <= m

\* The first match of the sorted file.
MostSpecific(rules, f) ==
    LET fired == Fires(rules, f)
    IN  IF fired = {} THEN << >>
        ELSE <<rules[CHOOSE n \in fired : \A m \in fired : Ahead(rules, n, m)]>>
=============================================================================
