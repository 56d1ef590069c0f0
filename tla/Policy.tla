--------------------------------- MODULE Policy ---------------------------------
(***************************************************************************)
(* The permission rules of policy/policy.go, as config/config.go reads     *)
(* them and as the gates of a session apply them.                          *)
(*                                                                         *)
(* A call is a tool and the path its input names, or NoPath.  A glob is    *)
(* the set of names it covers.  The globs of a rule map are numbered in    *)
(* byte order, the order in which the rules are listed.                    *)
(***************************************************************************)
EXTENDS Positions

CONSTANTS
    Tools,      \* the names of the registered tools
    Paths,      \* the paths a call may name
    NoPath,     \* stands for the path of a call that names none
    ToolGlobs,  \* ToolGlobs[k]: the tools the k-th tool glob covers
    PathGlobs   \* PathGlobs[k]: the paths the k-th path glob covers; the empty
                \* glob covers all of them, and a call that names none

ASSUME PolicyAssumption ==
    /\ NoPath \notin Paths
    /\ ToolGlobs \in Seq(SUBSET Tools)
    /\ PathGlobs \in Seq(SUBSET (Paths \cup {NoPath}))

Decisions == {"allow", "ask", "deny"}
Calls == [tool : Tools, path : Paths \cup {NoPath}]

\* What a JSON object of rules may be read as: a glob that several of its
\* objects name gets the decision of one of them, since a map has no order.
Readings(rules) ==
    {f \in [{r.key : r \in rules} -> {r.says : r \in rules}] :
        \A k \in DOMAIN f : [key |-> k, says |-> f[k]] \in rules}

\* A call without a path matches no path rule but that of the empty glob.
RuleMatches(rule, call) == call.tool \in rule.tools /\ call.path \in rule.paths

\* The positions of the rules that match.
Matching(rules, call) == {i \in DOMAIN rules.list : RuleMatches(rules.list[i], call)}

\* Mutant of Permit: the first rule that matches decides.
PermitFirst(rules, call) ==
    LET matching == Matching(rules, call)
    IN  IF matching = {} THEN rules.default ELSE rules.list[Min(matching)].says

\* The last rule that matches decides, and the default without one.
Permit(rules, call) ==
    LET matching == Matching(rules, call)
    IN  IF matching = {} THEN rules.default ELSE rules.list[Max(matching)].says

SortedKeys(map) == InOrder(DOMAIN map)

\* An unknown decision fails the whole table.
Unknown(toolRules, pathRules) ==
    \E m \in {toolRules, pathRules} : \E k \in DOMAIN m : m[k] \notin Decisions

\* Tool rules by key, then path rules by key.
NewRules(default, toolRules, pathRules) ==
    LET toolRule(k) == [tools |-> ToolGlobs[k], paths |-> Paths \cup {NoPath},
                        says |-> toolRules[k]]
        pathRule(k) == [tools |-> Tools, paths |-> PathGlobs[k],
                        says |-> pathRules[k]]
        onTools == SortedKeys(toolRules)
        onPaths == SortedKeys(pathRules)
    IN  [default |-> default,
         list |-> [i \in DOMAIN onTools |-> toolRule(onTools[i])]
                  \o [i \in DOMAIN onPaths |-> pathRule(onPaths[i])]]

\* What a session's gate makes of a call before anyone is asked: "ask" is left
\* only where a prompter is there to ask.
GateSays(skip, prompter, rules, call) ==
    LET d == Permit(rules, call)
    IN  IF d # "ask" THEN d
        ELSE IF skip THEN "allow"
        ELSE IF prompter THEN "ask"
        ELSE "deny"

\* The gate of subagents and workflow phases, which run unattended.
SubagentGateSays(rules, call) ==
    IF Permit(rules, call) = "ask" THEN "deny" ELSE Permit(rules, call)
===============================================================================
