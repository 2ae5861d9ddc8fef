------------------------- MODULE ArchitectureCheck -------------------------
(***************************************************************************)
(* scripts/check_architecture.py: load and check the rules, search them    *)
(* for dependency cycles, then look for forbidden imports.                 *)
(*                                                                         *)
(* Initial states: all rules of a file whose version, shape and paths      *)
(* load_rules accepts, for it raises on any other before it goes on.  The  *)
(* sources are any.  A dotted name is a sequence of its parts.             *)
(***************************************************************************)
EXTENDS SequencesExt

CONSTANTS
    Module,      \* the modules architecture.toml declares
    Unknown,     \* names in may_import that it does not declare
    Prefix,      \* import prefixes, as dotted names
    Statement,   \* import statements found in the sources
    Sources      \* the sets of them one module may hold; a bound

VARIABLES
    rules,       \* Module -> its ModuleRule
    stage,       \* where the program stands, or how it ended
    roots,       \* modules detect_cycles has yet to visit from the outside
    chain,       \* the modules whose visit is under way, outermost first
    todo,        \* Module -> dependencies its visit has yet to follow
    visiting,    \* the set of the same name
    visited,     \* the set of the same name
    cycle,       \* the chain of the reported cycle, or <<>>
    uninspected, \* modules whose sources were not read yet
    found,       \* Module -> the import statements of its readable sources
    violations   \* <<module, forbidden target>>, or <<module>> for unreadable sources

searchVars == <<roots, chain, todo, visiting, visited, cycle>>
importVars == <<uninspected, found, violations>>
vars == <<rules, stage, searchVars, importVars>>

ModuleRule == [import_prefix : Prefix, may_import : SUBSET (Module \union Unknown)]

\* import a.b, from a import b and, within a, from . import b name the same
\* path a.b.  The dots of a relative import stand for its first parts, dotted
\* of them, and never for all of it.
ASSUME CheckAssumption ==
    /\ Module # {}
    /\ Module \intersect Unknown = {}
    /\ Prefix \subseteq Seq(STRING)
    /\ Sources \subseteq SUBSET Statement
    /\ \A s \in Statement :
          /\ s.form \in {"import", "from"}
          /\ s.path \in Seq(STRING) \ {<<>>}
          /\ s.dotted \in 0 .. Len(s.path) - 1
          /\ s.form = "import" => s.dotted = 0

-----------------------------------------------------------------------------
Init ==
    /\ rules \in [Module -> ModuleRule]
    /\ stage = "loading"
    /\ roots = {}
    /\ chain = <<>>
    /\ todo = [m \in Module |-> {}]
    /\ visiting = {}
    /\ visited = {}
    /\ cycle = <<>>
    /\ uninspected = {}
    /\ found = [m \in Module |-> {}]
    /\ violations = {}

-----------------------------------------------------------------------------
(* load_rules                                                              *)

WellFormed ==
    /\ \A m, n \in Module : rules[m].import_prefix = rules[n].import_prefix => m = n
    /\ \A m \in Module : rules[m].may_import \subseteq Module \ {m}

LoadRules ==
    /\ stage = "loading"
    /\ WellFormed
    /\ stage' = "searching"
    /\ roots' = Module
    /\ UNCHANGED <<rules, chain, todo, visiting, visited, cycle, importVars>>

RejectRules ==
    /\ stage = "loading"
    /\ ~WellFormed
    /\ stage' = "rejected"
    /\ UNCHANGED <<rules, searchVars, importVars>>

-----------------------------------------------------------------------------
(* detect_cycles: a call visit(m, chain) of the loop in progress.          *)

\* What the innermost loop has yet to visit.
Pending == IF chain = <<>> THEN roots ELSE todo[Last(chain)]

Follow(m) ==
    IF chain = <<>>
      THEN roots' = roots \ {m} /\ UNCHANGED todo
      ELSE todo' = [todo EXCEPT ![Last(chain)] = @ \ {m}] /\ UNCHANGED roots

\* Mutant: only modules that were left count.
FindCycleLate(m) ==
    /\ stage = "searching"
    /\ m \in Pending
    /\ m \in visiting \intersect visited
    /\ cycle' = Append(chain, m)
    /\ stage' = "rejected"
    /\ UNCHANGED <<rules, roots, chain, todo, visiting, visited, importVars>>

FindCycle(m) ==
    /\ stage = "searching"
    /\ m \in Pending
    /\ m \in visiting
    /\ cycle' = Append(chain, m)
    /\ stage' = "rejected"
    /\ UNCHANGED <<rules, roots, chain, todo, visiting, visited, importVars>>

SkipVisited(m) ==
    /\ stage = "searching"
    /\ m \in Pending
    /\ m \in visited \ visiting
    /\ Follow(m)
    /\ UNCHANGED <<rules, stage, chain, visiting, visited, cycle, importVars>>

Enter(m) ==
    /\ stage = "searching"
    /\ m \in Pending \ (visiting \union visited)
    /\ IF chain = <<>>
         THEN /\ roots' = roots \ {m}
              /\ todo' = [todo EXCEPT ![m] = rules[m].may_import]
         ELSE /\ UNCHANGED roots
              /\ todo' = [todo EXCEPT ![Last(chain)] = @ \ {m},
                                      ![m] = rules[m].may_import]
    /\ chain' = Append(chain, m)
    /\ visiting' = visiting \union {m}
    /\ UNCHANGED <<rules, stage, visited, cycle, importVars>>

\* Mutant: visiting.remove is forgotten.
LeaveVisiting ==
    /\ stage = "searching"
    /\ chain # <<>>
    /\ Pending = {}
    /\ chain' = Front(chain)
    /\ visited' = visited \union {Last(chain)}
    /\ UNCHANGED <<rules, stage, roots, todo, visiting, cycle, importVars>>

\* Mutant: the whole chain counts as visited.
LeaveVisitedEarly ==
    /\ stage = "searching"
    /\ chain # <<>>
    /\ Pending = {}
    /\ chain' = Front(chain)
    /\ visiting' = {}
    /\ visited' = visited \union visiting
    /\ UNCHANGED <<rules, stage, roots, todo, cycle, importVars>>

Leave ==
    /\ stage = "searching"
    /\ chain # <<>>
    /\ Pending = {}
    /\ chain' = Front(chain)
    /\ visiting' = visiting \ {Last(chain)}
    /\ visited' = visited \union {Last(chain)}
    /\ UNCHANGED <<rules, stage, roots, todo, cycle, importVars>>

FinishSearch ==
    /\ stage = "searching"
    /\ chain = <<>>
    /\ Pending = {}
    /\ stage' = "inspecting"
    /\ uninspected' = Module
    /\ UNCHANGED <<rules, searchVars, found, violations>>

-----------------------------------------------------------------------------
(* check_imports                                                           *)

\* imported_modules: the names ast finds in a statement.  The last part of a
\* from-import is not among them, nor are the packages that dots stand for;
\* from . import b leaves none.
RecordedNames(s) ==
    IF s.form = "import"
      THEN {s.path}
      ELSE {SubSeq(s.path, s.dotted + 1, Len(s.path) - 1)} \ {<<>>}

Matches(name) == {m \in Module : IsPrefix(rules[m].import_prefix, name)}

\* Mutant: the shortest prefix wins.
MatchShortest(name) ==
    {m \in Matches(name) :
        \A n \in Matches(name) : Len(rules[m].import_prefix) <= Len(rules[n].import_prefix)}

\* match_module, as a set of at most one module: the longest prefix wins.
MatchModule(name) ==
    {m \in Matches(name) :
        \A n \in Matches(name) : Len(rules[n].import_prefix) <= Len(rules[m].import_prefix)}

ForbiddenTargets(m, statements) ==
    {t \in UNION {MatchModule(name) : name \in UNION {RecordedNames(s) : s \in statements}} :
        t # m /\ t \notin rules[m].may_import}

\* The sources of one module: the imports of those that can be read and
\* parsed, and a violation of its own if some cannot.
Inspect(m, statements, broken) ==
    /\ stage = "inspecting"
    /\ m \in uninspected
    /\ uninspected' = uninspected \ {m}
    /\ found' = [found EXCEPT ![m] = statements]
    /\ violations' = violations
          \union ({m} \X ForbiddenTargets(m, statements))
          \union (IF broken THEN {<<m>>} ELSE {})
    /\ UNCHANGED <<rules, stage, searchVars>>

\* main: the exit status.
Report ==
    /\ stage = "inspecting"
    /\ uninspected = {}
    /\ stage' = IF violations = {} THEN "valid" ELSE "violations"
    /\ UNCHANGED <<rules, searchVars, importVars>>

-----------------------------------------------------------------------------
Search ==
    \/ \E m \in Module : FindCycle(m) \/ SkipVisited(m) \/ Enter(m)
    \/ Leave
    \/ FinishSearch

CheckImports ==
    \/ \E m \in Module, statements \in Sources, broken \in BOOLEAN :
          Inspect(m, statements, broken)
    \/ Report

Next == LoadRules \/ RejectRules \/ Search \/ CheckImports

Spec == Init /\ [][Next]_vars

\* A sequential program that nobody stops.
FairSpec == Spec /\ WF_vars(Next)

-----------------------------------------------------------------------------
(* Properties.                                                             *)

\* Every variable keeps its shape; the chain and the set of the modules being
\* visited agree, as the code assumes of its two variables.
TypeOK ==
    /\ rules \in [Module -> ModuleRule]
    /\ stage \in {"loading", "searching", "rejected", "inspecting", "valid", "violations"}
    /\ roots \subseteq Module
    /\ chain \in Seq(Module)
    /\ todo \in [Module -> SUBSET Module]
    /\ visiting = ToSet(chain)
    /\ visited \subseteq Module
    /\ cycle \in Seq(Module)
    /\ uninspected \subseteq Module
    /\ found \in [Module -> SUBSET Statement]
    /\ violations \subseteq (Module \X Module) \union {<<m>> : m \in Module}

\* Each member of S depends on a member of S; a finite graph has a cycle
\* exactly when such a set exists.
Closed(S) == \A m \in S : rules[m].may_import \intersect S # {}
Cyclic == \E S \in SUBSET Module : S # {} /\ Closed(S)

\* detect_cycles lets rules pass only if they have no cycle, whatever the
\* order in which it visits the modules and however often they are shared.
AcyclicWhenAccepted ==
    stage \in {"inspecting", "valid", "violations"} => ~Cyclic

\* What detect_cycles reports is a path along may_import that comes back to
\* one of its modules: no rules are rejected for a module reached twice.
ReportedCycleIsReal ==
    cycle # <<>> =>
        /\ \A i \in 1 .. Len(cycle) - 1 : cycle[i + 1] \in rules[cycle[i]].may_import
        /\ Last(cycle) \in ToSet(Front(cycle))

\* The module a dotted name belongs to: no other match has a longer prefix
\* that extends its own.
Owner(name, m) ==
    /\ IsPrefix(rules[m].import_prefix, name)
    /\ ~\E n \in Module \ {m} :
          /\ IsPrefix(rules[n].import_prefix, name)
          /\ IsPrefix(rules[m].import_prefix, rules[n].import_prefix)

Confined(m, name) ==
    \A t \in Module \ {m} : Owner(name, t) => t \in rules[m].may_import

\* The sources pass only if every name they record stays within the rules,
\* also when one module's prefix extends another's, and a run that reports
\* violations has one to show.
RecordedImportsConfined ==
    /\ stage = "valid" =>
          \A m \in Module : \A s \in found[m] : \A name \in RecordedNames(s) :
              Confined(m, name)
    /\ \A v \in violations : Len(v) = 2 =>
          \E s \in found[v[1]] : \E name \in RecordedNames(s) :
              Owner(name, v[2]) /\ ~Confined(v[1], name)

\* The program ends, for every graph of dependencies.
CheckTerminates == <>(stage \in {"rejected", "valid", "violations"})

\* ADR 0002: dependency direction is checked, so sources that pass import
\* nothing the rules forbid.  from a import b is recorded as an import of a
\* only, whatever module a.b belongs to.
AcceptedSourcesObeyRules ==
    stage = "valid" =>
        \A m \in Module : \A s \in found[m] : Confined(m, s.path)

=============================================================================
