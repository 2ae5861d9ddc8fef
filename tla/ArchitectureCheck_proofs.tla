---------------------- MODULE ArchitectureCheck_proofs ----------------------
(***************************************************************************)
(* Proofs about ArchitectureCheck for any set of modules, whatever the     *)
(* rules and the order in which detect_cycles follows them.                *)
(***************************************************************************)
EXTENDS ArchitectureCheck, FiniteSets, FiniteSetTheorems, SequenceTheorems, TLAPS

-----------------------------------------------------------------------------
(* The inductive invariant.                                                *)

Accepted == {"inspecting", "valid", "violations"}
Deps(m) == rules[m].may_import

\* No module is visited twice at once, or again after it was left.
Path ==
    /\ \A i, j \in 1 .. Len(chain) : chain[i] = chain[j] => i = j
    /\ visiting \intersect visited = {}

\* The chain follows the rules, and so does what is left to follow.
Edges ==
    /\ \A i \in 1 .. Len(chain) - 1 : chain[i + 1] \in Deps(chain[i])
    /\ \A m \in visiting : todo[m] \subseteq Deps(m)

\* A dependency of a module being visited was visited, is yet to be followed,
\* or is the next module of the chain.
Frontier ==
    \A i \in 1 .. Len(chain) : \A d \in Deps(chain[i]) :
        \/ d \in visited \union todo[chain[i]]
        \/ i < Len(chain) /\ d = chain[i + 1]

\* Every module was visited, is yet to be visited, or is at the bottom.
Coverage ==
    \A m \in Module :
        \/ m \in roots \union visited
        \/ chain # <<>> /\ m = chain[1]

\* What was visited depends on nothing else and has no cycle.
Explored ==
    /\ \A m \in visited : Deps(m) \subseteq visited
    /\ \A S \in SUBSET visited : S # {} => ~Closed(S)

IInv ==
    /\ TypeOK
    /\ stage \notin {"loading", "rejected"} => WellFormed
    /\ stage = "loading" => chain = <<>> /\ visited = {}
    /\ stage = "searching" => Coverage
    /\ stage \in Accepted => visited = Module
    /\ Path
    /\ Edges
    /\ Frontier
    /\ Explored
    /\ ReportedCycleIsReal

-----------------------------------------------------------------------------
(* Lemmas.                                                                 *)

\* An acyclic set that depends on nothing outside it stays acyclic when a
\* module joins whose dependencies it contains.
LEMMA JoinAcyclic ==
    ASSUME NEW V, NEW m, m \notin V,
           Deps(m) \subseteq V,
           \A v \in V : Deps(v) \subseteq V,
           \A S \in SUBSET V : S # {} => ~Closed(S)
    PROVE  \A S \in SUBSET (V \union {m}) : S # {} => ~Closed(S)
<1> SUFFICES ASSUME NEW S \in SUBSET (V \union {m}), S # {}
             PROVE  ~Closed(S)
  OBVIOUS
<1>1. CASE m \notin S
  BY <1>1
<1>2. CASE S = {m}
  BY <1>2 DEF Closed, Deps
<1>3. CASE m \in S /\ S # {m}
  <2>1. S \ {m} \in SUBSET V /\ S \ {m} # {}
    BY <1>3
  <2>2. PICK x \in S \ {m} : Deps(x) \intersect (S \ {m}) = {}
    BY <2>1 DEF Closed, Deps
  <2>3. Deps(x) \subseteq V
    BY <2>1, <2>2
  <2>4. Deps(x) \intersect S = {}
    BY <2>2, <2>3
  <2>. QED
    BY <2>2, <2>4 DEF Closed, Deps
<1>. QED
  BY <1>1, <1>2, <1>3

-----------------------------------------------------------------------------
(* The steps.                                                              *)

\* A prefix of a sequence.
LEMMA PrefixFacts ==
    ASSUME NEW S, NEW s, NEW n \in Nat, \A i \in 1 .. n : s[i] \in S
    PROVE  /\ SubSeq(s, 1, n) \in Seq(S)
           /\ Len(SubSeq(s, 1, n)) = n
           /\ \A i \in 1 .. n : SubSeq(s, 1, n)[i] = s[i]
<1>1. /\ SubSeq(s, 1, n) \in Seq(S)
      /\ Len(SubSeq(s, 1, n)) = IF 1 <= n THEN n - 1 + 1 ELSE 0
      /\ \A i \in 1 .. n - 1 + 1 : SubSeq(s, 1, n)[i] = s[1 + i - 1]
  BY SubSeqProperties
<1>2. n - 1 + 1 = n /\ (1 <= n \/ n = 0) /\ \A i \in 1 .. n : 1 + i - 1 = i
  OBVIOUS
<1>3. CASE 1 <= n
  BY <1>1, <1>2, <1>3
<1>4. CASE n = 0
  BY <1>1, <1>4
<1>. QED
  BY <1>2, <1>3, <1>4

\* The chain without its innermost visit.
LEMMA FrontFacts ==
    ASSUME NEW S, NEW s \in Seq(S), s # <<>>
    PROVE  /\ Front(s) \in Seq(S)
           /\ Len(Front(s)) = Len(s) - 1
           /\ \A i \in 1 .. Len(s) - 1 : Front(s)[i] = s[i]
<1>1. PICK n \in Nat : n = Len(s) - 1
  OBVIOUS
<1>2. \A i \in 1 .. n : s[i] \in S
  BY <1>1
<1>3. /\ SubSeq(s, 1, n) \in Seq(S)
      /\ Len(SubSeq(s, 1, n)) = n
      /\ \A i \in 1 .. n : SubSeq(s, 1, n)[i] = s[i]
  BY <1>2, PrefixFacts
<1>4. Front(s) = SubSeq(s, 1, n)
  BY <1>1 DEF Front
<1>. QED
  BY <1>1, <1>3, <1>4, Zenon

LEMMA InitIInv == Init => IInv
<1> SUFFICES ASSUME Init PROVE IInv
  OBVIOUS
<1>1. TypeOK
  BY DEF Init, TypeOK, ToSet
<1>. QED
  BY <1>1 DEF Init, IInv, Path, Edges, Frontier, Coverage, Explored, Accepted,
              ReportedCycleIsReal

LEMMA LoadStep ==
    ASSUME IInv, LoadRules \/ RejectRules
    PROVE  IInv'
<1>1. TypeOK'
  BY DEF IInv, TypeOK, LoadRules, RejectRules, searchVars, importVars
<1>2. UNCHANGED <<rules, chain, todo, visiting, visited, cycle>>
  BY DEF LoadRules, RejectRules, searchVars
<1>3. WellFormed' = WellFormed
  BY <1>2 DEF WellFormed
<1>4. (Path /\ Edges /\ Frontier /\ Explored /\ ReportedCycleIsReal)'
  BY <1>2 DEF IInv, Path, Edges, Frontier, Explored, ReportedCycleIsReal, Deps, Closed
<1>5. stage' = "searching" => Coverage' /\ WellFormed
  BY DEF LoadRules, RejectRules, Coverage
<1>6. stage' \in {"searching", "rejected"}
  BY DEF LoadRules, RejectRules
<1>. QED
  BY <1>1, <1>3, <1>4, <1>5, <1>6 DEF IInv, Accepted

LEMMA FindCycleStep ==
    ASSUME IInv, NEW m \in Module, FindCycle(m)
    PROVE  IInv'
<1> USE DEF IInv
<1>1. TypeOK'
  BY DEF TypeOK, FindCycle, importVars
<1>2. UNCHANGED <<rules, roots, chain, todo, visiting, visited>> /\ stage' = "rejected"
  BY DEF FindCycle
<1>3. (Path /\ Edges /\ Frontier /\ Explored)'
  BY <1>2 DEF Path, Edges, Frontier, Explored, Deps, Closed
<1>4. chain \in Seq(Module) /\ chain # <<>> /\ m \in ToSet(chain)
  BY DEF FindCycle, TypeOK, ToSet
<1>5. /\ cycle' = Append(chain, m)
      /\ Len(cycle') = Len(chain) + 1
      /\ \A i \in 1 .. Len(chain) : cycle'[i] = chain[i]
      /\ cycle'[Len(chain) + 1] = m
  BY <1>4 DEF FindCycle
<1>6. m \in Deps(Last(chain)) /\ Len(chain) \in Nat \ {0}
  BY <1>4 DEF FindCycle, Pending, Edges, Last, TypeOK, ToSet
<1>7. \A i \in 1 .. Len(cycle') - 1 : cycle'[i + 1] \in Deps(cycle'[i])
  BY <1>5, <1>6 DEF Edges, Last
<1>8. Last(cycle') = m
  BY <1>4, <1>5 DEF Last
<1>9. m \in ToSet(Front(cycle'))
  <2>1. Front(cycle') = chain
    BY <1>4, <1>5 DEF Front
  <2>. QED
    BY <2>1, <1>4
<1>10. ReportedCycleIsReal'
  BY <1>2, <1>7, <1>8, <1>9 DEF ReportedCycleIsReal, Deps
<1>. QED
  BY <1>1, <1>2, <1>3, <1>10 DEF Accepted

LEMMA SkipStep ==
    ASSUME IInv, NEW m \in Module, SkipVisited(m)
    PROVE  IInv'
<1> USE DEF IInv
<1>1. chain \in Seq(Module) /\ (chain # <<>> => Last(chain) \in Module)
  BY DEF TypeOK, Last
<1>2. TypeOK'
  BY <1>1 DEF TypeOK, SkipVisited, Follow, importVars
<1>3. UNCHANGED <<rules, stage, chain, visiting, visited, cycle>> /\ m \in visited
  BY DEF SkipVisited
<1>4. /\ \A n \in Module : todo[n] \ {m} \subseteq todo'[n] /\ todo'[n] \subseteq todo[n]
      /\ roots \ {m} \subseteq roots'
  BY <1>1 DEF SkipVisited, Follow, TypeOK
<1>5. Edges'
  BY <1>1, <1>3, <1>4 DEF Edges, Deps, TypeOK, ToSet
<1>6. Frontier'
  BY <1>1, <1>3, <1>4 DEF Frontier, Deps, TypeOK
<1>7. (Path /\ Explored /\ ReportedCycleIsReal)' /\ WellFormed' = WellFormed
  BY <1>3 DEF Path, Explored, ReportedCycleIsReal, WellFormed, Deps, Closed
<1>8. Coverage => Coverage'
  BY <1>3, <1>4 DEF Coverage
<1>. QED
  BY <1>2, <1>3, <1>5, <1>6, <1>7, <1>8 DEF Accepted

LEMMA EnterStep ==
    ASSUME IInv, NEW m \in Module, Enter(m)
    PROVE  IInv'
<1> USE DEF IInv
<1>1. /\ chain \in Seq(Module)
      /\ Len(chain) \in Nat
      /\ chain # <<>> => Last(chain) \in Module /\ Last(chain) \in visiting
      /\ \A i \in 1 .. Len(chain) : chain[i] \in Module /\ chain[i] \in visiting
  BY DEF TypeOK, Last, ToSet
<1>2. /\ UNCHANGED <<rules, stage, visited, cycle>>
      /\ stage = "searching"
      /\ m \in Pending /\ m \notin visiting /\ m \notin visited
      /\ visiting' = visiting \union {m}
  BY DEF Enter
<1>3. /\ chain' \in Seq(Module)
      /\ Len(chain') = Len(chain) + 1
      /\ \A i \in 1 .. Len(chain) : chain'[i] = chain[i]
      /\ chain'[Len(chain) + 1] = m
  BY <1>1 DEF Enter
<1>4. WellFormed' = WellFormed /\ WellFormed
  BY <1>2 DEF WellFormed
<1>5. Deps(m) \subseteq Module
  BY <1>4 DEF WellFormed, Deps
<1>6. /\ todo' \in [Module -> SUBSET Module]
      /\ todo'[m] = Deps(m)
      /\ \A n \in Module \ {m} :
            todo'[n] = IF chain # <<>> /\ n = Last(chain) THEN todo[n] \ {m} ELSE todo[n]
      /\ roots' \subseteq Module
      /\ chain # <<>> => roots' = roots
      /\ chain = <<>> => roots' = roots \ {m}
  <2>1. CASE chain = <<>>
    BY <1>1, <1>2, <1>5, <2>1 DEF Enter, TypeOK, Deps
  <2>2. CASE chain # <<>>
    <3>1. /\ roots' = roots /\ Last(chain) # m
          /\ todo' = [todo EXCEPT ![Last(chain)] = @ \ {m}, ![m] = Deps(m)]
      BY <1>1, <1>2, <2>2 DEF Enter, Deps
    <3>2. todo \in [Module -> SUBSET Module] /\ roots \subseteq Module
      BY DEF TypeOK
    <3>. QED
      BY <1>1, <1>5, <2>2, <3>1, <3>2
  <2>. QED
    BY <2>1, <2>2
<1>7. TypeOK'
  <2>1. visiting' = ToSet(chain')
    <3>1. DOMAIN chain = 1 .. Len(chain) /\ DOMAIN chain' = 1 .. Len(chain) + 1
      BY <1>1, <1>3
    <3>2. \A x : x \in visiting <=> \E i \in 1 .. Len(chain) : x = chain[i]
      BY <3>1 DEF TypeOK, ToSet
    <3>3. \A x : x \in ToSet(chain') <=> \E i \in 1 .. Len(chain) + 1 : x = chain'[i]
      BY <3>1 DEF ToSet
    <3>4. \A x : x \in ToSet(chain') <=> x = m \/ \E i \in 1 .. Len(chain) : x = chain[i]
      BY <1>1, <1>3, <3>3
    <3>. QED
      BY <1>2, <3>2, <3>4
  <2>. QED
    BY <1>2, <1>3, <1>6, <2>1 DEF TypeOK, Enter, importVars
<1>8. Path'
  BY <1>1, <1>2, <1>3 DEF Path
<1>9. Edges'
  <2>1. \A i \in 1 .. Len(chain') - 1 : chain'[i + 1] \in Deps(chain'[i])
    <3> SUFFICES ASSUME NEW i \in 1 .. Len(chain)
                 PROVE  chain'[i + 1] \in Deps(chain'[i])
      BY <1>1, <1>3
    <3>1. CASE i < Len(chain)
      BY <1>1, <1>3, <3>1 DEF Edges
    <3>2. CASE i = Len(chain)
      BY <1>1, <1>2, <1>3, <3>2 DEF Edges, Pending, Last
    <3>. QED
      BY <1>1, <3>1, <3>2
  <2>2. \A n \in visiting' : todo'[n] \subseteq Deps(n)
    BY <1>1, <1>2, <1>6 DEF Edges, TypeOK, ToSet
  <2>. QED
    BY <1>2, <2>1, <2>2 DEF Edges, Deps
<1>10. Frontier'
  <2> SUFFICES ASSUME NEW i \in 1 .. Len(chain) + 1, NEW d \in Deps(chain'[i])
               PROVE  \/ d \in visited \union todo'[chain'[i]]
                      \/ i < Len(chain) + 1 /\ d = chain'[i + 1]
    BY <1>2, <1>3 DEF Frontier, Deps
  <2>1. CASE i = Len(chain) + 1
    BY <1>3, <1>6, <2>1
  <2>2. CASE i = Len(chain)
    <3>1. chain[i] = Last(chain) /\ chain # <<>> /\ chain'[i] = chain[i] /\ chain'[i + 1] = m
      BY <1>1, <1>3, <2>2 DEF Last
    <3>2. d \in visited \union todo[chain[i]]
      BY <1>1, <2>2, <3>1 DEF Frontier
    <3>. QED
      BY <1>1, <1>2, <1>6, <2>2, <3>1, <3>2
  <2>3. CASE i < Len(chain)
    <3>1. /\ chain'[i] = chain[i] /\ chain'[i + 1] = chain[i + 1]
          /\ chain[i] # m
          /\ chain[i] # Last(chain)
      BY <1>1, <1>2, <1>3, <2>3 DEF Path, Last
    <3>2. todo'[chain[i]] = todo[chain[i]]
      BY <1>1, <1>6, <2>3, <3>1
    <3>. QED
      BY <1>1, <2>3, <3>1, <3>2 DEF Frontier
  <2>. QED
    BY <1>1, <2>1, <2>2, <2>3
<1>11. Coverage'
  <2>1. CASE chain = <<>>
    BY <1>1, <1>2, <1>3, <1>6, <2>1 DEF Coverage
  <2>2. CASE chain # <<>>
    <3>1. chain'[1] = chain[1] /\ chain' # <<>>
      BY <1>1, <1>3, <2>2
    <3>. QED
      BY <1>2, <1>6, <2>2, <3>1 DEF Coverage
  <2>. QED
    BY <2>1, <2>2
<1>12. (Explored /\ ReportedCycleIsReal)'
  BY <1>2 DEF Explored, ReportedCycleIsReal, Deps, Closed
<1>. QED
  BY <1>2, <1>4, <1>7, <1>8, <1>9, <1>10, <1>11, <1>12 DEF Accepted

LEMMA LeaveStep ==
    ASSUME IInv, Leave
    PROVE  IInv'
<1> USE DEF IInv
<1> DEFINE m == Last(chain)
<1>1. /\ chain \in Seq(Module)
      /\ Len(chain) \in Nat \ {0}
      /\ m = chain[Len(chain)] /\ m \in Module /\ m \in visiting
      /\ \A i \in 1 .. Len(chain) : chain[i] \in Module /\ chain[i] \in visiting
  BY DEF TypeOK, Last, ToSet, Leave
<1>2. /\ UNCHANGED <<rules, stage, roots, todo, cycle>>
      /\ stage = "searching"
      /\ todo[m] = {}
      /\ visiting' = visiting \ {m}
      /\ visited' = visited \union {m}
  BY DEF Leave, Pending
<1>3. /\ chain' \in Seq(Module)
      /\ Len(chain') = Len(chain) - 1
      /\ \A i \in 1 .. Len(chain) - 1 : chain'[i] = chain[i]
  BY <1>1, FrontFacts DEF Leave
<1>4. \A i \in 1 .. Len(chain) - 1 : chain[i] # m
  BY <1>1 DEF Path
<1>5. WellFormed' = WellFormed /\ WellFormed
  BY <1>2 DEF WellFormed
<1>6. TypeOK'
  <2>1. visiting' = ToSet(chain')
    <3>1. DOMAIN chain = 1 .. Len(chain) /\ DOMAIN chain' = 1 .. Len(chain) - 1
      BY <1>1, <1>3
    <3>2. \A x : x \in visiting <=> \E i \in 1 .. Len(chain) : x = chain[i]
      BY <3>1 DEF TypeOK, ToSet
    <3>3. \A x : x \in ToSet(chain') <=> \E i \in 1 .. Len(chain) - 1 : x = chain[i]
      BY <1>3, <3>1 DEF ToSet
    <3>4. \A i \in 1 .. Len(chain) : i \in 1 .. Len(chain) - 1 \/ chain[i] = m
      BY <1>1
    <3>. QED
      BY <1>1, <1>2, <1>4, <3>2, <3>3, <3>4
  <2>. QED
    BY <1>1, <1>2, <1>3, <2>1 DEF TypeOK, Leave, importVars
<1>7. Path'
  BY <1>1, <1>2, <1>3 DEF Path
<1>8. Edges'
  BY <1>1, <1>2, <1>3 DEF Edges, Deps
<1>9. Deps(m) \subseteq visited
  BY <1>1, <1>2 DEF Frontier
<1>10. Frontier'
  BY <1>1, <1>2, <1>3 DEF Frontier, Deps
<1>11. Explored'
  <2>1. m \notin visited
    BY <1>1 DEF Path
  <2>2. \A S \in SUBSET (visited \union {m}) : S # {} => ~Closed(S)
    BY <1>9, <2>1, JoinAcyclic DEF Explored
  <2>3. \A n \in visited \union {m} : Deps(n) \subseteq visited \union {m}
    BY <1>9 DEF Explored
  <2>. QED
    BY <1>2, <2>2, <2>3 DEF Explored, Deps, Closed
<1>12. Coverage'
  BY <1>1, <1>2, <1>3 DEF Coverage
<1>13. ReportedCycleIsReal'
  BY <1>2 DEF ReportedCycleIsReal, Deps
<1>. QED
  BY <1>2, <1>5, <1>6, <1>7, <1>8, <1>10, <1>11, <1>12, <1>13 DEF Accepted

LEMMA FinishStep ==
    ASSUME IInv, FinishSearch
    PROVE  IInv'
<1> USE DEF IInv
<1>1. TypeOK'
  BY DEF TypeOK, FinishSearch, searchVars
<1>2. UNCHANGED <<rules, roots, chain, todo, visiting, visited, cycle>>
  BY DEF FinishSearch, searchVars
<1>3. stage' = "inspecting" /\ stage = "searching" /\ visited = Module
  BY DEF FinishSearch, Pending, Coverage, TypeOK
<1>4. (Path /\ Edges /\ Frontier /\ Explored /\ ReportedCycleIsReal)'
      /\ WellFormed' = WellFormed
  BY <1>2 DEF Path, Edges, Frontier, Explored, ReportedCycleIsReal, WellFormed, Deps, Closed
<1>. QED
  BY <1>1, <1>2, <1>3, <1>4 DEF Accepted

LEMMA ImportStep ==
    ASSUME IInv, CheckImports
    PROVE  IInv'
<1> USE DEF IInv
<1>1. UNCHANGED <<rules, searchVars>> /\ stage = "inspecting" /\ stage' \in Accepted
  BY DEF CheckImports, Inspect,  Report, Accepted
<1>2. TypeOK'
  <2>1. CASE Report
    BY <2>1, <1>1 DEF Report, TypeOK, searchVars, importVars
  <2>2. ASSUME NEW m \in Module, NEW statements \in Sources, NEW broken \in BOOLEAN,
               Inspect(m, statements, broken)
        PROVE  TypeOK'
    <3>0. statements \in SUBSET Statement
      BY CheckAssumption
    <3>1. ForbiddenTargets(m, statements) \subseteq Module
      BY DEF ForbiddenTargets, MatchModule, Matches
    <3>2. {m} \X ForbiddenTargets(m, statements) \subseteq Module \X Module
      BY <3>1
    <3>. QED
      BY <2>2, <3>0, <3>2 DEF Inspect, TypeOK, searchVars
  <2>. QED
    BY <2>1, <2>2 DEF CheckImports
<1>3. (Path /\ Edges /\ Frontier /\ Explored /\ ReportedCycleIsReal)'
      /\ WellFormed' = WellFormed /\ visited' = visited
  BY <1>1 DEF Path, Edges, Frontier, Explored, ReportedCycleIsReal, WellFormed, Deps,
              Closed, searchVars
<1>. QED
  BY <1>1, <1>2, <1>3 DEF Accepted

LEMMA StutterStep ==
    ASSUME IInv, UNCHANGED vars
    PROVE  IInv'
<1>1. TypeOK'
  BY DEF IInv, TypeOK, vars, searchVars, importVars
<1>. QED
  BY <1>1 DEF IInv, Path, Edges, Frontier, Explored, Coverage, ReportedCycleIsReal,
              WellFormed, Deps, Closed, vars, searchVars, importVars

LEMMA InductiveInvariant == Spec => []IInv
<1>1. IInv /\ [Next]_vars => IInv'
  BY LoadStep, FindCycleStep, SkipStep, EnterStep, LeaveStep, FinishStep, ImportStep,
     StutterStep DEF Next, Search
<1>. QED
  BY InitIInv, <1>1, PTL DEF Spec

-----------------------------------------------------------------------------
(* The check of the imports.                                               *)

\* What the reported violations say of the sources that were read.
Inspection ==
    /\ stage \notin Accepted => violations = {}
    /\ stage \in Accepted =>
          \A m \in Module \ uninspected :
              \A t \in ForbiddenTargets(m, found[m]) : <<m, t>> \in violations
    /\ \A m, t \in Module : <<m, t>> \in violations =>
          m \notin uninspected /\ t \in ForbiddenTargets(m, found[m])
    /\ stage = "valid" => uninspected = {} /\ violations = {}

\* A prefix agrees with its extension element by element.
LEMMA PrefixElements ==
    ASSUME NEW S, NEW s \in Seq(S), NEW t \in Seq(S)
    PROVE  IsPrefix(s, t) <=>
              Len(s) <= Len(t) /\ \A i \in 1 .. Len(s) : s[i] = t[i]
<1>1. PICK n \in Nat : n = Len(s)
  OBVIOUS
<1>2. SubSeq(s, 1, n) = s
  BY <1>1
<1> SUFFICES ASSUME n <= Len(t)
             PROVE  s = SubSeq(t, 1, n) <=> \A i \in 1 .. n : s[i] = t[i]
  BY <1>1, <1>2 DEF IsPrefix
<1>3. \A i \in 1 .. n : t[i] \in S
  OBVIOUS
<1>4. /\ SubSeq(t, 1, n) \in Seq(S)
      /\ Len(SubSeq(t, 1, n)) = n
      /\ \A i \in 1 .. n : SubSeq(t, 1, n)[i] = t[i]
  BY <1>3, PrefixFacts
<1>5. (\A i \in 1 .. n : s[i] = t[i]) => s = SubSeq(t, 1, n)
  BY <1>1, <1>4, SeqEqual
<1>. QED
  BY <1>4, <1>5

\* The longest match is the match that no other match extends.
LEMMA LongestIsOwner ==
    ASSUME TypeOK, WellFormed, NEW name \in Seq(STRING), NEW t \in Module
    PROVE  t \in MatchModule(name) <=> Owner(name, t)
<1> DEFINE P(m) == rules[m].import_prefix
<1>1. \A m \in Module : P(m) \in Seq(STRING) /\ Len(P(m)) \in Nat
  <2>1. \A m \in Module : P(m) \in Prefix
    BY DEF TypeOK, ModuleRule
  <2>. QED
    BY <2>1, CheckAssumption
<1>2. \A m \in Module : IsPrefix(P(m), name) <=>
          Len(P(m)) <= Len(name) /\ \A i \in 1 .. Len(P(m)) : P(m)[i] = name[i]
  BY <1>1, PrefixElements
<1>3. \A n \in Module : IsPrefix(P(t), P(n)) <=>
          Len(P(t)) <= Len(P(n)) /\ \A i \in 1 .. Len(P(t)) : P(t)[i] = P(n)[i]
  BY <1>1, PrefixElements
<1>4. \A n \in Module : P(n) = P(t) => n = t
  BY DEF WellFormed
<1>5. ASSUME t \in MatchModule(name) PROVE Owner(name, t)
  <2> SUFFICES ASSUME NEW n \in Module \ {t}, IsPrefix(P(n), name), IsPrefix(P(t), P(n))
               PROVE  FALSE
    BY <1>5 DEF Owner, MatchModule, Matches
  <2>1. Len(P(n)) <= Len(P(t))
    BY <1>5 DEF MatchModule, Matches
  <2>2. Len(P(n)) = Len(P(t)) /\ \A i \in 1 .. Len(P(t)) : P(t)[i] = P(n)[i]
    BY <1>1, <1>3, <2>1
  <2>3. P(n) = P(t)
    BY <1>1, <2>2, SeqEqual
  <2>. QED
    BY <1>4, <2>3
<1>6. ASSUME Owner(name, t) PROVE t \in MatchModule(name)
  <2> SUFFICES ASSUME NEW n \in Module, IsPrefix(P(n), name), ~(Len(P(n)) <= Len(P(t)))
               PROVE  FALSE
    BY <1>6 DEF Owner, MatchModule, Matches
  <2>1. Len(P(t)) < Len(P(n)) /\ n # t
    BY <1>1
  <2>2. IsPrefix(P(t), name)
    BY <1>6 DEF Owner
  <2>3. \A i \in 1 .. Len(P(t)) : P(t)[i] = P(n)[i]
    BY <1>1, <1>2, <2>1, <2>2
  <2>4. IsPrefix(P(t), P(n))
    BY <1>1, <1>3, <2>1, <2>3
  <2>. QED
    BY <1>6, <2>1, <2>4 DEF Owner
<1>. QED
  BY <1>5, <1>6

\* The names recorded of an import statement are dotted names.
LEMMA RecordedAreNames ==
    ASSUME NEW s \in Statement
    PROVE  RecordedNames(s) \subseteq Seq(STRING)
<1>1. /\ s.path \in Seq(STRING) /\ s.path # <<>>
      /\ s.dotted \in 0 .. Len(s.path) - 1
  BY CheckAssumption
<1>2. SubSeq(s.path, s.dotted + 1, Len(s.path) - 1) \in Seq(STRING)
  <2>1. PICK k \in Int : k = s.dotted + 1
    BY <1>1
  <2>2. PICK n \in Int : n = Len(s.path) - 1
    BY <1>1
  <2>3. \A i \in k .. n : s.path[i] \in STRING
    BY <1>1, <2>1, <2>2
  <2>4. SubSeq(s.path, k, n) \in Seq(STRING)
    BY <2>3, SubSeqProperties
  <2>. QED
    BY <2>1, <2>2, <2>4
<1>. QED
  BY <1>1, <1>2 DEF RecordedNames

\* The forbidden targets are the owners of recorded names that the rules of
\* the module leave out.
LEMMA ForbiddenAreOwners ==
    ASSUME TypeOK, WellFormed, NEW m \in Module, NEW t \in Module,
           NEW statements \in SUBSET Statement
    PROVE  t \in ForbiddenTargets(m, statements) <=>
              \E s \in statements : \E name \in RecordedNames(s) :
                  Owner(name, t) /\ t # m /\ t \notin Deps(m)
<1>1. \A s \in statements : \A name \in RecordedNames(s) : name \in Seq(STRING)
  BY RecordedAreNames
<1>2. \A s \in statements : \A name \in RecordedNames(s) :
          t \in MatchModule(name) <=> Owner(name, t)
  BY <1>1, LongestIsOwner
<1>3. t \in ForbiddenTargets(m, statements) <=>
          \E s \in statements : \E name \in RecordedNames(s) :
              t \in MatchModule(name) /\ t # m /\ t \notin Deps(m)
  BY DEF ForbiddenTargets, Deps
<1>. QED
  BY <1>2, <1>3

LEMMA InspectionInit == Init => Inspection
  BY DEF Init, Inspection, Accepted

LEMMA InspectionStep == IInv /\ Inspection /\ [Next]_vars => Inspection'
<1> SUFFICES ASSUME IInv, Inspection, [Next]_vars
             PROVE  Inspection'
  OBVIOUS
<1> USE DEF Inspection, Accepted
<1>0. TypeOK
  BY DEF IInv
<1>1. rules' = rules
  BY DEF Next, Search, CheckImports, LoadRules, RejectRules, FindCycle, SkipVisited,
         Enter, Leave, FinishSearch, Inspect,  Report, vars
<1>2. \A m, st : ForbiddenTargets(m, st)' = ForbiddenTargets(m, st)
  BY <1>1 DEF ForbiddenTargets, MatchModule, Matches
<1>3. \A m \in Module : \A st \in SUBSET Statement : ForbiddenTargets(m, st) \subseteq Module
  BY DEF ForbiddenTargets, MatchModule, Matches
<1>4. \A m, n, t \in Module : <<m>> # <<n, t>> /\ (<<m>> = <<n>> => m = n)
  <2>1. \A m, n, t \in Module : Len(<<m>>) = 1 /\ Len(<<n, t>>) = 2 /\ <<m>>[1] = m
    OBVIOUS
  <2>. QED
    BY <2>1
<1>5. ASSUME NEW m \in Module, NEW st \in Sources, NEW broken \in BOOLEAN,
             Inspect(m, st, broken)
      PROVE  Inspection'
  <2>0. st \in SUBSET Statement
    BY CheckAssumption
  <2>1. /\ stage = "inspecting" /\ stage' = "inspecting" /\ m \in uninspected
        /\ uninspected' = uninspected \ {m}
        /\ found' = [found EXCEPT ![m] = st]
        /\ violations' = violations \union ({m} \X ForbiddenTargets(m, st))
                             \union (IF broken THEN {<<m>>} ELSE {})
    BY <1>5 DEF Inspect
  <2>2. found'[m] = st /\ \A n \in Module \ {m} : found'[n] = found[n]
    BY <1>0, <2>0, <2>1 DEF TypeOK
  <2>3. \A n, t \in Module :
            <<n, t>> \in violations' <=>
               <<n, t>> \in violations \/ (n = m /\ t \in ForbiddenTargets(m, st))
    <3>1. PICK F : F = ForbiddenTargets(m, st)
      OBVIOUS
    <3>2. /\ violations \union ({m} \X F) \subseteq violations'
          /\ violations' \subseteq violations \union ({m} \X F) \union {<<m>>}
      BY <2>1, <3>1
    <3>3. \A n, t : <<n, t>> \in {m} \X F <=> n = m /\ t \in F
      OBVIOUS
    <3>4. \A n, t \in Module :
              <<n, t>> \in violations' <=> <<n, t>> \in violations \/ (n = m /\ t \in F)
      <4> SUFFICES ASSUME NEW n \in Module, NEW t \in Module
                   PROVE  <<n, t>> \in violations'
                            <=> <<n, t>> \in violations \/ (n = m /\ t \in F)
        OBVIOUS
      <4>1. <<n, t>> \notin {<<m>>}
        BY <1>4
      <4>. QED
        BY <3>2, <3>3, <4>1, Zenon
    <3>. QED
      BY <3>1, <3>4, Zenon
  <2>4. \A n \in Module \ uninspected' :
            \A t \in ForbiddenTargets(n, found'[n]) : <<n, t>> \in violations'
    <3> SUFFICES ASSUME NEW n \in Module \ uninspected'
                 PROVE  \A t \in ForbiddenTargets(n, found'[n]) : <<n, t>> \in violations'
      OBVIOUS
    <3>1. CASE n = m
      <4> SUFFICES ASSUME NEW t \in ForbiddenTargets(m, st)
                   PROVE  <<m, t>> \in violations'
        BY <2>2, <3>1
      <4>. QED
        BY <1>3, <2>0, <2>3
    <3>2. CASE n # m
      BY <2>1, <2>2, <3>2
    <3>. QED
      BY <3>1, <3>2
  <2>5. ASSUME NEW n \in Module, NEW t \in Module, <<n, t>> \in violations'
        PROVE  n \notin uninspected' /\ t \in ForbiddenTargets(n, found'[n])
    <3>1. CASE n = m
      BY <2>1, <2>2, <2>3, <2>5, <3>1
    <3>2. CASE n # m
      BY <2>1, <2>2, <2>3, <2>5, <3>2
    <3>. QED
      BY <3>1, <3>2
  <2>. QED
    BY <1>2, <2>1, <2>4, <2>5
<1>6. CASE Report
  BY <1>2, <1>6 DEF Report, importVars
<1>7. CASE FinishSearch
  BY <1>2, <1>7 DEF FinishSearch
<1>8. ASSUME LoadRules \/ RejectRules \/ Leave
             \/ \E m \in Module : FindCycle(m) \/ SkipVisited(m) \/ Enter(m)
      PROVE  Inspection'
  <2>1. /\ stage \notin Accepted /\ stage' \notin Accepted
        /\ UNCHANGED importVars
    BY <1>8 DEF LoadRules, RejectRules, Leave, FindCycle, SkipVisited, Enter
  <2>. QED
    BY <2>1 DEF importVars
<1>9. CASE UNCHANGED vars
  BY <1>2, <1>9 DEF vars, importVars
<1>. QED
  BY <1>5, <1>6, <1>7, <1>8, <1>9 DEF Next, Search, CheckImports

LEMMA InspectionInvariant == Spec => []Inspection
  BY InductiveInvariant, InspectionInit, InspectionStep, PTL DEF Spec

-----------------------------------------------------------------------------
(* Theorems.                                                               *)

\* Type correctness; the chain and the set of modules being visited agree.
THEOREM TypeCorrect == Spec => []TypeOK
<1>1. IInv => TypeOK
  BY DEF IInv
<1>. QED
  BY <1>1, InductiveInvariant, PTL

\* detect_cycles accepts acyclic rules only, for every graph of modules.
THEOREM AcyclicWhenAcceptedHolds == Spec => []AcyclicWhenAccepted
<1>1. IInv => AcyclicWhenAccepted
  BY DEF IInv, AcyclicWhenAccepted, Cyclic, Explored, Accepted
<1>. QED
  BY <1>1, InductiveInvariant, PTL

\* detect_cycles rejects well-formed rules for a real cycle only.
THEOREM ReportedCycleIsRealHolds == Spec => []ReportedCycleIsReal
<1>1. IInv => ReportedCycleIsReal
  BY DEF IInv
<1>. QED
  BY <1>1, InductiveInvariant, PTL

\* A check that passes has confined every recorded import to the rules, and a
\* violation it reports is one, whatever prefixes extend each other.
THEOREM RecordedImportsConfinedHolds == Spec => []RecordedImportsConfined
<1>1. IInv /\ Inspection => RecordedImportsConfined
  <2> SUFFICES ASSUME IInv, Inspection PROVE RecordedImportsConfined
    OBVIOUS
  <2>1. TypeOK /\ (stage \in Accepted => WellFormed)
    BY DEF IInv, Accepted
  <2>2. ASSUME stage = "valid", NEW m \in Module, NEW s \in found[m],
               NEW name \in RecordedNames(s)
        PROVE  Confined(m, name)
    <3> SUFFICES ASSUME NEW t \in Module \ {m}, Owner(name, t)
                 PROVE  t \in Deps(m)
      BY DEF Confined, Deps
    <3>1. ForbiddenTargets(m, found[m]) = {}
      BY <2>2 DEF Inspection, Accepted
    <3>2. found[m] \in SUBSET Statement /\ WellFormed
      BY <2>1, <2>2 DEF TypeOK, Accepted
    <3>. QED
      BY <2>1, <3>1, <3>2, ForbiddenAreOwners
  <2>3. ASSUME NEW v \in violations, Len(v) = 2
        PROVE  \E s \in found[v[1]] : \E name \in RecordedNames(s) :
                  Owner(name, v[2]) /\ ~Confined(v[1], name)
    <3>1. v \notin {<<m>> : m \in Module}
      BY <2>3
    <3>2. v \in Module \X Module
      BY <2>1, <3>1 DEF TypeOK
    <3>3. PICK m \in Module, t \in Module : v = <<m, t>>
      BY <3>2
    <3>4. stage \in Accepted /\ t \in ForbiddenTargets(m, found[m])
      BY <2>3, <3>3 DEF Inspection
    <3>5. found[m] \in SUBSET Statement /\ WellFormed
      BY <2>1, <3>4 DEF TypeOK
    <3>6. PICK s \in found[m] :
              \E name \in RecordedNames(s) : Owner(name, t) /\ t # m /\ t \notin Deps(m)
      BY <2>1, <3>4, <3>5, ForbiddenAreOwners
    <3>7. PICK name \in RecordedNames(s) : Owner(name, t) /\ t # m /\ t \notin Deps(m)
      BY <3>6
    <3>8. ~Confined(m, name)
      BY <3>7 DEF Confined, Deps
    <3>. QED
      BY <3>3, <3>7, <3>8
  <2>. QED
    BY <2>2, <2>3 DEF RecordedImportsConfined
<1>. QED
  BY <1>1, InductiveInvariant, InspectionInvariant, PTL

\* A reported path that comes back to one of its modules is a cycle.
LEMMA ReportedIsCyclic ==
    ASSUME TypeOK, ReportedCycleIsReal, cycle # <<>>
    PROVE  Cyclic
<1>1. /\ cycle \in Seq(Module) /\ Len(cycle) \in Nat \ {0}
      /\ \A i \in 1 .. Len(cycle) : cycle[i] \in Module
      /\ Last(cycle) = cycle[Len(cycle)]
      /\ \A i \in 1 .. Len(cycle) - 1 : cycle[i + 1] \in rules[cycle[i]].may_import
  BY DEF TypeOK, ReportedCycleIsReal, Last
<1>2. /\ Len(Front(cycle)) = Len(cycle) - 1 /\ Front(cycle) \in Seq(Module)
      /\ \A i \in 1 .. Len(cycle) - 1 : Front(cycle)[i] = cycle[i]
  BY <1>1, FrontFacts
<1>3. PICK k \in 1 .. Len(cycle) - 1 : cycle[k] = cycle[Len(cycle)]
  <2>1. Last(cycle) \in ToSet(Front(cycle))
    BY DEF ReportedCycleIsReal
  <2>. QED
    BY <1>1, <1>2, <2>1 DEF ToSet
<1> DEFINE S == {cycle[i] : i \in k .. Len(cycle) - 1}
<1>4. S \in SUBSET Module /\ S # {}
  BY <1>1, <1>3
<1>5. ASSUME NEW i \in k .. Len(cycle) - 1
      PROVE  rules[cycle[i]].may_import \intersect S # {}
  <2>1. cycle[i + 1] \in rules[cycle[i]].may_import
    BY <1>1, <1>3
  <2>2. cycle[i + 1] \in S
    <3>1. CASE i = Len(cycle) - 1
      <4>1. cycle[i + 1] = cycle[k] /\ k \in k .. Len(cycle) - 1
        BY <1>1, <1>3, <3>1
      <4>. QED
        BY <4>1
    <3>2. CASE i # Len(cycle) - 1
      <4>1. i + 1 \in k .. Len(cycle) - 1
        BY <1>1, <1>3, <3>2
      <4>. QED
        BY <4>1
    <3>. QED
      BY <3>1, <3>2
  <2>. QED
    BY <2>1, <2>2
<1>6. Closed(S)
  BY <1>5 DEF Closed
<1>. QED
  BY <1>4, <1>6 DEF Cyclic

\* detect_cycles decides: well-formed rules are rejected exactly for a cycle.
THEOREM RejectedExactlyWhenCyclic ==
    Spec => [](stage \notin {"loading", "searching"} /\ WellFormed =>
                 (stage = "rejected" <=> Cyclic))
<1> DEFINE Shown == stage = "rejected" /\ WellFormed => cycle # <<>>
<1>1. Init => Shown
  BY DEF Init
<1>2. IInv /\ Shown /\ [Next]_vars => Shown'
  <2> SUFFICES ASSUME IInv, Shown, [Next]_vars, stage' = "rejected", WellFormed'
               PROVE  cycle' # <<>>
    OBVIOUS
  <2>1. rules' = rules
    BY DEF Next, LoadRules, RejectRules, Search, FindCycle, SkipVisited, Enter, Leave,
           FinishSearch, CheckImports, Inspect,  Report, vars
  <2>2. WellFormed
    BY <2>1 DEF WellFormed
  <2>3. ASSUME NEW m \in Module, FindCycle(m) PROVE cycle' # <<>>
    <3>1. cycle' = Append(chain, m) /\ chain \in Seq(Module)
      BY <2>3 DEF FindCycle, IInv, TypeOK
    <3>. QED
      BY <3>1
  <2>4. ASSUME UNCHANGED vars PROVE cycle' # <<>>
    BY <2>2, <2>4 DEF vars, searchVars
  <2>. QED
    BY <2>2, <2>3, <2>4
    DEF Next, LoadRules, RejectRules, Search, SkipVisited, Enter, Leave, FinishSearch,
        CheckImports, Inspect,  Report
<1>3. IInv /\ Shown => (stage \notin {"loading", "searching"} /\ WellFormed =>
                          (stage = "rejected" <=> Cyclic))
  <2> SUFFICES ASSUME IInv, Shown, stage \notin {"loading", "searching"}, WellFormed
               PROVE  stage = "rejected" <=> Cyclic
    OBVIOUS
  <2>1. TypeOK /\ ReportedCycleIsReal
    BY DEF IInv
  <2>2. stage = "rejected" => Cyclic
    BY <2>1, ReportedIsCyclic
  <2>3. stage \in Accepted => ~Cyclic
    BY DEF IInv, Cyclic, Explored, Accepted
  <2>. QED
    BY <2>1, <2>2, <2>3 DEF TypeOK, Accepted
<1>. QED
  BY <1>1, <1>2, <1>3, InductiveInvariant, PTL DEF Spec

-----------------------------------------------------------------------------
(* Termination.                                                            *)

\* The work the program has left, as a set: modules it has not entered, left
\* or taken from the outer loop, dependencies it has not followed, sources it
\* has not read, and the stages after this one.
Unentered == Module \ (visiting \union visited)
Unvisited == IF stage = "loading" THEN Module ELSE roots
Unfollowed == {p \in Module \X Module : p[1] \in Unentered \/ p[2] \in todo[p[1]]}
Unread == IF stage \in {"loading", "searching"} THEN Module ELSE uninspected
Ahead ==
    CASE stage = "loading"   -> {"searching", "inspecting", "ended"}
      [] stage = "searching" -> {"inspecting", "ended"}
      [] stage = "inspecting" -> {"ended"}
      [] OTHER -> {}

Remaining ==
    ({"enter"} \X Unentered) \union ({"leave"} \X (Module \ visited))
    \union ({"visit"} \X Unvisited) \union ({"follow"} \X Unfollowed)
    \union ({"read"} \X Unread) \union ({"reach"} \X Ahead)

\* The parts of Remaining only shrink, and one of them does.
Shrinks ==
    /\ Unentered' \subseteq Unentered /\ visited \subseteq visited'
    /\ Unvisited' \subseteq Unvisited /\ Unfollowed' \subseteq Unfollowed
    /\ Unread' \subseteq Unread /\ Ahead' \subseteq Ahead
    /\ \/ Unentered' # Unentered \/ ~(visited' \intersect Module \subseteq visited)
       \/ Unvisited' # Unvisited \/ Unfollowed' # Unfollowed
       \/ Unread' # Unread \/ Ahead' # Ahead

LEMMA ShrinkingParts ==
    ASSUME Shrinks
    PROVE  Remaining' \subseteq Remaining /\ Remaining' # Remaining
<1>1. Remaining' \subseteq Remaining
  BY DEF Shrinks, Remaining
<1>2. \A x : /\ <<"enter", x>> \in Remaining <=> x \in Unentered
             /\ <<"leave", x>> \in Remaining <=> x \in Module \ visited
             /\ <<"visit", x>> \in Remaining <=> x \in Unvisited
             /\ <<"follow", x>> \in Remaining <=> x \in Unfollowed
             /\ <<"read", x>> \in Remaining <=> x \in Unread
             /\ <<"reach", x>> \in Remaining <=> x \in Ahead
  BY DEF Remaining
<1>3. \A x : /\ <<"enter", x>> \in Remaining' <=> x \in Unentered'
             /\ <<"leave", x>> \in Remaining' <=> x \in Module \ visited'
             /\ <<"visit", x>> \in Remaining' <=> x \in Unvisited'
             /\ <<"follow", x>> \in Remaining' <=> x \in Unfollowed'
             /\ <<"read", x>> \in Remaining' <=> x \in Unread'
             /\ <<"reach", x>> \in Remaining' <=> x \in Ahead'
  BY DEF Remaining
<1>4. ASSUME Remaining' = Remaining PROVE FALSE
  <2>1. /\ Unentered' = Unentered /\ Module \ visited' = Module \ visited
        /\ Unvisited' = Unvisited /\ Unfollowed' = Unfollowed
        /\ Unread' = Unread /\ Ahead' = Ahead
    BY <1>2, <1>3, <1>4
  <2>. QED
    BY <2>1 DEF Shrinks
<1>. QED
  BY <1>1, <1>4

\* The visits of detect_cycles.
LEMMA SearchShrinks ==
    ASSUME IInv, NEW m \in Module, SkipVisited(m) \/ Enter(m) \/ Leave
    PROVE  Shrinks
<1>1. /\ TypeOK /\ Path /\ chain \in Seq(Module)
      /\ chain # <<>> => Last(chain) \in Module /\ Last(chain) \in visiting
  BY DEF IInv, TypeOK, Last, ToSet
<1>2. stage = "searching" /\ stage' = stage
  BY DEF SkipVisited, Enter, Leave
<1>3. Ahead' = Ahead /\ Unread' = Unread /\ Unvisited = roots /\ Unvisited' = roots'
  BY <1>2 DEF Ahead, Unread, Unvisited
<1>4. CASE SkipVisited(m)
  <2>1. UNCHANGED <<visiting, visited>> /\ m \in Pending /\ Follow(m)
    BY <1>4 DEF SkipVisited
  <2>2. Unentered' = Unentered
    BY <2>1 DEF Unentered
  <2>3. CASE chain = <<>>
    <3>1. m \in roots /\ roots' = roots \ {m} /\ Unfollowed' = Unfollowed
      BY <2>1, <2>2, <2>3 DEF Pending, Follow, Unfollowed
    <3>. QED
      BY <1>3, <2>1, <2>2, <3>1 DEF Shrinks
  <2>4. CASE chain # <<>>
    <3> DEFINE top == Last(chain)
    <3>1. /\ m \in todo[top] /\ roots' = roots /\ top \in Module /\ top \in visiting
          /\ todo' = [todo EXCEPT ![top] = @ \ {m}]
      BY <1>1, <2>1, <2>4 DEF Pending, Follow
    <3> HIDE DEF top
    <3>2. todo'[top] = todo[top] \ {m} /\ \A n \in Module \ {top} : todo'[n] = todo[n]
      BY <1>1, <3>1 DEF TypeOK
    <3>3. Unfollowed' \subseteq Unfollowed
      BY <2>2, <3>2 DEF Unfollowed
    <3>4. <<top, m>> \in Unfollowed /\ <<top, m>> \notin Unfollowed'
      BY <2>2, <3>1, <3>2 DEF Unfollowed, Unentered
    <3>. QED
      BY <1>3, <2>1, <2>2, <3>1, <3>3, <3>4 DEF Shrinks
  <2>. QED
    BY <2>3, <2>4
<1>5. CASE Enter(m)
  <2>1. /\ visiting' = visiting \union {m} /\ visited' = visited /\ roots' \subseteq roots
        /\ m \in Unentered
    BY <1>5 DEF Enter, Unentered
  <2>2. Unentered' = Unentered \ {m}
    BY <2>1 DEF Unentered
  <2>3. \A n \in Module \ {m} : todo'[n] \subseteq todo[n]
    <3>1. CASE chain = <<>>
      BY <1>1, <1>5, <3>1 DEF Enter, TypeOK
    <3>2. CASE chain # <<>>
      BY <1>1, <1>5, <3>2 DEF Enter, TypeOK
    <3>. QED
      BY <3>1, <3>2
  <2>4. Unfollowed' \subseteq Unfollowed
    BY <2>1, <2>2, <2>3 DEF Unfollowed
  <2>. QED
    BY <1>3, <2>1, <2>2, <2>4 DEF Shrinks
<1>6. CASE Leave
  <2>1. /\ chain # <<>> /\ UNCHANGED <<roots, todo>>
        /\ visiting' = visiting \ {Last(chain)} /\ visited' = visited \union {Last(chain)}
    BY <1>6 DEF Leave
  <2>2. Last(chain) \in Module /\ Last(chain) \in visiting /\ Last(chain) \notin visited
    BY <1>1, <2>1 DEF Path
  <2>3. Unentered' = Unentered
    BY <2>1, <2>2 DEF Unentered
  <2>4. Unfollowed' = Unfollowed
    BY <2>1, <2>3 DEF Unfollowed
  <2>. QED
    BY <1>3, <2>1, <2>2, <2>3, <2>4 DEF Shrinks
<1>. QED
  BY <1>4, <1>5, <1>6

\* The other steps end a stage or read a module's sources.
LEMMA StageShrinks ==
    ASSUME IInv,
           LoadRules \/ RejectRules \/ FinishSearch \/ CheckImports
           \/ \E m \in Module : FindCycle(m)
    PROVE  Shrinks
<1>1. TypeOK
  BY DEF IInv
<1>2. UNCHANGED <<chain, todo, visiting, visited>>
  BY DEF LoadRules, RejectRules, FinishSearch, CheckImports, Inspect, 
         Report, FindCycle, searchVars
<1>3. Unentered' = Unentered /\ Unfollowed' = Unfollowed
  BY <1>2 DEF Unentered, Unfollowed
<1>4. Unvisited' \subseteq Unvisited
  BY <1>1 DEF Unvisited, LoadRules, RejectRules, FinishSearch, CheckImports, Inspect,
               Report, FindCycle, searchVars, TypeOK
<1>5. CASE stage' # stage
  <2>1. Unread' \subseteq Unread /\ Ahead' \subseteq Ahead /\ Ahead' # Ahead
    <3>1. CASE LoadRules
      BY <3>1 DEF LoadRules, Unread, Ahead, importVars
    <3>2. CASE RejectRules
      BY <1>1, <3>2 DEF RejectRules, Unread, Ahead, importVars, TypeOK
    <3>3. CASE FinishSearch
      BY <3>3 DEF FinishSearch, Unread, Ahead
    <3>4. CASE CheckImports
      <4>1. Report
        BY <1>5, <3>4 DEF CheckImports, Inspect
      <4>2. /\ stage = "inspecting" /\ uninspected' = uninspected
            /\ stage' \in {"valid", "violations"}
        BY <4>1 DEF Report, importVars
      <4>. QED
        BY <4>2 DEF Unread, Ahead
    <3>5. ASSUME NEW m \in Module, FindCycle(m)
          PROVE  Unread' \subseteq Unread /\ Ahead' \subseteq Ahead /\ Ahead' # Ahead
      BY <1>1, <3>5 DEF FindCycle, Unread, Ahead, importVars, TypeOK
    <3>. QED
      BY <3>1, <3>2, <3>3, <3>4, <3>5
  <2>. QED
    BY <1>2, <1>3, <1>4, <2>1 DEF Shrinks
<1>6. CASE stage' = stage
  <2>1. PICK m \in Module : /\ stage = "inspecting" /\ m \in uninspected
                            /\ uninspected' = uninspected \ {m}
    BY <1>6 DEF LoadRules, RejectRules, FinishSearch, CheckImports, Inspect,
                 Report, FindCycle
  <2>2. Unread' = Unread \ {m} /\ m \in Unread /\ Ahead' = Ahead
    BY <1>6, <2>1 DEF Unread, Ahead
  <2>. QED
    BY <1>2, <1>3, <1>4, <2>2 DEF Shrinks
<1>. QED
  BY <1>5, <1>6

\* What is left of a finite set of modules is finite.
LEMMA FiniteRemaining ==
    ASSUME IsFiniteSet(Module), TypeOK
    PROVE  IsFiniteSet(Remaining)
<1>1. \A tag, S : IsFiniteSet(S) => IsFiniteSet({tag} \X S)
  BY FS_Singleton, FS_Product
<1>2. \A S \in SUBSET Module : IsFiniteSet(S)
  BY FS_Subset
<1>3. IsFiniteSet(Unfollowed)
  BY FS_Product, FS_Subset DEF Unfollowed
<1>4. Unentered \subseteq Module /\ Unvisited \subseteq Module /\ Unread \subseteq Module
  BY DEF Unentered, Unvisited, Unread, TypeOK
<1>5. IsFiniteSet({"searching", "inspecting", "ended"})
  <2>1. IsFiniteSet({"searching"} \union {"inspecting"})
    BY FS_Singleton, FS_Union
  <2>2. IsFiniteSet(({"searching"} \union {"inspecting"}) \union {"ended"})
    BY <2>1, FS_Singleton, FS_Union
  <2>3. {"searching", "inspecting", "ended"}
           = ({"searching"} \union {"inspecting"}) \union {"ended"}
    OBVIOUS
  <2>. QED
    BY <2>2, <2>3
<1>6. IsFiniteSet(Ahead)
  <2>1. Ahead \in SUBSET {"searching", "inspecting", "ended"}
    BY DEF Ahead
  <2>. QED
    BY <1>5, <2>1, FS_Subset
<1>7. /\ IsFiniteSet({"enter"} \X Unentered) /\ IsFiniteSet({"leave"} \X (Module \ visited))
      /\ IsFiniteSet({"visit"} \X Unvisited) /\ IsFiniteSet({"follow"} \X Unfollowed)
      /\ IsFiniteSet({"read"} \X Unread) /\ IsFiniteSet({"reach"} \X Ahead)
  BY <1>1, <1>2, <1>3, <1>4, <1>6
<1>. QED
  BY <1>7, FS_Union DEF Remaining

\* The program takes finitely many steps, whatever the rules: with finitely
\* many modules its work left is finite, and every step leaves less of it.
\* This is what CheckTerminates needs beside the fairness of the program.
THEOREM CheckAdvances ==
    ASSUME IsFiniteSet(Module)
    PROVE  Spec => [](Cardinality(Remaining) \in Nat)
                   /\ [][Cardinality(Remaining') < Cardinality(Remaining)]_vars
<1>1. IInv => IsFiniteSet(Remaining) /\ Cardinality(Remaining) \in Nat
  BY FiniteRemaining, FS_CardinalityType DEF IInv
<1>2. IInv /\ [Next]_vars => [Cardinality(Remaining') < Cardinality(Remaining)]_vars
  <2> SUFFICES ASSUME IInv, Next
               PROVE  Cardinality(Remaining') < Cardinality(Remaining)
    OBVIOUS
  <2>1. Shrinks
    <3>1. Module # {}
      BY CheckAssumption
    <3>. QED
      BY <3>1, SearchShrinks, StageShrinks DEF Next, Search
  <2>2. Remaining' \in SUBSET Remaining /\ Remaining' # Remaining
    BY <2>1, ShrinkingParts
  <2>3. PICK before, after : before = Remaining /\ after = Remaining'
    OBVIOUS
  <2>4. /\ Cardinality(after) \in Nat /\ Cardinality(before) \in Nat
        /\ Cardinality(after) <= Cardinality(before)
        /\ Cardinality(before) # Cardinality(after)
    BY <1>1, <2>2, <2>3, FS_Subset, FS_CardinalityType
  <2>5. Cardinality(after) < Cardinality(before)
    BY <2>4
  <2>. QED
    BY <2>3, <2>5
<1>. QED
  BY <1>1, <1>2, InductiveInvariant, PTL DEF Spec

=============================================================================
