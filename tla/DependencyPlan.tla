---------------------------- MODULE DependencyPlan ----------------------------
(***************************************************************************)
(* The plan of an installation (internal/extension/dependency_plan.go):    *)
(* packages are selected one extension at a time, newest first, until      *)
(* every required dependency of the selected ones is met, and the solver   *)
(* goes back to its last choice when it is not; then what was selected is  *)
(* put in order, depth first.  Every behaviour plans one library.          *)
(* Versions are numbers, extensions are numbered by their order; the       *)
(* library lists no package that is incompatible with the Hub.             *)
(***************************************************************************)
EXTENDS Integers, Sequences, FiniteSetsExt, Functions

CONSTANTS
  Libraries,  \* the packages there may be: extension -> version -> extension
              \* -> the range that package asks of it, or NoRange
  NoRange     \* no requirement

Root == 1

\* What a package may ask of an extension.
Asked == {NoRange} \cup [min : Nat, max : Nat]

\* A library numbers its extensions and the versions of each; of the Root it has
\* the one to install.
ASSUME PlanAssumption ==
  \A l \in Libraries :
    /\ l \in Seq(Seq(Seq(Asked))) /\ l # <<>> /\ Len(l[Root]) = 1
    /\ \A e \in DOMAIN l : \A v \in DOMAIN l[e] : Len(l[e][v]) = Len(l)

VARIABLES
  library,   \* one of them
  inplace,   \* extension -> version installed, or 0
  selected,  \* extension -> version selected, or 0
  expanded,  \* extensions whose dependencies were added
  choices,   \* the choices to go back to, last one first
  plan,      \* "solving", "back", "blocked", "ordering", "cycle" or "solved"
  path,      \* extensions that are being visited, each for the one before it
  left,      \* extension -> its dependencies that were not looked at
  visited,   \* extensions that were, with all they depend on
  steps      \* those of them that are to be installed, in order

solvingVars == <<selected, expanded, choices>>
orderVars == <<path, left, visited, steps>>
planVars == <<library, inplace, solvingVars, plan, orderVars>>

Extensions == DOMAIN library
Packaged(x) == DOMAIN library[x]

Accepts(range, v) == range = NoRange \/ (range.min <= v /\ v <= range.max)
Dependencies(e, v) == {x \in Extensions : library[e][v][x] # NoRange}

\* Requirements on x of the packages whose dependencies were added.
Requirements(x) == {library[e][selected[e]][x] : e \in expanded} \ {NoRange}
Satisfies(x, v) == \A range \in Requirements(x) : Accepts(range, v)

\* The choices of packages; 0 is none.
Selections == {f \in [Extensions -> {0} \cup UNION {Packaged(e) : e \in Extensions}] :
                 \A e \in Extensions : f[e] \in {0} \cup Packaged(e)}

PlanInit ==
  /\ library \in Libraries
  /\ inplace \in Selections
  /\ selected = [e \in Extensions |-> IF e = Root THEN 1 ELSE 0]
  /\ expanded = {} /\ choices = <<>> /\ plan = "solving"
  /\ path = <<>> /\ left = [e \in Extensions |-> {}] /\ visited = {} /\ steps = <<>>

Unexpanded == {e \in Extensions : selected[e] # 0} \ expanded
Unresolved == {x \in Extensions : selected[x] = 0 /\ Requirements(x) # {}}

-----------------------------------------------------------------------------

\* The dependencies of the first selected package that was not looked at: one
\* that contradicts an earlier selection ends this attempt.
Expand ==
  LET e == Min(Unexpanded)
      deps == library[e][selected[e]]
  IN  /\ plan = "solving" /\ Unexpanded # {}
      /\ expanded' = expanded \cup {e}
      /\ plan' = IF \A x \in Dependencies(e, selected[e]) :
                      selected[x] # 0 => Accepts(deps[x], selected[x])
                 THEN "solving" ELSE "back"
      /\ UNCHANGED <<library, inplace, selected, choices, orderVars>>

Impossible(x) ==
  \E a, b \in Requirements(x) : a.min > b.max

\* Faulty variant: the choice of a candidate is final.
CandidatesFirst(x) ==
  LET all == {v \in Packaged(x) : Satisfies(x, v)} IN IF all = {} THEN {} ELSE {Max(all)}

\* The packages that meet the requirements.
Candidates(x) == {v \in Packaged(x) : Satisfies(x, v)}

\* The first dependency nothing was selected for: an installed package is kept
\* or is a conflict; of a library's candidates the newest is tried first.
Resolve ==
  LET x == Min(Unresolved)
      all == Candidates(x)
  IN  /\ plan = "solving" /\ Unexpanded = {} /\ Unresolved # {}
      /\ \/ /\ ~Impossible(x) /\ inplace[x] # 0 /\ Satisfies(x, inplace[x])
            /\ selected' = [selected EXCEPT ![x] = inplace[x]]
            /\ UNCHANGED <<choices, plan>>
         \/ /\ ~Impossible(x) /\ inplace[x] = 0 /\ all # {}
            /\ selected' = [selected EXCEPT ![x] = Max(all)]
            /\ choices' = <<[ext |-> x, rest |-> all \ {Max(all)}, selected |-> selected,
                             expanded |-> expanded]>> \o choices
            /\ UNCHANGED plan
         \/ /\ Impossible(x) \/ (IF inplace[x] # 0 THEN ~Satisfies(x, inplace[x])
                                                   ELSE all = {})
            /\ plan' = "back"
            /\ UNCHANGED <<selected, choices>>
      /\ UNCHANGED <<library, inplace, expanded, orderVars>>

\* Back to the last choice that has a candidate left.
GoBack ==
  /\ plan = "back"
  /\ IF choices = <<>>
     THEN plan' = "blocked" /\ UNCHANGED solvingVars
     ELSE LET last == Head(choices)
              next == Max(last.rest)
          IN  IF last.rest = {}
              THEN choices' = Tail(choices) /\ UNCHANGED <<selected, expanded, plan>>
              ELSE /\ selected' = [last.selected EXCEPT ![last.ext] = next]
                   /\ expanded' = last.expanded
                   /\ choices' = <<[last EXCEPT !.rest = @ \ {next}]>> \o Tail(choices)
                   /\ plan' = "solving"
  /\ UNCHANGED <<library, inplace, orderVars>>

-----------------------------------------------------------------------------
(* The order.  detectDependencyCycle goes through the dependencies in the  *)
(* same way as dependencyInstallOrder after it: here once for both.        *)

Edges(e) == IF selected[e] = 0 THEN {} ELSE Dependencies(e, selected[e])

Solve ==
  /\ plan = "solving" /\ Unexpanded = {} /\ Unresolved = {}
  /\ plan' = "ordering"
  /\ path' = <<Root>>
  /\ left' = [e \in Extensions |-> Edges(e)]
  /\ UNCHANGED <<library, inplace, solvingVars, visited, steps>>

Top == path[Len(path)]

\* The next dependency of the one that is being visited.
VisitChild ==
  LET child == Min(left[Top])
  IN  /\ plan = "ordering" /\ left[Top] # {}
      /\ IF child \in Range(path)
         THEN plan' = "cycle" /\ UNCHANGED orderVars
         ELSE /\ left' = [left EXCEPT ![Top] = @ \ {child}]
              /\ path' = IF child \in visited THEN path ELSE Append(path, child)
              /\ UNCHANGED <<plan, visited, steps>>
      /\ UNCHANGED <<library, inplace, solvingVars>>

\* It comes after all of its dependencies, and is installed unless it is.
EndVisit ==
  /\ plan = "ordering" /\ left[Top] = {}
  /\ visited' = visited \cup {Top}
  /\ steps' = IF inplace[Top] # 0 THEN steps ELSE Append(steps, Top)
  /\ path' = SubSeq(path, 1, Len(path) - 1)
  /\ plan' = IF Len(path) = 1 THEN "solved" ELSE "ordering"
  /\ UNCHANGED <<library, inplace, solvingVars, left>>

PlanNext == Expand \/ Resolve \/ GoBack \/ Solve \/ VisitChild \/ EndVisit

PlanSpec == PlanInit /\ [][PlanNext]_planVars

-----------------------------------------------------------------------------

PlanTypeOK ==
  /\ selected \in Selections /\ selected[Root] = 1
  /\ expanded \subseteq {e \in Extensions : selected[e] # 0}
  /\ plan \in {"solving", "back", "blocked", "ordering", "cycle", "solved"}
  /\ path \in Seq(Extensions) /\ left \in [Extensions -> SUBSET Extensions]
  /\ visited \subseteq Extensions /\ steps \in Seq(Extensions)

\* f selects packages that need nothing beyond one another, and keeps those
\* that are installed.
Consistent(f) ==
  /\ f[Root] = 1
  /\ \A e \in Extensions : f[e] # 0 =>
       /\ inplace[e] \in {0, f[e]}
       /\ \A x \in Dependencies(e, f[e]) :
            f[x] # 0 /\ Accepts(library[e][f[e]][x], f[x])

(* A plan that is carried out in order installs all that the root needs and *)
(* is not there, each after what it requires itself; it never needs an      *)
(* installed package to be replaced, and leaves no requirement open.  A     *)
(* plan is blocked only if no choice of packages would do, whatever the     *)
(* candidates tried first were (dependencySolver.solve,                     *)
(* dependencyInstallOrder).  A selection with a cycle is refused, even      *)
(* where other candidates would avoid it: of that plan nothing is said.     *)
PlanIsSound ==
  /\ plan = "solved" =>
       /\ Consistent(selected)
       /\ Root \in visited
       /\ \A e \in visited : /\ Edges(e) \subseteq visited
                             /\ inplace[e] # 0 \/ e \in Range(steps)
       /\ \A i \in DOMAIN steps : \A x \in Edges(steps[i]) :
            inplace[x] # 0 \/ \E j \in 1..(i - 1) : steps[j] = x
  /\ plan = "blocked" =>
       ~ \E f \in Selections : Consistent(f)
=============================================================================
