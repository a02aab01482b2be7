---------------------------- MODULE RoutePolicy -----------------------------
(***************************************************************************)
(* What happens to a scheduled order before its targets are tried: the     *)
(* targets that cannot serve the request are dropped (Fit), and the        *)
(* route's policy prefers a target or a grade of targets.  A latch of the  *)
(* session wins over the selector's choice, and that over the band the     *)
(* request falls into.                                                     *)
(*                                                                         *)
(* A preference for a target is the set of targets it matches: one that    *)
(* names a pool matches all of its accounts.                               *)
(***************************************************************************)
EXTENDS Integers, Sequences, SequencesExt, Filters

CONSTANTS
  GradeOf,    \* grade that declares a target, NoGrade when none does
  NoGrade

(* The targets that fit the request; the whole order when none does and the *)
(* pool of the other routes has nothing to offer (pool = <<>>).             *)
Fitting(ordered, fit) == Keep(ordered, fit)

(* Targets on the providers of the route first, each part in its order.     *)
PreferProviders(scheduled, provs, ProvOf) ==
  LET own == {t \in ToSet(scheduled) : ProvOf[t] \in provs}
  IN Keep(scheduled, own) \o Without(scheduled, own)

(* PreferTarget moves the first target that matches to the front.           *)
PreferTarget(ordered, want) ==
  LET i == SelectInSeq(ordered, LAMBDA t : t \in want)
  IN IF i = 0 THEN ordered ELSE <<ordered[i]>> \o RemoveAt(ordered, i)

(* The policy of a route without grades.  A latch applies when its target   *)
(* is in the order; otherwise the band's preference, then the selector's.   *)
TargetPolicy(ordered, latched, band, choice) ==
  IF \E i \in 1..Len(ordered) : ordered[i] \in latched
    THEN PreferTarget(ordered, latched)
    ELSE PreferTarget(PreferTarget(ordered, band), choice)

(* Grades in the order in which the targets first name them.                *)
GradeOrder(ordered) ==
  LET first == Keep([i \in 1..Len(ordered) |-> i], {i \in 1..Len(ordered) :
                  /\ GradeOf[ordered[i]] # NoGrade
                  /\ \A j \in 1..(i - 1) : GradeOf[ordered[j]] # GradeOf[ordered[i]]})
  IN [k \in 1..Len(first) |-> GradeOf[ordered[first[k]]]]

InGrade(ordered, g) == Keep(ordered, {t \in ToSet(ordered) : GradeOf[t] = g})

\* The targets of each grade that fit the request, in grade order.
Groups(ordered, fit) ==
  LET grades == GradeOrder(ordered)
  IN [k \in 1..Len(grades) |->
        [name |-> grades[k], targets |-> Fitting(InGrade(ordered, grades[k]), fit)]]

HasTargets(groups, g) == \E k \in 1..Len(groups) : groups[k].name = g /\ groups[k].targets # <<>>

(* SelectGrade: latch, then selector, then band.                            *)
SelectGrade(latched, choice, band) ==
  IF latched # NoGrade THEN latched ELSE IF choice # NoGrade THEN choice ELSE band

Joined(groups) == FlattenSeq([k \in 1..Len(groups) |-> groups[k].targets])

\* Mutant: a selected grade that is not in the order leaves nothing.
BuildGradeOrdered_NoFallback(selected, groups, ungraded, fallback) ==
  LET at == SelectInSeq(groups, LAMBDA g : g.name = selected)
  IN IF selected = NoGrade THEN Joined(groups) \o ungraded
     ELSE IF at = 0 THEN <<>>
     ELSE groups[at].targets
            \o (IF fallback = "strict" THEN <<>>
                ELSE Joined(SubSeq(groups, at + 1,
                               IF fallback = "next_grade" /\ at < Len(groups) THEN at + 1 ELSE Len(groups)))
                       \o ungraded)

(* buildGradeOrdered: the selected grade, then what the fallback mode adds: *)
(* "any" the grades after it, "next_grade" the one after it, both with the  *)
(* ungraded targets, "strict" nothing.                                      *)
BuildGradeOrdered(selected, groups, ungraded, fallback) ==
  LET at == SelectInSeq(groups, LAMBDA g : g.name = selected)
  IN IF at = 0 THEN Joined(groups) \o ungraded
     ELSE groups[at].targets
            \o (IF fallback = "strict" THEN <<>>
                ELSE Joined(SubSeq(groups, at + 1,
                               IF fallback = "next_grade" /\ at < Len(groups) THEN at + 1 ELSE Len(groups)))
                       \o ungraded)

(* The policy of a route with grades.  A latch whose grade has no target    *)
(* left is inert.                                                           *)
GradePolicy(ordered, fit, latched, band, choice, fallback) ==
  LET groups == Groups(ordered, fit)
      live == IF HasTargets(groups, latched) THEN latched ELSE NoGrade
  IN IF groups = <<>> THEN ordered
     ELSE BuildGradeOrdered(SelectGrade(live, choice, band), groups,
                            InGrade(ordered, NoGrade), fallback)
=============================================================================
