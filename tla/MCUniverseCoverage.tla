------------------------- MODULE MCUniverseCoverage -------------------------
(* Courses of events for checking UniverseCoverage with TLC. *)
EXTENDS UniverseCoverage

CONSTANTS ta, tb, tc, te, tf, rg, rh

\* The governed change, announced long before it is effective or the day before.
GovernedChanges ==
    {[release |-> rg, announced |-> x, effective |-> 3, out |-> ta, in |-> te] : x \in {0, 2}}

\* Another change that no activation supports, on the same day or later, and
\* announced before the governed one is effective or after.
Others ==
    {[release |-> rh, announced |-> x[1], effective |-> x[2], out |-> tb, in |-> tf] :
        x \in {<<1, 3>>, <<1, 4>>, <<4, 4>>, <<4, 5>>}}

Alone == {{x} : x \in GovernedChanges}
Courses == Alone \cup {{x, y} : x \in GovernedChanges, y \in Others}

\* The courses meet the premises of the proofs.
ASSUME CoursesAssumption == \A s \in Schedules : Regular(s) /\ Noticed(s)
=============================================================================
