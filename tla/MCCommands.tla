----------------------------- MODULE MCCommands -----------------------------
EXTENDS Commands

CONSTANTS apt, brew, a, b, p1, p2

\* Declarations: a package with no hint, and one that prefers the second manager.
Plain == [prefer |-> None, offers |-> {}, accepts |-> Versions]
Preferring == [prefer |-> brew, offers |-> {}, accepts |-> Versions]

PlainOnly == {Plain}
Both == {Plain, Preferring}
\* A package nobody offers, one that apt offers, and one pinned to the second version.
Offered == {Plain, [Plain EXCEPT !.offers = {apt}], [Plain EXCEPT !.offers = {apt}, !.accepts = {"v2"}]}
\* As Both, and one pinned to the second version.
Pinned == Both \cup {[Plain EXCEPT !.accepts = {"v2"}]}
AptOnly == <<apt>>
AptThenBrew == <<apt, brew>>

Symmetric == Permutations(Procs)

=============================================================================
