---------------------------- MODULE MCToolRounds ----------------------------
(* Model-checking parameters for ToolRounds. *)
EXTENDS ToolRounds, TLC

Call(t, g, a) == [tool |-> t, group |-> g, arg |-> a]
Local  == Call("notes", "none", 1)
Other  == Call("notes", "none", 2)
Fetch1 == Call("fetch_url", "site", 1)
Fetch2 == Call("fetch_url", "site", 2)
Query1 == Call("search_web", "topic", 1)
Ghost  == Call("no_such_tool", "none", 1)

NetworkCalls == {Query1, Fetch1, Fetch2}
RoundCalls   == {Local, Other, Query1, Ghost}
LocalCalls   == {Local, Ghost}
SomeTools    == {"notes", "fetch_url", "fetch_url_rendered", "search_web"}

Limits(a, b, c, d) == [p \in Pressure |-> CASE p = 0 -> a [] p = 1 -> b
                                            [] p = 2 -> c [] p = 3 -> d]
LowTotals == Limits(2, 2, 1, 1)
NoFetches == Limits(0, 0, 0, 0)
TwoTotals == Limits(2, 2, 2, 2)
LowEach   == Limits(2, 1, 1, 1)
=============================================================================
