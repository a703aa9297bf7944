----------------------------- MODULE MCCloseOut -----------------------------
(* CloseOut on splits of two and three units, a split that is refused, and  *)
(* reviews that pass, note, or send back.                                   *)
EXTENDS CloseOut

Unit(o, d) == [order |-> o, deps |-> d]

MCPlans ==
  [two |-> <<Unit(1, {}), Unit(2, {1})>>,
   three |-> <<Unit(1, {}), Unit(3, {1}), Unit(2, {})>>,
   forward |-> <<Unit(1, {2}), Unit(2, {})>>]

MCSize == [nit |-> 1, note |-> 1, defect |-> 3]

\* Of a split's units, each of the first two may be noted on or sent back, and the
\* third passes.
MCReports ==
  [u \in 0..3 |-> CASE u = 0 -> {<<>>, <<"defect", "nit">>}
                    [] u = 1 -> {<<"nit">>, <<"defect", "nit">>}
                    [] u = 2 -> {<<"note">>, <<"defect">>}
                    [] u = 3 -> {<<>>}]
=============================================================================
