---------------------------- MODULE MCMutualTab ----------------------------
(* One phone, a device of the other party and two tallies, for TLC.        *)
EXTENDS MutualTab, TLC

CONSTANTS p, q, e1, e2, none

OnePhone == {p}
OneOther == {q}
TwoEntries == {e1, e2}
Sides == p :> "a" @@ q :> "b"
Authors == e1 :> p @@ e2 :> q
\* one complication at a time, and one change only where it gets long
OneStory ==
    /\ Cardinality({x \in 1..3 : <<grouped, limited # {}, demotable # {}>>[x]}) <= 1
    /\ faults > 0 => ~grouped /\ demotable = {}
    /\ grouped \/ (limited # {} /\ faults > 0) => Cardinality(wrote[p]) <= 1
====
