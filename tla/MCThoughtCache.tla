--------------------------- MODULE MCThoughtCache ---------------------------
(* Instances of ThoughtCache for TLC: every program of three forms in which *)
(* a form steps to a later one, with every coincidence between forms.       *)
EXTENDS ThoughtCache, TLC

CONSTANTS f1, f2, f3, v, w

MCForm == {f1, f2, f3}
MCValue == {v, w}

To(x) == [kind |-> "next", to |-> x]
Ends(x) == [kind |-> "terminal", to |-> x]
Fails == [kind |-> "fails"]

MCRule ==
    {(f1 :> a) @@ (f2 :> b) @@ (f3 :> c) :
        a \in {To(f2), To(f3), Ends(v)},
        b \in {To(f3), To(w), Ends(v), Fails},
        c \in {To(v), Ends(w), Fails}}

Pair(x, y) == {<<x, y>>, <<y, x>>}
MCNear ==
    {UNION S : S \in SUBSET {Pair(f1, f2), Pair(f1, f3), Pair(f2, f3)}}

\* A step never leads to a coordinate whose coincidents step back to it.
Descends(p) ==
    \E rank \in [MCForm -> 0..2] :
        \A f, g \in MCForm : \A k \in MCForm :
            (k = f \/ <<k, f>> \in p.near) /\ p.rule[k] = To(g)
                => rank[g] < rank[f]

MCProgram == {p \in [rule : MCRule, near : MCNear] : Descends(p)}

\* Every coincidence, among programs in which nothing fails.
MCEveryProgram ==
    {p \in [rule : MCRule, near : MCNear] : \A f \in MCForm : p.rule[f] # Fails}

=============================================================================
