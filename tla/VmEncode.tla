------------------------------ MODULE VmEncode ------------------------------
(***************************************************************************)
(* encoding/encode.rs of the reference machine: a thought is a tree, every  *)
(* inner node of it has a key, and its vector is composed from its          *)
(* children's.  Each thread keeps an L1 map; all of them share the cache    *)
(* program as L2.                                                           *)
(*                                                                         *)
(* The vector of a node is written as the node itself.  A node composed     *)
(* from anything but its children's own vectors is Garbled.                 *)
(***************************************************************************)
EXTENDS VmLru

CONSTANTS
    Node,      \* the nodes of all thoughts, equal subtrees being one node
    Kids,      \* the children of a node, in order
    Leaf,      \* atoms and scalars: never cached
    L1Room,
    Garbled

\* A thought is built from thoughts that exist already: the nodes are numbered
\* in an order in which children come first.
ASSUME EncodeAssumption ==
    /\ Node \subseteq Nat /\ Leaf \subseteq Node
    /\ Kids \in [Node -> Seq(Node)]
    /\ \A n \in Node : \A i \in DOMAIN Kids[n] : Kids[n][i] < n
    /\ L1Room \in Nat \ {0}
    /\ Garbled \notin Node

Vector == Node \cup {Garbled}
Entry == [key : Node \ Leaf, val : Vector]

Compose(n, vectors) == IF vectors = Kids[n] THEN n ELSE Garbled

\* What f makes of a state, one child of n after the other.
EachKid(f, state, n) == FoldLeft(LAMBDA s, kid : f[kid][s], state, Kids[n])

\* What a walk carries along: the L1 map and the keys missed so far.
Walk == [l1 : Seq(Entry), keys : Seq(Node \ Leaf)]

\* collect_l1_misses: every inner node on the way down to a hit, as often as
\* it occurs.  Looking makes what is found recent.
Collect[n \in Node] ==
    [walk \in Walk |->
        IF n \in Leaf THEN walk
        ELSE IF Has(walk.l1, n) THEN [walk EXCEPT !.l1 = Touch(@, n)]
        ELSE EachKid(Collect, [walk EXCEPT !.keys = Append(@, n)], n)]

Misses(l1, n) == Collect[n][[l1 |-> l1, keys |-> <<>>]]

\* Variant: a miss goes into L1 as well, as a vector that is not the node's.
PopulateMisses(l1, answer, miss) ==
    FoldLeft(LAMBDA m, p : Put(m, [key |-> p[1],
                                   val |-> IF p[2] = miss THEN Garbled ELSE p[2]],
                               L1Room),
             l1, answer)

\* What L2 answered goes into L1, in the order of the keys.
Populate(l1, answer, miss) ==
    FoldLeft(LAMBDA m, p : IF p[2] = miss THEN m
                           ELSE Put(m, [key |-> p[1], val |-> p[2]], L1Room),
             l1, answer)

\* What the encoding carries along: the L1 map, the entries computed so far
\* and the vectors of the siblings before.
Run == [l1 : Seq(Entry), computed : Seq(Entry), vectors : Seq(Vector)]

\* encode_local: depth first, L1 read on the way and not written, so a node
\* that occurs twice is composed twice; computed grows children first.
EncodeLocal[n \in Node] ==
    [run \in Run |->
        IF n \in Leaf THEN [run EXCEPT !.vectors = Append(@, n)]
        ELSE IF Has(run.l1, n)
        THEN [l1 |-> Touch(run.l1, n), computed |-> run.computed,
              vectors |-> Append(run.vectors, Find(run.l1, n).val)]
        ELSE LET below == EachKid(EncodeLocal, [run EXCEPT !.vectors = <<>>], n)
                 vector == Compose(n, below.vectors)
             IN [l1 |-> below.l1,
                 computed |-> Append(below.computed, [key |-> n, val |-> vector]),
                 vectors |-> Append(run.vectors, vector)]]

\* What was computed goes into L1.
InstallL1(l1, computed) ==
    FoldLeft(LAMBDA m, e : Put(m, e, L1Room), l1, computed)

\* Phases 3 and 4: the thought's vector, what is to be installed in L2, and
\* L1 with the same installed.
Computed(l1, n) ==
    LET run == EncodeLocal[n][[l1 |-> l1, computed |-> <<>>, vectors |-> <<>>]]
    IN [vector |-> run.vectors[1],
        computed |-> run.computed,
        l1 |-> InstallL1(run.l1, run.computed)]

=============================================================================
