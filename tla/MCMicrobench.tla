---------------------------- MODULE MCMicrobench ----------------------------
EXTENDS Microbench

CONSTANT d                      \* a directory named on the command line

\* Node 0 and 1 have CPUs, node 2 (CXL) has none, node 3 does not exist but 4 does.
Topology == (0 :> {0, 1}) @@ (1 :> {2, 3}) @@ (2 :> {}) @@ (3 :> {}) @@ (4 :> {4})
Holes == {3}

Plain == [wellformed |-> TRUE, mode |-> <<"seq", "random">>, threads |-> 1, memory |-> 1,
          devdax |-> FALSE, membind |-> 2, affinity |-> Unset, prefetch |-> Unset,
          pre_touch |-> FALSE, result_dir |-> Unset]

\* Every list of two modes, and those that are no list.
Tokens == ModeToken \cup {"all", "none_such"}
Lists == {<<>>} \cup {<<m>> : m \in Tokens} \cup {<<m, n>> : m, n \in Tokens}
ByMode == {[Plain EXCEPT !.mode = l] : l \in Lists}

\* Places, pre-touching, a bad option.
ByPlace ==
  {[Plain EXCEPT !.wellformed = w, !.devdax = x, !.membind = b, !.pre_touch = t, !.prefetch = f] :
     w \in BOOLEAN, x \in BOOLEAN, b \in {Unset, 2, 9}, t \in BOOLEAN, f \in {Unset, "ON"}}

\* Sizes below and past what an int holds, and around the size of a chase.
BySize ==
  {[Plain EXCEPT !.threads = t, !.memory = m, !.pre_touch = TRUE,
                 !.mode = <<"pointer_chase", "stride">>] :
     t \in 0 .. 3, m \in 1 .. 4}

\* Nodes named twice, not at all, out of order; no number; without CPUs; past the last.
ByAffinity ==
  {[Plain EXCEPT !.threads = t, !.affinity = a, !.mode = <<"seq_read">>] :
     t \in 1 .. 4,
     a \in {<<>>, <<0>>, <<0, 0>>, <<1, 0>>, <<4, 0, 4>>, <<0, 0, 1>>, <<-1>>, <<0, -1>>, <<2>>, <<3>>, <<7>>}}

One == ByMode \cup ByPlace \cup BySize \cup ByAffinity

\* Two runs that may share a second: the modes differ, or one names its directory.
Two == {Plain, [Plain EXCEPT !.mode = <<"zipfian">>], [Plain EXCEPT !.result_dir = d]}

\* Each command line on its own, beside a run that is refused, and all pairs of two.
OneOrTwo == {<<c, [Plain EXCEPT !.wellformed = FALSE]>> : c \in One} \cup (Two \X Two)
=============================================================================
