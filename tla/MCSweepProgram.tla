--------------------------- MODULE MCSweepProgram ---------------------------
EXTENDS SweepProgram

T(n, s) == [v |-> n, suffix |-> s]
One(n, s) == <<T(n, s)>>
Mb(n, s) == <<"mb", T(n, s)>>
Bytes(n, s) == <<"bytes", T(n, s)>>

MCDefaults == [requests |-> 3, req_per_blocks |-> 2, chunk_slots |-> 2, rounds |-> 1,
               block_bytes |-> 3, sweep_min |-> 1]
Plain == [requests |-> NotGiven, req_per_blocks |-> NotGiven, chunk_slots |-> NotGiven,
          rounds |-> NotGiven, block |-> NotGiven, sweep_min |-> NotGiven,
          sweep_max |-> NotGiven, copy_to_dst |-> TRUE, csv |-> TRUE]

\* Sizes of the store, with products beyond some width and within all; the last chunk of a
\* block is full or not, blocks are one or several, and options are given twice.
Sizing == {[Plain EXCEPT !.requests = r, !.req_per_blocks = b, !.chunk_slots = s,
                         !.block = y, !.sweep_max = One(1, "")] :
             r \in {One(3, ""), One(7, ""), <<T(0, ""), T(4, "")>>},
             b \in {One(1, ""), One(2, ""), One(3, ""), One(7, ""), One(2, "m"),
                    <<T(7, ""), T(2, "")>>},
             s \in {One(2, ""), One(3, ""), One(7, ""), One(33, "k")},
             y \in {NotGiven, <<Bytes(1, "")>>, <<Bytes(2, "")>>, <<Bytes(3, "k")>>,
                    <<Mb(1, "")>>, <<Mb(3, "")>>, <<Mb(1, "m")>>,
                    <<Mb(1, ""), Bytes(3, "")>>, <<Bytes(2, ""), Mb(1, "")>>,
                    <<Mb(3, ""), Bytes(3, "")>>}}

\* Ranges of the sweep, up to the end of the 32-bit integers, and rounds.
Sweeping == {[Plain EXCEPT !.requests = One(r, ""), !.sweep_min = lo, !.sweep_max = hi,
                           !.rounds = n, !.copy_to_dst = cp, !.csv = FALSE] :
               r \in {3, 7}, lo \in {NotGiven, One(2, ""), One(3, "")},
               hi \in {NotGiven, One(2, "k"), One(3, "")}, n \in {NotGiven, One(2, "")},
               cp \in BOOLEAN}

\* As many rounds as a 32-bit number can be, and one fewer.
ManyRounds == {[Plain EXCEPT !.requests = One(2, ""), !.rounds = One(n, ""), !.csv = FALSE] :
                 n \in {6, 7}}
MCCommandLines == Sizing \cup Sweeping \cup ManyRounds
=============================================================================
