---------------------------- MODULE MCHttpClient ----------------------------
EXTENDS HttpClient

MCKinds == {[chunked |-> FALSE, sizes |-> <<1>>],
            [chunked |-> TRUE, sizes |-> <<1>>]}
Symmetry == Permutations(Users) \cup Permutations(Conns)
=============================================================================
