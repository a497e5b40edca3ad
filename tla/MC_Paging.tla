------------------------------- MODULE MC_Paging -------------------------------
(* A small instance of Paging: collections of up to four items over a page *)
(* of two, one of them without an id.                                      *)
EXTENDS Paging

CONSTANTS i1, i2, i3, i4, anon

AllItems == {i1, i2, i3, i4, anon}
Nameless == {anon}
Held     == {<<>>, <<i1>>, <<i1, i2, i3>>, <<i1, i2, i3, i4>>, <<i4, i1, i3>>,
             <<i1, anon, i2, i3>>}
Asked    == {1, 3, NoNumber}

=============================================================================
