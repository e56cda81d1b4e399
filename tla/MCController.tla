----------------------------- MODULE MCController -----------------------------
EXTENDS Controller

\* A long stream, a stream with a page, and two pages without a camera.
Uses == {[frames |-> 3, pages |-> {}], [frames |-> 1, pages |-> {1}],
         [frames |-> 0, pages |-> {1, 2}]}
TwoPages == {1, 2}
==============================================================================
