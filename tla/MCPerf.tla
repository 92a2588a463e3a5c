------------------------------- MODULE MCPerf -------------------------------
(***************************************************************************)
(* Small instances of Perf: two-bit words.                                 *)
(***************************************************************************)
EXTENDS Perf

B == INSTANCE Bitwise
MCXor(a, b) == B!^^(a, b)

(* The event lists: none, one counter, a fixed and a raw one.              *)
MCLists == {<< >>, <<"raw", "cycles">>, <<"timestamp">>}
MCWrap == [i \in 0 .. 3 |-> IF i = 3 THEN 2 ELSE 8]
(* Standing still, a step, a carry into the upper word, a wrap.            *)
MCAdvances(i) == IF i = 3 THEN {0, 1} ELSE {0, 3, 7}
(* A step only.                                                            *)
MCStep(i) == IF i = 3 THEN {1} ELSE {3}
(* Masks are written as words above the data words.                        *)
MCMaskWord(m) == CASE m = {} -> 0 [] m = {1} -> 2 [] m = {0, 3} -> 9
MCMaskOf(d) == IF d = 9 THEN {0, 3} ELSE IF d = 2 THEN {1} ELSE {}

MCCalls == {[type |-> Manual, fn |-> 2, cs |-> 0], [type |-> FuncEnter, fn |-> 6, cs |-> 2],
            [type |-> FuncExit, fn |-> 2, cs |-> 12]}
=============================================================================
