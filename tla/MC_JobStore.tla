----------------------------- MODULE MC_JobStore ------------------------------
(* Command lines for JobStore: values with and without the blank that    *)
(* "4, 8" leaves after split(","), entries below and at the 8K default,   *)
(* one or two programs and applications, and every trace type; and a    *)
(* program name ending in a digit next to a two-digit ways value.        *)
EXTENDS JobStore

CONSTANTS a1, a2

MCWaysLists == {<< <<"4">> >>, << <<"4">>, <<" ", "8">> >>}
MCEntriesLists == {<< <<"8">> >>, << <<"8">>, <<" ", "2">> >>}
MCRunLists == {<< <<"lru">> >>, << <<"lru">>, <<"opt">> >>}
MCAppLists == {<<a1>>, <<a1, a2>>}

\* A run list whose second program name ends in a digit ("lru,lru2") and
\* a ways list "24,4".
MCDigitRunLists == {<< <<"lru">>, <<"lru", "2">> >>}
MCDigitWaysLists == {<< <<"2", "4">>, <<"4">> >>}
=============================================================================
