----------------------------- MODULE MCConfIni -----------------------------
(* ConfIni for TLC *)
EXTENDS ConfIni

\* All values of up to three characters that mean something, and some longer ones
Chars == {"v", ";", "\\", "'", "\""}
Values3 == UNION {[1 .. n -> Chars] : n \in 0 .. 3}
Longer == {
    <<" ", "v", " ", ";", " ">>, <<"v", " ", "v", "\\", " ">>, <<"'", "\"", ";", "'", ";", "\"">>,
    <<"\\", "'", ";", "'">>, <<"'", "\\", "'", ";", "'">>}
Settings == {<<"k", "=">> \o v : v \in Values3 \cup Longer}

Others == {
    <<"[", "a", "]">>, <<" ", "[", " ", "b", "a", " ", "]", ";">>, <<"[", "b", "]">>,
    <<"[", "c", "]">>, <<"[", " ", "]">>, <<"[", "a">>, <<"[", ";", "a", "]">>,
    <<" ">>, <<"=", "v">>, <<";", "k", "=", "v">>, <<"k">>,
    <<" ", "j", " ", "=", " ", "v">>, <<"x", "=", "v">>, <<"[", "k", "=", "v">>}

\* One character more than fits a buffer of 10
TooLong == {<<"k", "=", "v", "v", "v", "v", "v", "v", "v">>}

AllLines == Settings \cup Others \cup TooLong

TwoTables == << [name |-> <<"a">>, keys |-> {<<"k">>, <<"j">>}],
                [name |-> <<"b">>, keys |-> {<<"k">>}] >>
=============================================================================
