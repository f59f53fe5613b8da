------------------------------ MODULE MCServer ------------------------------
(* The server on instances that TLC can check.  Links are not symmetric: they *)
(* connect in the order of their numbers.                                     *)
EXTENDS Server

\* The server is made to run and stopped again, or left in suspension
RunAndStop == {<<"STOP", "RUNNING">>, <<"RUNNING", "STOP">>, <<"STOP", "SUSPEND">>}

\* The call to make the first connection's link, its registration, the addition of its
\* task and that of an accept task may fail
SomeFail == {<<"accept", 1>>, <<"register", 1>>, <<"task_add", 1>>, <<"task_add", None>>}
=============================================================================
