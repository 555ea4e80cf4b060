------------------------------- MODULE MCTasks -------------------------------
(* The instance of the run: two commands after each other, of each kind.     *)
EXTENDS Tasks

MCOrders ==
    {<<"modify", "stop">>, <<"cancel", "retry">>, <<"media", "retry">>,
     <<"stop", "retry">>}
=============================================================================
