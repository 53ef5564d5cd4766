------------------------- MODULE MCEventDispatcher -------------------------
(* An instance of EventDispatcher for TLC: one listener that is removed     *)
(* after one call and one without a limit; one goroutine that makes three   *)
(* calls, enough to pass the recursion limit, and one that makes two.       *)
EXTENDS EventDispatcher, TLC

CONSTANTS once, always, t1, t2

MCThreads == {t1, t2}
MCListeners == {once, always}

MCLimit == (once :> 1) @@ (always :> 0)
MCMaxCalls == (t1 :> 3) @@ (t2 :> 2)
=============================================================================
