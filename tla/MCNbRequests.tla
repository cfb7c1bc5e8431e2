---------------------------- MODULE MCNbRequests ----------------------------
(* Instances of NbRequests for TLC.                                        *)
EXTENDS NbRequests, TLC

TwoKeys  == {"x", "y"}

(* Documents with values below, at and above the one compared with.        *)
Around1  == 0..2
Just1    == {1}

(* Lists to ignore among those to take over.                               *)
SomeOrders      == {<<>>, <<"-x">>, <<"y", "-x">>, <<"x", "">>}
SomeProjections == {<<>>, "x" :> TRUE, ("x" :> FALSE) @@ ("y" :> TRUE), "" :> TRUE}

(* Both sides of each bound.                                               *)
Bounds == {-2, -1, 0, 1, 99, 100, 101}

Reserved    == SdkHeaderNames \ {"User-Agent"}
HeadersUsed == {"", "X-Plan", "X-Session-Token", "x-session-token", "User-Agent", "user-agent"}
ParamsUsed  == {"plan"}

LowerCase ==
  [name \in HeadersUsed \cup ParamsUsed \cup Reserved |->
     CASE name = "User-Agent"      -> "user-agent"
       [] name = "X-Session-Token" -> "x-session-token"
       [] OTHER                    -> name]

ThreePermissions == <<"READ", "CREATE", "ADMIN">>
TwoUsers         == {1, 2}
WithNoString     == {-1, 1, 2}

Symmetry == Permutations(Queries)
=============================================================================
