------------------------------- MODULE MCCalls ------------------------------
(* Instances of Calls: what getDCs answers is one configuration that knows *)
(* all types or one that leaves some out.                                  *)
EXTENDS Calls, TLC

Default == "api" :> <<"a0">> @@ "bot" :> <<"a0">> @@ "socket" :> <<"s0">> @@ "rubino" :> <<"r0">>

Answered ==
    { "api" :> <<"a1", "a2">> @@ "bot" :> <<"b1">> @@ "socket" :> <<"s1">> @@ "rubino" :> <<"r1">>,
      "api" :> <<"a2", "a1">> @@ "socket" :> <<"s0">> }

Configured == <<"mine", "s0">>
=============================================================================
