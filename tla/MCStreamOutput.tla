---------------------------- MODULE MCStreamOutput ----------------------------
(* A small instance of StreamOutput for TLC. *)
EXTENDS StreamOutput, TLC

(* The user's words, a reasoning, a tool and a text in the first turn, a   *)
(* text in the second; letters 1, 2, 3 and 21, 22, states 91, 92.          *)
MCOrder == <<"user", "why", "tool", "answer", "coda", "step", "reply">>
MCEchoes == {"user"}
MCBlockOf == "user" :> "text" @@ "why" :> "reasoning" @@ "tool" :> "tool"
             @@ "answer" :> "text" @@ "coda" :> "text" @@ "step" :> "step"
             @@ "reply" :> "text"
MCRoleOf == [p \in Range(MCOrder) |-> IF p = "why" THEN "agent" ELSE "none"]
MCTurnOf == [p \in Range(MCOrder) |-> IF p = "reply" THEN 2 ELSE 1]
MCChunksOf == "user" :> <<<<7>>>> @@ "why" :> <<<<21>>, <<22>>>>
              @@ "tool" :> <<<<91>>, <<92>>>>
              @@ "answer" :> <<<<1, 0>>, <<2>>>> @@ "coda" :> <<<<0, 3>>>>
              @@ "step" :> <<<<81>>, <<82>>>> @@ "reply" :> <<<<4>>, <<5>>>>
MCUserText == <<7>>

(* An echo before the answer; early deltas among an answer and a step; two *)
(* texts; a tool and the turn after it.                                    *)
MCCasts == {{"user", "answer"}, {"why", "answer"}, {"why", "step"},
            {"answer", "coda"}, {"tool", "reply"}}
===============================================================================
