------------------------------ MODULE MCWorkflow ------------------------------
(* Instances of WorkflowEngine for TLC.                                      *)
EXTENDS WorkflowEngine, TLC

CONSTANTS begin, review, signoff, clarify, apply, done, ann, bob, ini, r1, r2

AllNodes == {begin, review, signoff, clarify, apply, done}
Types == begin :> "start" @@ review :> "approval" @@ signoff :> "approval"
         @@ clarify :> "request_info" @@ apply :> "system" @@ done :> "end"

\* The review may send the request back for clarification; then comes the
\* signoff, and the effect if its condition holds.
Branches == [n \in AllNodes |-> CASE n = review -> {clarify}
                                  [] n = signoff -> {apply}
                                  [] OTHER -> {}]
Defaults == begin :> review @@ review :> signoff @@ signoff :> Nobody
            @@ clarify :> review @@ apply :> done @@ done :> Nobody
Asked == [n \in AllNodes |-> CASE n = review -> {ann, bob}
                               [] n = signoff -> {bob, ini}
                               [] n = clarify -> {ini}
                               [] OTHER -> {}]

\* The walk starts with a question to two members.
AskFirst == [Defaults EXCEPT ![begin] = clarify]
AskedTwo == [Asked EXCEPT ![clarify] = {ann, bob}]

RequestSymmetry == Permutations(Requests)
=============================================================================
