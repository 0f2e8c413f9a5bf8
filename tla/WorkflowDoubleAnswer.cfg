SPECIFICATION Spec
CONSTANTS
    begin = begin  review = review  signoff = signoff  clarify = clarify  apply = apply  done = done
    ann = ann  bob = bob  ini = ini  r1 = r1  r2 = r2
    Nobody = Nobody
    Nodes <- AllNodes
    Start = begin
    TypeOf <- Types
    Members = {ann, bob, ini}
    Floor = {ann}
    Initiator = ini
    Admins = {ann}
    Requests = {r1, r2}
    Conditional <- Branches
    Default <- AskFirst
    AllQuorum = {review}
    Resolved <- AskedTwo
    Racing = {"answer_info"}
    Consulted = {ini}
    MaxExecutions = 3
INVARIANT OneActiveNode
