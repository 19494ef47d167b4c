--------------------------- MODULE MCSubmitPath ---------------------------
EXTENDS SubmitPath
CONSTANTS n1, n2, small, large
MCNodeSeq == <<n1, n2>>
MCTotal == [n \in Nodes |-> IF n = n1 THEN 1 ELSE 3]
MCCards == [n \in Nodes |-> 1]
MCMps == <<1, 2>>
MCShape == [c \in Ckpts |-> IF c = small THEN 1 ELSE 2]
MCDeployments ==
  [calls : {{"decision"}}, policyDir : {small, large}]
    \cup [calls : {{"score", "limit"}, {"score", "limit", "decision"}}, policyDir : {large}]
MCMaxFaults == [d \in Deployments |-> IF "decision" \notin d.calls THEN 2 ELSE IF d.calls = {"decision"} THEN 1 ELSE 0]
============================================================================
