---------------------------- MODULE MCProjectFiles ----------------------------
(* Instances of ProjectFiles: one question with small limits.             *)
EXTENDS ProjectFiles

MCGoals == {"VALIDATING", "ANALYZING"}
MCLimits == [answers |-> 1, strategies |-> 2, sources |-> 1, failures |-> 2,
             rounds |-> 2]
Entry(type, val) == [id |-> NoId, type |-> type, q |-> 1, val |-> val]

\* log_event has no option for the count of a round.
MCEntries == {Entry("ANSWER_FOUND", "answer"), Entry("EVIDENCE_ROUND", Absent),
              Entry("SOURCE_REVIEWED", "source")}
MCAgentEntries == {Entry("EVIDENCE_ROUND", 0), Entry("EVIDENCE_ROUND", 1),
                   Entry("SEARCH_FAILED", "key")}

Request(id, strategy) ==
  [id |-> id, attempt |-> 1, q |-> 1, strategy |-> strategy]
\* Two requests under one ID, and another.
MCRequests == {Request("r1", "a"), Request("r1", "b"), Request("r2", "b")}
===============================================================================
