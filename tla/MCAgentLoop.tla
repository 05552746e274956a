----------------------------- MODULE MCAgentLoop -----------------------------
(* Instances of AgentLoop for TLC. *)
EXTENDS AgentLoop

Plain == [query |-> "q", simple |-> TRUE, slash |-> FALSE, inject |-> FALSE,
          fast |-> FALSE, image |-> FALSE]
Keyword == [Plain EXCEPT !.query = "k", !.simple = FALSE, !.slash = TRUE,
                         !.fast = TRUE, !.image = TRUE]
Refused == [Plain EXCEPT !.query = "k", !.inject = TRUE]

MCKinds == {Plain, Keyword, Refused}
MCAllWays == {[Keyword EXCEPT !.simple = TRUE]}

Call(name, arg, id) == [name |-> name, arg |-> arg, id |-> id]
Led == Call("led_control", "on", 1)
Doc == Call("read_file", "doc", 1)
Skill == Call("read_file", "skill", 1)

\* no call, one call, several, several under one id, short or long
MCRounds == {<<>>, <<Led>>, <<Doc>>, <<Doc, Call("led_control", "on", 1)>>,
             <<Doc, Call("write_file", "doc", 2)>>,
             <<Call("read_file", "doc", 3), Call("led_control", "on", 3)>>}
MCLong == {3}
MCSingle == {<<Led>>, <<Call("led_control", "off", 1)>>, <<Skill>>}
=============================================================================
