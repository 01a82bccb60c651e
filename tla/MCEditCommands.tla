---------------------------- MODULE MCEditCommands ----------------------------
(* One small source of each family, with what is hard about it: nesting,  *)
(* inline declarations, chains, bodies, implicit identifiers.              *)
EXTENDS EditProperties

End == Word("end")
Two(k, a, b) == Link(k, a, b, None)
Source(fam, lines) == [family |-> fam, text |-> lines]

Graphs1 == {
    Source("flowchart", <<Decl("subgraph", "g", "G"), Decl("stmt", "a", "A"), End,
                          Line("stmt", <<Bare("b"), Bare("c"), Bare("a")>>, None, 0)>>),
    Source("dot", <<Decl("cluster", "k", None), Decl("node", "a", "A"), End, Two("edge", "a", "b")>>),
    Source("network", <<Line("group", << >>, "G", 0), Decl("node", "a", "A"), End,
                        Decl("node", "b", None), Two("link", "a", "b")>>),
    Source("cloud", <<Line("group", << >>, "G", 0), Decl("node", "a", "A"), End,
                      Decl("node", "b", None), Decl("node", "c", "C"), Two("link", "a", "b")>>),
    Source("block", <<Decl("block", "g", None), Decl("chain", "a", "A"), End,
                      Two("chain", "g", "b")>>),
    Source("c4", <<Decl("boundary", "g", "G"), Decl("element", "a", "A"), End,
                   Decl("element", "b", "B"), Two("rel", "a", "b")>>)}
Graphs2 == {
    Source("state", <<Decl("composite", "g", None), Two("transition", Star, "a"), End,
                      Link("transition", "a", "b", "go"), Line("line", <<Bare("b")>>, "B", 0),
                      Decl("note", "b", None)>>),
    Source("er", <<Decl("body", "a", None), Word("row"), End, Two("rel", "a", "b")>>),
    Source("class", <<Decl("body", "a", None), Word("row"), End, Decl("member", "b", None),
                      Two("rel", "a", "b")>>),
    Source("requirement", <<Decl("body", "a", None), Word("row"), End, Decl("body", "b", None),
                            End, Two("rel", "a", "b")>>),
    Source("sequence", <<Decl("participant", "a", "A"), Link("message", "a", "b", "hi"),
                         Line("note", <<Bare("a"), Bare("b")>>, "memo", 0),
                         Line("note", <<Bare("a")>>, "todo", 0)>>)}
Lists == {
    Source("gitGraph", <<Word("commit"), Decl("branch", "dev", None), Decl("commit", "x", None),
                         Decl("checkout", "main", None), Decl("merge", "dev", None)>>),
    Source("timeline", <<Line("period", <<Bare("p"), Bare("u"), Bare("v")>>, None, 0),
                         Decl("event", "w", None), Decl("event", "x", None),
                         Decl("period", "q", None)>>),
    Source("mindmap", <<Line("node", <<Bare("r")>>, None, 0), Line("node", <<Bare("s")>>, None, 2),
                        Line("node", <<Bare("t")>>, None, 4), Line("node", <<Bare("u")>>, None, 2),
                        Line("node", <<Bare("v")>>, None, 4)>>),
    Source("mindmap", <<Line("node", <<Bare("r")>>, None, 0), Line("node", <<Bare("s")>>, None, 4),
                        Line("node", <<Bare("t")>>, None, 8), Line("node", <<Bare("u")>>, None, 4)>>),
    Source("pie", <<Line("slice", <<Bare("s")>>, None, 1), Line("slice", <<Bare("t")>>, None, 2)>>),
    Source("gantt", <<Decl("section", "s", None), Decl("task", "t", None),
                      Line("task", <<Bare("u"), Bare("x")>>, "t0", 0)>>)}

AllSources == Graphs1 \cup Graphs2 \cup Lists
==============================================================================
