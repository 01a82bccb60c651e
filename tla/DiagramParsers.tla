---------------------------- MODULE DiagramParsers ----------------------------
(***************************************************************************)
(* parseDiagramWithSource (parser/src/shell/diagram.ts): the parser of the *)
(* family that the header names, over the whole text.                      *)
(***************************************************************************)
EXTENDS RecordParsers

Families == {"flowchart", "dot", "network", "cloud", "block", "state", "c4", "er", "class",
             "requirement", "sequence", "gitGraph", "timeline", "mindmap", "pie", "gantt"}

Grammar(family) ==
    CASE family = "flowchart" -> FlowGrammar [] family = "dot" -> DotGrammar
      [] family = "network" -> NetGrammar [] family = "cloud" -> CloudGrammar
      [] family = "block" -> BlockGrammar [] family = "state" -> StateGrammar
      [] family = "c4" -> C4Grammar [] family = "er" -> ErGrammar
      [] family = "class" -> ClassGrammar [] family = "requirement" -> ReqGrammar
      [] family = "sequence" -> SeqGrammar [] family = "gitGraph" -> GitGrammar
      [] family = "timeline" -> TimelineGrammar [] family = "mindmap" -> MindmapGrammar
      [] family = "pie" -> PieGrammar [] family = "gantt" -> GanttGrammar

Step(family, text, p, l, i) ==
    CASE family = "flowchart" -> FlowStep(p, l, i) [] family = "dot" -> DotStep(p, l, i)
      [] family = "network" -> NetStep(text, p, l, i)
      [] family = "cloud" -> CloudStep(text, p, l, i)
      [] family = "block" -> BlockStep(text, p, l, i) [] family = "state" -> StateStep(p, l, i)
      [] family = "c4" -> C4Step(p, l, i) [] family = "er" -> ErStep(p, l, i)
      [] family = "class" -> ClassStep(p, l, i) [] family = "requirement" -> ReqStep(p, l, i)
      [] family = "sequence" -> SeqStep(p, l, i) [] family = "gitGraph" -> GitStep(p, l, i)
      [] family = "timeline" -> TimelineStep(p, l, i)
      [] family = "mindmap" -> MindmapStep(text, p, l, i)
      [] family = "pie" -> PieStep(p, l, i) [] family = "gantt" -> GanttStep(p, l, i)

(* The recognizer reads the whole text first; then the walk builds.  A     *)
(* blank line is nothing to it.                                            *)
Parse(family, text) ==
    LET Reads(p, i) ==
            IF text[i].k = "blank" THEN p
            ELSE IF ~p.ok \/ ~Admits(Grammar(family), p, text[i]) THEN Failed(p)
            ELSE IF text[i].k = "end" THEN Closes(p)
            ELSE Step(family, text, p, text[i], i)
        Whole(p) == IF p.ok /\ p.stack # << >> THEN Failed(p) ELSE p
        Ordered(p) ==
            CASE p.ok /\ family = "flowchart" -> FlowOrder(p)
              [] p.ok /\ family = "state" -> StateOrder(p)
              [] p.ok /\ family = "sequence" -> SeqNodes(p)
              [] OTHER -> p
        First == IF family = "gitGraph" THEN GitParsed ELSE Parsed
    IN Ordered(Whole(FoldLeftDomain(Reads, First, text)))

-----------------------------------------------------------------------------
(* print (parser/src/core/print.ts): the nodes of the top level, the       *)
(* subgraphs with theirs, the edges, the directives.                       *)
Printed(p, text) ==
    LET Nodes(id) == [j \in DOMAIN SelectSeq(p.nodes, LAMBDA node : node.par = id) |->
                        LET node == SelectSeq(p.nodes, LAMBDA m : m.par = id)[j]
                        IN Decl("stmt", node.id, node.lab)]
        RECURSIVE Block(_)
        Block(id) == FoldLeft(LAMBDA lines, g :
            lines \o <<Decl("subgraph", g.id, IF g.lab = g.id THEN None ELSE g.lab)>>
                  \o Nodes(g.id) \o Block(g.id) \o <<Word("end")>>,
            << >>, SelectSeq(p.groups, LAMBDA g : g.par = id))
        edges == [j \in DOMAIN p.edges |->
                    Link("stmt", p.edges[j].from, p.edges[j].to, p.edges[j].lab)]
    IN Nodes(None) \o Block(None) \o edges \o SelectSeq(text, LAMBDA l : l.k \in Styles)
==============================================================================
