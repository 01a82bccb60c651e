------------------------------ MODULE MCCanvas ------------------------------
(***************************************************************************)
(* The three parts of the canvas in one run, a behaviour being of one of   *)
(* them: the gestures of a pointer, the groups and pins of the manual      *)
(* layout, and the layouts of the families.                                *)
(***************************************************************************)
EXTENDS CanvasGestures, MCOverlayGroups, FamilyLayouts, SmallDiagrams

VARIABLE suite       \* the part this behaviour is of

gestures == gvars
overlay == vars
layouts == fvars

IdleGestures ==
    /\ family = "flowchart" /\ viewerMode = FALSE /\ tool = "select" /\ spaceHeld = FALSE
    /\ pointers = 0 /\ isPinching = FALSE /\ active = {} /\ recorded = {} /\ nudging = FALSE
    /\ keyboardResizing = FALSE /\ selected = "none" /\ layout = 0 /\ source = 0 /\ stored = 0
    /\ undoStack = << >> /\ redoStack = << >> /\ rendering = FALSE /\ placing = FALSE
    /\ began = NoneBegan /\ changes = 0 /\ downs = 0
IdleOverlay ==
    /\ live = Nodes /\ groups = << >> /\ groupSeq = 1 /\ overrides = << >> /\ selection = {}
    /\ drag = NoDrag /\ ops = 0
\* A C4 diagram of nothing.
IdleLayouts ==
    /\ ast = [family |-> "c4", elements |-> << >>, links |-> {}]
    /\ cloudCollapsed = {} /\ scene = LayoutC4(ast)

MCInit ==
    \/ suite = "gestures" /\ GesturesInit /\ IdleOverlay /\ IdleLayouts
    \/ suite = "overlay" /\ Init /\ IdleGestures /\ IdleLayouts
    \/ suite = "layouts" /\ LayoutsInit /\ IdleGestures /\ IdleOverlay

MCNext ==
    \/ suite = "gestures" /\ GesturesNext /\ UNCHANGED << suite, overlay, layouts >>
    \/ suite = "overlay" /\ Next /\ UNCHANGED << suite, gestures, layouts >>
    \/ suite = "layouts" /\ LayoutsNext /\ UNCHANGED << suite, gestures, overlay >>

MCSpec == MCInit /\ [][MCNext]_<< suite, gestures, overlay, layouts >>
=============================================================================
