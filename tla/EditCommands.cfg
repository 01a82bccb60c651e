SPECIFICATION Spec
CONSTANT Sources <- AllSources
CONSTANT MaxEdits = 2
INVARIANTS LabelSpans PrintRoundTrips DeleteSound EditsKeep MovesSound
PROPERTY TypedStays
CHECK_DEADLOCK FALSE
