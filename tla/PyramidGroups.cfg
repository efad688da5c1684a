CONSTANT None = None
SPECIFICATION MCSpec
INVARIANTS ShardsAreSafe DecisionsAreApplied
