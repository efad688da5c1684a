CONSTANT None = None
SPECIFICATION MCSpec
INVARIANT ShardsAreSafe
