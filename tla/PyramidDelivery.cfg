CONSTANT None = None
SPECIFICATION MCSpec
PROPERTY EveryHeightEnds
