\* Five slots, as in the doc comment of `distance`: not a power of two, and
\* room for a batch that wraps while the consumer drains another.
CONSTANTS
  N = 5
  a = a
  b = b
  Value = {a, b}
  Zero = a
  Slices <- MCSlices
SPECIFICATION Spec
INVARIANTS TypeOK NoSharedSlot RoomIsKept
PROPERTY ImplementsFifo
