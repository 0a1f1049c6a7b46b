\* Two consumers, four streams of at most two elements: one more stream than
\* the first loop counts.
SPECIFICATION Spec
CONSTANTS
    Consumers = {c1, c2}
    MaxStreams = 4
    MaxSize = 2
SYMMETRY ConsumerSymmetry
INVARIANTS
    NothingMeansEmpty
    SeenIsServed
