CONSTANTS
    Masters = {a, b, c}
    Replicas = {s1, s2}
    MaxCrashing = 1
    MaxEpoch = 3
    MaxEvents = 3
SPECIFICATION Spec
SYMMETRY Alike
INVARIANT ElectedOnce
