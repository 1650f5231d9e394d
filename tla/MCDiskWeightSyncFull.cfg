CONSTANTS
    e1 = e1
    e2 = e2
    h1 = h1
    h2 = h2
    t1 = t1
    t2 = t2
    Engines <- MCEngines
    HostsOf <- MCHostsOf
    Tensors <- MCTensors
    Delta = FALSE
    Xor = TRUE
    FlushInterval = 0
    MaxSteps = 2
    MaxFaults = 2
    None = None
SPECIFICATION Spec
INVARIANT ServesTrainer
SYMMETRY TensorSymmetry
