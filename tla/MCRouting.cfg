SPECIFICATION Spec
CONSTANTS
    in1 = in1
    plugin1 = plugin1
    plugin2 = plugin2
    mixer1 = mixer1
    out1 = out1
    None = None
    Ports <- MCNoPorts
    Plugins <- MCPlugins
    Mixers <- MCMixers
    Sinks <- MCSinks
    TimeRange = 3
    InputCount <- MCInputCount
    StackDepth = 5
INVARIANTS
    FreshInputs
    OncePerPeriod
    MixerInputsComplete
