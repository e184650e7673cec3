CONSTANTS
    Sizes <- MCSizes
    Margin = 64
    Starts <- MCStarts
    Lengths = {100, 400}
    Longest = 400
    Diag <- MCDiag
    N = 3
    DotCount = 5
    Unit = 20
    Step = 4
    Guard = 1000
    LinesScreen <- MCLinesScreen
    LinesCount = 4
    Swing <- MCSwings
    Amplitudes <- MCAmplitudes
    WaveScreen <- MCWaveScreen
    Sines <- MCSines
    Precision = 4
    ParticlesScreen <- MCParticlesScreen
    NumDots = 3
    FramesPerPass = 12
    Waves <- MCWaves
SPECIFICATION AnimationSpec
INVARIANTS ExcursionBounded SegmentExists StrokesOnScreen
PROPERTIES ExcursionEnds PictureContinuous LinesApart TimeMoves ParticlesShown
