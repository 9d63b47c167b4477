\* A FIFO of two words and transfers of up to three: the FIFOs are refilled and
\* flushed in the middle of a run.
CONSTANTS
    Tags = {t1, t2}
    NoTag = NoTag
    Sizes <- MCSizes
    MaxHeld <- MCMaxHeld
    MaxMail = 2
    Depth = 2
    Configs <- MCConfigs
    Counts = {3}
SPECIFICATION Spec
SYMMETRY TagSymmetry
INVARIANTS BuffersAccounted ShortNeedsBadMapping SoundRunCompletes
PROPERTIES RunProgresses
