CONSTANT RingSize = 3
SPECIFICATION Spec
INVARIANTS
    TypeOK
    DecoderSeesWholeRuns
    OldPictureIsOneFrame
    OldAudioIsOneBlock
    HasFrameIsSeen
PROPERTY ViewerFollowsWindow
