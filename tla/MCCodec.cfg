CONSTANTS
    CodePoints = {97, 233, 8364, 66376}
    MaxChars = 2
    Ports = {0, 65535}
    Lengths = {0, 1, 10485760, 10485761, 2147483647}
SPECIFICATION Spec
INVARIANT FrameCodec
INVARIANT RegisterLayoutParsed
INVARIANT ByteCountedRoundTrip
