\* Bytes of two bits, every one of them on the line: frames reach the full
\* length of the buffer, and two of the shortest follow one flag.  The bounds
\* of the files are in MCFrames.
SPECIFICATION FramesSpec
CONSTANTS
  ByteRange = 4
  Flag = 2
  Escape = 1
  Mask = 2
  Wire = {0, 1, 2, 3}
  MaxSince = 12
INVARIANTS
  FramesFit
  DeliversFrames
  FramesReadByTheFile
