SPECIFICATION Spec
CONSTANTS
  NCpu = 2
  Frames <- AllFrames
  Blocks <- AllBlocks
  Streams <- AllStreams
  Word = 8
  MaxStarts = 3
INVARIANTS
  FrameHasOneOwner
  HeapIsSound
  SensorIsStopped
CHECK_DEADLOCK FALSE
