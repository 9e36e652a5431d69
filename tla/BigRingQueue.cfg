SPECIFICATION Spec
CONSTANTS
  p3 = p3
  p4 = p4
  p5 = p5
  Packets = {p3, p4, p5}
  PacketLen <- MCPacketLen
  HeaderLen = 2
  BufferLen = 8
  RecvLens = {3, 4}
  None = None
PROPERTIES
  PopsGoOn
