CONSTANTS
  MaxTelegram = 4
  MaxFault = 3
  FaultKinds = {"die", "hang", "refuse"}
  Noise = {"read", "unrelated"}
  SendBuffer = 1
SPECIFICATION ReaderFairSpec
INVARIANTS PushedInOrder NeverBusyLoops
PROPERTIES ReaderRecovers ArrivedIsPushed
