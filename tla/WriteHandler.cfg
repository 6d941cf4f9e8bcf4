CONSTANTS
  MaxTelegram = 1
  MaxFault = 3
  FaultKinds = {"die", "hang", "refuse"}
  Noise = {}
  SendBuffer = 1
  MaxAddress = 2
  MaxPacket = 3
SPECIFICATION FairSpec
INVARIANTS DeliveredOnce StatusHonest
PROPERTIES RequestsAnswered AckedDelivered ModeRemembered
