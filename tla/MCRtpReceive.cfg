SPECIFICATION Spec
CONSTANTS
  Streams = {"audio", "video"}
  Offers <- MCOffers
  AbsTimes <- MCAbsTimes
  CaptureTimes <- MCCaptureTimes
  AbsRes = 4
  CaptureRes = 8
  AbsSeconds = 2
  CaptureSeconds = 4
  Infos = {"info1", "info2"}
INVARIANT FedIsOwnPacket
PROPERTIES
  OwnTimeFed
  ClockSwitchHasCause
