SPECIFICATION PanelFairSpec
CONSTANTS
  MaxDeliveries = 2
  MaxRiders = 2
  MaxOffers = 2
  DispatchLoop = {1, 2}
  AcceptLoop = {11}
  Hand = {21}
  MaxEvents = 3
INVARIANT OneOfferEach
PROPERTIES LoopsEnd EverythingDispatched
CHECK_DEADLOCK FALSE
