SPECIFICATION LeaseSpec
CONSTANTS
  eth0 = eth0
  wlan0 = wlan0
  Many = FALSE
  Ifaces = {eth0, wlan0}
  Offers <- MCOffers
  Public <- MCPublic
  Nothing = Nothing
INVARIANTS Converges ServersKept OkOfOneMoment
