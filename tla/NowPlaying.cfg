SPECIFICATION NowSpec
CONSTANTS
  Device <- MCDevice
  Ingress = {1}
  Tune = {t1, t2}
  Setup <- MCSetup
  MinThreshold = 1
  MaxThreshold <- MCMaxThreshold
  MaxAge = 2
  MaxInflight = 2
  Mishaps = {"fails", "unready", "notAllowed"}
CHECK_DEADLOCK FALSE
INVARIANT NowPlayingIsSound
PROPERTY CallsAreSpaced
PROPERTY PlayingIsShown
PROPERTY ToldIsSettled
