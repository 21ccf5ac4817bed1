SPECIFICATION PkSpec
CONSTANTS
  Host = "host"
  Guests = {"guest"}
  Packs = {"plain", "modded"}
  FirstTicks <- MCTicks
  MapOf <- MCMap
  ServerHas = {}
  MaxChanges = 1
INVARIANT PacksAreTheTicked
CHECK_DEADLOCK FALSE
