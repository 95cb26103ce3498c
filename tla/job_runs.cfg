SPECIFICATION FairSpec
CONSTANTS
  Primary = primary
  Workers = {w1}
  Guests = {g1, g2}
  Every = 1
  Ttl = 1
  MaxRequests = 2
  MaxFaults = 1
INVARIANTS RunsSpaced GoneIsForgotten
PROPERTIES InactiveGuestsGo
