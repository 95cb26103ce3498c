SPECIFICATION FairSpec
CONSTANTS
  Primary = primary
  Workers = {w1, w2}
  Guests = {g1}
  Every = 1
  Ttl = 1
  MaxRequests = 1
  MaxFaults = 0
PROPERTIES ActiveGuestsKept
