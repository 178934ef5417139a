SPECIFICATION BondSpec
CONSTANTS
  p1 = p1  p2 = p2  p3 = p3
  Nobody = Nobody
  MaxCccds = 1
  MaxFailures = 1
  MaxFaults = 2
  Addresses <- TwoPeers
  MaxBonds = 2
INVARIANT SecuredIsStored
