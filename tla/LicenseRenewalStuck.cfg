SPECIFICATION FairSpec
CONSTANTS
  Procs = {p1, p2}
  Sites = {s1}
  Renewals = {r1}
  MaxNow = 1
  MaxExpiry = 2
  OpenStates = {"active"}
  NoRenewal = none
PROPERTY RenewedSitesComeBack
