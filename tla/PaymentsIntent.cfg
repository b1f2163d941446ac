SPECIFICATION FairSpec
CONSTANTS
  invoice = invoice
  sms = sms
  wallet = wallet
  Workers = {w1, w2}
  Bills = {invoice}
  BillKind <- BillKinds
  Accounts = {"sms", "wallet"}
  AccountOf <- BillAccounts
  Keys = {k1}
  Gateways = {"snapppay", "commerce", "digipay"}
  MaxIntents = 1
  None = None
INVARIANTS TypeOK EffectsAtMostOnce  SettledIsComplete
PROPERTIES  RequestsEnd
