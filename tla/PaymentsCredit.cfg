SPECIFICATION Spec
CONSTANTS
  invoice = invoice
  sms = sms
  wallet = wallet
  Workers = {w1, w2}
  Bills = {sms, wallet}
  BillKind <- BillKinds
  Accounts = {"sms", "wallet"}
  AccountOf <- BillAccounts
  Keys = {}
  Gateways = {"zarinpal"}
  MaxIntents = 2
  None = None
SYMMETRY Symmetry
INVARIANTS   TopUpRecordedOnce PaidOrderWasCredited
 
