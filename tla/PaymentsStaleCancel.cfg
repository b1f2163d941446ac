SPECIFICATION Spec
CONSTANTS
  invoice = invoice
  sms = sms
  wallet = wallet
  Workers = {w1, w2}
  Bills = {invoice}
  BillKind <- BillKinds
  Accounts = {"sms", "wallet"}
  AccountOf <- BillAccounts
  Keys = {}
  Gateways = {"commerce"}
  MaxIntents = 1
  None = None
PROPERTY SettledOnlyReverted
