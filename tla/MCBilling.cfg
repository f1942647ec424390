SPECIFICATION Spec
CONSTANTS
  Items = {biryani, naan}
  Amounts = {70, 80}
  Rates = {10, 15}
  Taxes = {1}
  Discounts = {0, 72}
  Fees = {7}
  Percents = {0, 1500}
  TiesLost <- MCTiesLost
  Cash = {150, 200}
  Roles = {"waiter", "manager"}
  Cashiers = {c1}
  MaxVersion = 5
INVARIANTS TypeOK DrawerMatchesReceipt SharesReconcile
PROPERTIES BillFrozen CollectedAsShown
CHECK_DEADLOCK FALSE
