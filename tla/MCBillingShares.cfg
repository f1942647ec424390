SPECIFICATION Spec
CONSTANTS
  Items = {biryani, naan}
  Amounts = {70, 80}
  Rates = {15}
  Taxes = {1}
  Discounts = {0, 72}
  Fees = {7}
  Percents = {0, 1500}
  TiesLost <- MCTiesLost
  Cash = {150, 200}
  Roles = {"waiter", "manager"}
  Cashiers = {c1}
  MaxVersion = 4
INVARIANT PaidSharesReconcile
CHECK_DEADLOCK FALSE
