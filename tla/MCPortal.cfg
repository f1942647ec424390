CONSTANTS
  Slots = {1, 2}
  Me = me
  Other = other
  Nobody = nobody
  Billing = FALSE
  PageSize = 1
  AuditPage = 1
  MaxOrders = 3
  MaxRecs = 3
  MaxExpenses = 3
  MaxTokens = 2
  MaxSessions = 2
  MaxMade = 3
  MaxTaken = 1
  MaxChats = 2
  Dishes = {1, 2}
  Bills = {1, 2}
  Tills = {t1, t2}
  Own = t1
  Phones = {1}
  Emails = {"a", "b"}
  Floors = {1, 2}
  Tables = {1, 2}
  Days = {1, 2}
  MaxRows = 2
  OrderEvents = 2
  DecisionEvents = 3
  ForecastEvents = 1
  ExpenseEvents = 2
  ReceiptEvents = 4
  SessionEvents = 3
  AccountEvents = 3
  FloorEvents = 2
  AssistantEvents = 4
  DayEvents = 2
SPECIFICATION Spec
INVARIANTS TypeOK AppliedAsApproved OneOpenPerTarget ReviewOnce CodeOfReceipt ProvisionedOnce TablesHaveFloors AnswersKept DaysKeepSource
PROPERTIES ScreenCatchesUp ActedOnSeen SpinnerStops RevokedSignsOut
CHECK_DEADLOCK FALSE
