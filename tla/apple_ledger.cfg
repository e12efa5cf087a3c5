SPECIFICATION Spec
CONSTANTS
  u1 = u1
  u2 = u2
  s1 = s1
  h1 = h1
  h2 = h2
  h3 = h3
  g1 = g1
  q1 = q1
  q2 = q2
  d1 = d1
  d2 = d2
  Nobody = Nobody
  Users = {u1, u2}
  Subscriptions = {s1, h1, h2, h3}
  Gifts = {g1}
  Historical = {h1, h2, h3}
  Quotes = {q1, q2}
  Devices = {d1}
  Tickets = {30}
  MaxTime = 2
  MaxKeys = 3
  MaxSpins = 1
  FIRST_MONTH_LIMIT = 1
  GLOBAL_KEYS_LIMIT = 1
  SPIN_COOLDOWN = 2
  CERTIFICATE_DAYS = 2
  SUBSCRIPTION_PERIOD_DAYS = 1
  Inviter <- BothInvitedByFirst
  PaidBy <- AllPaidByFirst
  Kopecks <- Price99
  OwnerOf <- AllPagesOfFirst
  FreeDays <- Trials
  APPLES_PER_DAY = 15
  REFERRAL_ACTIVATION_APPLES = 15
SYMMETRY Alike
CHECK_DEADLOCK FALSE
INVARIANT TypeOK
INVARIANT BalanceIsLedger
INVARIANT CashbackFollowsHistory
INVARIANT SameAnswer
INVARIANT QuoteHonoured
INVARIANT CountdownIsTheServers
INVARIANT OnlyRedemptionsExceedLimit
PROPERTY EveryGrantIsEarned
