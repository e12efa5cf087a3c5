SPECIFICATION Spec
CONSTANTS
  u1 = u1
  u2 = u2
  s1 = s1
  h1 = h1
  h2 = h2
  h3 = h3
  g1 = g1
  q1 = q1
  q2 = q2
  d1 = d1
  d2 = d2
  Nobody = Nobody
  Users = {u1, u2}
  Subscriptions = {s1}
  Gifts = {}
  Historical = {}
  Quotes = {}
  Devices = {}
  Tickets = {30}
  MaxTime = 2
  MaxKeys = 3
  MaxSpins = 1
  FIRST_MONTH_LIMIT = 0
  GLOBAL_KEYS_LIMIT = 2
  SPIN_COOLDOWN = 1
  CERTIFICATE_DAYS = 2
  SUBSCRIPTION_PERIOD_DAYS = 3
  Inviter <- BothInvitedByFirst
  PaidBy <- AllPaidByFirst
  Kopecks <- Price99
  OwnerOf <- AllPagesOfFirst
  FreeDays <- Trials
  APPLES_PER_DAY = 15
  REFERRAL_ACTIVATION_APPLES = 15
CHECK_DEADLOCK FALSE
INVARIANT PaidAccessLasts
