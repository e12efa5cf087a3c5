------------------------------ MODULE AppleLedger ------------------------------
(***************************************************************************)
(* Apples, the loyalty points: what earns them (paid purchases, gift       *)
(* certificates, the fortune wheel, an activated referral), what spends    *)
(* them (a redemption, quoted first and confirmed later), and the proxy    *)
(* access that purchases, certificates, redemptions and free trials grant. *)
(*                                                                         *)
(* The database runs IMMEDIATE transactions: an atomic block is one step,  *)
(* a service outside one takes a step per statement.  A failed step leaves *)
(* no trace and has no action.  Time is the day; a purchase stands for its *)
(* identity <<provider, charge, kind>>, a certificate for the purchase it  *)
(* was bought with.                                                        *)
(***************************************************************************)
EXTENDS Naturals, Sequences, FiniteSets, FiniteSetsExt

CONSTANTS Users,             \* registered users
          Nobody,            \* not a user
          Inviter,           \* invited_from_username of each user, or Nobody
          Subscriptions,     \* charges that pay for 30 days
          Gifts,             \* charges that pay for a gift certificate
          Historical,        \* charges paid before cashback was introduced
          PaidBy,            \* the user each charge belongs to
          Kopecks,           \* nominal price of each charge
          Quotes,            \* redemption previews, and the rows they insert
          Devices,           \* open wheel pages
          OwnerOf,           \* the user of each page
          Tickets,           \* what secrets.randbelow(100) may return
          APPLES_PER_DAY,
          REFERRAL_ACTIVATION_APPLES,
          SUBSCRIPTION_PERIOD_DAYS,
          CERTIFICATE_DAYS,  \* a certificate can be activated for so long
          SPIN_COOLDOWN,
          FIRST_MONTH_LIMIT, \* trials before they get shorter
          FreeDays,          \* <<first ones, invited, others>>
          GLOBAL_KEYS_LIMIT,
          MaxTime,           \* bound: the last day
          MaxKeys,           \* bound: key rows ever inserted
          MaxSpins           \* bound: spins per user

Charges == Subscriptions \union Gifts

ASSUME ChargesAssumption == /\ Subscriptions \intersect Gifts = {}
                            /\ Historical \subseteq Charges
                            /\ PaidBy \in [Charges -> Users]
                            /\ Kopecks \in [Charges -> Nat \ {0}]
ASSUME UsersAssumption == /\ Nobody \notin Users
                          /\ Inviter \in [Users -> Users \union {Nobody}]
                          /\ OwnerOf \in [Devices -> Users]
ASSUME RulesAssumption == /\ Tickets \subseteq 0..99
                          /\ {APPLES_PER_DAY, SUBSCRIPTION_PERIOD_DAYS, CERTIFICATE_DAYS,
                              SPIN_COOLDOWN} \subseteq Nat \ {0}
                          /\ {REFERRAL_ACTIVATION_APPLES, FIRST_MONTH_LIMIT,
                              GLOBAL_KEYS_LIMIT} \subseteq Nat
                          /\ FreeDays \in [1..3 -> Nat \ {0}]
ASSUME BoundsAssumption == {MaxTime, MaxKeys, MaxSpins} \subseteq Nat
ASSUME FiniteAssumption == IsFiniteSet(Users) /\ IsFiniteSet(Charges) /\ IsFiniteSet(Quotes)

VARIABLES now,        \* the day
          balance,    \* apple_balance
          key,        \* each user's only MTPRotoKey row
          nextPk,     \* its next primary key
          trialUsed,  \* users with first_month_free_used (and referral_activated if invited)
          accepted,   \* users with legal_terms_accepted
          purchase,   \* AppleCashbackPurchase rows
          answers,    \* results the service gave for each charge
          cert,       \* GiftCertificate rows
          quote,      \* AppleRedemption rows and the previews that insert them
          revived,    \* users whose key a redemption brought back
          spins,      \* FortuneSpin rows, oldest first
          page        \* what each wheel page shows

keyVars == <<key, nextPk, revived>>
buyVars == <<purchase, answers, cert>>
wheelVars == <<spins, page>>
vars == <<now, balance, keyVars, trialUsed, accepted, buyVars, quote, wheelVars>>

-------------------------------------------------------------------------------
(* The arithmetic of the programme.                                         *)

\* Level and rate after so many eligible purchases.
get_apple_level(count) ==
  CASE count < 4 -> [name |-> "novice", rate |-> 5]
    [] count >= 4 /\ count < 7 -> [name |-> "gardener", rate |-> 10]
    [] count >= 7 -> [name |-> "master", rate |-> 15]

\* Whole apples for so many kopecks, rounded half up.
calculate_apples(kopecks, rate) == (kopecks * rate + 5000) \div 10000

PRIZE_WEIGHTS == << <<5, 20>>, <<10, 30>>, <<15, 25>>, <<25, 20>>, <<60, 4>>, <<100, 1>> >>

UpperBound[i \in 0..Len(PRIZE_WEIGHTS)] ==
  IF i = 0 THEN 0 ELSE UpperBound[i - 1] + PRIZE_WEIGHTS[i][2]

prize_for_ticket(ticket) ==
  LET i == CHOOSE i \in DOMAIN PRIZE_WEIGHTS : UpperBound[i - 1] <= ticket /\ ticket < UpperBound[i]
  IN  PRIZE_WEIGHTS[i][1]

ASSUME PrizesAssumption == \A ticket \in Tickets : prize_for_ticket(ticket) \in Nat

Larger(a, b) == IF a >= b THEN a ELSE b

-------------------------------------------------------------------------------
(* Rows.                                                                    *)

NoKey == [pk |-> 0, exp |-> 0, live |-> FALSE]
NoPurchase == [made |-> FALSE, rate |-> 0, earned |-> 0, balance |-> 0, count |-> 0, exp |-> 0]
NoCert == [status |-> "none", until |-> 0, by |-> Nobody]
NoQuote == [step |-> "new", user |-> Nobody, pk |-> 0, spent |-> 0, quoted |-> 0, exp |-> 0]
Loading == [shows |-> "loading", prize |-> 0, next |-> 0]

TypeOK ==
  /\ now \in 0..MaxTime
  /\ balance \in [Users -> Nat]
  /\ key \in [Users -> [pk : 0..MaxKeys, exp : Nat, live : BOOLEAN]]
  /\ nextPk \in 1..(MaxKeys + 1)
  /\ trialUsed \subseteq Users
  /\ accepted \subseteq Users
  /\ purchase \in [Charges -> [made : BOOLEAN, rate : {0, 5, 10, 15}, earned : Nat,
                               balance : Nat, count : Nat, exp : Nat]]
  /\ cert \in [Gifts -> [status : {"none", "created", "activated", "expired"}, until : Nat,
                         by : Users \union {Nobody}]]
  /\ quote \in [Quotes -> [step : {"new", "insert", "pending", "confirmed"},
                           user : Users \union {Nobody}, pk : 0..MaxKeys, spent : Nat,
                           quoted : Nat, exp : Nat]]
  /\ revived \subseteq Users
  /\ spins \in [Users -> Seq([at : Nat, prize : Nat])]
  /\ page \in [Devices -> [shows : {"loading", "registration", "ready", "won", "lost",
                                    "error", "cooldown"}, prize : Nat, next : Nat]]

\* The launch migration counts what was paid before, and credits nothing for it.
HistoricalOf(u) == {c \in Historical : PaidBy[c] = u}
Backfill == {p \in [Charges -> [made : BOOLEAN, rate : {0}, earned : {0}, balance : {0},
                                count : 0..Cardinality(Historical), exp : {0}]] :
               /\ \A c \in Charges : p[c].made <=> c \in Historical
               /\ \A c \in Charges \ Historical : p[c].count = 0
               /\ \A u \in Users : {p[c].count : c \in HistoricalOf(u)}
                                     = 1..Cardinality(HistoricalOf(u))}

Init ==
  /\ now = 0
  /\ balance = [u \in Users |-> 0]
  /\ key = [u \in Users |-> NoKey]
  /\ nextPk = 1
  /\ trialUsed = {}
  /\ accepted = {}
  /\ purchase \in Backfill
  /\ answers = [c \in Charges |-> {}]
  /\ cert = [c \in Gifts |-> NoCert]
  /\ quote = [q \in Quotes |-> NoQuote]
  /\ revived = {}
  /\ spins = [u \in Users |-> << >>]
  /\ page = [d \in Devices |-> Loading]

-------------------------------------------------------------------------------
(* Keys, as the grants below use them.                                      *)

get_active_key(u) == key[u].live /\ key[u].exp > now

\* Mutants (named ...Mutant) are plausible bugs; no specification uses them.
KeysLimitReachedMutant == Cardinality({u \in Users : get_active_key(u)}) > GLOBAL_KEYS_LIMIT
KeysLimitReached == Cardinality({u \in Users : get_active_key(u)}) >= GLOBAL_KEYS_LIMIT

\* IssueKeyService: the user's old row makes way for a new one.
IssueKey(u, exp) ==
  /\ ~KeysLimitReached
  /\ nextPk <= MaxKeys
  /\ key' = [key EXCEPT ![u] = [pk |-> nextPk, exp |-> exp, live |-> TRUE]]
  /\ nextPk' = nextPk + 1
  /\ revived' = revived \ {u}

ExtendKey(u) == /\ key' = [key EXCEPT ![u].exp = @ + SUBSCRIPTION_PERIOD_DAYS]
                /\ UNCHANGED <<nextPk, revived>>

\* Paid or gifted access: an active key is extended, otherwise one is issued.
GrantPeriod(u) == \/ get_active_key(u) /\ ExtendKey(u)
                  \/ ~get_active_key(u) /\ IssueKey(u, now + SUBSCRIPTION_PERIOD_DAYS)

-------------------------------------------------------------------------------
(* Purchases.  A replay of a charge is answered from its saved row, to its   *)
(* owner only (PaidBy); anybody else gets an error, a historical charge     *)
(* only that it is one, and nothing changes.                                *)

count_apple_cashback_purchasesMutant(u) ==
  Cardinality({c \in Charges \ Historical : purchase[c].made /\ PaidBy[c] = u})
count_apple_cashback_purchases(u) ==
  Cardinality({c \in Charges : purchase[c].made /\ PaidBy[c] = u})

Outcome(row) ==
  LET level == get_apple_level(row.count)
  IN  [earned |-> row.earned, rate |-> row.rate, balance |-> row.balance, count |-> row.count,
       level |-> level.name, next |-> level.rate, exp |-> row.exp,
       levelUp |-> level.name # get_apple_level(row.count - 1).name]

AnswerMutant(c, row) ==
  answers' = [answers EXCEPT ![c] = @ \union {Outcome([row EXCEPT !.balance = balance[PaidBy[c]]])}]
Answer(c, row) == answers' = [answers EXCEPT ![c] = @ \union {Outcome(row)}]

Replay(c) == /\ purchase[c].made /\ c \notin Historical
             /\ Answer(c, purchase[c])
             /\ UNCHANGED <<now, balance, keyVars, trialUsed, accepted, purchase, cert, quote,
                            wheelVars>>

\* The row of a new purchase of u, and the apples it earns.
SaveCashback(c, exp) ==
  LET u == PaidBy[c]
      count == count_apple_cashback_purchases(u)
      rate == get_apple_level(count).rate
      earned == calculate_apples(Kopecks[c], rate)
      row == [made |-> TRUE, rate |-> rate, earned |-> earned, balance |-> balance[u] + earned,
              count |-> count + 1, exp |-> exp]
  IN  /\ purchase' = [purchase EXCEPT ![c] = row]
      /\ balance' = [balance EXCEPT ![u] = row.balance]
      /\ Answer(c, row)

CreatePayment(c) ==
  /\ c \in Subscriptions
  /\ ~purchase[c].made
  /\ GrantPeriod(PaidBy[c])
  /\ SaveCashback(c, key'[PaidBy[c]].exp)
  /\ UNCHANGED <<now, trialUsed, accepted, cert, quote, wheelVars>>

CreateGiftCertificate(c) ==
  /\ c \in Gifts
  /\ ~purchase[c].made
  /\ SaveCashback(c, 0)
  /\ cert' = [cert EXCEPT ![c] = [status |-> "created", until |-> now + CERTIFICATE_DAYS,
                                  by |-> Nobody]]
  /\ UNCHANGED <<now, keyVars, trialUsed, accepted, quote, wheelVars>>

ActivateGiftCertificateMutant(u, c) ==
  /\ cert[c].status # "none"
  /\ cert[c].until > now
  /\ cert' = [cert EXCEPT ![c].status = "activated", ![c].by = u]
  /\ GrantPeriod(u)
  /\ UNCHANGED <<now, balance, trialUsed, accepted, purchase, answers, quote, wheelVars>>

\* Anybody who knows the code: a certificate past its date is marked expired,
\* another one not yet activated is, and grants a period.
ActivateGiftCertificate(u, c) ==
  /\ cert[c].status = "created"
  /\ \/ /\ cert[c].until <= now
        /\ cert' = [cert EXCEPT ![c].status = "expired"]
        /\ UNCHANGED keyVars
     \/ /\ cert[c].until > now
        /\ cert' = [cert EXCEPT ![c].status = "activated", ![c].by = u]
        /\ GrantPeriod(u)
  /\ UNCHANGED <<now, balance, trialUsed, accepted, purchase, answers, quote, wheelVars>>

-------------------------------------------------------------------------------
(* Redemptions.  A preview reads the balance and the key and inserts the     *)
(* quote; what changes between the two reads can only make the quote stale, *)
(* so they are one step.  A confirmation is one transaction.                *)

QuoteFrame == UNCHANGED <<now, trialUsed, accepted, buyVars, wheelVars>>

\* One day, or all the balance pays for, added to the user's key: it need not be
\* active, but there must be one.
Preview(u, q) ==
  /\ quote[q].step = "new"
  /\ balance[u] >= APPLES_PER_DAY
  /\ key[u].pk # 0
  /\ \E days \in {1, balance[u] \div APPLES_PER_DAY} :
       quote' = [quote EXCEPT ![q] = [step |-> "insert", user |-> u, pk |-> key[u].pk,
                                      spent |-> days * APPLES_PER_DAY,
                                      quoted |-> Larger(key[u].exp, now) + days, exp |-> 0]]
  /\ QuoteFrame
  /\ UNCHANGED <<balance, keyVars>>

\* A row that has been deleted since cannot be referred to.
PreviewInsert(q) ==
  /\ quote[q].step = "insert"
  /\ quote' = [quote EXCEPT ![q] = IF key[@.user].pk = @.pk THEN [@ EXCEPT !.step = "pending"]
                                                             ELSE NoQuote]
  /\ QuoteFrame
  /\ UNCHANGED <<balance, keyVars>>

StaleBalanceMutant(q) == key[quote[q].user].pk # quote[q].pk
Stale(q) == \/ key[quote[q].user].pk # quote[q].pk
            \/ balance[quote[q].user] < quote[q].spent

ConfirmMutant(q) ==
  LET u == quote[q].user
      exp == Larger(key[u].exp, now) + quote[q].spent \div APPLES_PER_DAY
  IN  /\ quote[q].step = "pending"
      /\ ~Stale(q)
      /\ balance' = [balance EXCEPT ![u] = @ % APPLES_PER_DAY]
      /\ key' = [key EXCEPT ![u].exp = exp, ![u].live = TRUE]
      /\ quote' = [quote EXCEPT ![q].step = "confirmed", ![q].exp = exp]
      /\ revived' = IF get_active_key(u) THEN revived ELSE revived \union {u}
      /\ QuoteFrame
      /\ UNCHANGED nextPk

ConfirmFromPastMutant(q) ==
  LET u == quote[q].user
      exp == key[u].exp + quote[q].spent \div APPLES_PER_DAY
  IN  /\ quote[q].step = "pending"
      /\ ~Stale(q)
      /\ balance' = [balance EXCEPT ![u] = @ - quote[q].spent]
      /\ key' = [key EXCEPT ![u].exp = exp, ![u].live = TRUE]
      /\ quote' = [quote EXCEPT ![q].step = "confirmed", ![q].exp = exp]
      /\ revived' = IF get_active_key(u) THEN revived ELSE revived \union {u}
      /\ QuoteFrame
      /\ UNCHANGED nextPk

\* Nothing happens to a stale quote, and a repeated confirmation is answered
\* from the row.
Confirm(q) ==
  LET u == quote[q].user
      exp == Larger(key[u].exp, now) + quote[q].spent \div APPLES_PER_DAY
  IN  /\ quote[q].step = "pending"
      /\ ~Stale(q)
      /\ balance' = [balance EXCEPT ![u] = @ - quote[q].spent]
      /\ key' = [key EXCEPT ![u].exp = exp, ![u].live = TRUE]
      /\ quote' = [quote EXCEPT ![q].step = "confirmed", ![q].exp = exp]
      /\ revived' = IF get_active_key(u) THEN revived ELSE revived \union {u}
      /\ QuoteFrame
      /\ UNCHANGED nextPk

-------------------------------------------------------------------------------
(* Free trials, requested or granted by the daily job, and the day itself.  *)

Days(u) == IF Cardinality(trialUsed) < FIRST_MONTH_LIMIT THEN FreeDays[1]
           ELSE IF Inviter[u] # Nobody THEN FreeDays[2] ELSE FreeDays[3]

\* FirstFreeLinkService: it issues a key whatever key the user has.
FreeTrial(u) ==
  /\ u \notin trialUsed
  /\ IssueKey(u, now + Days(u))
  /\ trialUsed' = trialUsed \union {u}
  /\ balance' = [i \in Users |-> IF i = Inviter[u] THEN balance[i] + REFERRAL_ACTIVATION_APPLES
                                                 ELSE balance[i]]
  /\ UNCHANGED <<now, accepted, buyVars, quote, wheelVars>>

\* The daily removal deactivates every row whose date has come.
RemoveExpired ==
  LET due == {u \in Users : key[u].live /\ key[u].exp <= now}
  IN  /\ due # {}
      /\ key' = [u \in Users |-> [key[u] EXCEPT !.live = @ /\ u \notin due]]
      /\ UNCHANGED <<now, balance, nextPk, revived, trialUsed, accepted, buyVars, quote, wheelVars>>

Tick == /\ now < MaxTime
        /\ now' = now + 1
        /\ UNCHANGED <<balance, keyVars, trialUsed, accepted, buyVars, quote, wheelVars>>

-------------------------------------------------------------------------------
(* The wheel: the two endpoints and the page that calls them.               *)

WheelFrame == UNCHANGED <<now, keyVars, trialUsed, buyVars, quote>>

AcceptLegalTerms(u) == /\ u \notin accepted
                       /\ accepted' = accepted \union {u}
                       /\ WheelFrame
                       /\ UNCHANGED <<balance, wheelVars>>

LatestSpin(u) == spins[u][Len(spins[u])]
NextSpin(u) == LatestSpin(u).at + SPIN_COOLDOWN
CanSpin(u) == spins[u] # << >> => now >= NextSpin(u)

CooldownMutant(u) == [shows |-> "cooldown", prize |-> LatestSpin(u).prize,
                     next |-> now + SPIN_COOLDOWN]
Cooldown(u) == [shows |-> "cooldown", prize |-> LatestSpin(u).prize, next |-> NextSpin(u)]
Show(d, what) == page' = [page EXCEPT ![d] = what]

\* An open page asks for the status; without an answer it stays useless.
LoadStatus(d) ==
  LET u == OwnerOf[d]
  IN  /\ page[d].shows = "loading"
      /\ \/ u \notin accepted /\ Show(d, [Loading EXCEPT !.shows = "registration"])
         \/ u \in accepted /\ CanSpin(u) /\ Show(d, [Loading EXCEPT !.shows = "ready"])
         \/ u \in accepted /\ ~CanSpin(u) /\ Show(d, Cooldown(u))
         \/ Show(d, [Loading EXCEPT !.shows = "error"])
      /\ WheelFrame
      /\ UNCHANGED <<balance, accepted, spins>>

Reopen(d) == /\ page[d].shows # "loading"
             /\ Show(d, Loading)
             /\ WheelFrame
             /\ UNCHANGED <<balance, accepted, spins>>

\* The button: the prize is drawn and credited before the wheel turns.  When
\* the answer is lost the button comes back.
Spin(d, ticket) ==
  LET u == OwnerOf[d]
      won == [at |-> now, prize |-> prize_for_ticket(ticket)]
  IN  /\ page[d].shows = "ready"
      /\ CanSpin(u)
      /\ Len(spins[u]) < MaxSpins
      /\ balance' = [balance EXCEPT ![u] = @ + won.prize]
      /\ spins' = [spins EXCEPT ![u] = Append(@, won)]
      /\ \/ Show(d, [shows |-> "won", prize |-> won.prize, next |-> now + SPIN_COOLDOWN])
         \/ UNCHANGED page
      /\ WheelFrame
      /\ UNCHANGED accepted

\* 409: another page of the user, or a lost answer, has spun already.
SpinTooEarly(d) == /\ page[d].shows = "ready"
                   /\ ~CanSpin(OwnerOf[d])
                   /\ Show(d, Cooldown(OwnerOf[d]))
                   /\ WheelFrame
                   /\ UNCHANGED <<balance, accepted, spins>>

\* The wheel has stopped; the countdown has run out.
WheelStops(d) == /\ page[d].shows = "won"
                 /\ Show(d, [page[d] EXCEPT !.shows = "cooldown"])
                 /\ WheelFrame
                 /\ UNCHANGED <<balance, accepted, spins>>

CountdownEnds(d) == /\ page[d].shows = "cooldown"
                    /\ now >= page[d].next
                    /\ Show(d, [Loading EXCEPT !.shows = "ready"])
                    /\ WheelFrame
                    /\ UNCHANGED <<balance, accepted, spins>>

-------------------------------------------------------------------------------
BuyNext == \E c \in Charges : Replay(c) \/ CreatePayment(c) \/ CreateGiftCertificate(c)
GiftNext == \E u \in Users, c \in Gifts : ActivateGiftCertificate(u, c)
RedeemNext == \/ \E u \in Users, q \in Quotes : Preview(u, q)
              \/ \E q \in Quotes : PreviewInsert(q) \/ Confirm(q)
UserNext == \/ \E u \in Users : FreeTrial(u)
            \/ RemoveExpired
            \/ Tick
WheelNext == \E d \in Devices :
               \/ AcceptLegalTerms(OwnerOf[d])
               \/ LoadStatus(d) \/ Reopen(d) \/ SpinTooEarly(d) \/ WheelStops(d) \/ CountdownEnds(d)
               \/ \E t \in Tickets : Spin(d, t)

Next == BuyNext \/ GiftNext \/ RedeemNext \/ UserNext \/ WheelNext

Spec == Init /\ [][Next]_vars

-------------------------------------------------------------------------------
(* Properties.                                                              *)

\* What a user's rows say they earned and spent.
Earned(u) == SumFunction([c \in {c \in Charges : PaidBy[c] = u} |-> purchase[c].earned])
Won(u) == SumFunction([i \in DOMAIN spins[u] |-> spins[u][i].prize])
Referred(u) == REFERRAL_ACTIVATION_APPLES * Cardinality({i \in trialUsed : Inviter[i] = u})
RedeemedBy(u) == {q \in Quotes : quote[q].step = "confirmed" /\ quote[q].user = u}
Spent(u) == SumFunction([q \in RedeemedBy(u) |-> quote[q].spent])

\* The balance is a cache of the ledgers: whatever order purchases, gifts, spins,
\* referrals and redemptions come in, repeated or not, it equals what the rows
\* say was earned less what they say was spent.
BalanceIsLedger == \A u \in Users : balance[u] + Spent(u) = Earned(u) + Won(u) + Referred(u)

\* The purchases of a user are numbered 1, 2, ... without a gap or a repetition,
\* history included, and each was credited at the rate of the level before it.
CashbackFollowsHistory ==
  \A u \in Users :
    LET mine == {c \in Charges : purchase[c].made /\ PaidBy[c] = u}
    IN  /\ {purchase[c].count : c \in mine} = 1..Cardinality(mine)
        /\ \A c \in mine \ Historical :
             purchase[c].rate = get_apple_level(purchase[c].count - 1).rate

\* However often and however late a charge is repeated, its payer gets the
\* answer it got first, and nothing that happened since shows in it.
SameAnswer == \A c \in Charges : Cardinality(answers[c]) <= 1

\* A confirmed redemption never gives less than the preview showed, though the
\* key may have been extended, expired or been removed in between.
QuoteHonoured == \A q \in Quotes : quote[q].step = "confirmed" => quote[q].exp >= quote[q].quoted

\* A page that counts down counts to the user's next spin and shows the last
\* prize, also when the spin was made on another page or its answer was lost.
CountdownIsTheServers ==
  \A d \in Devices : page[d].shows \in {"won", "cooldown"} /\ now < page[d].next =>
    /\ page[d].next = NextSpin(OwnerOf[d])
    /\ page[d].prize = LatestSpin(OwnerOf[d]).prize

\* Active keys exceed the global limit only by keys a redemption brought back,
\* which is not counted against it.
OnlyRedemptionsExceedLimit ==
  Cardinality({u \in Users \ revived : get_active_key(u)}) <= GLOBAL_KEYS_LIMIT

\* The day a user's access ends, or today.
Access(u) == IF get_active_key(u) THEN key[u].exp ELSE now

PaidFor(u) == {c \in Subscriptions : purchase[c].made /\ PaidBy[c] = u}
GivenTo(u) == {c \in Gifts : cert[c].by = u}
Granted(u) == <<PaidFor(u), GivenTo(u), RedeemedBy(u), u \in trialUsed>>

\* Access only moves together with what grants it: one new paid purchase, one
\* newly activated certificate or one confirmed redemption lengthens it by its
\* days, a trial sets it, and nothing else touches it.
AccessStep(u) ==
  \/ Granted(u)' = Granted(u) /\ Access(u)' = Larger(Access(u), now')
  \/ /\ \/ \E c \in Subscriptions \ PaidFor(u) :
              Granted(u)' = [Granted(u) EXCEPT ![1] = @ \union {c}]
        \/ \E c \in Gifts : cert[c].by = Nobody
                            /\ Granted(u)' = [Granted(u) EXCEPT ![2] = @ \union {c}]
     /\ Access(u)' = Access(u) + SUBSCRIPTION_PERIOD_DAYS
  \/ \E q \in Quotes \ RedeemedBy(u) :
       /\ Granted(u)' = [Granted(u) EXCEPT ![3] = @ \union {q}]
       /\ Access(u)' = Access(u) + quote[q].spent \div APPLES_PER_DAY
  \/ u \notin trialUsed /\ u \in trialUsed' /\ Access(u)' = now + Days(u)

EveryGrantIsEarned == [][\A u \in Users : AccessStep(u)]_vars

\* A link bought lasts for the days it was bought for.  FALSE in the code: a
\* trial granted later replaces the bought key by its own.
PaidAccessLasts ==
  \A c \in Subscriptions : purchase[c].made /\ now < purchase[c].exp =>
    get_active_key(PaidBy[c]) /\ key[PaidBy[c]].exp >= purchase[c].exp

===============================================================================
