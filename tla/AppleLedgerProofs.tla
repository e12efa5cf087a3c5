--------------------------- MODULE AppleLedgerProofs ---------------------------
(***************************************************************************)
(* What AppleLedger promises for any users, charges, quotes, wheel pages,  *)
(* rules and bounds: balances never fall below zero and are the sums of    *)
(* what was credited and spent, purchases are numbered in order, repeats   *)
(* get the answer of the first time, a confirmed quote is honoured, only   *)
(* redemptions exceed the global limit of keys, countdowns are the server's *)
(* and access grows by what was granted.  The sums are those of Sums.      *)
(***************************************************************************)
EXTENDS AppleLedger, Sums, FiniteSetTheorems, TLAPS

Keys == [pk : 0..MaxKeys, exp : Nat, live : BOOLEAN]
Spins == [at : Nat, prize : Nat]

-------------------------------------------------------------------------------
(* The arithmetic of the programme.                                         *)

LEMMA RateOfLevel ==
  ASSUME NEW n \in Nat
  PROVE  get_apple_level(n).rate \in {5, 10, 15}
BY DEF get_apple_level

LEMMA ApplesAreWhole ==
  ASSUME NEW kopecks \in Nat, NEW rate \in {5, 10, 15}
  PROVE  calculate_apples(kopecks, rate) \in Nat
<1>1. CASE rate = 5
  BY <1>1 DEF calculate_apples
<1>2. CASE rate = 10
  BY <1>2 DEF calculate_apples
<1>3. CASE rate = 15
  BY <1>3 DEF calculate_apples
<1> QED
  BY <1>1, <1>2, <1>3

LEMMA PurchasesAreCounted ==
  ASSUME NEW u
  PROVE  count_apple_cashback_purchases(u) \in Nat
<1>1. {c \in Charges : purchase[c].made /\ PaidBy[c] = u} \in SUBSET Charges
  OBVIOUS
<1> QED
  BY <1>1, FiniteAssumption, FS_Subset, FS_CardinalityType DEF count_apple_cashback_purchases

\* Days bought for apples are the days promised.
LEMMA DaysForApples ==
  ASSUME NEW days \in Int, NEW price \in Nat \ {0}
  PROVE  (days * price) \div price = days
OBVIOUS

-------------------------------------------------------------------------------
(* Types.                                                                   *)

KeyTypes == /\ key \in [Users -> Keys]
            /\ nextPk \in 1..(MaxKeys + 1)
            /\ revived \subseteq Users

LEMMA PeriodsAreDays ==
  ASSUME TypeOK
  PROVE  now + SUBSCRIPTION_PERIOD_DAYS \in Nat
<1>1. now \in Nat /\ SUBSCRIPTION_PERIOD_DAYS \in Nat
  BY RulesAssumption DEF TypeOK
<1> QED
  BY <1>1

LEMMA IssueKeyTypes ==
  ASSUME TypeOK, NEW u \in Users, NEW exp \in Nat, IssueKey(u, exp)
  PROVE  KeyTypes' /\ key'[u].exp \in Nat
<1>1. nextPk \in 0..MaxKeys /\ nextPk + 1 \in 1..(MaxKeys + 1)
  BY BoundsAssumption DEF TypeOK, IssueKey
<1>2. [pk |-> nextPk, exp |-> exp, live |-> TRUE] \in Keys
  BY <1>1 DEF Keys
<1>3. key \in [Users -> Keys] /\ revived \subseteq Users
  BY DEF TypeOK, Keys
<1> QED
  BY <1>1, <1>2, <1>3 DEF IssueKey, KeyTypes

LEMMA ExtendKeyTypes ==
  ASSUME TypeOK, NEW u \in Users, ExtendKey(u)
  PROVE  KeyTypes' /\ key'[u].exp \in Nat
<1>1. key \in [Users -> Keys] /\ key[u].exp + SUBSCRIPTION_PERIOD_DAYS \in Nat
  <2>1. key \in [Users -> Keys]
    BY DEF TypeOK, Keys
  <2>2. key[u].exp \in Nat
    BY <2>1 DEF Keys
  <2> QED
    BY <2>1, <2>2, RulesAssumption
<1>2. key' = [key EXCEPT ![u] = [key[u] EXCEPT !.exp = key[u].exp + SUBSCRIPTION_PERIOD_DAYS]]
  BY DEF ExtendKey
<1>3. [key[u] EXCEPT !.exp = key[u].exp + SUBSCRIPTION_PERIOD_DAYS] \in Keys
  BY <1>1 DEF Keys
<1>4. key' \in [Users -> Keys]
  BY <1>1, <1>2, <1>3
<1>5. key'[u].exp \in Nat
  BY <1>4 DEF Keys
<1> QED
  BY <1>4, <1>5 DEF ExtendKey, KeyTypes, TypeOK

LEMMA GrantPeriodTypes ==
  ASSUME TypeOK, NEW u \in Users, GrantPeriod(u)
  PROVE  KeyTypes' /\ key'[u].exp \in Nat
<1>1. now + SUBSCRIPTION_PERIOD_DAYS \in Nat
  BY PeriodsAreDays
<1> QED
  BY <1>1, IssueKeyTypes, ExtendKeyTypes DEF GrantPeriod

Purchases == [made : BOOLEAN, rate : {0, 5, 10, 15}, earned : Nat, balance : Nat, count : Nat,
              exp : Nat]

LEMMA SaveCashbackTypes ==
  ASSUME TypeOK, NEW c \in Charges, NEW exp, exp \in Nat, SaveCashback(c, exp)
  PROVE  /\ balance' \in [Users -> Nat]
         /\ purchase' \in [Charges -> [made : BOOLEAN, rate : {0, 5, 10, 15}, earned : Nat,
                                       balance : Nat, count : Nat, exp : Nat]]
<1> DEFINE u == PaidBy[c]
           count == count_apple_cashback_purchases(u)
           rate == get_apple_level(count).rate
           earned == calculate_apples(Kopecks[c], rate)
<1>1. u \in Users /\ Kopecks[c] \in Nat
  BY ChargesAssumption
<1>2. count \in Nat
  BY PurchasesAreCounted
<1>3. rate \in {5, 10, 15}
  BY <1>2, RateOfLevel
<1>4. earned \in Nat
  BY <1>1, <1>3, ApplesAreWhole
<1> DEFINE row == [made |-> TRUE, rate |-> rate, earned |-> earned,
                   balance |-> balance[u] + earned, count |-> count + 1, exp |-> exp]
<1>5. /\ purchase' = [purchase EXCEPT ![c] = row]
      /\ balance' = [balance EXCEPT ![u] = row.balance]
  BY DEF SaveCashback
<1> HIDE DEF u, count, rate, earned
<1>6. balance \in [Users -> Nat] /\ purchase \in [Charges -> Purchases]
  BY DEF TypeOK, Purchases
<1>7. balance[u] + earned \in Nat
  BY <1>1, <1>4, <1>6
<1>8. row \in Purchases /\ row.balance \in Nat
  BY <1>2, <1>3, <1>4, <1>7 DEF Purchases
<1> HIDE DEF row
<1>9. purchase' \in [Charges -> Purchases] /\ balance' \in [Users -> Nat]
  BY <1>5, <1>6, <1>8
<1> QED
  BY <1>9 DEF Purchases

\* Types after a step that leaves the keys, or that keeps them typed.
LEMMA BuyTypes ==
  ASSUME TypeOK, NEW c \in Charges,
         Replay(c) \/ CreatePayment(c) \/ CreateGiftCertificate(c)
  PROVE  TypeOK'
<1>1. PaidBy[c] \in Users
  BY ChargesAssumption
<1>2. CASE Replay(c)
  BY <1>2 DEF Replay, TypeOK, keyVars, wheelVars
<1>3. CASE CreatePayment(c)
  <2>1. KeyTypes' /\ key'[PaidBy[c]].exp \in Nat
    BY <1>1, <1>3, GrantPeriodTypes DEF CreatePayment
  <2>2. SaveCashback(c, key'[PaidBy[c]].exp)
    BY <1>3 DEF CreatePayment
  <2> QED
    BY <2>1, <2>2, <1>3, SaveCashbackTypes DEF CreatePayment, TypeOK, KeyTypes, Keys, wheelVars
<1>4. CASE CreateGiftCertificate(c)
  <2>1. SaveCashback(c, 0) /\ now + CERTIFICATE_DAYS \in Nat
    <3>1. now \in Nat /\ CERTIFICATE_DAYS \in Nat
      BY RulesAssumption DEF TypeOK
    <3> QED
      BY <1>4, <3>1 DEF CreateGiftCertificate
  <2>2. cert' \in [Gifts -> [status : {"none", "created", "activated", "expired"}, until : Nat,
                             by : Users \union {Nobody}]]
    BY <1>4, <2>1 DEF CreateGiftCertificate, TypeOK
  <2> QED
    BY <2>1, <2>2, <1>4, SaveCashbackTypes DEF CreateGiftCertificate, TypeOK, keyVars, wheelVars
<1> QED
  BY <1>2, <1>3, <1>4

LEMMA GiftTypes ==
  ASSUME TypeOK, NEW u \in Users, NEW c \in Gifts, ActivateGiftCertificate(u, c)
  PROVE  TypeOK'
<1> DEFINE Certs == [status : {"none", "created", "activated", "expired"}, until : Nat,
                     by : Users \union {Nobody}]
<1>1. cert \in [Gifts -> Certs] /\ cert[c] \in Certs
  BY DEF TypeOK
<1>2. CASE cert' = [cert EXCEPT ![c].status = "expired"] /\ UNCHANGED keyVars
  <2>1. cert' = [cert EXCEPT ![c] = [cert[c] EXCEPT !.status = "expired"]]
    BY <1>2
  <2>2. [cert[c] EXCEPT !.status = "expired"] \in Certs
    BY <1>1
  <2>3. cert' \in [Gifts -> Certs]
    BY <1>1, <2>1, <2>2
  <2> QED
    BY <2>3, <1>2 DEF ActivateGiftCertificate, TypeOK, keyVars, wheelVars
<1>3. CASE cert' = [cert EXCEPT ![c].status = "activated", ![c].by = u] /\ GrantPeriod(u)
  <2>1. cert' = [cert EXCEPT ![c] = [cert[c] EXCEPT !.status = "activated", !.by = u]]
    BY <1>3
  <2>2. [cert[c] EXCEPT !.status = "activated", !.by = u] \in Certs
    BY <1>1
  <2>3. cert' \in [Gifts -> Certs] /\ KeyTypes'
    BY <1>1, <1>3, <2>1, <2>2, GrantPeriodTypes
  <2> QED
    BY <2>3 DEF ActivateGiftCertificate, TypeOK, KeyTypes, Keys, wheelVars
<1> QED
  BY <1>2, <1>3 DEF ActivateGiftCertificate

\* Every quote's row.
QuoteRows == [step : {"new", "insert", "pending", "confirmed"}, user : Users \union {Nobody},
              pk : 0..MaxKeys, spent : Nat, quoted : Nat, exp : Nat]

LEMMA PreviewTypes ==
  ASSUME TypeOK, NEW u \in Users, NEW q \in Quotes, Preview(u, q)
  PROVE  TypeOK'
<1>1. PICK days \in {1, balance[u] \div APPLES_PER_DAY} :
        quote' = [quote EXCEPT ![q] = [step |-> "insert", user |-> u, pk |-> key[u].pk,
                                       spent |-> days * APPLES_PER_DAY,
                                       quoted |-> Larger(key[u].exp, now) + days, exp |-> 0]]
  BY DEF Preview
<1>2. key[u].pk \in 0..MaxKeys /\ key[u].exp \in Nat /\ balance[u] \in Nat /\ now \in Nat
  BY DEF TypeOK
<1>3. days \in Nat
  BY <1>2, RulesAssumption
<1>4. days * APPLES_PER_DAY \in Nat
  BY <1>3, RulesAssumption
<1>5. Larger(key[u].exp, now) + days \in Nat
  BY <1>2, <1>3 DEF Larger
<1>6. quote \in [Quotes -> QuoteRows]
  BY DEF TypeOK, QuoteRows
<1>7. quote' \in [Quotes -> QuoteRows]
  BY <1>1, <1>2, <1>4, <1>5, <1>6 DEF QuoteRows
<1> QED
  BY <1>7 DEF Preview, QuoteFrame, TypeOK, QuoteRows, keyVars, buyVars, wheelVars

LEMMA PreviewInsertTypes ==
  ASSUME TypeOK, NEW q \in Quotes, PreviewInsert(q)
  PROVE  TypeOK'
<1>1. quote \in [Quotes -> QuoteRows] /\ quote[q] \in QuoteRows
  BY DEF TypeOK, QuoteRows
<1>2. NoQuote \in QuoteRows
  BY BoundsAssumption DEF NoQuote, QuoteRows
<1>3. [quote[q] EXCEPT !.step = "pending"] \in QuoteRows
  BY <1>1 DEF QuoteRows
<1>4. quote' \in [Quotes -> QuoteRows]
  BY <1>1, <1>2, <1>3 DEF PreviewInsert
<1> QED
  BY <1>4 DEF PreviewInsert, QuoteFrame, TypeOK, QuoteRows, keyVars, buyVars, wheelVars

\* A quote that has been inserted names its user.
QuotesHaveUsers == \A q \in Quotes : quote[q].step # "new" => quote[q].user \in Users

LEMMA ConfirmTypes ==
  ASSUME TypeOK, QuotesHaveUsers, NEW q \in Quotes, Confirm(q)
  PROVE  TypeOK'
<1> DEFINE u == quote[q].user
           days == quote[q].spent \div APPLES_PER_DAY
           exp == Larger(key[u].exp, now) + days
<1>1. quote \in [Quotes -> QuoteRows] /\ quote[q] \in QuoteRows /\ quote[q].spent \in Nat
  BY DEF TypeOK, QuoteRows
<1>2. u \in Users
  BY DEF QuotesHaveUsers, Confirm
<1>3. key \in [Users -> Keys] /\ key[u] \in Keys /\ key[u].exp \in Nat /\ now \in Nat
  BY <1>2 DEF TypeOK, Keys
<1>4. days \in Nat
  BY <1>1, RulesAssumption
<1>5. exp \in Nat
  <2> HIDE DEF u, days
  <2> QED
    BY <1>3, <1>4 DEF Larger
<1>6. balance' = [balance EXCEPT ![u] = balance[u] - quote[q].spent]
      /\ balance[u] \in Nat /\ ~(balance[u] < quote[q].spent)
  BY <1>2 DEF Confirm, Stale, TypeOK
<1>7. balance' \in [Users -> Nat]
  <2>1. balance[u] - quote[q].spent \in Nat
    BY <1>1, <1>6
  <2> HIDE DEF u
  <2> QED
    BY <2>1, <1>6 DEF TypeOK
<1>8. key' = [key EXCEPT ![u] = [key[u] EXCEPT !.exp = exp, !.live = TRUE]]
      /\ quote' = [quote EXCEPT ![q] = [quote[q] EXCEPT !.step = "confirmed", !.exp = exp]]
      /\ revived' \in {revived, revived \union {u}}
  BY DEF Confirm
<1> HIDE DEF u, days, exp
<1>9. key' \in [Users -> Keys] /\ quote' \in [Quotes -> QuoteRows]
  <2>1. [key[u] EXCEPT !.exp = exp, !.live = TRUE] \in Keys
    BY <1>3, <1>5 DEF Keys
  <2>2. [quote[q] EXCEPT !.step = "confirmed", !.exp = exp] \in QuoteRows
    BY <1>1, <1>5 DEF QuoteRows
  <2> QED
    BY <2>1, <2>2, <1>1, <1>3, <1>8
<1>10. revived' \subseteq Users
  BY <1>2, <1>8 DEF TypeOK
<1> QED
  BY <1>7, <1>9, <1>10 DEF Confirm, QuoteFrame, TypeOK, Keys, QuoteRows, buyVars, wheelVars

LEMMA DaysTypes ==
  ASSUME NEW u
  PROVE  Days(u) \in Nat \ {0}
BY RulesAssumption DEF Days

LEMMA UserTypes ==
  ASSUME TypeOK, UserNext
  PROVE  TypeOK'
<1>1. ASSUME NEW u \in Users, FreeTrial(u)  PROVE TypeOK'
  <2>1. now + Days(u) \in Nat
    BY DaysTypes DEF TypeOK
  <2>2. KeyTypes'
    BY <1>1, <2>1, IssueKeyTypes DEF FreeTrial
  <2>3. balance' \in [Users -> Nat]
    <3>1. \A i \in Users : balance[i] \in Nat /\ balance[i] + REFERRAL_ACTIVATION_APPLES \in Nat
      <4>1. balance \in [Users -> Nat] /\ REFERRAL_ACTIVATION_APPLES \in Nat
        BY RulesAssumption DEF TypeOK
      <4> QED
        BY <4>1
    <3>2. balance' = [i \in Users |-> IF i = Inviter[u] THEN balance[i] + REFERRAL_ACTIVATION_APPLES
                                                       ELSE balance[i]]
      BY <1>1 DEF FreeTrial
    <3> QED
      BY <3>1, <3>2
  <2> QED
    BY <1>1, <2>2, <2>3 DEF FreeTrial, TypeOK, KeyTypes, Keys, buyVars, wheelVars
<1>2. CASE RemoveExpired
  <2> DEFINE due == {u \in Users : key[u].live /\ key[u].exp <= now}
  <2>1. key' = [u \in Users |-> [key[u] EXCEPT !.live = key[u].live /\ u \notin due]]
    BY <1>2 DEF RemoveExpired
  <2>2. ASSUME NEW u \in Users, NEW b \in BOOLEAN
        PROVE  [key[u] EXCEPT !.live = b] \in Keys
    <3>1. key[u] \in Keys
      BY DEF TypeOK, Keys
    <3> QED
      BY <3>1 DEF Keys
  <2>3. \A u \in Users : (key[u].live /\ u \notin due) \in BOOLEAN
    BY DEF TypeOK
  <2> HIDE DEF due
  <2>4. key' \in [Users -> Keys]
    BY <2>1, <2>2, <2>3
  <2> QED
    BY <1>2, <2>4 DEF RemoveExpired, TypeOK, Keys, buyVars, wheelVars
<1>3. CASE Tick
  <2>1. now' \in 0..MaxTime
    BY <1>3, BoundsAssumption DEF Tick, TypeOK
  <2> QED
    BY <1>3, <2>1 DEF Tick, TypeOK, keyVars, buyVars, wheelVars
<1> QED
  BY <1>1, <1>2, <1>3 DEF UserNext

LEMMA WheelTypes ==
  ASSUME TypeOK, WheelNext
  PROVE  TypeOK'
<1> DEFINE Shown == [shows : {"loading", "registration", "ready", "won", "lost", "error",
                              "cooldown"}, prize : Nat, next : Nat]
<1>1. PICK d \in Devices :
        \/ AcceptLegalTerms(OwnerOf[d])
        \/ LoadStatus(d) \/ Reopen(d) \/ SpinTooEarly(d) \/ WheelStops(d) \/ CountdownEnds(d)
        \/ \E t \in Tickets : Spin(d, t)
  BY DEF WheelNext
<1> DEFINE u == OwnerOf[d]
<1>2. u \in Users /\ page \in [Devices -> Shown] /\ page[d] \in Shown
  <2>1. page \in [Devices -> Shown]
    BY DEF TypeOK
  <2> QED
    BY <2>1, UsersAssumption
<1>3. spins \in [Users -> Seq(Spins)] /\ spins[u] \in Seq(Spins) /\ now \in Nat
  <2>1. spins \in [Users -> Seq(Spins)] /\ now \in Nat
    BY DEF TypeOK, Spins
  <2> QED
    BY <1>2, <2>1
<1>4. SPIN_COOLDOWN \in Nat /\ now + SPIN_COOLDOWN \in Nat
  <2>1. SPIN_COOLDOWN \in Nat
    BY RulesAssumption
  <2>2. now \in Nat
    BY <1>3
  <2> QED
    BY <2>1, <2>2
<1>5. ASSUME spins[u] # << >>
      PROVE  Cooldown(u) \in Shown
  <2> HIDE DEF u
  <2>1. LatestSpin(u) \in Spins
    BY <1>3, <1>5 DEF LatestSpin
  <2> QED
    BY <2>1, <1>4 DEF Cooldown, NextSpin, Spins
<1>6. ASSUME NEW what \in Shown, Show(d, what), UNCHANGED spins, UNCHANGED balance,
             UNCHANGED accepted, WheelFrame
      PROVE  TypeOK'
  <2>1. page' \in [Devices -> Shown]
    BY <1>2, <1>6 DEF Show
  <2> QED
    BY <2>1, <1>6 DEF WheelFrame, TypeOK, keyVars, buyVars
<1>7. Loading \in Shown /\ \A s \in {"registration", "ready", "error"} :
                            [Loading EXCEPT !.shows = s] \in Shown
  BY DEF Loading
<1>8. [page[d] EXCEPT !.shows = "cooldown"] \in Shown
  BY <1>2
<1>9. CASE AcceptLegalTerms(u)
  BY <1>9, <1>2 DEF AcceptLegalTerms, WheelFrame, TypeOK, keyVars, buyVars, wheelVars
<1>10. CASE LoadStatus(d)
  <2> HIDE DEF Shown
  <2> QED
    BY <1>10, <1>5, <1>6, <1>7 DEF LoadStatus, CanSpin
<1>11. CASE Reopen(d) \/ SpinTooEarly(d) \/ WheelStops(d) \/ CountdownEnds(d)
  <2> HIDE DEF Shown
  <2> QED
    BY <1>11, <1>5, <1>6, <1>7, <1>8
       DEF Reopen, SpinTooEarly, WheelStops, CountdownEnds, CanSpin
<1>12. ASSUME NEW t \in Tickets, Spin(d, t)
       PROVE  TypeOK'
  <2> DEFINE won == [at |-> now, prize |-> prize_for_ticket(t)]
  <2>1. won \in Spins /\ won.prize \in Nat
    BY <1>3, PrizesAssumption DEF Spins
  <2>2. balance' = [balance EXCEPT ![u] = balance[u] + won.prize]
        /\ spins' = [spins EXCEPT ![u] = Append(spins[u], won)]
    BY <1>12 DEF Spin
  <2>3. \/ page' = [page EXCEPT ![d] = [shows |-> "won", prize |-> won.prize,
                                        next |-> now + SPIN_COOLDOWN]]
        \/ page' = page
    BY <1>12 DEF Spin, Show
  <2> HIDE DEF won, u
  <2>4. balance' \in [Users -> Nat]
    BY <1>2, <2>1, <2>2 DEF TypeOK
  <2>5. spins' \in [Users -> Seq(Spins)]
    <3>1. Append(spins[u], won) \in Seq(Spins)
      BY <1>3, <2>1
    <3> QED
      BY <1>3, <2>2, <3>1
  <2>6. page' \in [Devices -> Shown]
    BY <1>2, <1>4, <2>1, <2>3
  <2> QED
    BY <1>12, <2>4, <2>5, <2>6 DEF Spin, WheelFrame, TypeOK, Spins, keyVars, buyVars
<1> QED
  BY <1>1, <1>9, <1>10, <1>11, <1>12

LEMMA InitTypes ==
  ASSUME Init
  PROVE  TypeOK /\ QuotesHaveUsers
<1>1. purchase \in [Charges -> [made : BOOLEAN, rate : {0, 5, 10, 15}, earned : Nat,
                                balance : Nat, count : Nat, exp : Nat]]
  <2>1. IsFiniteSet(Historical)
    BY FiniteAssumption, ChargesAssumption, FS_Subset
  <2>2. 0..Cardinality(Historical) \subseteq Nat
    BY <2>1, FS_CardinalityType
  <2> QED
    BY <2>2 DEF Init, Backfill
<1>2. key \in [Users -> Keys]
  BY BoundsAssumption DEF Init, NoKey, Keys
<1>3. cert \in [Gifts -> [status : {"none", "created", "activated", "expired"}, until : Nat,
                          by : Users \union {Nobody}]]
  BY DEF Init, NoCert
<1>4. quote \in [Quotes -> QuoteRows]
  BY BoundsAssumption DEF Init, NoQuote, QuoteRows
<1>5. page \in [Devices -> [shows : {"loading", "registration", "ready", "won", "lost",
                                     "error", "cooldown"}, prize : Nat, next : Nat]]
  BY DEF Init, Loading
<1> QED
  BY <1>1, <1>2, <1>3, <1>4, <1>5, BoundsAssumption
     DEF Init, TypeOK, Keys, QuoteRows, QuotesHaveUsers, NoQuote

-------------------------------------------------------------------------------
(* Quotes.                                                                  *)

\* What a confirmation of quote q gives at this moment.
Offer(q) == Larger(key[quote[q].user].exp, now) + quote[q].spent \div APPLES_PER_DAY

\* Keys and quotes refer to keys that exist or existed, and as long as the key
\* of a quote is there, its confirmation gives what was quoted.
QuotesStand ==
  /\ \A u \in Users : key[u].pk < nextPk
  /\ \A q \in Quotes : quote[q].pk < nextPk
  /\ \A q \in Quotes : quote[q].step \in {"insert", "pending"}
                       /\ key[quote[q].user].pk = quote[q].pk => Offer(q) >= quote[q].quoted

QuoteInv == TypeOK /\ QuotesHaveUsers /\ QuotesStand /\ QuoteHonoured

\* A step that leaves the quotes keeps them good, if each key is the old one and
\* expires no earlier, or is a new one.
KeysOnlyGrow == /\ nextPk' >= nextPk
                /\ \A u \in Users : \/ key'[u].pk = key[u].pk /\ key'[u].exp >= key[u].exp
                                    \/ key'[u].pk = nextPk /\ nextPk' > nextPk

LEMMA NaturalsOfQuotes ==
  ASSUME TypeOK
  PROVE  /\ now \in Nat /\ nextPk \in Nat
         /\ \A u \in Users : key[u].pk \in Nat /\ key[u].exp \in Nat /\ key[u].live \in BOOLEAN
         /\ \A q \in Quotes : /\ quote[q].pk \in Nat /\ quote[q].spent \in Nat
                              /\ quote[q].quoted \in Nat /\ quote[q].exp \in Nat
                              /\ quote[q].spent \div APPLES_PER_DAY \in Nat
<1>1. \A q \in Quotes : quote[q].spent \in Nat
  BY DEF TypeOK
<1>2. \A q \in Quotes : quote[q].spent \div APPLES_PER_DAY \in Nat
  BY <1>1, RulesAssumption
<1> QED
  BY <1>1, <1>2, BoundsAssumption DEF TypeOK

LEMMA IssueGrows ==
  ASSUME TypeOK, NEW u \in Users, NEW exp \in Nat, IssueKey(u, exp)
  PROVE  KeysOnlyGrow
BY NaturalsOfQuotes DEF TypeOK, IssueKey, KeysOnlyGrow

LEMMA ExtendGrows ==
  ASSUME TypeOK, NEW u \in Users, ExtendKey(u)
  PROVE  KeysOnlyGrow
<1>1. key' = [key EXCEPT ![u] = [key[u] EXCEPT !.exp = key[u].exp + SUBSCRIPTION_PERIOD_DAYS]]
      /\ nextPk' = nextPk
  BY DEF ExtendKey
<1>2. ASSUME NEW i \in Users
      PROVE  key'[i].pk = key[i].pk /\ key'[i].exp >= key[i].exp
  <2>1. key \in [Users -> Keys] /\ key[u] \in Keys /\ key[i].exp \in Nat /\ key[u].exp \in Nat
    BY DEF TypeOK, Keys
  <2>2. SUBSCRIPTION_PERIOD_DAYS \in Nat
    BY RulesAssumption
  <2>3. CASE i = u
    BY <1>1, <2>1, <2>2, <2>3 DEF Keys
  <2>4. CASE i # u
    BY <1>1, <2>1, <2>4
  <2> QED
    BY <2>3, <2>4
<1>3. nextPk \in Nat /\ nextPk' >= nextPk
  BY <1>1, NaturalsOfQuotes
<1> QED
  BY <1>2, <1>3 DEF KeysOnlyGrow

LEMMA SameKeysGrow ==
  ASSUME TypeOK, UNCHANGED keyVars
  PROVE  KeysOnlyGrow
<1>1. nextPk \in Nat /\ \A u \in Users : key[u].pk \in Nat /\ key[u].exp \in Nat
  BY NaturalsOfQuotes
<1>2. key' = key /\ nextPk' = nextPk
  BY DEF keyVars
<1> QED
  BY <1>1, <1>2 DEF KeysOnlyGrow

LEMMA GrantGrows ==
  ASSUME TypeOK, NEW u \in Users, GrantPeriod(u)
  PROVE  KeysOnlyGrow
<1>1. now + SUBSCRIPTION_PERIOD_DAYS \in Nat
  BY PeriodsAreDays
<1> QED
  BY <1>1, IssueGrows, ExtendGrows DEF GrantPeriod

LEMMA QuotesKept ==
  ASSUME QuoteInv, TypeOK', KeysOnlyGrow, UNCHANGED quote, now' >= now
  PROVE  QuoteInv'
<1>1. QuotesHaveUsers' /\ QuoteHonoured'
  BY DEF QuoteInv, QuotesHaveUsers, QuoteHonoured
<1> nextPk \in Nat /\ nextPk' \in Nat
  BY BoundsAssumption DEF QuoteInv, TypeOK
<1>2. \A u \in Users : key'[u].pk < nextPk'
  <2>1. \A u \in Users : key[u].pk \in Nat /\ key[u].pk < nextPk
    BY NaturalsOfQuotes DEF QuoteInv, QuotesStand
  <2> QED
    BY <2>1 DEF KeysOnlyGrow
<1>3. \A q \in Quotes : quote'[q].pk < nextPk'
  <2>1. \A q \in Quotes : quote[q].pk \in Nat /\ quote[q].pk < nextPk
    BY NaturalsOfQuotes DEF QuoteInv, QuotesStand
  <2> QED
    BY <2>1 DEF KeysOnlyGrow
<1>4. ASSUME NEW q \in Quotes, quote[q].step \in {"insert", "pending"},
             key'[quote[q].user].pk = quote[q].pk
      PROVE  Offer(q)' >= quote[q].quoted
  <2> DEFINE u == quote[q].user
             days == quote[q].spent \div APPLES_PER_DAY
  <2>1. u \in Users
    BY <1>4 DEF QuoteInv, QuotesHaveUsers
  <2>2. key'[u].pk = key[u].pk /\ key'[u].exp >= key[u].exp
    BY <1>4, <2>1, NaturalsOfQuotes DEF QuoteInv, QuotesStand, KeysOnlyGrow
  <2>3. Larger(key[u].exp, now) + days >= quote[q].quoted
    BY <1>4, <2>2 DEF QuoteInv, QuotesStand, Offer
  <2>4. /\ key[u].exp \in Nat /\ now \in Nat /\ days \in Nat /\ quote[q].quoted \in Nat
        /\ key'[u].exp \in Nat /\ now' \in Nat
    <3>1. key[u].exp \in Nat /\ now \in Nat /\ days \in Nat /\ quote[q].quoted \in Nat
      BY <2>1, NaturalsOfQuotes DEF QuoteInv
    <3>2. key'[u].exp \in Nat /\ now' \in Nat
      BY <2>1 DEF TypeOK
    <3> QED
      BY <3>1, <3>2
  <2>5. Offer(q)' = Larger(key'[u].exp, now') + days
    BY DEF Offer
  <2> HIDE DEF u, days
  <2> QED
    BY <2>2, <2>3, <2>4, <2>5 DEF Larger
<1> QED
  BY <1>1, <1>2, <1>3, <1>4 DEF QuoteInv, QuotesStand

LEMMA PreviewStands ==
  ASSUME QuoteInv, TypeOK', NEW u \in Users, NEW q \in Quotes, Preview(u, q)
  PROVE  QuoteInv'
<1>1. PICK days \in {1, balance[u] \div APPLES_PER_DAY} :
        quote' = [quote EXCEPT ![q] = [step |-> "insert", user |-> u, pk |-> key[u].pk,
                                       spent |-> days * APPLES_PER_DAY,
                                       quoted |-> Larger(key[u].exp, now) + days, exp |-> 0]]
  BY DEF Preview
<1>2. /\ quote \in [Quotes -> QuoteRows] /\ UNCHANGED <<key, nextPk, now>>
      /\ balance[u] \in Nat /\ key[u].exp \in Nat /\ now \in Nat
  <2>1. quote \in [Quotes -> QuoteRows] /\ balance[u] \in Nat
    BY DEF QuoteInv, TypeOK, QuoteRows
  <2>2. UNCHANGED <<key, nextPk, now>>
    BY DEF Preview, QuoteFrame, keyVars
  <2>3. key[u].exp \in Nat /\ now \in Nat
    BY NaturalsOfQuotes DEF QuoteInv
  <2> QED
    BY <2>1, <2>2, <2>3
<1>3. days \in Int
  BY <1>2, RulesAssumption
<1>4. (days * APPLES_PER_DAY) \div APPLES_PER_DAY = days
  BY <1>3, RulesAssumption, DaysForApples
<1>5. \A r \in Quotes \ {q} : quote'[r] = quote[r]
  BY <1>1, <1>2
<1>6. /\ quote'[q].step = "insert" /\ quote'[q].user = u /\ quote'[q].pk = key[u].pk
      /\ quote'[q].spent = days * APPLES_PER_DAY
      /\ quote'[q].quoted = Larger(key[u].exp, now) + days
  BY <1>1, <1>2
<1>7. Offer(q)' >= quote'[q].quoted
  <2>1. Larger(key[u].exp, now) + days \in Int
    BY <1>2, <1>3 DEF Larger
  <2>2. Offer(q)' = Larger(key[u].exp, now) + days
    BY <1>2, <1>4, <1>6 DEF Offer
  <2> QED
    BY <2>1, <2>2, <1>6
<1>8. QuotesHaveUsers' /\ QuoteHonoured'
  BY <1>5, <1>6 DEF QuoteInv, QuotesHaveUsers, QuoteHonoured
<1>9. QuotesStand'
  BY <1>2, <1>5, <1>6, <1>7 DEF QuoteInv, QuotesStand, Offer
<1> QED
  BY <1>8, <1>9 DEF QuoteInv

LEMMA PreviewInsertStands ==
  ASSUME QuoteInv, TypeOK', NEW q \in Quotes, PreviewInsert(q)
  PROVE  QuoteInv'
<1>1. quote \in [Quotes -> QuoteRows] /\ UNCHANGED <<key, nextPk, now>>
  BY DEF QuoteInv, TypeOK, QuoteRows, PreviewInsert, QuoteFrame, keyVars
<1>2. \A r \in Quotes \ {q} : quote'[r] = quote[r]
  BY <1>1 DEF PreviewInsert
<1>3. \/ quote'[q] = [quote[q] EXCEPT !.step = "pending"]
      \/ quote'[q] = NoQuote
  BY <1>1 DEF PreviewInsert
<1>4. quote[q].step = "insert" /\ quote[q] \in QuoteRows
  BY <1>1 DEF PreviewInsert
<1>5. CASE quote'[q] = NoQuote
  <2>1. quote'[q].step = "new" /\ quote'[q].pk = 0
    BY <1>5 DEF NoQuote
  <2>2. 0 < nextPk
    BY DEF QuoteInv, TypeOK
  <2> QED
    BY <1>1, <1>2, <2>1, <2>2
       DEF QuoteInv, QuotesHaveUsers, QuotesStand, QuoteHonoured, Offer
<1>6. CASE quote'[q] = [quote[q] EXCEPT !.step = "pending"]
  <2>1. /\ quote'[q].step = "pending" /\ quote'[q].user = quote[q].user
        /\ quote'[q].pk = quote[q].pk /\ quote'[q].spent = quote[q].spent
        /\ quote'[q].quoted = quote[q].quoted
    BY <1>4, <1>6 DEF QuoteRows
  <2> QED
    BY <1>1, <1>2, <1>4, <2>1
       DEF QuoteInv, QuotesHaveUsers, QuotesStand, QuoteHonoured, Offer
<1> QED
  BY <1>3, <1>5, <1>6

\* A confirmation gives what its quote offers now, and may improve the offer of
\* another quote on the same key.
LEMMA ConfirmStands ==
  ASSUME QuoteInv, TypeOK', NEW q \in Quotes, Confirm(q)
  PROVE  QuoteInv'
<1> DEFINE u == quote[q].user
<1>1. TypeOK /\ QuotesHaveUsers /\ QuotesStand
  BY DEF QuoteInv
<1>2. /\ quote[q].step = "pending" /\ key[u].pk = quote[q].pk /\ UNCHANGED <<now, nextPk>>
      /\ key' = [key EXCEPT ![u] = [key[u] EXCEPT !.exp = Offer(q), !.live = TRUE]]
      /\ quote' = [quote EXCEPT ![q] = [quote[q] EXCEPT !.step = "confirmed", !.exp = Offer(q)]]
  <2>1. quote[q].step = "pending" /\ key[u].pk = quote[q].pk /\ UNCHANGED <<now, nextPk>>
    BY DEF Confirm, Stale, QuoteFrame
  <2>2. key' = [key EXCEPT ![u] = [key[u] EXCEPT !.exp = Offer(q), !.live = TRUE]]
    BY DEF Confirm, Offer
  <2>3. quote' = [quote EXCEPT ![q] = [quote[q] EXCEPT !.step = "confirmed", !.exp = Offer(q)]]
    BY DEF Confirm, Offer
  <2> QED
    BY <2>1, <2>2, <2>3
<1>3. /\ u \in Users /\ key \in [Users -> Keys] /\ key[u] \in Keys
      /\ quote \in [Quotes -> QuoteRows] /\ quote[q] \in QuoteRows
  BY <1>1, <1>2 DEF QuotesHaveUsers, TypeOK, Keys, QuoteRows
<1>4. Offer(q) >= quote[q].quoted
  BY <1>1, <1>2 DEF QuotesStand
<1>5. Offer(q) \in Nat /\ Offer(q) >= key[u].exp
  <2>1. key[u].exp \in Nat /\ now \in Nat /\ quote[q].spent \div APPLES_PER_DAY \in Nat
    BY <1>1, <1>3, NaturalsOfQuotes
  <2> QED
    BY <2>1 DEF Offer, Larger
<1> HIDE DEF u
<1>6. \A i \in Users : key'[i].pk = key[i].pk /\ key'[i].exp >= key[i].exp
  <2> SUFFICES ASSUME NEW i \in Users
               PROVE  key'[i].pk = key[i].pk /\ key'[i].exp >= key[i].exp
    OBVIOUS
  <2>1. CASE i = u
    BY <1>2, <1>3, <1>5, <2>1 DEF Keys
  <2>2. key[i].exp \in Nat
    BY <1>1, NaturalsOfQuotes
  <2>3. CASE i # u
    BY <1>2, <1>3, <2>2, <2>3
  <2> QED
    BY <2>1, <2>3
<1>7. \A r \in Quotes \ {q} : quote'[r] = quote[r]
  BY <1>2, <1>3
<1>8. /\ quote'[q].step = "confirmed" /\ quote'[q].user = quote[q].user
      /\ quote'[q].pk = quote[q].pk /\ quote'[q].quoted = quote[q].quoted
      /\ quote'[q].exp = Offer(q)
  BY <1>2, <1>3 DEF QuoteRows
<1>9. QuotesHaveUsers' /\ QuoteHonoured'
  BY <1>1, <1>2, <1>4, <1>7, <1>8 DEF QuoteInv, QuotesHaveUsers, QuoteHonoured
<1>10. (\A i \in Users : key[i].pk < nextPk)' /\ (\A r \in Quotes : quote[r].pk < nextPk)'
  BY <1>1, <1>2, <1>6, <1>7, <1>8 DEF QuotesStand
<1>11. ASSUME NEW r \in Quotes \ {q}, quote[r].step \in {"insert", "pending"},
              key'[quote[r].user].pk = quote[r].pk
       PROVE  Offer(r)' >= quote[r].quoted
  <2> DEFINE i == quote[r].user
             days == quote[r].spent \div APPLES_PER_DAY
  <2>1. i \in Users
    BY <1>1, <1>11 DEF QuotesHaveUsers
  <2>2. key[i].pk = quote[r].pk /\ key'[i].exp >= key[i].exp
    BY <1>6, <1>11, <2>1
  <2>3. Larger(key[i].exp, now) + days >= quote[r].quoted
    BY <1>1, <1>11, <2>2 DEF QuotesStand, Offer
  <2>4. key[i].exp \in Nat /\ now \in Nat /\ days \in Nat /\ quote[r].quoted \in Nat
    BY <1>1, <2>1, NaturalsOfQuotes
  <2>5. key'[i].exp \in Nat
    BY <2>1 DEF TypeOK
  <2>6. Offer(r)' = Larger(key'[i].exp, now) + days
    BY <1>2, <1>7 DEF Offer
  <2> HIDE DEF i, days
  <2> QED
    BY <2>2, <2>3, <2>4, <2>5, <2>6 DEF Larger
<1>12. QuotesStand'
  BY <1>7, <1>8, <1>10, <1>11 DEF QuotesStand
<1> QED
  BY <1>9, <1>12 DEF QuoteInv

LEMMA UserQuotes ==
  ASSUME QuoteInv, UserNext
  PROVE  QuoteInv'
<1>1. TypeOK /\ TypeOK' /\ now \in Nat
  BY UserTypes, NaturalsOfQuotes DEF QuoteInv
<1>2. ASSUME NEW u \in Users, FreeTrial(u)  PROVE QuoteInv'
  <2>1. now + Days(u) \in Nat
    BY <1>1, DaysTypes
  <2>2. KeysOnlyGrow
    BY <1>1, <1>2, <2>1, IssueGrows DEF FreeTrial
  <2> QED
    BY <1>1, <1>2, <2>2, QuotesKept DEF FreeTrial
<1>3. CASE RemoveExpired
  <2>1. \A u \in Users : key'[u].pk = key[u].pk /\ key'[u].exp = key[u].exp
    <3>1. key \in [Users -> Keys]
      BY <1>1 DEF TypeOK, Keys
    <3> QED
      BY <1>3, <3>1 DEF RemoveExpired, Keys
  <2>2. nextPk \in Nat /\ (\A u \in Users : key[u].exp \in Nat) /\ nextPk' = nextPk
    BY <1>1, <1>3, NaturalsOfQuotes DEF RemoveExpired
  <2>3. KeysOnlyGrow
    BY <2>1, <2>2 DEF KeysOnlyGrow
  <2> QED
    BY <1>1, <1>3, <2>3, QuotesKept DEF RemoveExpired
<1>4. CASE Tick
  <2>1. KeysOnlyGrow
    BY <1>1, <1>4, SameKeysGrow DEF Tick
  <2> QED
    BY <1>1, <1>4, <2>1, QuotesKept DEF Tick
<1> QED
  BY <1>2, <1>3, <1>4 DEF UserNext

LEMMA WheelKeepsKeys ==
  ASSUME WheelNext
  PROVE  UNCHANGED <<keyVars, now, quote, purchase, answers>>
BY DEF WheelNext, AcceptLegalTerms, LoadStatus, Reopen, SpinTooEarly, WheelStops, CountdownEnds,
       Spin, WheelFrame, buyVars

LEMMA QuoteInvStep ==
  ASSUME QuoteInv, [Next]_vars
  PROVE  QuoteInv'
<1>1. TypeOK /\ QuotesHaveUsers /\ now \in Nat
  BY NaturalsOfQuotes DEF QuoteInv
<1>2. CASE BuyNext
  <2>1. PICK c \in Charges : Replay(c) \/ CreatePayment(c) \/ CreateGiftCertificate(c)
    BY <1>2 DEF BuyNext
  <2>2. TypeOK' /\ PaidBy[c] \in Users
    BY <1>1, <2>1, BuyTypes, ChargesAssumption
  <2>3. KeysOnlyGrow
    BY <1>1, <2>1, <2>2, GrantGrows, SameKeysGrow DEF Replay, CreatePayment, CreateGiftCertificate
  <2> QED
    BY <1>1, <2>1, <2>2, <2>3, QuotesKept DEF Replay, CreatePayment, CreateGiftCertificate
<1>3. CASE GiftNext
  <2>1. PICK u \in Users, c \in Gifts : ActivateGiftCertificate(u, c)
    BY <1>3 DEF GiftNext
  <2>2. TypeOK'
    BY <1>1, <2>1, GiftTypes
  <2>3. KeysOnlyGrow
    BY <1>1, <2>1, GrantGrows, SameKeysGrow DEF ActivateGiftCertificate
  <2> QED
    BY <1>1, <2>1, <2>2, <2>3, QuotesKept DEF ActivateGiftCertificate
<1>4. CASE RedeemNext
  <2>1. ASSUME NEW u \in Users, NEW q \in Quotes, Preview(u, q)  PROVE QuoteInv'
    BY <1>1, <2>1, PreviewTypes, PreviewStands
  <2>2. ASSUME NEW q \in Quotes, PreviewInsert(q)  PROVE QuoteInv'
    BY <1>1, <2>2, PreviewInsertTypes, PreviewInsertStands
  <2>3. ASSUME NEW q \in Quotes, Confirm(q)  PROVE QuoteInv'
    BY <1>1, <2>3, ConfirmTypes, ConfirmStands
  <2> QED
    BY <1>4, <2>1, <2>2, <2>3 DEF RedeemNext
<1>5. CASE UserNext
  BY <1>5, UserQuotes
<1>6. CASE WheelNext
  <2>1. TypeOK' /\ UNCHANGED <<keyVars, now, quote>>
    BY <1>1, <1>6, WheelTypes, WheelKeepsKeys
  <2>2. KeysOnlyGrow
    BY <1>1, <2>1, SameKeysGrow
  <2> QED
    BY <1>1, <2>1, <2>2, QuotesKept
<1>7. CASE UNCHANGED vars
  BY <1>7 DEF vars, keyVars, buyVars, wheelVars, QuoteInv, TypeOK, QuotesHaveUsers, QuotesStand,
              QuoteHonoured, Offer
<1> QED
  BY <1>2, <1>3, <1>4, <1>5, <1>6, <1>7 DEF Next

LEMMA InitQuoteInv ==
  ASSUME Init
  PROVE  QuoteInv
<1>1. /\ \A u \in Users : key[u].pk = 0
      /\ \A q \in Quotes : quote[q].step = "new" /\ quote[q].pk = 0
      /\ nextPk = 1
  BY DEF Init, NoKey, NoQuote
<1> QED
  BY <1>1, InitTypes DEF QuoteInv, QuotesStand, QuoteHonoured

LEMMA QuoteInvAlways == Spec => []QuoteInv
<1>1. Init => QuoteInv
  BY InitQuoteInv
<1>2. QuoteInv /\ [Next]_vars => QuoteInv'
  BY QuoteInvStep
<1> QED
  BY <1>1, <1>2, PTL DEF Spec

\* Whatever is bought, given, redeemed, won or referred, every row keeps its
\* type; in particular no balance falls below zero, since a confirmation reads
\* the balance again in the transaction that spends it.
THEOREM LedgerIsTyped == Spec => []TypeOK
<1>1. QuoteInv => TypeOK
  BY DEF QuoteInv
<1> QED
  BY <1>1, QuoteInvAlways, PTL

\* A confirmed redemption gives at least what its preview showed: while the key
\* of the quote is there its date and the day only grow, and a replaced key
\* makes the quote stale.
THEOREM QuotesAreHonoured == Spec => []QuoteHonoured
<1>1. QuoteInv => QuoteHonoured
  BY DEF QuoteInv
<1> QED
  BY <1>1, QuoteInvAlways, PTL

-------------------------------------------------------------------------------
(* Answers.                                                                 *)

\* The answers to a charge all come from its row, and a charge without one has
\* not been answered.
AnswersFromRow ==
  \A c \in Charges : /\ answers[c] \subseteq {Outcome(purchase[c])}
                     /\ ~purchase[c].made => answers[c] = {}

AnswersInv == /\ answers = [c \in Charges |-> answers[c]]
              /\ AnswersFromRow

LEMMA AnswersStep ==
  ASSUME TypeOK, AnswersInv, [Next]_vars
  PROVE  AnswersInv'
<1>1. CASE UNCHANGED <<purchase, answers>>
  BY <1>1 DEF AnswersInv, AnswersFromRow
<1>2. ASSUME NEW c \in Charges, Replay(c)
      PROVE  AnswersInv'
  <2>1. /\ answers' = [answers EXCEPT ![c] = answers[c] \union {Outcome(purchase[c])}]
        /\ purchase' = purchase /\ purchase[c].made
    BY <1>2 DEF Replay, Answer
  <2>2. \A i \in Charges : answers'[i] \subseteq {Outcome(purchase'[i])}
    BY <2>1 DEF AnswersInv, AnswersFromRow
  <2> QED
    BY <2>1, <2>2 DEF AnswersInv, AnswersFromRow
<1>3. ASSUME NEW c \in Charges, NEW exp, ~purchase[c].made, SaveCashback(c, exp)
      PROVE  AnswersInv'
  <2> DEFINE u == PaidBy[c]
             count == count_apple_cashback_purchases(u)
             rate == get_apple_level(count).rate
             earned == calculate_apples(Kopecks[c], rate)
             row == [made |-> TRUE, rate |-> rate, earned |-> earned,
                     balance |-> balance[u] + earned, count |-> count + 1, exp |-> exp]
  <2>1. /\ purchase' = [purchase EXCEPT ![c] = row]
        /\ answers' = [answers EXCEPT ![c] = answers[c] \union {Outcome(row)}]
    BY <1>3 DEF SaveCashback, Answer
  <2>2. row.made
    OBVIOUS
  <2> HIDE DEF row
  <2>3. answers[c] = {} /\ purchase'[c] = row
    BY <1>3, <2>1 DEF AnswersInv, AnswersFromRow, TypeOK
  <2>4. \A i \in Charges \ {c} : answers'[i] = answers[i] /\ purchase'[i] = purchase[i]
    BY <2>1 DEF AnswersInv, TypeOK
  <2>5. answers'[c] = {Outcome(row)}
    BY <2>1, <2>3 DEF AnswersInv
  <2>6. answers' = [i \in Charges |-> answers'[i]]
    BY <2>1 DEF AnswersInv
  <2> QED
    BY <2>2, <2>3, <2>4, <2>5, <2>6 DEF AnswersInv, AnswersFromRow
<1>4. CASE BuyNext
  <2>1. PICK c \in Charges : Replay(c) \/ CreatePayment(c) \/ CreateGiftCertificate(c)
    BY <1>4 DEF BuyNext
  <2>2. CASE Replay(c)
    BY <1>2, <2>2
  <2>3. CASE CreatePayment(c)
    BY <1>3, <2>3 DEF CreatePayment
  <2>4. CASE CreateGiftCertificate(c)
    BY <1>3, <2>4 DEF CreateGiftCertificate
  <2> QED
    BY <2>1, <2>2, <2>3, <2>4
<1>5. CASE GiftNext
  BY <1>1, <1>5 DEF GiftNext, ActivateGiftCertificate
<1>6. CASE RedeemNext
  <2>1. QuoteFrame
    <3>1. \A u \in Users, q \in Quotes : Preview(u, q) => QuoteFrame
      BY DEF Preview
    <3>2. \A q \in Quotes : PreviewInsert(q) \/ Confirm(q) => QuoteFrame
      BY DEF PreviewInsert, Confirm
    <3> QED
      BY <1>6, <3>1, <3>2 DEF RedeemNext
  <2>2. UNCHANGED <<purchase, answers>>
    BY <2>1 DEF QuoteFrame, buyVars
  <2> QED
    BY <1>1, <2>2
<1>7. CASE UserNext
  BY <1>1, <1>7 DEF UserNext, FreeTrial, RemoveExpired, Tick, buyVars
<1>8. CASE WheelNext
  BY <1>1, <1>8, WheelKeepsKeys
<1>9. CASE UNCHANGED vars
  BY <1>1, <1>9 DEF vars, buyVars
<1> QED
  BY <1>4, <1>5, <1>6, <1>7, <1>8, <1>9 DEF Next

\* However often, and in whatever state of the balance, the key and the other
\* purchases, a charge is sent again, it is answered as the first time: the
\* answer is computed from the saved row alone and the row is never written again.
THEOREM RepeatsGetTheSameAnswer == Spec => []SameAnswer
<1>1. Init => AnswersInv
  BY DEF Init, AnswersInv, AnswersFromRow
<1>2. TypeOK /\ AnswersInv /\ [Next]_vars => AnswersInv'
  BY AnswersStep
<1>3. AnswersInv => SameAnswer
  <2> SUFFICES ASSUME AnswersInv, NEW c \in Charges
               PROVE  Cardinality(answers[c]) <= 1
    BY DEF SameAnswer
  <2>1. answers[c] \subseteq {Outcome(purchase[c])}
    BY DEF AnswersInv, AnswersFromRow
  <2>2. IsFiniteSet({Outcome(purchase[c])}) /\ Cardinality({Outcome(purchase[c])}) = 1
    BY FS_Singleton
  <2> QED
    BY <2>1, <2>2, FS_Subset
<1> QED
  BY <1>1, <1>2, <1>3, LedgerIsTyped, PTL DEF Spec

-------------------------------------------------------------------------------
(* The global limit.                                                        *)

Active == {u \in Users : get_active_key(u)}
Counted == {u \in Users \ revived : get_active_key(u)}

LEMMA CountedAreFinite ==
  /\ IsFiniteSet(Active) /\ Cardinality(Active) \in Nat
  /\ IsFiniteSet(Counted) /\ Cardinality(Counted) \in Nat
<1>1. Active \in SUBSET Users /\ Counted \in SUBSET Users
  BY DEF Active, Counted
<1> QED
  BY <1>1, FiniteAssumption, FS_Subset, FS_CardinalityType

LEMMA FewerAreCounted ==
  ASSUME OnlyRedemptionsExceedLimit, Counted' \subseteq Counted
  PROVE  OnlyRedemptionsExceedLimit'
<1>1. Cardinality(Counted) <= GLOBAL_KEYS_LIMIT
  BY DEF OnlyRedemptionsExceedLimit, Counted
<1>2. Cardinality(Counted') <= Cardinality(Counted) /\ Cardinality(Counted') \in Nat
  BY CountedAreFinite, FS_Subset, FS_CardinalityType
<1>3. Cardinality(Counted') <= GLOBAL_KEYS_LIMIT
  BY <1>1, <1>2, CountedAreFinite, RulesAssumption
<1> QED
  BY <1>3 DEF OnlyRedemptionsExceedLimit, Counted

\* A key is issued only while fewer keys than the limit are active, so one more
\* does not exceed it.
LEMMA IssueKeepsLimit ==
  ASSUME TypeOK, NEW u \in Users, NEW exp \in Nat, IssueKey(u, exp), UNCHANGED now
  PROVE  OnlyRedemptionsExceedLimit'
<1>1. Cardinality(Active) < GLOBAL_KEYS_LIMIT
  BY CountedAreFinite, RulesAssumption DEF IssueKey, KeysLimitReached, Active
<1>2. Counted' \subseteq Active \union {u}
  BY DEF IssueKey, Counted, Active, get_active_key, TypeOK
<1>3. /\ IsFiniteSet(Active \union {u})
      /\ Cardinality(Active \union {u}) <= Cardinality(Active) + 1
  <2>1. IsFiniteSet(Active) /\ Cardinality(Active) \in Nat
    BY CountedAreFinite
  <2>2. /\ IsFiniteSet(Active \union {u})
        /\ \/ Cardinality(Active \union {u}) = Cardinality(Active)
           \/ Cardinality(Active \union {u}) = Cardinality(Active) + 1
    BY <2>1, FS_AddElement
  <2> QED
    BY <2>1, <2>2
<1>4. Cardinality(Counted') <= Cardinality(Active \union {u})
      /\ Cardinality(Counted') \in Nat /\ Cardinality(Active \union {u}) \in Nat
  BY <1>2, <1>3, FS_Subset, FS_CardinalityType
<1>5. Cardinality(Counted') <= GLOBAL_KEYS_LIMIT
  BY <1>1, <1>3, <1>4, CountedAreFinite, RulesAssumption
<1> QED
  BY <1>5 DEF OnlyRedemptionsExceedLimit, Counted

LEMMA ExtendKeepsLimit ==
  ASSUME TypeOK, OnlyRedemptionsExceedLimit, NEW u \in Users, get_active_key(u), ExtendKey(u),
         UNCHANGED now
  PROVE  OnlyRedemptionsExceedLimit'
<1>1. \A i \in Users \ {u} : key'[i] = key[i]
  BY DEF ExtendKey, TypeOK
<1>2. Counted' \subseteq Counted
  BY <1>1 DEF ExtendKey, Counted, get_active_key
<1> QED
  BY <1>2, FewerAreCounted

LEMMA GrantKeepsLimit ==
  ASSUME TypeOK, OnlyRedemptionsExceedLimit, NEW u \in Users, GrantPeriod(u), UNCHANGED now
  PROVE  OnlyRedemptionsExceedLimit'
<1>1. now + SUBSCRIPTION_PERIOD_DAYS \in Nat
  BY PeriodsAreDays
<1> QED
  BY <1>1, IssueKeepsLimit, ExtendKeepsLimit DEF GrantPeriod

LEMMA SameKeysKeepLimit ==
  ASSUME OnlyRedemptionsExceedLimit, UNCHANGED <<keyVars, now>>
  PROVE  OnlyRedemptionsExceedLimit'
BY DEF keyVars, OnlyRedemptionsExceedLimit, get_active_key

LEMMA LimitStep ==
  ASSUME QuoteInv, OnlyRedemptionsExceedLimit, [Next]_vars
  PROVE  OnlyRedemptionsExceedLimit'
<1>1. TypeOK /\ QuotesHaveUsers /\ now \in Nat
  BY NaturalsOfQuotes DEF QuoteInv
<1>2. CASE BuyNext
  <2>1. PICK c \in Charges : Replay(c) \/ CreatePayment(c) \/ CreateGiftCertificate(c)
    BY <1>2 DEF BuyNext
  <2>2. PaidBy[c] \in Users
    BY ChargesAssumption
  <2> QED
    BY <1>1, <2>1, <2>2, GrantKeepsLimit, SameKeysKeepLimit
       DEF Replay, CreatePayment, CreateGiftCertificate
<1>3. CASE GiftNext
  BY <1>1, <1>3, GrantKeepsLimit, SameKeysKeepLimit DEF GiftNext, ActivateGiftCertificate
<1>4. CASE RedeemNext
  <2>1. ASSUME NEW q \in Quotes, Confirm(q)  PROVE OnlyRedemptionsExceedLimit'
    <3> DEFINE u == quote[q].user
    <3>1. /\ now' = now
          /\ key' = [key EXCEPT ![u] = [key[u] EXCEPT !.exp = Offer(q), !.live = TRUE]]
          /\ revived' = IF get_active_key(u) THEN revived ELSE revived \union {u}
      BY <2>1 DEF Confirm, Offer, QuoteFrame
    <3>2. \A i \in Users \ {u} : key'[i] = key[i]
      <4>1. key \in [Users -> Keys]
        BY <1>1 DEF TypeOK, Keys
      <4> HIDE DEF u
      <4> QED
        BY <3>1, <4>1
    <3>3. Counted' \subseteq Counted
      BY <3>1, <3>2 DEF Counted, get_active_key
    <3> QED
      BY <3>3, FewerAreCounted
  <2>2. CASE UNCHANGED <<keyVars, now>>
    BY <2>2, SameKeysKeepLimit
  <2> QED
    BY <1>4, <2>1, <2>2 DEF RedeemNext, Preview, PreviewInsert, QuoteFrame
<1>5. CASE UserNext
  <2>1. ASSUME NEW u \in Users, FreeTrial(u)  PROVE OnlyRedemptionsExceedLimit'
    BY <1>1, <2>1, DaysTypes, IssueKeepsLimit DEF FreeTrial
  <2>2. CASE RemoveExpired
    <3>1. \A u \in Users : key'[u].exp = key[u].exp /\ (key'[u].live => key[u].live)
      <4>1. key \in [Users -> Keys]
        BY <1>1 DEF TypeOK, Keys
      <4> QED
        BY <2>2, <4>1 DEF RemoveExpired, Keys
    <3>2. Counted' \subseteq Counted
      BY <2>2, <3>1 DEF RemoveExpired, Counted, get_active_key
    <3> QED
      BY <3>2, FewerAreCounted
  <2>3. CASE Tick
    <3>1. \A u \in Users : key[u].exp \in Nat
      BY <1>1, NaturalsOfQuotes
    <3>2. now' = now + 1 /\ UNCHANGED <<key, revived>>
      BY <2>3 DEF Tick, keyVars
    <3>3. Counted' \subseteq Counted
      BY <1>1, <3>1, <3>2 DEF Counted, get_active_key
    <3> QED
      BY <3>3, FewerAreCounted
  <2> QED
    BY <1>5, <2>1, <2>2, <2>3 DEF UserNext
<1>6. CASE WheelNext
  BY <1>6, WheelKeepsKeys, SameKeysKeepLimit
<1>7. CASE UNCHANGED vars
  BY <1>7, SameKeysKeepLimit DEF vars
<1> QED
  BY <1>2, <1>3, <1>4, <1>5, <1>6, <1>7 DEF Next

\* The active keys that no redemption brought back never exceed the global
\* limit: purchases, certificates and trials count all active keys before they
\* issue one, and nothing else makes a key active.
THEOREM LimitIsKept == Spec => []OnlyRedemptionsExceedLimit
<1>1. Init => OnlyRedemptionsExceedLimit
  <2> SUFFICES ASSUME Init  PROVE OnlyRedemptionsExceedLimit
    OBVIOUS
  <2>1. Counted = {}
    BY DEF Init, Counted, get_active_key, NoKey
  <2>2. Cardinality(Counted) = 0
    BY <2>1, FS_EmptySet
  <2> QED
    BY <2>2, RulesAssumption DEF OnlyRedemptionsExceedLimit, Counted
<1>2. QuoteInv /\ OnlyRedemptionsExceedLimit /\ [Next]_vars => OnlyRedemptionsExceedLimit'
  BY LimitStep
<1> QED
  BY <1>1, <1>2, QuoteInvAlways, PTL DEF Spec


-------------------------------------------------------------------------------
(* Balances.                                                                *)

Balanced(u) == balance[u] + Spent(u) = Earned(u) + Won(u) + Referred(u)

\* A charge without a row has earned nothing yet.
UnpaidEarnNothing == \A c \in Charges : ~purchase[c].made => purchase[c].earned = 0

ChargesOf(u) == {c \in Charges : PaidBy[c] = u}
ReferredBy(u) == {i \in trialUsed : Inviter[i] = u}

LEMMA SpinsOf ==
  ASSUME TypeOK, NEW u \in Users
  PROVE  /\ spins[u] \in Seq(Spins) /\ Len(spins[u]) \in Nat
         /\ DOMAIN spins[u] = 1..Len(spins[u])
         /\ \A i \in DOMAIN spins[u] : spins[u][i].prize \in Nat
<1>1. spins[u] \in Seq(Spins)
  BY DEF TypeOK, Spins
<1>2. DOMAIN spins[u] = 1..Len(spins[u]) /\ \A i \in 1..Len(spins[u]) : spins[u][i] \in Spins
  BY <1>1
<1> QED
  BY <1>1, <1>2 DEF Spins

LEMMA LedgersAreFinite ==
  ASSUME TypeOK, NEW u \in Users
  PROVE  /\ IsFiniteSet(ChargesOf(u)) /\ IsFiniteSet(RedeemedBy(u))
         /\ IsFiniteSet(ReferredBy(u)) /\ IsFiniteSet(DOMAIN spins[u])
         /\ Cardinality(ReferredBy(u)) \in Nat
<1>1. /\ ChargesOf(u) \subseteq Charges /\ RedeemedBy(u) \subseteq Quotes
      /\ ReferredBy(u) \subseteq Users
  BY DEF ChargesOf, RedeemedBy, ReferredBy, TypeOK
<1>2. /\ IsFiniteSet(ChargesOf(u)) /\ IsFiniteSet(RedeemedBy(u)) /\ IsFiniteSet(ReferredBy(u))
  BY <1>1, FiniteAssumption, FS_Subset
<1>3. IsFiniteSet(DOMAIN spins[u])
  BY SpinsOf, FS_Interval
<1> QED
  BY <1>2, <1>3, FS_CardinalityType

LEMMA LedgersAreNaturals ==
  ASSUME TypeOK, NEW u \in Users
  PROVE  /\ balance[u] \in Nat /\ Earned(u) \in Nat /\ Won(u) \in Nat
         /\ Referred(u) \in Nat /\ Spent(u) \in Nat
<1>1. balance[u] \in Nat
  BY DEF TypeOK
<1>2. Earned(u) \in Nat
  <2>1. \A c \in ChargesOf(u) : purchase[c].earned \in Nat
    BY DEF TypeOK, ChargesOf
  <2> DEFINE f == [c \in ChargesOf(u) |-> purchase[c].earned]
  <2>2. Earned(u) = SumFunctionOnSet(f, ChargesOf(u))
    BY DEF Earned, SumFunction, ChargesOf
  <2>3. \A c \in ChargesOf(u) : f[c] \in Nat
    BY <2>1
  <2> HIDE DEF f
  <2> QED
    BY <2>2, <2>3, LedgersAreFinite, SumType
<1>3. Won(u) \in Nat
  <2> DEFINE f == [i \in DOMAIN spins[u] |-> spins[u][i].prize]
  <2>1. \A i \in DOMAIN spins[u] : f[i] \in Nat
    BY SpinsOf
  <2>2. Won(u) = SumFunctionOnSet(f, DOMAIN spins[u])
    BY DEF Won, SumFunction
  <2> HIDE DEF f
  <2> QED
    BY <2>1, <2>2, LedgersAreFinite, SumType
<1>4. Spent(u) \in Nat
  <2> DEFINE f == [q \in RedeemedBy(u) |-> quote[q].spent]
  <2>1. \A q \in RedeemedBy(u) : f[q] \in Nat
    BY DEF TypeOK, RedeemedBy
  <2>2. Spent(u) = SumFunctionOnSet(f, RedeemedBy(u))
    BY DEF Spent, SumFunction
  <2> HIDE DEF f
  <2> QED
    BY <2>1, <2>2, LedgersAreFinite, SumType
<1>5. Referred(u) \in Nat
  <2>1. Cardinality(ReferredBy(u)) \in Nat /\ REFERRAL_ACTIVATION_APPLES \in Nat
    BY LedgersAreFinite, RulesAssumption
  <2> QED
    BY <2>1 DEF Referred, ReferredBy
<1> QED
  BY <1>1, <1>2, <1>3, <1>4, <1>5

\* A saved purchase adds what it earned.
LEMMA EarnedGrows ==
  ASSUME TypeOK, TypeOK', UnpaidEarnNothing, NEW c \in Charges, ~purchase[c].made,
         NEW row, row.earned \in Nat, purchase' = [purchase EXCEPT ![c] = row], NEW u \in Users
  PROVE  Earned(u)' = Earned(u) + (IF PaidBy[c] = u THEN row.earned ELSE 0)
<1> DEFINE S == ChargesOf(u)
           f == [x \in S |-> purchase[x].earned]
           g == [x \in S |-> purchase'[x].earned]
<1>1. Earned(u) = SumFunctionOnSet(f, S) /\ Earned(u)' = SumFunctionOnSet(g, S)
  BY DEF Earned, SumFunction, ChargesOf
<1>2. \A x \in Charges : purchase'[x] = IF x = c THEN row ELSE purchase[x]
  BY DEF TypeOK
<1>3. \A x \in S : f[x] \in Nat /\ g[x] \in Nat
  BY DEF TypeOK, ChargesOf
<1>4. S \subseteq Charges /\ IsFiniteSet(S) /\ (c \in S <=> PaidBy[c] = u)
  BY LedgersAreFinite DEF ChargesOf
<1>5. \A x \in S \ {c} : g[x] = f[x]
  BY <1>2, <1>4
<1>6. c \in S => f[c] = 0 /\ g[c] = row.earned
  BY <1>2, <1>4 DEF UnpaidEarnNothing
<1> HIDE DEF S, f, g
<1>7. CASE c \in S
  <2>1. SumFunctionOnSet(g, S) + f[c] = SumFunctionOnSet(f, S) + g[c]
    BY <1>3, <1>4, <1>5, <1>7, SumChanged
  <2>2. SumFunctionOnSet(g, S) \in Nat /\ SumFunctionOnSet(f, S) \in Nat
    BY <1>3, <1>4, SumType
  <2> QED
    BY <1>1, <1>4, <1>6, <1>7, <2>1, <2>2
<1>8. CASE c \notin S
  <2>1. SumFunctionOnSet(f, S) = SumFunctionOnSet(g, S)
    BY <1>4, <1>5, <1>8, SumSame
  <2>2. SumFunctionOnSet(f, S) \in Nat
    BY <1>3, <1>4, SumType
  <2> QED
    BY <1>1, <1>4, <1>8, <2>1, <2>2
<1> QED
  BY <1>7, <1>8

\* A spin adds its prize.
LEMMA WonGrows ==
  ASSUME TypeOK, NEW u \in Users, NEW won \in Spins, spins' = [spins EXCEPT ![u] = Append(@, won)]
  PROVE  Won(u)' = Won(u) + won.prize
<1> DEFINE S == DOMAIN spins[u]
           n == Len(spins[u]) + 1
           f == [i \in S |-> spins[u][i].prize]
           T == S \union {n}
           g == [i \in T |-> spins'[u][i].prize]
<1>1. spins[u] \in Seq(Spins) /\ spins'[u] = Append(spins[u], won)
  BY DEF TypeOK, Spins
<1>2. S = 1..Len(spins[u]) /\ Len(spins[u]) \in Nat
  BY SpinsOf
<1>3. DOMAIN spins'[u] = S \union {n} /\ n \notin S
  <2>1. DOMAIN spins'[u] = 1..n
    BY <1>1
  <2> QED
    BY <1>2, <2>1
<1>4. Won(u) = SumFunctionOnSet(f, S)
  BY DEF Won, SumFunction
<1>5. Won(u)' = SumFunctionOnSet(g, T)
  <2>1. Won(u)' = SumFunction([i \in DOMAIN spins'[u] |-> spins'[u][i].prize])
    BY DEF Won
  <2>2. Won(u)' = SumFunction(g)
    BY <1>3, <2>1
  <2> QED
    BY <2>2 DEF SumFunction
<1>6. \A i \in S : g[i] = f[i] /\ f[i] \in Nat
  <2>1. \A i \in 1..Len(spins[u]) : spins'[u][i] = spins[u][i]
    BY <1>1
  <2> QED
    BY <1>2, <2>1, SpinsOf
<1>7. g[n] = won.prize /\ won.prize \in Nat
  BY <1>1 DEF Spins
<1>8. IsFiniteSet(S) /\ T = S \union {n} /\ \A i \in T : g[i] \in Nat
  BY <1>6, <1>7, LedgersAreFinite
<1> HIDE DEF S, n, T, f, g
<1>9. \A i \in S : g[i] = f[i]
  BY <1>6
<1>10. SumFunctionOnSet(g, T) = SumFunctionOnSet(f, S) + g[n]
  BY ONLY <1>3, <1>8, <1>9, SumAdded
<1>11. Won(u)' = Won(u) + g[n]
  BY ONLY <1>4, <1>5, <1>10
<1>12. g[n] = won.prize
  BY ONLY <1>7
<1> QED
  BY ONLY <1>11, <1>12

\* A step that confirms nothing spends nothing.
LEMMA SpentKept ==
  ASSUME TypeOK, NEW u \in Users,
         \A q \in Quotes : /\ quote'[q].step = "confirmed" <=> quote[q].step = "confirmed"
                           /\ quote[q].step = "confirmed" => quote'[q] = quote[q]
  PROVE  Spent(u)' = Spent(u)
<1>1. RedeemedBy(u)' = RedeemedBy(u)
  BY DEF RedeemedBy
<1>2. [q \in RedeemedBy(u) |-> quote'[q].spent] = [q \in RedeemedBy(u) |-> quote[q].spent]
  BY DEF RedeemedBy
<1> QED
  BY <1>1, <1>2 DEF Spent

\* A confirmation spends what its quote says.
LEMMA SpentGrows ==
  ASSUME TypeOK, NEW q \in Quotes, quote[q].step = "pending",
         NEW exp, quote' = [quote EXCEPT ![q].step = "confirmed", ![q].exp = exp],
         NEW u \in Users
  PROVE  Spent(u)' = Spent(u) + (IF quote[q].user = u THEN quote[q].spent ELSE 0)
<1>1. quote \in [Quotes -> QuoteRows]
  BY DEF TypeOK, QuoteRows
<1>2. quote' = [quote EXCEPT ![q] = [quote[q] EXCEPT !.step = "confirmed", !.exp = exp]]
  BY <1>1 DEF QuoteRows
<1>3. /\ \A r \in Quotes \ {q} : quote'[r] = quote[r]
      /\ quote'[q].step = "confirmed" /\ quote'[q].user = quote[q].user
      /\ quote'[q].spent = quote[q].spent
  <2>1. quote'[q] = [quote[q] EXCEPT !.step = "confirmed", !.exp = exp]
    BY <1>1, <1>2
  <2> QED
    BY <1>1, <1>2, <2>1 DEF QuoteRows
<1>4. q \notin RedeemedBy(u)
  BY DEF RedeemedBy
<1>5. CASE quote[q].user # u
  <2>1. RedeemedBy(u)' = RedeemedBy(u)
    BY <1>3, <1>4, <1>5 DEF RedeemedBy
  <2>2. \A r \in RedeemedBy(u) : quote'[r].spent = quote[r].spent
    BY <1>3, <1>4 DEF RedeemedBy
  <2>3. Spent(u)' = Spent(u)
    BY <2>1, <2>2 DEF Spent
  <2> QED
    BY <1>5, <2>3, LedgersAreNaturals
<1>6. CASE quote[q].user = u
  <2> DEFINE S == RedeemedBy(u)
             f == [r \in S |-> quote[r].spent]
             T == S \union {q}
             g == [r \in T |-> quote'[r].spent]
  <2>1. RedeemedBy(u)' = S \union {q}
    BY <1>3, <1>6 DEF RedeemedBy
  <2>2. Spent(u) = SumFunctionOnSet(f, S)
    BY DEF Spent, SumFunction
  <2>3. Spent(u)' = SumFunctionOnSet(g, T)
    BY <2>1 DEF Spent, SumFunction
  <2>4. \A r \in S : g[r] = f[r] /\ f[r] \in Nat
    BY <1>3, <1>4 DEF RedeemedBy, TypeOK
  <2>5. g[q] = quote[q].spent /\ g[q] \in Nat
    BY <1>3 DEF TypeOK
  <2>6. /\ IsFiniteSet(S) /\ q \notin S /\ T = S \union {q}
        /\ \A r \in T : g[r] \in Nat
    BY <1>4, <2>4, <2>5, LedgersAreFinite
  <2> HIDE DEF S, T, f, g
  <2>7. \A r \in S : g[r] = f[r]
    BY <2>4
  <2>8. SumFunctionOnSet(g, T) = SumFunctionOnSet(f, S) + g[q]
    BY ONLY <2>6, <2>7, SumAdded
  <2>9. Spent(u)' = Spent(u) + g[q]
    BY ONLY <2>2, <2>3, <2>8
  <2>10. g[q] = quote[q].spent
    BY ONLY <2>5
  <2> QED
    BY ONLY <1>6, <2>9, <2>10
<1> QED
  BY <1>5, <1>6

\* A referral that is activated counts once.
LEMMA ReferredGrows ==
  ASSUME TypeOK, NEW u \in Users, u \notin trialUsed, trialUsed' = trialUsed \union {u},
         NEW i \in Users
  PROVE  Referred(i)' = Referred(i) + (IF i = Inviter[u] THEN REFERRAL_ACTIVATION_APPLES ELSE 0)
<1> DEFINE n == Cardinality(ReferredBy(i))
<1>1. Referred(i) = REFERRAL_ACTIVATION_APPLES * n
      /\ Referred(i)' = REFERRAL_ACTIVATION_APPLES * Cardinality(ReferredBy(i)')
  BY DEF Referred, ReferredBy
<1>2. n \in Nat /\ REFERRAL_ACTIVATION_APPLES \in Nat /\ IsFiniteSet(ReferredBy(i))
  BY LedgersAreFinite, RulesAssumption
<1>3. CASE i = Inviter[u]
  <2>1. ReferredBy(i)' = ReferredBy(i) \union {u} /\ u \notin ReferredBy(i)
    BY <1>3 DEF ReferredBy
  <2>2. Cardinality(ReferredBy(i)') = n + 1
    BY <1>2, <2>1, FS_AddElement
  <2> HIDE DEF n
  <2> QED
    BY <1>1, <1>2, <1>3, <2>2
<1>4. CASE i # Inviter[u]
  <2>1. ReferredBy(i)' = ReferredBy(i)
    BY <1>4 DEF ReferredBy
  <2>2. Referred(i) \in Nat
    BY LedgersAreNaturals
  <2> QED
    BY <1>1, <1>4, <2>1, <2>2
<1> QED
  BY <1>3, <1>4

\* The row of a new purchase and what it adds to the balance of its payer.
LEMMA SavedRow ==
  ASSUME TypeOK, NEW c \in Charges, NEW exp, SaveCashback(c, exp)
  PROVE  \E row : /\ purchase' = [purchase EXCEPT ![c] = row]
                  /\ balance' = [balance EXCEPT ![PaidBy[c]] = balance[PaidBy[c]] + row.earned]
                  /\ row.made /\ row.earned \in Nat
                  /\ row.count = count_apple_cashback_purchases(PaidBy[c]) + 1
                  /\ row.rate = get_apple_level(count_apple_cashback_purchases(PaidBy[c])).rate
<1> DEFINE u == PaidBy[c]
           count == count_apple_cashback_purchases(u)
           rate == get_apple_level(count).rate
           earned == calculate_apples(Kopecks[c], rate)
<1>1. u \in Users /\ Kopecks[c] \in Nat
  BY ChargesAssumption
<1>2. rate \in {5, 10, 15}
  BY PurchasesAreCounted, RateOfLevel
<1>3. earned \in Nat
  BY <1>1, <1>2, ApplesAreWhole
<1> DEFINE row == [made |-> TRUE, rate |-> rate, earned |-> earned,
                   balance |-> balance[u] + earned, count |-> count + 1, exp |-> exp]
<1>4. /\ purchase' = [purchase EXCEPT ![c] = row]
      /\ balance' = [balance EXCEPT ![u] = row.balance]
  BY DEF SaveCashback
<1> HIDE DEF u, count, rate, earned
<1>5. /\ row.balance = balance[u] + row.earned /\ row.made /\ row.earned = earned
      /\ row.count = count + 1 /\ row.rate = rate
  OBVIOUS
<1> HIDE DEF row
<1> QED
  BY <1>3, <1>4, <1>5 DEF u, count, rate

LedgerInv == QuoteInv /\ UnpaidEarnNothing /\ BalanceIsLedger

LEMMA BalanceOf ==
  ASSUME LedgerInv, NEW u \in Users
  PROVE  /\ TypeOK /\ Balanced(u)
         /\ balance[u] \in Nat /\ Earned(u) \in Nat /\ Won(u) \in Nat
         /\ Referred(u) \in Nat /\ Spent(u) \in Nat
BY LedgersAreNaturals DEF LedgerInv, QuoteInv, BalanceIsLedger, Balanced

\* Steps that touch no ledger.
LEMMA SameLedgers ==
  ASSUME LedgerInv, UNCHANGED <<balance, purchase, spins, trialUsed>>,
         \A q \in Quotes : /\ quote'[q].step = "confirmed" <=> quote[q].step = "confirmed"
                           /\ quote[q].step = "confirmed" => quote'[q] = quote[q]
  PROVE  UnpaidEarnNothing' /\ BalanceIsLedger'
<1>1. UnpaidEarnNothing'
  BY DEF LedgerInv, UnpaidEarnNothing
<1>2. ASSUME NEW u \in Users
      PROVE  Balanced(u)'
  <2>1. Spent(u)' = Spent(u)
    BY SpentKept DEF LedgerInv, QuoteInv
  <2>2. Earned(u)' = Earned(u) /\ Won(u)' = Won(u) /\ Referred(u)' = Referred(u)
    BY DEF Earned, Won, Referred
  <2> QED
    BY <2>1, <2>2, BalanceOf DEF Balanced
<1> QED
  BY <1>1, <1>2 DEF BalanceIsLedger, Balanced

LEMMA CashbackBalances ==
  ASSUME LedgerInv, TypeOK', NEW c \in Charges, ~purchase[c].made, NEW exp, SaveCashback(c, exp),
         UNCHANGED <<spins, trialUsed, quote>>
  PROVE  UnpaidEarnNothing' /\ BalanceIsLedger'
<1>1. PICK row : /\ purchase' = [purchase EXCEPT ![c] = row]
                 /\ balance' = [balance EXCEPT ![PaidBy[c]] = balance[PaidBy[c]] + row.earned]
                 /\ row.made /\ row.earned \in Nat
  BY SavedRow DEF LedgerInv, QuoteInv
<1>2. UnpaidEarnNothing'
  BY <1>1 DEF LedgerInv, QuoteInv, TypeOK, UnpaidEarnNothing
<1>3. ASSUME NEW u \in Users
      PROVE  Balanced(u)'
  <2>1. Earned(u)' = Earned(u) + (IF PaidBy[c] = u THEN row.earned ELSE 0)
    BY <1>1, EarnedGrows DEF LedgerInv, QuoteInv
  <2>2. Spent(u)' = Spent(u) /\ Won(u)' = Won(u) /\ Referred(u)' = Referred(u)
    BY DEF Spent, RedeemedBy, Won, Referred
  <2>3. balance'[u] = balance[u] + (IF PaidBy[c] = u THEN row.earned ELSE 0)
    <3>1. balance'[u] = IF PaidBy[c] = u THEN balance[u] + row.earned ELSE balance[u]
      BY <1>1 DEF LedgerInv, QuoteInv, TypeOK
    <3> QED
      BY <3>1, BalanceOf
  <2>4. (IF PaidBy[c] = u THEN row.earned ELSE 0) \in Nat
    BY <1>1
  <2> QED
    BY ONLY <2>1, <2>2, <2>3, <2>4, BalanceOf, LedgerInv, u \in Users DEF Balanced
<1> QED
  BY <1>2, <1>3 DEF BalanceIsLedger, Balanced

LEMMA ConfirmBalances ==
  ASSUME LedgerInv, NEW q \in Quotes, Confirm(q)
  PROVE  UnpaidEarnNothing' /\ BalanceIsLedger'
<1> DEFINE i == quote[q].user
<1>1. /\ quote[q].step = "pending" /\ i \in Users /\ quote[q].spent \in Nat
      /\ balance' = [balance EXCEPT ![i] = balance[i] - quote[q].spent]
      /\ ~(balance[i] < quote[q].spent)
      /\ UNCHANGED <<purchase, spins, trialUsed>>
  BY NaturalsOfQuotes
     DEF Confirm, Stale, QuoteFrame, buyVars, wheelVars, LedgerInv, QuoteInv, QuotesHaveUsers
<1>2. PICK exp : quote' = [quote EXCEPT ![q].step = "confirmed", ![q].exp = exp]
  BY DEF Confirm
<1>3. UnpaidEarnNothing'
  BY <1>1 DEF LedgerInv, UnpaidEarnNothing
<1>4. ASSUME NEW u \in Users
      PROVE  Balanced(u)'
  <2>1. Spent(u)' = Spent(u) + (IF i = u THEN quote[q].spent ELSE 0)
    BY <1>1, <1>2, SpentGrows DEF LedgerInv, QuoteInv
  <2>2. Earned(u)' = Earned(u) /\ Won(u)' = Won(u) /\ Referred(u)' = Referred(u)
    BY <1>1 DEF Earned, Won, Referred
  <2>3. balance'[u] = IF i = u THEN balance[u] - quote[q].spent ELSE balance[u]
    <3>1. balance \in [Users -> Nat]
      BY DEF LedgerInv, QuoteInv, TypeOK
    <3> HIDE DEF i
    <3> QED
      BY <1>1, <3>1
  <2> HIDE DEF i
  <2> QED
    BY <1>1, <2>1, <2>2, <2>3, BalanceOf DEF Balanced
<1> QED
  BY <1>3, <1>4 DEF BalanceIsLedger, Balanced

LEMMA TrialBalances ==
  ASSUME LedgerInv, NEW i \in Users, FreeTrial(i)
  PROVE  UnpaidEarnNothing' /\ BalanceIsLedger'
<1>1. /\ i \notin trialUsed /\ trialUsed' = trialUsed \union {i}
      /\ UNCHANGED <<purchase, quote, spins>>
      /\ \A u \in Users : balance'[u] = IF u = Inviter[i] THEN balance[u] + REFERRAL_ACTIVATION_APPLES
                                                         ELSE balance[u]
  BY DEF FreeTrial, buyVars, wheelVars
<1>2. UnpaidEarnNothing'
  BY <1>1 DEF LedgerInv, UnpaidEarnNothing
<1>3. ASSUME NEW u \in Users
      PROVE  Balanced(u)'
  <2>1. Referred(u)' = Referred(u) + (IF u = Inviter[i] THEN REFERRAL_ACTIVATION_APPLES ELSE 0)
    BY <1>1, ReferredGrows DEF LedgerInv, QuoteInv
  <2>2. Earned(u)' = Earned(u) /\ Won(u)' = Won(u) /\ Spent(u)' = Spent(u)
    BY <1>1 DEF Earned, Won, Spent, RedeemedBy
  <2>3. REFERRAL_ACTIVATION_APPLES \in Nat
    BY RulesAssumption
  <2> QED
    BY <1>1, <2>1, <2>2, <2>3, BalanceOf DEF Balanced
<1> QED
  BY <1>2, <1>3 DEF BalanceIsLedger, Balanced

LEMMA SpinBalances ==
  ASSUME LedgerInv, NEW d \in Devices, NEW t \in Tickets, Spin(d, t)
  PROVE  UnpaidEarnNothing' /\ BalanceIsLedger'
<1> DEFINE i == OwnerOf[d]
           won == [at |-> now, prize |-> prize_for_ticket(t)]
<1>1. /\ balance' = [balance EXCEPT ![i] = balance[i] + won.prize]
      /\ spins' = [spins EXCEPT ![i] = Append(@, won)]
      /\ UNCHANGED <<purchase, quote, trialUsed>>
  BY DEF Spin, WheelFrame, buyVars
<1>2. i \in Users /\ won \in Spins /\ won.prize \in Nat
  BY UsersAssumption, PrizesAssumption DEF LedgerInv, QuoteInv, TypeOK, Spins
<1> HIDE DEF i, won
<1>3. UnpaidEarnNothing'
  BY <1>1 DEF LedgerInv, UnpaidEarnNothing
<1>4. ASSUME NEW u \in Users
      PROVE  Balanced(u)'
  <2>1. Earned(u)' = Earned(u) /\ Referred(u)' = Referred(u) /\ Spent(u)' = Spent(u)
    BY <1>1 DEF Earned, Referred, Spent, RedeemedBy
  <2>2. CASE u = i
    <3>1. Won(u)' = Won(u) + won.prize
      BY <1>1, <1>2, <2>2, WonGrows DEF LedgerInv, QuoteInv
    <3>2. balance'[u] = balance[u] + won.prize
      BY <1>1, <2>2 DEF LedgerInv, QuoteInv, TypeOK
    <3>3. /\ balance[u] + Spent(u) = Earned(u) + Won(u) + Referred(u)
          /\ balance[u] \in Nat /\ Earned(u) \in Nat /\ Won(u) \in Nat
          /\ Referred(u) \in Nat /\ Spent(u) \in Nat
      BY BalanceOf DEF Balanced
    <3>4. won.prize \in Nat
      BY <1>2
    <3> QED
      BY ONLY <2>1, <3>1, <3>2, <3>3, <3>4 DEF Balanced
  <2>3. CASE u # i
    <3>1. spins'[u] = spins[u] /\ balance'[u] = balance[u]
      BY <1>1, <2>3 DEF LedgerInv, QuoteInv, TypeOK
    <3>2. Won(u)' = Won(u)
      BY <3>1 DEF Won
    <3> QED
      BY <2>1, <3>1, <3>2, BalanceOf DEF Balanced
  <2> QED
    BY <2>2, <2>3
<1> QED
  BY <1>3, <1>4 DEF BalanceIsLedger, Balanced

LEMMA LedgerStep ==
  ASSUME LedgerInv, [Next]_vars
  PROVE  LedgerInv'
<1>1. QuoteInv' /\ TypeOK'
  BY QuoteInvStep DEF LedgerInv, QuoteInv
<1>2. CASE UNCHANGED <<balance, purchase, spins, trialUsed, quote>>
  BY <1>1, <1>2, SameLedgers DEF LedgerInv
<1>3. CASE BuyNext
  <2>1. PICK c \in Charges : Replay(c) \/ CreatePayment(c) \/ CreateGiftCertificate(c)
    BY <1>3 DEF BuyNext
  <2>2. Replay(c) => UNCHANGED <<balance, purchase, spins, trialUsed, quote>>
    BY DEF Replay, wheelVars
  <2>3. CreatePayment(c) => UnpaidEarnNothing' /\ BalanceIsLedger'
    BY <1>1, CashbackBalances DEF CreatePayment, wheelVars
  <2>4. CreateGiftCertificate(c) => UnpaidEarnNothing' /\ BalanceIsLedger'
    BY <1>1, CashbackBalances DEF CreateGiftCertificate, wheelVars
  <2> QED
    BY <1>1, <1>2, <2>1, <2>2, <2>3, <2>4 DEF LedgerInv
<1>4. CASE GiftNext
  BY <1>2, <1>4 DEF GiftNext, ActivateGiftCertificate, wheelVars
<1>5. CASE RedeemNext
  <2>1. ASSUME NEW q \in Quotes, NEW r, quote' = [quote EXCEPT ![q] = r],
               quote[q].step # "confirmed", r.step # "confirmed",
               UNCHANGED <<balance, purchase, spins, trialUsed>>
        PROVE  UnpaidEarnNothing' /\ BalanceIsLedger'
    <3>1. quote'[q] = r /\ \A p \in Quotes \ {q} : quote'[p] = quote[p]
      BY <2>1 DEF LedgerInv, QuoteInv, TypeOK
    <3> QED
      BY <2>1, <3>1, SameLedgers
  <2>2. ASSUME NEW u \in Users, NEW q \in Quotes, Preview(u, q)
        PROVE  UnpaidEarnNothing' /\ BalanceIsLedger'
    <3>1. PICK days : quote' = [quote EXCEPT ![q] = [step |-> "insert", user |-> u, pk |-> key[u].pk,
                                                    spent |-> days * APPLES_PER_DAY,
                                                    quoted |-> Larger(key[u].exp, now) + days,
                                                    exp |-> 0]]
      BY <2>2 DEF Preview
    <3> DEFINE r == [step |-> "insert", user |-> u, pk |-> key[u].pk,
                     spent |-> days * APPLES_PER_DAY,
                     quoted |-> Larger(key[u].exp, now) + days, exp |-> 0]
    <3>2. r.step # "confirmed"
      OBVIOUS
    <3>3. quote[q].step # "confirmed" /\ UNCHANGED <<balance, purchase, spins, trialUsed>>
      BY <2>2 DEF Preview, QuoteFrame, buyVars, wheelVars
    <3> HIDE DEF r
    <3> QED
      BY <2>1, <3>1, <3>2, <3>3 DEF r
  <2>3. ASSUME NEW q \in Quotes, PreviewInsert(q)
        PROVE  UnpaidEarnNothing' /\ BalanceIsLedger'
    <3>1. quote[q] \in QuoteRows
      BY DEF LedgerInv, QuoteInv, TypeOK, QuoteRows
    <3>2. [quote[q] EXCEPT !.step = "pending"].step # "confirmed" /\ NoQuote.step # "confirmed"
      BY <3>1 DEF NoQuote, QuoteRows
    <3>3. PICK r \in {[quote[q] EXCEPT !.step = "pending"], NoQuote} : quote' = [quote EXCEPT ![q] = r]
      BY <2>3 DEF PreviewInsert
    <3>4. quote[q].step = "insert" /\ UNCHANGED <<balance, purchase, spins, trialUsed>>
      BY <2>3 DEF PreviewInsert, QuoteFrame, buyVars, wheelVars
    <3> QED
      BY <2>1, <3>2, <3>3, <3>4
  <2> QED
    BY <1>1, <1>5, <2>2, <2>3, ConfirmBalances DEF RedeemNext, LedgerInv
<1>6. CASE UserNext
  <2>1. RemoveExpired \/ Tick => UNCHANGED <<balance, purchase, spins, trialUsed, quote>>
    BY DEF RemoveExpired, Tick, buyVars, wheelVars
  <2> QED
    BY <1>1, <1>2, <1>6, <2>1, TrialBalances DEF UserNext, LedgerInv
<1>7. CASE WheelNext
  <2>1. PICK d \in Devices :
          \/ AcceptLegalTerms(OwnerOf[d])
          \/ LoadStatus(d) \/ Reopen(d) \/ SpinTooEarly(d) \/ WheelStops(d) \/ CountdownEnds(d)
          \/ \E t \in Tickets : Spin(d, t)
    BY <1>7 DEF WheelNext
  <2>2. CASE \E t \in Tickets : Spin(d, t)
    BY <1>1, <2>2, SpinBalances DEF LedgerInv
  <2>3. CASE AcceptLegalTerms(OwnerOf[d])
    BY <1>2, <2>3 DEF AcceptLegalTerms, WheelFrame, buyVars, wheelVars
  <2>4. CASE LoadStatus(d) \/ Reopen(d) \/ SpinTooEarly(d) \/ WheelStops(d) \/ CountdownEnds(d)
    BY <1>2, <2>4
       DEF LoadStatus, Reopen, SpinTooEarly, WheelStops, CountdownEnds, WheelFrame, buyVars
  <2> QED
    BY <2>1, <2>2, <2>3, <2>4
<1>8. CASE UNCHANGED vars
  BY <1>2, <1>8 DEF vars, buyVars, wheelVars
<1> QED
  BY <1>3, <1>4, <1>5, <1>6, <1>7, <1>8 DEF Next

LEMMA InitLedger ==
  ASSUME Init
  PROVE  LedgerInv
<1>1. QuoteInv /\ TypeOK
  BY InitQuoteInv DEF QuoteInv
<1>2. \A c \in Charges : purchase[c].earned = 0
  BY DEF Init, Backfill
<1>3. ASSUME NEW u \in Users
      PROVE  Balanced(u)
  <2>1. /\ balance[u] = 0 /\ DOMAIN spins[u] = {}
        /\ RedeemedBy(u) = {} /\ ReferredBy(u) = {}
    BY DEF Init, NoQuote, RedeemedBy, ReferredBy
  <2>2. Won(u) = 0 /\ Spent(u) = 0
    <3>1. \A f : SumFunctionOnSet(f, {}) = 0
      BY SumStep, FS_EmptySet
    <3> QED
      BY <2>1, <3>1 DEF Won, Spent, SumFunction
  <2>3. Referred(u) = 0
    <3>1. Cardinality(ReferredBy(u)) = 0 /\ REFERRAL_ACTIVATION_APPLES \in Nat
      BY <2>1, FS_EmptySet, RulesAssumption
    <3> QED
      BY <3>1 DEF Referred, ReferredBy
  <2>4. Earned(u) = 0
    <3> DEFINE f == [c \in ChargesOf(u) |-> purchase[c].earned]
    <3>1. Earned(u) = SumFunctionOnSet(f, ChargesOf(u))
      BY DEF Earned, SumFunction, ChargesOf
    <3>2. \A c \in ChargesOf(u) : f[c] = 0
      BY <1>2 DEF ChargesOf
    <3>3. IsFiniteSet(ChargesOf(u))
      BY <1>1, LedgersAreFinite
    <3> HIDE DEF f
    <3> QED
      BY <3>1, <3>2, <3>3, SumZero
  <2> QED
    BY <2>1, <2>2, <2>3, <2>4 DEF Balanced
<1> QED
  BY <1>1, <1>2, <1>3 DEF LedgerInv, UnpaidEarnNothing, BalanceIsLedger, Balanced

\* Whatever order purchases, certificates, spins, referrals and redemptions come
\* in, the balance of every user is what the rows say was earned less what they
\* say was spent: each transaction writes its row and the balance together.
THEOREM BalancesFollowTheLedger == Spec => []BalanceIsLedger
<1>1. Init => LedgerInv
  BY InitLedger
<1>2. LedgerInv /\ [Next]_vars => LedgerInv'
  BY LedgerStep
<1>3. LedgerInv => BalanceIsLedger
  BY DEF LedgerInv
<1> QED
  BY <1>1, <1>2, <1>3, PTL DEF Spec

-------------------------------------------------------------------------------
(* Purchases are numbered.                                                  *)

Mine(u) == {c \in Charges : purchase[c].made /\ PaidBy[c] = u}

LEMMA MineAreCounted ==
  ASSUME NEW u
  PROVE  /\ IsFiniteSet(Mine(u)) /\ Cardinality(Mine(u)) \in Nat
         /\ count_apple_cashback_purchases(u) = Cardinality(Mine(u))
<1>1. Mine(u) \subseteq Charges
  BY DEF Mine
<1> QED
  BY <1>1, FiniteAssumption, FS_Subset, FS_CardinalityType DEF Mine, count_apple_cashback_purchases

LEMMA NextNumber ==
  ASSUME TypeOK, CashbackFollowsHistory, NEW c \in Charges, ~purchase[c].made,
         NEW exp, SaveCashback(c, exp)
  PROVE  CashbackFollowsHistory'
<1> SUFFICES ASSUME NEW u \in Users
             PROVE  /\ {purchase'[x].count : x \in Mine(u)'} = 1..Cardinality(Mine(u)')
                    /\ \A x \in Mine(u)' \ Historical :
                         purchase'[x].rate = get_apple_level(purchase'[x].count - 1).rate
  BY DEF CashbackFollowsHistory, Mine
<1>1. PICK row : /\ purchase' = [purchase EXCEPT ![c] = row] /\ row.made
                 /\ row.count = count_apple_cashback_purchases(PaidBy[c]) + 1
                 /\ row.rate = get_apple_level(count_apple_cashback_purchases(PaidBy[c])).rate
  BY SavedRow
<1>2. \A x \in Charges : purchase'[x] = IF x = c THEN row ELSE purchase[x]
  BY <1>1 DEF TypeOK
<1>3. /\ {purchase[x].count : x \in Mine(u)} = 1..Cardinality(Mine(u))
      /\ \A x \in Mine(u) \ Historical :
           purchase[x].rate = get_apple_level(purchase[x].count - 1).rate
  BY DEF CashbackFollowsHistory, Mine
<1>4. c \notin Mine(u)
  BY DEF Mine
<1>5. CASE PaidBy[c] # u
  <2>1. Mine(u)' = Mine(u) /\ \A x \in Mine(u) : purchase'[x] = purchase[x]
    BY <1>2, <1>4, <1>5 DEF Mine
  <2> QED
    BY <1>3, <2>1
<1>6. CASE PaidBy[c] = u
  <2> DEFINE n == Cardinality(Mine(u))
  <2>1. Mine(u)' = Mine(u) \union {c} /\ \A x \in Mine(u) : purchase'[x] = purchase[x]
    BY <1>1, <1>2, <1>4, <1>6 DEF Mine
  <2>2. n \in Nat /\ IsFiniteSet(Mine(u)) /\ row.count = n + 1 /\ row.rate = get_apple_level(n).rate
    BY <1>1, <1>6, MineAreCounted
  <2>3. Cardinality(Mine(u)') = n + 1
    BY <1>4, <2>1, <2>2, FS_AddElement
  <2>4. {purchase'[x].count : x \in Mine(u)'} = {purchase[x].count : x \in Mine(u)} \union {n + 1}
    <3>1. purchase'[c].count = n + 1
      BY <1>2, <2>2
    <3> HIDE DEF n
    <3> QED
      BY <2>1, <3>1
  <2>5. 1..n \union {n + 1} = 1..(n + 1)
    BY <2>2
  <2>6. purchase'[c].rate = get_apple_level(purchase'[c].count - 1).rate
    <3>1. purchase'[c].count - 1 = n
      BY <1>2, <2>2
    <3> QED
      BY <1>2, <2>2, <3>1
  <2> HIDE DEF n
  <2>7. {purchase'[x].count : x \in Mine(u)'} = 1..Cardinality(Mine(u)')
    BY <1>3, <2>3, <2>4, <2>5 DEF n
  <2>8. \A x \in Mine(u)' \ Historical :
          purchase'[x].rate = get_apple_level(purchase'[x].count - 1).rate
    BY <1>3, <2>1, <2>6
  <2> QED
    BY <2>7, <2>8
<1> QED
  BY <1>5, <1>6

\* A purchase is written once, by the transaction that pays for it.
LEMMA PurchaseSteps ==
  ASSUME [Next]_vars
  PROVE  \/ purchase' = purchase
         \/ \E c \in Charges : \E exp : ~purchase[c].made /\ SaveCashback(c, exp)
<1>1. CASE BuyNext
  BY <1>1 DEF BuyNext, Replay, CreatePayment, CreateGiftCertificate
<1>2. CASE GiftNext
  BY <1>2 DEF GiftNext, ActivateGiftCertificate
<1>3. CASE RedeemNext
  <2>1. QuoteFrame
    BY <1>3 DEF RedeemNext, Preview, PreviewInsert, Confirm
  <2> QED
    BY <2>1 DEF QuoteFrame, buyVars
<1>4. CASE UserNext
  BY <1>4 DEF UserNext, FreeTrial, RemoveExpired, Tick, buyVars
<1>5. CASE WheelNext
  BY <1>5, WheelKeepsKeys DEF buyVars
<1>6. CASE UNCHANGED vars
  BY <1>6 DEF vars, buyVars
<1> QED
  BY <1>1, <1>2, <1>3, <1>4, <1>5, <1>6 DEF Next

\* The purchases of a user are numbered without a gap and each is credited at the
\* rate of the level before it, in whatever order charges arrive and repeat: the
\* number is counted in the transaction that inserts the row.
THEOREM PurchasesAreNumbered == Spec => []CashbackFollowsHistory
<1>1. Init => CashbackFollowsHistory
  <2> SUFFICES ASSUME Init, NEW u \in Users
               PROVE  /\ {purchase[x].count : x \in Mine(u)} = 1..Cardinality(Mine(u))
                      /\ Mine(u) \ Historical = {}
    BY DEF CashbackFollowsHistory, Mine
  <2>1. Mine(u) = HistoricalOf(u)
    BY ChargesAssumption DEF Init, Backfill, Mine, HistoricalOf
  <2>2. {purchase[x].count : x \in HistoricalOf(u)} = 1..Cardinality(HistoricalOf(u))
    BY DEF Init, Backfill
  <2> QED
    BY <2>1, <2>2 DEF HistoricalOf
<1>2. TypeOK /\ CashbackFollowsHistory /\ [Next]_vars => CashbackFollowsHistory'
  <2> SUFFICES ASSUME TypeOK, CashbackFollowsHistory, [Next]_vars
               PROVE  CashbackFollowsHistory'
    OBVIOUS
  <2>1. CASE purchase' = purchase
    <3>1. CashbackFollowsHistory' <=> CashbackFollowsHistory
      BY ONLY <2>1 DEF CashbackFollowsHistory
    <3> QED
      BY <3>1
  <2> QED
    BY <2>1, PurchaseSteps, NextNumber
<1> QED
  BY <1>1, <1>2, LedgerIsTyped, PTL DEF Spec

-------------------------------------------------------------------------------
(* Countdowns.                                                              *)

CountsDown(d) == page[d].shows \in {"won", "cooldown"} /\ now < page[d].next
ShowsLatest(d) == LET u == OwnerOf[d]
                  IN  /\ spins[u] # << >>
                      /\ page[d].next = NextSpin(u)
                      /\ page[d].prize = LatestSpin(u).prize
CountdownInv == \A d \in Devices : CountsDown(d) => ShowsLatest(d)

LEMMA PageTypes ==
  ASSUME TypeOK
  PROVE  /\ page = [d \in Devices |-> page[d]] /\ now \in Nat
         /\ \A d \in Devices : /\ OwnerOf[d] \in Users /\ page[d].next \in Nat
                               /\ page[d] \in [shows : {"loading", "registration", "ready", "won",
                                                        "lost", "error", "cooldown"},
                                               prize : Nat, next : Nat]
BY UsersAssumption DEF TypeOK

\* A page that shows something else, or shows the latest spin.
LEMMA ShowKeeps ==
  ASSUME TypeOK, CountdownInv, NEW d \in Devices, NEW what, Show(d, what),
         UNCHANGED <<now, spins>>,
         \/ what.shows \notin {"won", "cooldown"}
         \/ what = Cooldown(OwnerOf[d]) /\ spins[OwnerOf[d]] # << >>
         \/ what.next = page[d].next /\ what.prize = page[d].prize /\ page[d].shows = "won"
  PROVE  CountdownInv'
<1>1. page'[d] = what /\ \A e \in Devices \ {d} : page'[e] = page[e]
  BY PageTypes DEF Show
<1>2. ASSUME NEW e \in Devices, e # d, CountsDown(e)'
      PROVE  ShowsLatest(e)'
  BY <1>1, <1>2 DEF CountdownInv, CountsDown, ShowsLatest, NextSpin, LatestSpin
<1>3. ASSUME CountsDown(d)'
      PROVE  ShowsLatest(d)'
  <2>1. CASE what = Cooldown(OwnerOf[d]) /\ spins[OwnerOf[d]] # << >>
    BY <1>1, <2>1 DEF ShowsLatest, NextSpin, LatestSpin, Cooldown
  <2>2. CASE what.next = page[d].next /\ what.prize = page[d].prize /\ page[d].shows = "won"
    BY <1>1, <1>3, <2>2 DEF CountdownInv, CountsDown, ShowsLatest, NextSpin, LatestSpin
  <2> QED
    BY <1>1, <1>3, <2>1, <2>2 DEF CountsDown
<1> QED
  BY <1>2, <1>3 DEF CountdownInv

\* The user of a page that counts down cannot spin: whoever spins has no page
\* that does, but the one the prize is shown on.
LEMMA SpinKeeps ==
  ASSUME TypeOK, CountdownInv, NEW d \in Devices, NEW t, Spin(d, t)
  PROVE  CountdownInv'
<1> DEFINE u == OwnerOf[d]
           won == [at |-> now, prize |-> prize_for_ticket(t)]
           shown == [shows |-> "won", prize |-> won.prize, next |-> now + SPIN_COOLDOWN]
<1>1. /\ page[d].shows = "ready" /\ CanSpin(u) /\ now' = now
      /\ spins' = [spins EXCEPT ![u] = Append(@, won)]
      /\ page' = page \/ Show(d, shown)
  BY DEF Spin, WheelFrame
<1>2. u \in Users /\ spins[u] \in Seq(Spins) /\ spins'[u] = Append(spins[u], won)
      /\ \A i \in Users \ {u} : spins'[i] = spins[i]
  BY <1>1, PageTypes, SpinsOf DEF TypeOK
<1>3. ASSUME NEW e \in Devices, page'[e] = page[e], CountsDown(e)'
      PROVE  ShowsLatest(e)'
  <2>1. CountsDown(e) /\ ShowsLatest(e)
    BY <1>1, <1>3 DEF CountdownInv, CountsDown
  <2>2. OwnerOf[e] # u
    BY <1>1, <2>1, PageTypes DEF CountsDown, ShowsLatest, CanSpin
  <2>3. spins'[OwnerOf[e]] = spins[OwnerOf[e]]
    BY <1>2, <2>2, PageTypes
  <2> QED
    BY <1>3, <2>1, <2>3 DEF ShowsLatest, NextSpin, LatestSpin
<1>4. ASSUME Show(d, shown)
      PROVE  ShowsLatest(d)'
  <2>1. page'[d] = shown
    BY <1>4, PageTypes DEF Show
  <2>2. page'[d].next = now + SPIN_COOLDOWN /\ page'[d].prize = won.prize
    BY <2>1
  <2>3. spins'[u] # << >> /\ LatestSpin(u)' = won
    BY <1>2 DEF LatestSpin
  <2>4. NextSpin(u)' = now + SPIN_COOLDOWN
    BY <2>3 DEF NextSpin
  <2> QED
    BY <2>2, <2>3, <2>4 DEF ShowsLatest
<1>5. \A e \in Devices \ {d} : page'[e] = page[e]
  BY <1>1, PageTypes DEF Show
<1> QED
  BY <1>1, <1>3, <1>4, <1>5 DEF CountdownInv

LEMMA CountdownStep ==
  ASSUME TypeOK, TypeOK', CountdownInv, [Next]_vars
  PROVE  CountdownInv'
<1>1. ASSUME UNCHANGED <<page, spins>>, now' >= now
      PROVE  CountdownInv'
  <2>1. \A d \in Devices : CountsDown(d)' => CountsDown(d)
    <3>1. now \in Nat /\ now' \in Nat
      BY DEF TypeOK
    <3> QED
      BY <1>1, <3>1, PageTypes DEF CountsDown
  <2> QED
    BY <1>1, <2>1 DEF CountdownInv, ShowsLatest, NextSpin, LatestSpin
<1>2. ASSUME UNCHANGED <<page, spins, now>>
      PROVE  CountdownInv'
  BY <1>1, <1>2, PageTypes
<1>3. CASE BuyNext
  BY <1>2, <1>3 DEF BuyNext, Replay, CreatePayment, CreateGiftCertificate, wheelVars
<1>4. CASE GiftNext
  BY <1>2, <1>4 DEF GiftNext, ActivateGiftCertificate, wheelVars
<1>5. CASE RedeemNext
  <2>1. QuoteFrame
    BY <1>5 DEF RedeemNext, Preview, PreviewInsert, Confirm
  <2>2. UNCHANGED <<page, spins, now>>
    BY ONLY <2>1 DEF QuoteFrame, wheelVars
  <2> QED
    BY ONLY <1>2, <2>2
<1>6. CASE UserNext
  <2>1. CASE Tick
    BY <1>1, <2>1, PageTypes DEF Tick, wheelVars
  <2> QED
    BY <1>2, <1>6, <2>1 DEF UserNext, FreeTrial, RemoveExpired, wheelVars
<1>7. CASE WheelNext
  <2>1. PICK d \in Devices :
          \/ AcceptLegalTerms(OwnerOf[d])
          \/ LoadStatus(d) \/ Reopen(d) \/ SpinTooEarly(d) \/ WheelStops(d) \/ CountdownEnds(d)
          \/ \E t \in Tickets : Spin(d, t)
    BY <1>7 DEF WheelNext
  <2>2. CASE AcceptLegalTerms(OwnerOf[d])
    BY <1>2, <2>2 DEF AcceptLegalTerms, WheelFrame, wheelVars
  <2>3. Loading.shows = "loading" /\ \A s \in {"registration", "ready", "error"} :
                                        [Loading EXCEPT !.shows = s].shows = s
    BY DEF Loading
  <2>4. CASE LoadStatus(d) \/ Reopen(d) \/ SpinTooEarly(d) \/ CountdownEnds(d)
    <3>1. UNCHANGED <<now, spins>>
      BY <2>4 DEF LoadStatus, Reopen, SpinTooEarly, CountdownEnds, WheelFrame
    <3>2. \E what : Show(d, what) /\ \/ what.shows \notin {"won", "cooldown"}
                                     \/ what = Cooldown(OwnerOf[d]) /\ spins[OwnerOf[d]] # << >>
      BY <2>3, <2>4 DEF LoadStatus, Reopen, SpinTooEarly, CountdownEnds, CanSpin
    <3> QED
      BY <3>1, <3>2, ShowKeeps
  <2>5. CASE WheelStops(d)
    <3> DEFINE what == [page[d] EXCEPT !.shows = "cooldown"]
    <3>1. /\ Show(d, what) /\ page[d].shows = "won" /\ UNCHANGED <<now, spins>>
      BY <2>5 DEF WheelStops, WheelFrame
    <3>2. what.next = page[d].next /\ what.prize = page[d].prize
      BY PageTypes
    <3> HIDE DEF what
    <3> QED
      BY <3>1, <3>2, ShowKeeps
  <2> QED
    BY <2>1, <2>2, <2>4, <2>5, SpinKeeps
<1>8. CASE UNCHANGED vars
  BY <1>2, <1>8 DEF vars, wheelVars
<1> QED
  BY <1>3, <1>4, <1>5, <1>6, <1>7, <1>8 DEF Next

\* Whatever other pages of the user did, and whichever answers were lost, a page
\* that counts down counts to the user's next spin and shows the latest prize.
THEOREM CountdownsAreTrue == Spec => []CountdownIsTheServers
<1>1. Init => CountdownInv
  BY DEF Init, Loading, CountdownInv, CountsDown
<1>2. TypeOK /\ TypeOK' /\ CountdownInv /\ [Next]_vars => CountdownInv'
  BY CountdownStep
<1>3. CountdownInv => CountdownIsTheServers
  BY DEF CountdownInv, CountsDown, ShowsLatest, CountdownIsTheServers
<1> QED
  BY <1>1, <1>2, <1>3, LedgerIsTyped, PTL DEF Spec

-------------------------------------------------------------------------------
(* Access and what grants it.                                               *)

\* A key that is not live has ended; only an activated certificate was given to
\* somebody; and a certificate there is was paid for.
DeadKeysAreOver == \A u \in Users : ~key[u].live => key[u].exp <= now
GivenWhenActivated == \A c \in Gifts : cert[c].status # "activated" => cert[c].by = Nobody
CertificatesArePaid == \A c \in Gifts : ~purchase[c].made => cert[c].status = "none"

AccessInv == QuoteInv /\ DeadKeysAreOver /\ GivenWhenActivated /\ CertificatesArePaid

\* What Granted says when one of its parts grows by one.
LEMMA GrantedEdits ==
  ASSUME NEW a, NEW b, NEW c, NEW d, NEW x
  PROVE  /\ [<<a, b, c, d>> EXCEPT ![1] = @ \union {x}] = <<a \union {x}, b, c, d>>
         /\ [<<a, b, c, d>> EXCEPT ![2] = @ \union {x}] = <<a, b \union {x}, c, d>>
         /\ [<<a, b, c, d>> EXCEPT ![3] = @ \union {x}] = <<a, b, c \union {x}, d>>
OBVIOUS

LEMMA AccessIsDay ==
  ASSUME TypeOK, NEW u \in Users
  PROVE  Access(u) \in Nat /\ Access(u) >= now /\ now \in Nat
BY NaturalsOfQuotes DEF Access, get_active_key

\* Nothing happens to a user whose key and grants stay.
LEMMA NothingGranted ==
  ASSUME TypeOK, NEW u \in Users, now' = now, key'[u] = key[u], Granted(u)' = Granted(u)
  PROVE  AccessStep(u)
<1>1. Access(u)' = Access(u)
  BY DEF Access, get_active_key
<1>2. Larger(Access(u), now') = Access(u)
  BY AccessIsDay DEF Larger
<1> QED
  BY <1>1, <1>2 DEF AccessStep

\* A period granted lengthens the access of its user alone, whether the key was
\* extended or issued anew.
LEMMA PeriodLengthens ==
  ASSUME TypeOK, NEW v \in Users, GrantPeriod(v), now' = now
  PROVE  /\ Access(v)' = Access(v) + SUBSCRIPTION_PERIOD_DAYS
         /\ key'[v].live
         /\ \A u \in Users \ {v} : key'[u] = key[u]
<1>1. key \in [Users -> Keys] /\ key[v] \in Keys
  BY DEF TypeOK, Keys
<1>2. now \in Nat /\ key[v].exp \in Nat /\ SUBSCRIPTION_PERIOD_DAYS \in Nat
      /\ SUBSCRIPTION_PERIOD_DAYS > 0
  BY NaturalsOfQuotes, RulesAssumption
<1>3. CASE get_active_key(v) /\ ExtendKey(v)
  <2>1. key' = [key EXCEPT ![v] = [key[v] EXCEPT !.exp = key[v].exp + SUBSCRIPTION_PERIOD_DAYS]]
    BY <1>3 DEF ExtendKey
  <2>2. key'[v] = [key[v] EXCEPT !.exp = key[v].exp + SUBSCRIPTION_PERIOD_DAYS]
    BY <1>1, <2>1
  <2>3. key'[v].live = key[v].live /\ key'[v].exp = key[v].exp + SUBSCRIPTION_PERIOD_DAYS
    BY <1>1, <2>2 DEF Keys
  <2> QED
    BY <1>1, <1>2, <1>3, <2>1, <2>3 DEF Access, get_active_key
<1>4. CASE ~get_active_key(v) /\ IssueKey(v, now + SUBSCRIPTION_PERIOD_DAYS)
  <2>1. key' = [key EXCEPT ![v] = [pk |-> nextPk, exp |-> now + SUBSCRIPTION_PERIOD_DAYS,
                                   live |-> TRUE]]
    BY <1>4 DEF IssueKey
  <2>2. key'[v].live /\ key'[v].exp = now + SUBSCRIPTION_PERIOD_DAYS
    BY <1>1, <2>1
  <2> QED
    BY <1>1, <1>2, <1>4, <2>1, <2>2 DEF Access, get_active_key
<1> QED
  BY <1>3, <1>4 DEF GrantPeriod

\* Keys that were granted a period leave no dead key with days to come.
LEMMA PeriodKeepsDead ==
  ASSUME TypeOK, DeadKeysAreOver, NEW v \in Users, GrantPeriod(v), now' = now
  PROVE  DeadKeysAreOver'
BY PeriodLengthens DEF DeadKeysAreOver

\* Purchases.
LEMMA CreateGrants ==
  ASSUME AccessInv, NEW c \in Charges, CreatePayment(c)
  PROVE  (\A u \in Users : AccessStep(u)) /\ AccessInv'
<1> DEFINE v == PaidBy[c]
<1>1. TypeOK /\ v \in Users /\ c \in Subscriptions /\ ~purchase[c].made /\ now' = now
      /\ cert' = cert /\ quote' = quote /\ trialUsed' = trialUsed /\ GrantPeriod(v)
  BY ChargesAssumption DEF CreatePayment, AccessInv, QuoteInv
<1>2. purchase \in [Charges -> Purchases]
  BY <1>1 DEF TypeOK, Purchases
<1>3. PICK row : purchase' = [purchase EXCEPT ![c] = row] /\ row.made
  BY <1>1, SavedRow DEF CreatePayment
<1>4. purchase'[c].made /\ \A d \in Charges \ {c} : purchase'[d] = purchase[d]
  BY <1>2, <1>3
<1>5. PaidFor(v)' = PaidFor(v) \union {c} /\ c \notin PaidFor(v)
  BY <1>1, <1>4 DEF PaidFor, Charges
<1>6. \A u \in Users \ {v} : PaidFor(u)' = PaidFor(u)
  BY <1>1, <1>4 DEF PaidFor, Charges
<1>7. \A u \in Users : GivenTo(u)' = GivenTo(u) /\ RedeemedBy(u)' = RedeemedBy(u)
  BY <1>1 DEF GivenTo, RedeemedBy
<1>8. AccessStep(v)
  <2>1. Granted(v)' = [Granted(v) EXCEPT ![1] = @ \union {c}]
    BY <1>1, <1>5, <1>7, GrantedEdits DEF Granted
  <2> QED
    BY <1>1, <1>5, <2>1, PeriodLengthens DEF AccessStep
<1>9. ASSUME NEW u \in Users \ {v}
      PROVE  AccessStep(u)
  <2>1. Granted(u)' = Granted(u)
    BY <1>1, <1>6, <1>7 DEF Granted
  <2> QED
    BY <1>1, <2>1, NothingGranted, PeriodLengthens
<1>10. DeadKeysAreOver'
  BY <1>1, PeriodKeepsDead DEF AccessInv
<1>11. GivenWhenActivated' /\ CertificatesArePaid'
  BY <1>1, <1>4 DEF AccessInv, GivenWhenActivated, CertificatesArePaid, Charges
<1>12. QuoteInv'
  BY QuoteInvStep DEF AccessInv, Next, BuyNext
<1> QED
  BY <1>8, <1>9, <1>10, <1>11, <1>12 DEF AccessInv

LEMMA GiftBoughtGrants ==
  ASSUME AccessInv, NEW c \in Charges, CreateGiftCertificate(c)
  PROVE  (\A u \in Users : AccessStep(u)) /\ AccessInv'
<1>1. TypeOK /\ c \in Gifts /\ ~purchase[c].made /\ now' = now
      /\ key' = key /\ quote' = quote /\ trialUsed' = trialUsed
      /\ cert' = [cert EXCEPT ![c] = [status |-> "created", until |-> now + CERTIFICATE_DAYS,
                                      by |-> Nobody]]
  BY DEF CreateGiftCertificate, AccessInv, QuoteInv, keyVars
<1>2. /\ purchase \in [Charges -> Purchases]
      /\ DOMAIN cert = Gifts /\ cert' = [d \in Gifts |-> cert'[d]]
  BY <1>1 DEF TypeOK, Purchases
<1>3. PICK row : purchase' = [purchase EXCEPT ![c] = row] /\ row.made
  BY <1>1, SavedRow DEF CreateGiftCertificate
<1>4. purchase'[c].made /\ \A d \in Charges \ {c} : purchase'[d] = purchase[d]
  BY <1>2, <1>3
<1>5. cert'[c].by = Nobody /\ cert'[c].status = "created"
      /\ \A d \in Gifts \ {c} : cert'[d] = cert[d]
  BY <1>1, <1>2
<1>6. cert[c].by = Nobody
  BY <1>1 DEF AccessInv, GivenWhenActivated, CertificatesArePaid
<1>7. c \notin Subscriptions /\ Nobody \notin Users
  BY <1>1, ChargesAssumption, UsersAssumption
<1>8. ASSUME NEW u \in Users
      PROVE  AccessStep(u)
  <2>1. PaidFor(u)' = PaidFor(u)
    BY <1>4, <1>7 DEF PaidFor, Charges
  <2>2. GivenTo(u)' = GivenTo(u)
    BY <1>5, <1>6, <1>7 DEF GivenTo
  <2>3. RedeemedBy(u)' = RedeemedBy(u)
    BY <1>1 DEF RedeemedBy
  <2>4. Granted(u)' = Granted(u)
    BY <1>1, <2>1, <2>2, <2>3 DEF Granted
  <2> QED
    BY <1>1, <2>4, NothingGranted
<1>9. DeadKeysAreOver'
  BY <1>1 DEF AccessInv, DeadKeysAreOver
<1>10. GivenWhenActivated' /\ CertificatesArePaid'
  BY <1>4, <1>5 DEF AccessInv, GivenWhenActivated, CertificatesArePaid, Charges
<1>11. QuoteInv'
  BY QuoteInvStep DEF AccessInv, Next, BuyNext
<1> QED
  BY <1>8, <1>9, <1>10, <1>11 DEF AccessInv

\* Certificates: one past its date grants nothing.
LEMMA ActivationGrants ==
  ASSUME AccessInv, NEW v \in Users, NEW c \in Gifts, ActivateGiftCertificate(v, c)
  PROVE  (\A u \in Users : AccessStep(u)) /\ AccessInv'
<1>1. TypeOK /\ cert[c].status = "created" /\ now' = now /\ purchase' = purchase
      /\ quote' = quote /\ trialUsed' = trialUsed
  BY DEF ActivateGiftCertificate, AccessInv, QuoteInv
<1>2. cert[c].by = Nobody /\ Nobody \notin Users /\ purchase[c].made
  BY <1>1, UsersAssumption DEF AccessInv, GivenWhenActivated, CertificatesArePaid
<1>3. \A u \in Users : PaidFor(u)' = PaidFor(u) /\ RedeemedBy(u)' = RedeemedBy(u)
  BY <1>1 DEF PaidFor, RedeemedBy
<1> DEFINE Certs == [status : {"none", "created", "activated", "expired"}, until : Nat,
                     by : Users \union {Nobody}]
<1>4. cert \in [Gifts -> Certs] /\ cert[c] \in Certs
  BY <1>1 DEF TypeOK
<1>5. QuoteInv'
  BY QuoteInvStep DEF AccessInv, Next, GiftNext
<1>6. CASE /\ cert' = [cert EXCEPT ![c].status = "expired"]
           /\ UNCHANGED keyVars
  <2>1. cert' = [cert EXCEPT ![c] = [cert[c] EXCEPT !.status = "expired"]] /\ key' = key
    BY <1>6 DEF keyVars
  <2>2. cert'[c].by = Nobody /\ \A d \in Gifts \ {c} : cert'[d] = cert[d]
    BY <1>2, <1>4, <2>1
  <2>3. ASSUME NEW u \in Users  PROVE AccessStep(u)
    <3>1. GivenTo(u)' = GivenTo(u)
      BY <1>2, <2>2 DEF GivenTo
    <3>2. Granted(u)' = Granted(u)
      BY <1>1, <1>3, <3>1 DEF Granted
    <3> QED
      BY <1>1, <2>1, <3>2, NothingGranted
  <2>4. DeadKeysAreOver' /\ GivenWhenActivated' /\ CertificatesArePaid'
    BY <1>1, <1>2, <2>1, <2>2
       DEF AccessInv, DeadKeysAreOver, GivenWhenActivated, CertificatesArePaid
  <2> QED
    BY <1>5, <2>3, <2>4 DEF AccessInv
<1>7. CASE /\ cert' = [cert EXCEPT ![c].status = "activated", ![c].by = v]
           /\ GrantPeriod(v)
  <2>1. cert' = [cert EXCEPT ![c] = [cert[c] EXCEPT !.status = "activated", !.by = v]]
    BY <1>4, <1>7
  <2>2. cert'[c].by = v /\ cert'[c].status = "activated"
        /\ \A d \in Gifts \ {c} : cert'[d] = cert[d]
    BY <1>4, <2>1
  <2>3. GivenTo(v)' = GivenTo(v) \union {c}
    BY <2>2 DEF GivenTo
  <2>4. Granted(v)' = [Granted(v) EXCEPT ![2] = @ \union {c}]
    BY <1>1, <1>3, <2>3, GrantedEdits DEF Granted
  <2>5. AccessStep(v)
    BY <1>1, <1>2, <1>7, <2>4, PeriodLengthens DEF AccessStep
  <2>6. ASSUME NEW u \in Users \ {v}  PROVE AccessStep(u)
    <3>1. GivenTo(u)' = GivenTo(u)
      BY <1>2, <2>2 DEF GivenTo
    <3>2. Granted(u)' = Granted(u)
      BY <1>1, <1>3, <3>1 DEF Granted
    <3> QED
      BY <1>1, <1>7, <3>2, NothingGranted, PeriodLengthens
  <2>7. DeadKeysAreOver'
    BY <1>1, <1>7, PeriodKeepsDead DEF AccessInv
  <2>8. GivenWhenActivated' /\ CertificatesArePaid'
    BY <1>1, <1>2, <2>2 DEF AccessInv, GivenWhenActivated, CertificatesArePaid
  <2> QED
    BY <1>5, <2>5, <2>6, <2>7, <2>8 DEF AccessInv
<1> QED
  BY <1>6, <1>7 DEF ActivateGiftCertificate

\* A redemption lengthens the access it finds by the days that were paid for,
\* from today if the key has ended, and the confirmation counts once.
LEMMA ConfirmGrants ==
  ASSUME AccessInv, NEW q \in Quotes, Confirm(q)
  PROVE  (\A u \in Users : AccessStep(u)) /\ AccessInv'
<1>0. quote[q].user \in Users
  BY DEF Confirm, AccessInv, QuoteInv, QuotesHaveUsers
<1> PICK v \in Users : v = quote[q].user
  BY <1>0
<1> DEFINE days == quote[q].spent \div APPLES_PER_DAY
           exp == Larger(key[v].exp, now) + days
<1>1. TypeOK /\ quote[q].step = "pending" /\ now' = now /\ purchase' = purchase
      /\ cert' = cert /\ trialUsed' = trialUsed
  BY DEF Confirm, AccessInv, QuoteInv, QuoteFrame, buyVars
<1>2. key \in [Users -> Keys] /\ key[v] \in Keys
      /\ quote \in [Quotes -> QuoteRows] /\ quote[q] \in QuoteRows
  BY <1>1 DEF TypeOK, Keys, QuoteRows
<1>3. /\ key' = [key EXCEPT ![v] = [key[v] EXCEPT !.exp = exp, !.live = TRUE]]
      /\ quote' = [quote EXCEPT ![q] = [quote[q] EXCEPT !.step = "confirmed", !.exp = exp]]
  BY DEF Confirm
<1>4. key[v].exp \in Nat /\ now \in Nat /\ days \in Nat
  BY <1>1, <1>2, NaturalsOfQuotes
<1>5. exp \in Nat
  BY <1>4 DEF Larger
<1>6. ~key[v].live => key[v].exp <= now
  BY <1>2 DEF AccessInv, DeadKeysAreOver
<1>7. QuoteInv'
  BY QuoteInvStep DEF AccessInv, Next, RedeemNext
<1> HIDE DEF exp, days
<1>8. key'[v] = [key[v] EXCEPT !.exp = exp, !.live = TRUE]
  BY <1>2, <1>3
<1>9. key'[v].exp = exp /\ key'[v].live /\ \A u \in Users \ {v} : key'[u] = key[u]
  BY <1>2, <1>3, <1>8 DEF Keys
<1>10. Access(v)' = Access(v) + days
  <2>1. Access(v)' = IF exp > now THEN exp ELSE now
    BY <1>1, <1>9 DEF Access, get_active_key
  <2>2. exp = Larger(key[v].exp, now) + days
    BY DEF exp
  <2>3. CASE get_active_key(v)
    <3>1. Access(v) = key[v].exp /\ key[v].exp > now
      BY <2>3 DEF Access, get_active_key
    <3> QED
      BY ONLY <1>4, <2>1, <2>2, <3>1 DEF Larger
  <2>4. CASE ~get_active_key(v)
    <3>1. Access(v) = now /\ key[v].exp <= now
      BY <1>4, <1>6, <2>4 DEF Access, get_active_key
    <3> QED
      BY ONLY <1>4, <2>1, <2>2, <3>1 DEF Larger
  <2> QED
    BY <2>3, <2>4
<1>11. quote'[q] = [quote[q] EXCEPT !.step = "confirmed", !.exp = exp]
  BY <1>2, <1>3
<1>12. quote'[q].step = "confirmed" /\ quote'[q].user = v
       /\ \A r \in Quotes \ {q} : quote'[r] = quote[r]
  BY <1>2, <1>3, <1>11 DEF QuoteRows
<1>13. \A u \in Users : PaidFor(u)' = PaidFor(u) /\ GivenTo(u)' = GivenTo(u)
  BY <1>1 DEF PaidFor, GivenTo
<1>14. q \notin RedeemedBy(v) /\ RedeemedBy(v)' = RedeemedBy(v) \union {q}
  BY <1>1, <1>12 DEF RedeemedBy
<1>15. AccessStep(v)
  <2>1. Granted(v)' = [Granted(v) EXCEPT ![3] = @ \union {q}]
    BY <1>1, <1>2, <1>13, <1>14, GrantedEdits DEF Granted
  <2> QED
    BY <1>10, <1>14, <2>1 DEF AccessStep, days
<1>16. ASSUME NEW u \in Users \ {v}  PROVE AccessStep(u)
  <2>1. RedeemedBy(u)' = RedeemedBy(u)
    BY <1>1, <1>12 DEF RedeemedBy
  <2>2. Granted(u)' = Granted(u)
    BY <1>1, <1>13, <2>1 DEF Granted
  <2> QED
    BY <1>1, <1>9, <2>2, NothingGranted
<1>17. DeadKeysAreOver' /\ GivenWhenActivated' /\ CertificatesArePaid'
  BY <1>1, <1>9 DEF AccessInv, DeadKeysAreOver, GivenWhenActivated, CertificatesArePaid
<1> QED
  BY <1>7, <1>15, <1>16, <1>17 DEF AccessInv

\* A preview and what it inserts grant nothing.
LEMMA PreviewGrants ==
  ASSUME AccessInv, NEW q \in Quotes,
         PreviewInsert(q) \/ \E u \in Users : Preview(u, q)
  PROVE  (\A u \in Users : AccessStep(u)) /\ AccessInv'
<1>1. TypeOK /\ now' = now /\ purchase' = purchase /\ cert' = cert /\ key' = key
      /\ trialUsed' = trialUsed
  BY DEF Preview, PreviewInsert, AccessInv, QuoteInv, QuoteFrame, buyVars, keyVars
<1>2. quote[q].step # "confirmed" /\ \E row : quote' = [quote EXCEPT ![q] = row]
                                              /\ row.step # "confirmed"
  <2>1. CASE PreviewInsert(q)
    <3> DEFINE row == IF key[quote[q].user].pk = quote[q].pk
                      THEN [quote[q] EXCEPT !.step = "pending"] ELSE NoQuote
    <3>1. quote' = [quote EXCEPT ![q] = row] /\ quote[q].step = "insert"
      BY <2>1 DEF PreviewInsert
    <3>2. quote[q] \in QuoteRows
      BY <1>1 DEF TypeOK, QuoteRows
    <3>3. row.step # "confirmed"
      BY <3>2 DEF QuoteRows, NoQuote
    <3> HIDE DEF row
    <3> QED
      BY <3>1, <3>3
  <2>2. ASSUME NEW u \in Users, Preview(u, q)
        PROVE  quote[q].step # "confirmed" /\ \E row : quote' = [quote EXCEPT ![q] = row]
                                                       /\ row.step # "confirmed"
    <3>1. PICK days : quote' = [quote EXCEPT ![q] =
                        [step |-> "insert", user |-> u, pk |-> key[u].pk,
                         spent |-> days * APPLES_PER_DAY,
                         quoted |-> Larger(key[u].exp, now) + days, exp |-> 0]]
      BY <2>2 DEF Preview
    <3> QED
      BY <2>2, <3>1 DEF Preview
  <2> QED
    BY <2>1, <2>2
<1>3. PICK row : quote' = [quote EXCEPT ![q] = row] /\ row.step # "confirmed"
  BY <1>2
<1>4. quote'[q].step # "confirmed" /\ \A r \in Quotes \ {q} : quote'[r] = quote[r]
  BY <1>1, <1>3 DEF TypeOK
<1>5. ASSUME NEW u \in Users  PROVE AccessStep(u)
  <2>1. RedeemedBy(u)' = RedeemedBy(u)
    BY <1>2, <1>4 DEF RedeemedBy
  <2>2. Granted(u)' = Granted(u)
    BY <1>1, <2>1 DEF Granted, PaidFor, GivenTo
  <2> QED
    BY <1>1, <2>2, NothingGranted
<1>6. DeadKeysAreOver' /\ GivenWhenActivated' /\ CertificatesArePaid'
  BY <1>1 DEF AccessInv, DeadKeysAreOver, GivenWhenActivated, CertificatesArePaid
<1>7. QuoteInv'
  BY QuoteInvStep DEF AccessInv, Next, RedeemNext
<1> QED
  BY <1>5, <1>6, <1>7 DEF AccessInv

\* A trial gives its user a key of its own; the removal and the day only take
\* what has ended.
LEMMA UserGrants ==
  ASSUME AccessInv, UserNext
  PROVE  (\A u \in Users : AccessStep(u)) /\ AccessInv'
<1>1. TypeOK /\ key \in [Users -> Keys] /\ now \in Nat
  BY NaturalsOfQuotes DEF AccessInv, QuoteInv, TypeOK, Keys
<1>2. purchase' = purchase /\ cert' = cert /\ quote' = quote
  BY DEF UserNext, FreeTrial, RemoveExpired, Tick, buyVars
<1>3. \A u \in Users : /\ PaidFor(u)' = PaidFor(u) /\ GivenTo(u)' = GivenTo(u)
                       /\ RedeemedBy(u)' = RedeemedBy(u)
  BY <1>2 DEF PaidFor, GivenTo, RedeemedBy
<1>4. QuoteInv' /\ GivenWhenActivated' /\ CertificatesArePaid'
  BY <1>2, UserQuotes DEF AccessInv, GivenWhenActivated, CertificatesArePaid
<1>5. ASSUME NEW v \in Users, FreeTrial(v)
      PROVE  (\A u \in Users : AccessStep(u)) /\ DeadKeysAreOver'
  <2>1. now' = now /\ v \notin trialUsed /\ trialUsed' = trialUsed \union {v}
        /\ key' = [key EXCEPT ![v] = [pk |-> nextPk, exp |-> now + Days(v), live |-> TRUE]]
    BY <1>5 DEF FreeTrial, IssueKey
  <2>2. key'[v].live /\ key'[v].exp = now + Days(v) /\ \A u \in Users \ {v} : key'[u] = key[u]
    BY <1>1, <2>1
  <2>3. Access(v)' = now + Days(v)
    <3>1. Days(v) \in Nat \ {0}
      BY DaysTypes
    <3> QED
      BY <1>1, <2>1, <2>2, <3>1 DEF Access, get_active_key
  <2>4. AccessStep(v)
    BY <2>1, <2>3 DEF AccessStep
  <2>5. ASSUME NEW u \in Users \ {v}  PROVE AccessStep(u)
    <3>1. (u \in trialUsed)' <=> u \in trialUsed
      BY <2>1
    <3>2. Granted(u)' = Granted(u)
      BY <1>3, <3>1 DEF Granted
    <3> QED
      BY <1>1, <2>1, <2>2, <3>2, NothingGranted
  <2>6. DeadKeysAreOver'
    BY <2>1, <2>2 DEF AccessInv, DeadKeysAreOver
  <2> QED
    BY <2>4, <2>5, <2>6
<1>6. CASE RemoveExpired
  <2> DEFINE due == {u \in Users : key[u].live /\ key[u].exp <= now}
  <2>1. now' = now /\ trialUsed' = trialUsed
        /\ key' = [u \in Users |-> [key[u] EXCEPT !.live = @ /\ u \notin due]]
    BY <1>6 DEF RemoveExpired
  <2>2. \A u \in Users : /\ key'[u].exp = key[u].exp
                         /\ key'[u].live = (key[u].live /\ u \notin due)
    BY <1>1, <2>1 DEF Keys
  <2>3. \A u \in Users : key[u].exp \in Nat /\ key[u].live \in BOOLEAN
    BY <1>1 DEF Keys
  <2>4. ASSUME NEW u \in Users  PROVE AccessStep(u)
    <3>1. Granted(u)' = Granted(u)
      BY <1>3, <2>1 DEF Granted
    <3>2. Access(u)' = Access(u)
      <4>1. now \in Nat
        BY <1>1 DEF TypeOK
      <4> QED
        BY ONLY <2>1, <2>2, <2>3, <4>1 DEF Access, get_active_key
    <3>3. Larger(Access(u), now') = Access(u)
      BY <1>1, <2>1, AccessIsDay DEF Larger
    <3> QED
      BY <3>1, <3>2, <3>3 DEF AccessStep
  <2>5. DeadKeysAreOver'
    BY <2>1, <2>2 DEF AccessInv, DeadKeysAreOver
  <2> QED
    BY <1>4, <2>4, <2>5 DEF AccessInv
<1>7. CASE Tick
  <2>1. now' = now + 1 /\ key' = key /\ trialUsed' = trialUsed
    BY <1>7 DEF Tick, keyVars
  <2>2. \A u \in Users : key[u].exp \in Nat
    BY <1>1 DEF Keys
  <2>3. ASSUME NEW u \in Users  PROVE AccessStep(u)
    <3>1. Granted(u)' = Granted(u)
      BY <1>3, <2>1 DEF Granted
    <3>2. Access(u)' = Larger(Access(u), now')
      BY <1>1, <2>1, <2>2 DEF Access, get_active_key, Larger
    <3> QED
      BY <3>1, <3>2 DEF AccessStep
  <2>4. DeadKeysAreOver'
    BY <1>1, <2>1, <2>2 DEF AccessInv, DeadKeysAreOver
  <2> QED
    BY <1>4, <2>3, <2>4 DEF AccessInv
<1> QED
  BY <1>4, <1>5, <1>6, <1>7 DEF UserNext, AccessInv

\* A step that leaves keys, days and rows alone grants nothing.
LEMMA GrantsKept ==
  ASSUME AccessInv, [Next]_vars,
         UNCHANGED <<now, key, purchase, cert, quote, trialUsed>>
  PROVE  (\A u \in Users : AccessStep(u)) /\ AccessInv'
<1>1. TypeOK /\ QuoteInv'
  BY QuoteInvStep DEF AccessInv, QuoteInv
<1>2. ASSUME NEW u \in Users  PROVE AccessStep(u)
  <2>1. Granted(u)' = Granted(u)
    BY DEF Granted, PaidFor, GivenTo, RedeemedBy
  <2> QED
    BY <1>1, <2>1, NothingGranted
<1>3. DeadKeysAreOver' /\ GivenWhenActivated' /\ CertificatesArePaid'
  BY DEF AccessInv, DeadKeysAreOver, GivenWhenActivated, CertificatesArePaid
<1> QED
  BY <1>1, <1>2, <1>3 DEF AccessInv

LEMMA GrantsStep ==
  ASSUME AccessInv, [Next]_vars
  PROVE  (\A u \in Users : AccessStep(u)) /\ AccessInv'
<1>1. CASE BuyNext
  <2>1. ASSUME NEW c \in Charges, Replay(c)
        PROVE  UNCHANGED <<now, key, purchase, cert, quote, trialUsed>>
    BY <2>1 DEF Replay, keyVars
  <2> QED
    BY <1>1, <2>1, GrantsKept, CreateGrants, GiftBoughtGrants DEF BuyNext
<1>2. CASE GiftNext
  BY <1>2, ActivationGrants DEF GiftNext
<1>3. CASE RedeemNext
  BY <1>3, PreviewGrants, ConfirmGrants DEF RedeemNext
<1>4. CASE UserNext
  BY <1>4, UserGrants
<1>5. CASE WheelNext
  <2>1. UNCHANGED <<now, key, purchase, quote>>
    BY <1>5, WheelKeepsKeys DEF keyVars
  <2>2. WheelFrame
    BY <1>5 DEF WheelNext, AcceptLegalTerms, LoadStatus, Reopen, SpinTooEarly, WheelStops,
                CountdownEnds, Spin
  <2> QED
    BY <2>1, <2>2, GrantsKept DEF WheelFrame, buyVars
<1>6. CASE UNCHANGED vars
  BY <1>6, GrantsKept DEF vars, keyVars, buyVars
<1> QED
  BY <1>1, <1>2, <1>3, <1>4, <1>5, <1>6 DEF Next

LEMMA InitAccess ==
  ASSUME Init
  PROVE  AccessInv
<1>1. QuoteInv
  BY InitQuoteInv
<1>2. /\ \A u \in Users : key[u].exp <= now
      /\ \A c \in Gifts : cert[c].by = Nobody /\ cert[c].status = "none"
  BY DEF Init, NoKey, NoCert
<1> QED
  BY <1>1, <1>2 DEF AccessInv, DeadKeysAreOver, GivenWhenActivated, CertificatesArePaid

\* Access moves only with what grants it, one grant at a time and by its own days:
\* a charge, a certificate or a quote counts once however often it is repeated.
THEOREM GrantsAreEarned == Spec => EveryGrantIsEarned
<1>1. Init => AccessInv
  BY InitAccess
<1>2. AccessInv /\ [Next]_vars => AccessInv'
  BY GrantsStep
<1>3. AccessInv /\ [Next]_vars => [\A u \in Users : AccessStep(u)]_vars
  BY GrantsStep
<1> QED
  BY <1>1, <1>2, <1>3, PTL DEF Spec, EveryGrantIsEarned
===============================================================================
