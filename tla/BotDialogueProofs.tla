--------------------------- MODULE BotDialogueProofs ---------------------------
(***************************************************************************)
(* What the bot promises for any number of messages, of updates handled at  *)
(* once, of charges and of referrers: a user is registered by a consent,   *)
(* no screen is a dead end and no receipt is false.  The run of BotDialogue *)
(* handles one update at a time; here they overlap as they like.           *)
(*                                                                         *)
(* No handler checks the consent before it creates a missing user: what     *)
(* protects the row is that everything that leads to such a call is behind  *)
(* the consent.  The invariant follows the buttons: screens other than the  *)
(* consent's are shown, and calls behind their buttons are made, only when  *)
(* the user has a row.                                                     *)
(***************************************************************************)
EXTENDS BotDialogue, TLAPS

\* The updates a user without a row can send.
Open == {"start", "start_apples_spend", "code", "accept_legal_terms"}

\* A screen anyone may be shown.
Public(s) == s = NoScreen \/ s.name = "legal_consent"

WorkRecord(w) == w = [step |-> w.step, msg |-> w.msg, update |-> w.update, ref |-> w.ref,
                      calls |-> w.calls, screen |-> w.screen]
UserRecord(u) == /\ u = [row |-> u.row, accepted |-> u.accepted, inviter |-> u.inviter]
                 /\ u.row \in BOOLEAN /\ u.accepted \in BOOLEAN

\* What the argument needs of the types.
GateTypes ==
  /\ UserRecord(user)
  /\ chat = [m \in Msgs |-> chat[m]]
  /\ work = [h \in Handlers |-> work[h]]
  /\ \A h \in Handlers : WorkRecord(work[h])

\* The row and the consents agree.
Account == IF user.row THEN user.accepted /\ agreements = {user.inviter}
                       ELSE ~user.accepted /\ agreements = {}

\* Work on w is possible without a row.
Harmless(w) == \/ w.step = "idle"
               \/ w.step = "call" /\ w.update \in Open
               \/ w.step = "show" /\ w.update \in Open /\ Public(w.screen)

\* Without a row, nothing but the consent is in sight or in work.
Gate ==
  ~user.row => /\ \A m \in Msgs : Public(chat[m])
               /\ \A h \in Handlers : Harmless(work[h])
               /\ invoices = {}
               /\ \A c \in Charges : charge[c].step = "none"

GateInv == GateTypes /\ Account /\ Gate

\* Nothing is in sight of a user the bot has not seen.
LEMMA GateInit == Init => GateInv
<1> SUFFICES ASSUME Init
             PROVE  GateInv
  OBVIOUS
<1>1. UserRecord(user) /\ Account
  <2>1. CASE user = [row |-> FALSE, accepted |-> FALSE, inviter |-> NoOne] /\ agreements = {}
    BY <2>1 DEF UserRecord, Account
  <2>2. CASE user = [row |-> TRUE, accepted |-> TRUE, inviter |-> NoOne] /\ agreements = {NoOne}
    BY <2>2 DEF UserRecord, Account
  <2> QED
    BY <2>1, <2>2 DEF Init
<1>2. /\ chat = [m \in Msgs |-> NoScreen]
      /\ work = [h \in Handlers |-> NoWork]
      /\ charge = [c \in Charges |-> NoCharge]
      /\ invoices = {}
  BY DEF Init
<1>3. WorkRecord(NoWork) /\ NoWork.step = "idle"
  BY DEF NoWork, WorkRecord
<1>4. NoCharge.step = "none"
  BY DEF NoCharge
<1>5. GateTypes
  BY <1>1, <1>2, <1>3, <1>4 DEF GateTypes
<1>6. Gate
  BY <1>2, <1>3, <1>4 DEF Gate, Public, Harmless
<1> QED
  BY <1>1, <1>5, <1>6 DEF GateInv

\* The consent's button, or no button at all.
LEMMA PublicButtons ==
  ASSUME NEW s, Public(s)
  PROVE  Buttons(s) \subseteq Open
<1>1. CASE s.name = "legal_consent"
  BY <1>1 DEF Buttons, Open
<1>2. CASE s = NoScreen
  BY <1>2 DEF Buttons, NoScreen, Screen, With
<1> QED
  BY <1>1, <1>2 DEF Public

\* A handler that begins on a screen anyone may see has an update anyone may send.
LEMMA GateByUpdate ==
  ASSUME GateInv, NEW h \in Handlers, (\E m \in Msgs : Press(h, m)) \/ Type(h)
  PROVE  GateInv'
<1>1. PICK m, update, ref :
        Begin(h, m, update, ref) /\ (~user.row => update \in Open)
  <2>1. CASE \E m \in Msgs : Press(h, m)
    <3>1. PICK m \in Msgs : Press(h, m)
      BY <2>1
    <3>2. PICK update \in Buttons(chat[m]) : \E ref : Begin(h, m, update, ref)
      BY <3>1 DEF Press
    <3>3. ~user.row => update \in Open
      BY <3>2, PublicButtons DEF GateInv, Gate
    <3> QED
      BY <3>2, <3>3
  <2>2. CASE Type(h)
    <3>1. DOMAIN Typed \subseteq Open
      BY DEF Typed, Open
    <3>2. PICK update \in DOMAIN Typed, ref \in Inviters \union {NoOne} :
            Begin(h, NoMsg, update, ref)
      BY <2>2 DEF Type
    <3> QED
      BY <3>1, <3>2
  <2> QED
    BY <2>1, <2>2
<1> DEFINE new == [step |-> IF Calls(update) = 0 THEN "show" ELSE "call", msg |-> m,
                   update |-> update, ref |-> ref, calls |-> Calls(update), screen |-> NoScreen]
<1>2. work' = [work EXCEPT ![h] = new] /\ UNCHANGED <<user, agreements, chat, invoices, charge>>
  BY <1>1 DEF Begin, accountVars, paymentVars
<1>3. WorkRecord(new)
  BY DEF WorkRecord
<1>4. ~user.row => Harmless(new)
  BY <1>1 DEF Harmless, Public
<1> HIDE DEF new
<1>5. work' = [i \in Handlers |-> IF i = h THEN new ELSE work[i]]
  BY <1>2 DEF GateInv, GateTypes
<1> QED
  BY <1>2, <1>3, <1>4, <1>5 DEF GateInv, GateTypes, Account, Gate

\* A call creates the user only for an accepted consent, or when it is there.
LEMMA EffectIsGated ==
  ASSUME GateInv, NEW update, NEW ref,
         ~user.row => update \in Open,
         Effect(update, ref) \/ NoAccountChange
  PROVE  UserRecord(user)' /\ Account' /\ (user.row => user'.row)
<1>1. user = [row |-> user.row, accepted |-> user.accepted, inviter |-> user.inviter]
  BY DEF GateInv, GateTypes, UserRecord
<1>2. CASE NoAccountChange
  BY <1>2 DEF GateInv, GateTypes, Account, NoAccountChange, accountVars
<1>3. CASE AcceptConsent(ref)
  <2>1. CASE user.row
    <3>1. user' = user /\ agreements' = agreements
      BY <1>1, <1>3, <2>1 DEF AcceptConsent, GateInv, Account
    <3> QED
      BY <3>1 DEF GateInv, GateTypes, Account
  <2>2. CASE ~user.row
    <3>1. /\ user' = [row |-> TRUE, accepted |-> TRUE, inviter |-> ref]
          /\ agreements' = {ref}
      BY <1>3, <2>2 DEF AcceptConsent, GateInv, Account
    <3> QED
      BY <2>2, <3>1 DEF Account, UserRecord
  <2> QED
    BY <2>1, <2>2
<1>4. CASE update \in CreatesUser /\ EnsureUser
  <2>1. user.row
    BY <1>4 DEF CreatesUser, Open
  <2>2. user' = user /\ agreements' = agreements
    BY <1>1, <1>4, <2>1 DEF EnsureUser, GateInv, GateTypes, UserRecord
  <2> QED
    BY <2>2 DEF GateInv, GateTypes, Account
<1> QED
  BY <1>2, <1>3, <1>4 DEF Effect

WorkAs(w, step, update, screen) ==
  WorkRecord(w) /\ w.step = step /\ w.update = update /\ w.screen = screen

\* A handler's record with a new step and screen.
LEMMA WorkWithScreen ==
  ASSUME NEW w, WorkRecord(w), NEW step, NEW screen
  PROVE  WorkAs([w EXCEPT !.step = step, !.screen = screen], step, w.update, screen)
<1> DEFINE mid == [w EXCEPT !.step = step]
           new == [w EXCEPT !.step = step, !.screen = screen]
<1>1. WorkRecord(mid) /\ mid.step = step /\ mid.update = w.update
  BY DEF WorkRecord
<1>2. new = [mid EXCEPT !.screen = screen]
  OBVIOUS
<1> HIDE DEF mid, new
<1>3. WorkRecord(new) /\ new.step = step /\ new.update = w.update /\ new.screen = screen
  BY <1>1, <1>2 DEF WorkRecord
<1> QED
  BY <1>3 DEF new, WorkAs

\* An answered call shows a screen anyone may see, or the user has a row by then.
LEMMA GateByAnswer ==
  ASSUME GateInv, NEW h \in Handlers, CallAnswered(h)
  PROVE  GateInv'
<1> DEFINE w == work[h]
<1>1. /\ w.step = "call"
      /\ w.update = "code" => user.row
      /\ Effect(w.update, w.ref)
      /\ UNCHANGED <<chat, invoices, charge>>
  BY DEF CallAnswered, HandlerFrame
<1>2. ~user.row => w.update \in Open
  BY <1>1 DEF GateInv, Gate, Harmless
<1>3. UserRecord(user)' /\ Account' /\ (user.row => user'.row)
  BY <1>1, <1>2, EffectIsGated
<1>4. WorkRecord(w) /\ work = [i \in Handlers |-> work[i]]
  BY DEF GateInv, GateTypes
<1>5. PICK new : /\ work' = [work EXCEPT ![h] = new]
                 /\ WorkRecord(new)
                 /\ ~user'.row => Harmless(new)
  <2>1. CASE work' = [work EXCEPT ![h] = [w EXCEPT !.step = "show",
                                                   !.screen = legal_consent(w.ref)]]
    <3> DEFINE consent == legal_consent(w.ref)
               new == [w EXCEPT !.step = "show", !.screen = consent]
    <3>1. work' = [work EXCEPT ![h] = new]
      BY <1>4, <2>1
    <3>2. WorkAs(new, "show", w.update, consent)
      <4>1. WorkRecord(w)
        BY <1>4
      <4> HIDE DEF w, consent
      <4> QED
        BY <4>1, WorkWithScreen, Zenon
    <3>3. Public(consent)
      BY DEF Public, legal_consent, With
    <3> HIDE DEF new, consent
    <3>4. ~user'.row => Harmless(new)
      BY <1>2, <1>3, <3>2, <3>3 DEF Harmless, WorkAs
    <3> QED
      BY <3>1, <3>2, <3>4 DEF WorkAs
  <2>2. CASE work' = [work EXCEPT ![h].calls = 1]
    <3> DEFINE new == [w EXCEPT !.calls = 1]
    <3>1. work' = [work EXCEPT ![h] = new]
      BY <1>4, <2>2
    <3>2. WorkRecord(new) /\ new.step = "call" /\ new.update = w.update
      BY <1>1, <1>4 DEF WorkRecord
    <3> HIDE DEF new
    <3>3. ~user'.row => Harmless(new)
      BY <1>2, <1>3, <3>2 DEF Harmless
    <3> QED
      BY <3>1, <3>2, <3>3
  <2>3. CASE /\ NeedsConsent(w.update) => user.accepted
             /\ \E s \in Result(w.update) :
                  work' = [work EXCEPT ![h] = [w EXCEPT !.step = "show", !.screen = s]]
    <3>1. PICK s : work' = [work EXCEPT ![h] = [w EXCEPT !.step = "show", !.screen = s]]
      BY <2>3
    <3> DEFINE new == [w EXCEPT !.step = "show", !.screen = s]
    <3>2. work' = [work EXCEPT ![h] = new]
      BY <1>4, <3>1
    <3>3. WorkAs(new, "show", w.update, s)
      <4>1. WorkRecord(w)
        BY <1>4
      <4> HIDE DEF w
      <4> QED
        BY <4>1, WorkWithScreen, Zenon
    <3> HIDE DEF new
    <3>4. user'.row
      <4>1. CASE w.update = "accept_legal_terms"
        <5>1. AcceptConsent(w.ref)
          BY <1>1, <4>1 DEF Effect, CreatesUser
        <5>2. UserRecord(user)
          BY DEF GateInv, GateTypes
        <5> QED
          BY <5>1, <5>2 DEF AcceptConsent, UserRecord
      <4>2. CASE w.update \in {"start", "start_apples_spend"}
        BY <1>3, <2>3, <4>2 DEF NeedsConsent, GateInv, Account
      <4> QED
        BY <1>1, <1>2, <1>3, <4>1, <4>2 DEF Open
    <3> QED
      BY <3>2, <3>3, <3>4 DEF WorkAs
  <2> QED
    BY <2>1, <2>2, <2>3 DEF CallAnswered
<1>6. work' = [i \in Handlers |-> IF i = h THEN new ELSE work[i]]
  BY <1>4, <1>5
<1>7. GateTypes'
  BY <1>1, <1>3, <1>5, <1>6 DEF GateInv, GateTypes
<1>8. Gate'
  BY <1>1, <1>3, <1>5, <1>6 DEF GateInv, Gate
<1> QED
  BY <1>3, <1>7, <1>8 DEF GateInv

\* A handler that ends leaves nothing behind that a user without a row should not
\* see: what it shows is public, or there is a row.
LEMMA GateByEnd ==
  ASSUME GateInv, NEW h \in Handlers, Finish(h), UNCHANGED charge,
         UserRecord(user)', Account', user.row => user'.row,
         chat' = [m \in Msgs |-> chat'[m]],
         ~user'.row => /\ \A m \in Msgs : chat'[m] = chat[m] \/ Public(chat'[m])
                       /\ invoices' = invoices
  PROVE  GateInv'
<1>1. work' = [i \in Handlers |-> IF i = h THEN NoWork ELSE work[i]]
  BY DEF Finish, GateInv, GateTypes
<1>2. WorkRecord(NoWork) /\ Harmless(NoWork)
  BY DEF NoWork, WorkRecord, Harmless
<1>3. GateTypes'
  BY <1>1, <1>2 DEF GateInv, GateTypes
<1>4. Gate'
  BY <1>1, <1>2 DEF GateInv, Gate
<1> QED
  BY <1>3, <1>4 DEF GateInv

\* Failed calls, shown screens and sent invoices end the handler.
LEMMA GateByHandler ==
  ASSUME GateInv, NEW h \in Handlers, SendInvoice(h) \/ CallFails(h) \/ Show(h)
  PROVE  GateInv'
<1> DEFINE w == work[h]
<1>1. ~user.row => Harmless(w)
  BY DEF GateInv, Gate
<1>2. chat = [m \in Msgs |-> chat[m]] /\ UserRecord(user) /\ Account
  BY DEF GateInv, GateTypes
<1>3. CASE SendInvoice(h)
  <2>1. user.row
    BY <1>1, <1>3 DEF SendInvoice, Harmless, Open
  <2>2. UNCHANGED <<user, agreements, chat, charge>> /\ Finish(h)
    BY <1>3 DEF SendInvoice, HandlerFrame, accountVars
  <2> QED
    BY <1>2, <2>1, <2>2, GateByEnd DEF Account
<1>4. CASE CallFails(h)
  <2>1. /\ w.step = "call"
        /\ Effect(w.update, w.ref) \/ NoAccountChange
        /\ UNCHANGED <<charge, invoices>> /\ Finish(h)
    BY <1>4 DEF CallFails, HandlerFrame
  <2>2. ~user.row => w.update \in Open
    BY <1>1, <2>1 DEF Harmless
  <2>3. UserRecord(user)' /\ Account' /\ (user.row => user'.row)
    BY <2>1, <2>2, EffectIsGated
  <2>4. CASE chat' = chat
    BY <1>2, <2>1, <2>3, <2>4, GateByEnd
  <2>5. CASE w.update \in {"update_link_confirm", "vpn_reissue_confirm"}
             /\ \E m \in Msgs : chat' = [chat EXCEPT ![m] = Screen("reissue_error_notification")]
    <3>1. user.row
      BY <2>2, <2>5 DEF Open
    <3>2. chat' = [m \in Msgs |-> chat'[m]]
      BY <1>2, <2>5
    <3> QED
      BY <2>1, <2>3, <3>1, <3>2, GateByEnd
  <2> QED
    BY <1>4, <2>4, <2>5 DEF CallFails
<1>5. CASE Show(h)
  <2>1. /\ w.step = "show"
        /\ UNCHANGED <<user, agreements, charge, invoices>> /\ Finish(h)
    BY <1>5 DEF Show, HandlerFrame, accountVars
  <2>2. \E s : \E m \in Msgs :
          /\ chat' = [chat EXCEPT ![m] = s]
          /\ Calls(w.update) # 0 => s = w.screen
    <3> DEFINE screen == IF Calls(w.update) = 0 THEN CHOOSE s \in Result(w.update) : TRUE
                         ELSE w.screen
    <3>1. \E m \in Msgs : chat' = [chat EXCEPT ![m] = screen]
      BY <1>5 DEF Show
    <3>2. Calls(w.update) # 0 => screen = w.screen
      OBVIOUS
    <3> HIDE DEF screen
    <3>3. PICK m \in Msgs : chat' = [chat EXCEPT ![m] = screen]
      BY <3>1
    <3> QED
      BY <3>2, <3>3
  <2>8. PICK s :
          \E m \in Msgs :
            /\ chat' = [chat EXCEPT ![m] = s]
            /\ Calls(w.update) # 0 => s = w.screen
    BY <2>2
  <2>3. ~user.row => Public(s)
    <3>1. ASSUME ~user.row
          PROVE  Public(w.screen) /\ w.update \in Open
      BY <1>1, <2>1, <3>1 DEF Harmless
    <3>2. \A update \in Open : Calls(update) # 0
      BY DEF Open, Calls
    <3> QED
      BY <2>8, <3>1, <3>2
  <2>4. PICK m \in Msgs : chat' = [i \in Msgs |-> IF i = m THEN s ELSE chat[i]]
    BY <1>2, <2>8
  <2>5. Account' /\ UserRecord(user)'
    BY <1>2, <2>1 DEF Account
  <2>6. ~user'.row => \A i \in Msgs : chat'[i] = chat[i] \/ Public(chat'[i])
    BY <2>1, <2>3, <2>4
  <2>7. chat' = [i \in Msgs |-> chat'[i]]
    BY <2>4
  <2> QED
    BY <2>1, <2>5, <2>6, <2>7, GateByEnd
<1> QED
  BY <1>3, <1>4, <1>5

\* The account stays, the chat changes only for a user with a row, charges are
\* made only by one.
LEMMA GateByPayment ==
  ASSUME GateInv, UNCHANGED <<user, agreements, invoices>>,
         work' = work \/ work' = [h \in Handlers |-> NoWork],
         chat' = [m \in Msgs |-> chat'[m]],
         ~user.row => chat' = chat /\ \A c \in Charges : charge'[c] = charge[c]
  PROVE  GateInv'
<1>1. WorkRecord(NoWork) /\ Harmless(NoWork)
  BY DEF NoWork, WorkRecord, Harmless
<1>2. GateTypes'
  BY <1>1 DEF GateInv, GateTypes
<1>3. Gate'
  BY <1>1 DEF GateInv, Gate
<1> QED
  BY <1>2, <1>3 DEF GateInv, Account

\* A Stars charge needs an invoice, and an invoice a user with a row; the chat is
\* changed by a receipt.
LEMMA GateByCharge ==
  ASSUME GateInv, NEW c \in Charges,
         \/ Checkout(c) \/ AnswerPreCheckout(c) \/ CheckoutExpires(c)
         \/ PaymentStep(c) \/ AnswerFails(c)
  PROVE  GateInv'
<1>1. UNCHANGED <<user, agreements, invoices, work>>
  BY DEF Checkout, AnswerPreCheckout, CheckoutExpires, PaymentStep, TakeSuccessfulPayment,
         ConfirmPurchase, AnswerPurchase, AnswerFails, PaymentFrame, accountVars
<1>2. user.row
  <2>1. ~user.row => invoices = {} /\ charge[c].step = "none"
    BY DEF GateInv, Gate
  <2> QED
    BY <2>1 DEF Checkout, AnswerPreCheckout, CheckoutExpires, PaymentStep,
         TakeSuccessfulPayment, ConfirmPurchase, AnswerPurchase, AnswerFails
<1>3. chat' = [m \in Msgs |-> chat'[m]]
  <2>1. chat = [m \in Msgs |-> chat[m]]
    BY DEF GateInv, GateTypes
  <2>2. CASE chat' = chat
    BY <2>1, <2>2
  <2>3. CASE \E m \in Msgs, s \in {Screen("vpn_purchased"), Screen("key_generated")} :
               chat' = [chat EXCEPT ![m] = s]
    BY <2>1, <2>3
  <2> QED
    BY <2>2, <2>3 DEF Checkout, AnswerPreCheckout, CheckoutExpires, PaymentStep,
       TakeSuccessfulPayment, ConfirmPurchase, AnswerPurchase, AnswerFails, processVars
<1> QED
  BY <1>1, <1>2, <1>3, GateByPayment

\* A notification goes to a user with a row; a restart forgets the work and keeps
\* everything else.
LEMMA GateByProcess ==
  ASSUME GateInv, Notify \/ Stop \/ Boot
  PROVE  GateInv'
<1>1. UNCHANGED <<user, agreements, invoices>>
  BY DEF Notify, Stop, Boot, accountVars, paymentVars
<1>2. chat = [m \in Msgs |-> chat[m]]
  BY DEF GateInv, GateTypes
<1>4. CASE Notify
  <2>1. user.row /\ work' = work /\ charge' = charge
    BY <1>4 DEF Notify, paymentVars
  <2>2. chat' = [m \in Msgs |-> chat'[m]]
    BY <1>2, <1>4 DEF Notify
  <2> QED
    BY <1>1, <2>1, <2>2, GateByPayment
<1>5. CASE Stop \/ Boot
  <2>1. chat' = chat /\ (work' = work \/ work' = [h \in Handlers |-> NoWork])
    BY <1>5 DEF Stop, Boot
  <2>2. \A c \in Charges : charge[c].step = "none" => charge'[c] = charge[c]
    BY <1>5 DEF Stop, Boot
  <2>3. ~user.row => \A c \in Charges : charge[c].step = "none"
    BY DEF GateInv, Gate
  <2> QED
    BY <1>1, <1>2, <2>1, <2>2, <2>3, GateByPayment
<1> QED
  BY <1>4, <1>5

\* One step of the chat, the bot, the backend or Telegram.
LEMMA GateStep == GateInv /\ [Next]_vars => GateInv'
<1> SUFFICES ASSUME GateInv, [Next]_vars
             PROVE  GateInv'
  OBVIOUS
<1>1. CASE \E h \in Handlers : (\E m \in Msgs : Press(h, m)) \/ Type(h)
  BY <1>1, GateByUpdate
<1>2. CASE \E h \in Handlers : HandlerStep(h)
  BY <1>2, GateByAnswer, GateByHandler DEF HandlerStep
<1>3. CASE \E c \in Charges : \/ Checkout(c) \/ AnswerPreCheckout(c) \/ CheckoutExpires(c)
                              \/ PaymentStep(c) \/ AnswerFails(c)
  BY <1>3, GateByCharge
<1>4. CASE Notify \/ Stop \/ Boot
  BY <1>4, GateByProcess
<1>5. CASE UNCHANGED vars
  BY <1>5 DEF vars, accountVars, paymentVars, processVars, GateInv, GateTypes, Account,
              Gate, UserRecord
<1> QED
  BY <1>1, <1>2, <1>3, <1>4, <1>5 DEF Next

\* However updates overlap, a user's row is first created by an accepted consent,
\* and its referrer is the one of the first consent accepted (consent/accept,
\* check-first-free-link and first-free-link behind the bot's keyboards).
THEOREM ConsentComesFirst == Safety => []RegisteredByConsent
<1>1. GateInv => RegisteredByConsent
  BY DEF GateInv, Account, RegisteredByConsent
<1> QED
  BY GateInit, GateStep, <1>1, PTL DEF Safety

-------------------------------------------------------------------------------
(* The keyboards.                                                           *)

LEMMA OpensDomains ==
  /\ DOMAIN StartScreens = {"accept_legal_terms", "show_start_screen", "show_mtproxy_menu", "info"}
  /\ DOMAIN ApplesScreens = {"apples_status", "apples_spend", "apples_spend_referral",
                             "apples_redeem_one", "apples_redeem_all", "apples_confirm"}
  /\ DOMAIN LinksScreens = {"my_servers", "update_link", "update_link_confirm"}
  /\ DOMAIN VpnScreens = {"show_vpn_menu", "vpn", "vpn_subscription", "vpn_reissue",
                          "vpn_reissue_confirm", "vpn_pay_stars", "vpn_pay_crypto",
                          "vpn_pay_platega_sbp"}
  /\ DOMAIN PaymentScreens = {"boost_paid", "pay_stars", "pay_crypto", "pay_platega_sbp",
                              "gift_certificate", "gift_stars", "gift_crypto",
                              "gift_platega_sbp"}
  /\ DOMAIN OtherScreens = {"boost_free", "referral", "dismiss_error_notification"}
BY DEF StartScreens, ApplesScreens, LinksScreens, VpnScreens, PaymentScreens, OtherScreens

\* No button is in two tables.
LEMMA OpensAreApart ==
  /\ DOMAIN PaymentScreens \intersect DOMAIN OtherScreens = {}
  /\ DOMAIN VpnScreens \intersect (DOMAIN PaymentScreens \union DOMAIN OtherScreens) = {}
  /\ DOMAIN LinksScreens \intersect (DOMAIN VpnScreens \union DOMAIN PaymentScreens
                                     \union DOMAIN OtherScreens) = {}
  /\ DOMAIN ApplesScreens \intersect (DOMAIN LinksScreens \union DOMAIN VpnScreens
                                      \union DOMAIN PaymentScreens
                                      \union DOMAIN OtherScreens) = {}
  /\ DOMAIN StartScreens \intersect (DOMAIN ApplesScreens \union DOMAIN LinksScreens
                                     \union DOMAIN VpnScreens \union DOMAIN PaymentScreens
                                     \union DOMAIN OtherScreens) = {}
BY OpensDomains

\* Every button is in one table.
LEMMA OpensIsWhole ==
  /\ DOMAIN Opens = DOMAIN StartScreens \union DOMAIN ApplesScreens \union DOMAIN LinksScreens
                    \union DOMAIN VpnScreens \union DOMAIN PaymentScreens
                    \union DOMAIN OtherScreens
  /\ \A b \in DOMAIN StartScreens : Opens[b] = StartScreens[b]
  /\ \A b \in DOMAIN ApplesScreens : Opens[b] = ApplesScreens[b]
  /\ \A b \in DOMAIN LinksScreens : Opens[b] = LinksScreens[b]
  /\ \A b \in DOMAIN VpnScreens : Opens[b] = VpnScreens[b]
  /\ \A b \in DOMAIN PaymentScreens : Opens[b] = PaymentScreens[b]
  /\ \A b \in DOMAIN OtherScreens : Opens[b] = OtherScreens[b]
<1>1. PICK j5 : j5 = Joined(PaymentScreens, OtherScreens)
  OBVIOUS
<1>2. PICK j4 : j4 = Joined(VpnScreens, j5)
  OBVIOUS
<1>3. PICK j3 : j3 = Joined(LinksScreens, j4)
  OBVIOUS
<1>4. PICK j2 : j2 = Joined(ApplesScreens, j3)
  OBVIOUS
<1>5. Opens = Joined(StartScreens, j2)
  BY <1>1, <1>2, <1>3, <1>4 DEF Opens
<1>6. /\ DOMAIN j5 = DOMAIN PaymentScreens \union DOMAIN OtherScreens
      /\ \A b \in DOMAIN PaymentScreens : j5[b] = PaymentScreens[b]
      /\ \A b \in DOMAIN OtherScreens : j5[b] = OtherScreens[b]
  BY <1>1, OpensAreApart DEF Joined
<1>7. /\ DOMAIN j4 = DOMAIN VpnScreens \union DOMAIN j5
      /\ \A b \in DOMAIN VpnScreens : j4[b] = VpnScreens[b]
      /\ \A b \in DOMAIN j5 : j4[b] = j5[b]
  BY <1>2, <1>6, OpensAreApart DEF Joined
<1>8. /\ DOMAIN j3 = DOMAIN LinksScreens \union DOMAIN j4
      /\ \A b \in DOMAIN LinksScreens : j3[b] = LinksScreens[b]
      /\ \A b \in DOMAIN j4 : j3[b] = j4[b]
  BY <1>3, <1>6, <1>7, OpensAreApart DEF Joined
<1>9. /\ DOMAIN j2 = DOMAIN ApplesScreens \union DOMAIN j3
      /\ \A b \in DOMAIN ApplesScreens : j2[b] = ApplesScreens[b]
      /\ \A b \in DOMAIN j3 : j2[b] = j3[b]
  BY <1>4, <1>6, <1>7, <1>8, OpensAreApart DEF Joined
<1>10. /\ DOMAIN Opens = DOMAIN StartScreens \union DOMAIN j2
       /\ \A b \in DOMAIN StartScreens : Opens[b] = StartScreens[b]
       /\ \A b \in DOMAIN j2 : Opens[b] = j2[b]
  BY <1>5, <1>6, <1>7, <1>8, <1>9, OpensAreApart DEF Joined
<1> QED
  BY <1>6, <1>7, <1>8, <1>9, <1>10

LEMMA KeyboardDomains ==
  /\ DOMAIN StartKeyboards = {"notification", "product_menu", "referral_cabinet",
                              "reissue_error_notification"}
  /\ DOMAIN VpnKeyboards = {"vpn_menu", "vpn_subscription", "vpn_reissue_confirmation",
                            "vpn_purchased"}
  /\ DOMAIN MtproxyKeyboards = {"mtproxy_menu", "apples_status", "apples_spend",
                                "apples_back_to_status", "apples_redemption_confirmation",
                                "apples_redemption_done", "key_generated", "my_servers",
                                "confirm_reissue", "info"}
  /\ DOMAIN PaymentKeyboards = {"payment_methods", "vpn_payment_methods",
                                "gift_certificate_payment_methods", "invoice"}
BY DEF StartKeyboards, VpnKeyboards, MtproxyKeyboards, PaymentKeyboards

LEMMA KeyboardsAreApart ==
  /\ DOMAIN MtproxyKeyboards \intersect DOMAIN PaymentKeyboards = {}
  /\ DOMAIN VpnKeyboards \intersect (DOMAIN MtproxyKeyboards \union DOMAIN PaymentKeyboards) = {}
  /\ DOMAIN StartKeyboards \intersect (DOMAIN VpnKeyboards \union DOMAIN MtproxyKeyboards
                                       \union DOMAIN PaymentKeyboards) = {}
BY KeyboardDomains

LEMMA KeyboardIsWhole ==
  /\ \A x \in DOMAIN StartKeyboards : Keyboard[x] = StartKeyboards[x]
  /\ \A x \in DOMAIN VpnKeyboards : Keyboard[x] = VpnKeyboards[x]
  /\ \A x \in DOMAIN MtproxyKeyboards : Keyboard[x] = MtproxyKeyboards[x]
  /\ \A x \in DOMAIN PaymentKeyboards : Keyboard[x] = PaymentKeyboards[x]
<1>1. PICK j2 : j2 = Joined(MtproxyKeyboards, PaymentKeyboards)
  OBVIOUS
<1>2. PICK j1 : j1 = Joined(VpnKeyboards, j2)
  OBVIOUS
<1>3. Keyboard = Joined(StartKeyboards, j1)
  BY <1>1, <1>2 DEF Keyboard
<1>4. /\ DOMAIN j2 = DOMAIN MtproxyKeyboards \union DOMAIN PaymentKeyboards
      /\ \A x \in DOMAIN MtproxyKeyboards : j2[x] = MtproxyKeyboards[x]
      /\ \A x \in DOMAIN PaymentKeyboards : j2[x] = PaymentKeyboards[x]
  BY <1>1, KeyboardsAreApart DEF Joined
<1>5. /\ DOMAIN j1 = DOMAIN VpnKeyboards \union DOMAIN j2
      /\ \A x \in DOMAIN VpnKeyboards : j1[x] = VpnKeyboards[x]
      /\ \A x \in DOMAIN j2 : j1[x] = j2[x]
  BY <1>2, <1>4, KeyboardsAreApart DEF Joined
<1>6. /\ \A x \in DOMAIN StartKeyboards : Keyboard[x] = StartKeyboards[x]
      /\ \A x \in DOMAIN j1 : Keyboard[x] = j1[x]
  BY <1>3, <1>4, <1>5, KeyboardsAreApart DEF Joined
<1> QED
  BY <1>4, <1>5, <1>6

\* The screens there are.
PlainNames ==
  {"product_menu", "info", "apples_status", "apples_redemption_confirmation",
   "apples_redemption_done", "my_servers", "confirm_reissue", "vpn_menu", "vpn_subscription",
   "vpn_reissue_confirmation", "key_generated", "referral_cabinet", "vpn_purchased",
   "reissue_error_notification"}
OfferNames == {"payment_methods", "vpn_payment_methods", "gift_certificate_payment_methods"}

Extras == \* a keyboard and its one optional button
  {<<"mtproxy_menu", "boost_free">>, <<"mtproxy_menu", "boost_paid">>,
   <<"apples_spend", "apples_status">>, <<"apples_spend", "referral">>,
   <<"apples_back_to_status", "apples_status">>, <<"apples_back_to_status", "referral">>,
   <<"invoice", VPN_BACK>>, <<"invoice", MTPROXY_BACK>>, <<"vpn_subscription", "vpn">>,
   <<"notification", MY_SERVERS>>, <<"notification", "vpn">>, <<"notification", "boost_paid">>,
   <<"notification", "update_link">>}

Known(s) == \/ s = NoScreen
            \/ \E x \in PlainNames : s = Screen(x)
            \/ \E e \in Extras : s = With(e[1], {e[2]})
            \/ \E x \in OfferNames : s \in Offers(x)
            \/ \E r \in Inviters \union {NoOne} : s = legal_consent(r)

LEMMA SpendIsKnown ==
  /\ \A s \in SpendScreens("apples_status") : Known(s)
  /\ \A s \in SpendScreens("referral") : Known(s)
<1>1. {<<"apples_spend", "apples_status">>, <<"apples_spend", "referral">>,
       <<"apples_back_to_status", "apples_status">>, <<"apples_back_to_status", "referral">>}
      \subseteq Extras
  BY DEF Extras
<1> QED
  BY <1>1 DEF SpendScreens, Known

LEMMA PlainIsKnown == \A x \in PlainNames : Known(Screen(x))
BY DEF Known

LEMMA ExtraIsKnown == \A e \in Extras : Known(With(e[1], {e[2]}))
BY DEF Known

LEMMA StartIsKnown == \A b \in DOMAIN StartScreens : \A s \in StartScreens[b] : Known(s)
<1>1. Known(Screen("product_menu")) /\ Known(Screen("info"))
  BY PlainIsKnown DEF PlainNames
<1>2. \A b \in {"boost_free", "boost_paid"} : Known(With("mtproxy_menu", {b}))
  <2>1. \A b \in {"boost_free", "boost_paid"} : <<"mtproxy_menu", b>> \in Extras
    BY DEF Extras
  <2> QED
    BY <2>1 DEF Known
<1> QED
  BY <1>1, <1>2 DEF StartScreens

LEMMA ApplesIsKnown == \A b \in DOMAIN ApplesScreens : \A s \in ApplesScreens[b] : Known(s)
<1>1. /\ Known(Screen("apples_status")) /\ Known(Screen("apples_redemption_confirmation"))
      /\ Known(Screen("apples_redemption_done"))
  BY PlainIsKnown DEF PlainNames
<1> QED
  BY <1>1, SpendIsKnown DEF ApplesScreens

LEMMA LinksIsKnown == \A b \in DOMAIN LinksScreens : \A s \in LinksScreens[b] : Known(s)
<1>1. Known(Screen("my_servers")) /\ Known(Screen("confirm_reissue"))
  BY PlainIsKnown DEF PlainNames
<1> QED
  BY <1>1 DEF LinksScreens

LEMMA InvoiceIsKnown == \A b \in {VPN_BACK, MTPROXY_BACK} : \A s \in Invoice(b) : Known(s)
<1>1. \A b \in {VPN_BACK, MTPROXY_BACK} : <<"invoice", b>> \in Extras
  BY DEF Extras
<1> QED
  BY <1>1 DEF Invoice, Known

LEMMA VpnIsKnown == \A b \in DOMAIN VpnScreens : \A s \in VpnScreens[b] : Known(s)
<1>1. /\ Known(Screen("vpn_menu")) /\ Known(Screen("vpn_subscription"))
      /\ Known(Screen("vpn_reissue_confirmation"))
  BY PlainIsKnown DEF PlainNames
<1>2. <<"vpn_subscription", "vpn">> \in Extras
  BY DEF Extras
<1>3. \A s \in Subscription : Known(s)
  BY <1>1, <1>2 DEF Subscription, Known
<1>4. \A s \in Offers("vpn_payment_methods") : Known(s)
  BY DEF Known, OfferNames
<1> QED
  BY <1>1, <1>3, <1>4, InvoiceIsKnown DEF VpnScreens

LEMMA PaymentIsKnown == \A b \in DOMAIN PaymentScreens : \A s \in PaymentScreens[b] : Known(s)
<1>1. \A x \in OfferNames : \A s \in Offers(x) : Known(s)
  BY DEF Known
<1>2. "payment_methods" \in OfferNames /\ "gift_certificate_payment_methods" \in OfferNames
  BY DEF OfferNames
<1> QED
  BY <1>1, <1>2, InvoiceIsKnown DEF PaymentScreens

LEMMA OtherIsKnown == \A b \in DOMAIN OtherScreens : \A s \in OtherScreens[b] : Known(s)
<1>1. Known(Screen("key_generated")) /\ Known(Screen("referral_cabinet")) /\ Known(NoScreen)
  BY PlainIsKnown DEF PlainNames, Known
<1> QED
  BY <1>1 DEF OtherScreens

LEMMA TypedIsKnown == \A b \in DOMAIN Typed : \A s \in Typed[b] : Known(s)
<1>1. Known(Screen("product_menu")) /\ Known(Screen("key_generated"))
  BY PlainIsKnown DEF PlainNames
<1> QED
  BY <1>1, SpendIsKnown DEF Typed

LEMMA ScreensAreKnown == \A s \in Screens : Known(s)
<1> SUFFICES ASSUME NEW s \in Screens PROVE Known(s)
  OBVIOUS
<1>1. CASE \E b \in DOMAIN Opens : s \in Opens[b]
  <2>1. PICK b \in DOMAIN Opens : s \in Opens[b]
    BY <1>1
  <2>2. CASE b \in DOMAIN StartScreens
    BY <2>1, <2>2, OpensIsWhole, StartIsKnown
  <2>3. CASE b \in DOMAIN ApplesScreens
    BY <2>1, <2>3, OpensIsWhole, ApplesIsKnown
  <2>4. CASE b \in DOMAIN LinksScreens
    BY <2>1, <2>4, OpensIsWhole, LinksIsKnown
  <2>5. CASE b \in DOMAIN VpnScreens
    BY <2>1, <2>5, OpensIsWhole, VpnIsKnown
  <2>6. CASE b \in DOMAIN PaymentScreens
    BY <2>1, <2>6, OpensIsWhole, PaymentIsKnown
  <2>7. CASE b \in DOMAIN OtherScreens
    BY <2>1, <2>7, OpensIsWhole, OtherIsKnown
  <2> QED
    BY <2>2, <2>3, <2>4, <2>5, <2>6, <2>7, OpensIsWhole
<1>2. CASE \E b \in DOMAIN Typed : s \in Typed[b]
  BY <1>2, TypedIsKnown
<1>3. CASE s \in {legal_consent(r) : r \in Inviters \union {NoOne}}
  BY <1>3 DEF Known
<1>4. CASE s \in {Screen("vpn_purchased"), Screen("reissue_error_notification"), NoScreen}
  <2>1. Known(Screen("vpn_purchased")) /\ Known(Screen("reissue_error_notification"))
        /\ Known(NoScreen)
    BY PlainIsKnown DEF PlainNames, Known
  <2> QED
    BY <1>4, <2>1
<1>5. CASE s \in {With("notification", {b}) : b \in NotificationButtons}
  <2>1. \A b \in NotificationButtons : <<"notification", b>> \in Extras
    BY DEF NotificationButtons, Extras
  <2> QED
    BY <1>5, <2>1 DEF Known
<1>6. CASE s \in UNION ({Opens[b] : b \in DOMAIN Opens} \union {Typed[b] : b \in DOMAIN Typed})
  <2>1. PICK X \in {Opens[b] : b \in DOMAIN Opens} \union {Typed[b] : b \in DOMAIN Typed} : s \in X
    BY <1>6
  <2>2. (\E b \in DOMAIN Opens : X = Opens[b]) \/ (\E b \in DOMAIN Typed : X = Typed[b])
    BY <2>1
  <2> QED
    BY <1>1, <1>2, <2>1, <2>2
<1> QED
  BY <1>3, <1>4, <1>5, <1>6 DEF Screens

\* Every button of every keyboard has a handler, and only the consent asks for it.
Handled(buttons) == buttons \subseteq DOMAIN Opens \ {"accept_legal_terms"}

LEMMA KeyboardIsHandled ==
  \A x \in PlainNames \union OfferNames \union {e[1] : e \in Extras} : Handled(Keyboard[x])
<1>1. \A x \in DOMAIN StartKeyboards : Handled(StartKeyboards[x])
  BY OpensIsWhole, OpensDomains DEF StartKeyboards, Handled, ROOT_BACK, MTPROXY_BACK, VPN_BACK
<1>2. \A x \in DOMAIN VpnKeyboards : Handled(VpnKeyboards[x])
  BY OpensIsWhole, OpensDomains DEF VpnKeyboards, Handled, ROOT_BACK, VPN_BACK
<1>3. \A x \in DOMAIN MtproxyKeyboards : Handled(MtproxyKeyboards[x])
  BY OpensIsWhole, OpensDomains
  DEF MtproxyKeyboards, Handled, ROOT_BACK, MTPROXY_BACK, MY_SERVERS
<1>4. \A x \in DOMAIN PaymentKeyboards : Handled(PaymentKeyboards[x])
  BY OpensIsWhole, OpensDomains DEF PaymentKeyboards, Handled, MTPROXY_BACK, VPN_BACK
<1>5. PlainNames \union OfferNames \union {e[1] : e \in Extras}
      \subseteq DOMAIN StartKeyboards \union DOMAIN VpnKeyboards \union DOMAIN MtproxyKeyboards
                \union DOMAIN PaymentKeyboards
  BY KeyboardDomains DEF PlainNames, OfferNames, Extras
<1> QED
  BY <1>1, <1>2, <1>3, <1>4, <1>5, KeyboardIsWhole

LEMMA ExtraIsHandled == \A e \in Extras : Handled({e[2]})
BY OpensIsWhole, OpensDomains DEF Extras, Handled, ROOT_BACK, MTPROXY_BACK, VPN_BACK, MY_SERVERS

LEMMA OfferIsHandled ==
  ASSUME NEW x \in OfferNames, NEW s \in Offers(x)
  PROVE  s.name = x /\ Handled(s.more)
<1>1. PICK active \in Catalogues : s = With(x, {PayButtons[x][m] : m \in active})
  BY DEF Offers
<1>2. \A m \in Methods : Handled({PayButtons[x][m]})
  BY OpensIsWhole, OpensDomains DEF Methods, PayButtons, OfferNames, Handled
<1>3. s.more = {PayButtons[x][m] : m \in active} /\ s.name = x /\ active \subseteq Methods
  BY <1>1, CataloguesAssumption DEF With
<1> QED
  BY <1>2, <1>3 DEF Handled

LEMMA ButtonsOfKeyboard ==
  ASSUME NEW x \in PlainNames \union OfferNames \union {e[1] : e \in Extras}, NEW more, NEW s,
         s.name = x, s.more = more
  PROVE  Buttons(s) = Keyboard[x] \union more
<1>1. x # "legal_consent" /\ x # "none"
  BY DEF PlainNames, OfferNames, Extras
<1> QED
  BY <1>1 DEF Buttons

\* Telling a screen by its buttons.
LEMMA ScreenButtons ==
  ASSUME NEW s, Known(s)
  PROVE  /\ Buttons(s) \subseteq DOMAIN Opens
         /\ "accept_legal_terms" \in Buttons(s) =>
              \E r \in Inviters \union {NoOne} : s = legal_consent(r)
<1> DEFINE Goal == /\ Buttons(s) \subseteq DOMAIN Opens
                   /\ "accept_legal_terms" \in Buttons(s) =>
                        \E r \in Inviters \union {NoOne} : s = legal_consent(r)
<1>1. ASSUME NEW x \in PlainNames \union OfferNames \union {e[1] : e \in Extras},
             s.name = x, Handled(s.more)
      PROVE  Goal
  BY <1>1, ButtonsOfKeyboard, KeyboardIsHandled DEF Handled
<1>2. CASE s = NoScreen
  BY <1>2 DEF NoScreen, Screen, With, Buttons
<1>3. CASE \E x \in PlainNames : s = Screen(x)
  <2>1. PICK x \in PlainNames : s = Screen(x)
    BY <1>3
  <2>2. s.name = x /\ Handled(s.more)
    BY <2>1 DEF Screen, With, Handled
  <2> QED
    BY <1>1, <2>2
<1>4. CASE \E e \in Extras : s = With(e[1], {e[2]})
  <2>1. PICK e \in Extras : s = With(e[1], {e[2]})
    BY <1>4
  <2>2. s.name = e[1] /\ s.more = {e[2]}
    BY <2>1 DEF With
  <2> QED
    BY <1>1, <2>2, ExtraIsHandled
<1>5. CASE \E x \in OfferNames : s \in Offers(x)
  BY <1>1, <1>5, OfferIsHandled
<1>6. CASE \E r \in Inviters \union {NoOne} : s = legal_consent(r)
  <2>1. Buttons(s) = {"accept_legal_terms"}
    BY <1>6 DEF legal_consent, With, Buttons
  <2> QED
    BY <1>6, <2>1, OpensIsWhole, OpensDomains
<1> QED
  BY <1>2, <1>3, <1>4, <1>5, <1>6 DEF Known

\* The recursion is six steps long, so its function can be written down.
LEMMA WaysHomeUnfolds ==
  /\ WaysHome[0] = {Screen("product_menu")}
  /\ \A n \in 1..5 : WaysHome[n] = Nearer(WaysHome[n - 1])
<1> DEFINE body(g) == [n \in 0..5 |-> IF n = 0 THEN {Screen("product_menu")} ELSE Nearer(g[n - 1])]
<1>1. PICK h0 : h0 = {Screen("product_menu")}
  OBVIOUS
<1>2. PICK h1, h2, h3, h4, h5 : /\ h1 = Nearer(h0) /\ h2 = Nearer(h1) /\ h3 = Nearer(h2)
                                /\ h4 = Nearer(h3) /\ h5 = Nearer(h4)
  OBVIOUS
<1>3. PICK w : w = [n \in 0..5 |-> IF n = 0 THEN h0 ELSE IF n = 1 THEN h1 ELSE IF n = 2 THEN h2
                                   ELSE IF n = 3 THEN h3 ELSE IF n = 4 THEN h4 ELSE h5]
  OBVIOUS
<1>4. \A n \in 0..5 : w[n] = IF n = 0 THEN h0 ELSE Nearer(w[n - 1])
  <2>1. /\ w[0] = h0 /\ w[1] = h1 /\ w[2] = h2 /\ w[3] = h3 /\ w[4] = h4 /\ w[5] = h5
    BY <1>3
  <2>2. w[1] = Nearer(w[0]) /\ w[2] = Nearer(w[1]) /\ w[3] = Nearer(w[2])
        /\ w[4] = Nearer(w[3]) /\ w[5] = Nearer(w[4])
    BY <1>2, <2>1
  <2>3. \A n \in 0..5 : n = 0 \/ n = 1 \/ n = 2 \/ n = 3 \/ n = 4 \/ n = 5
    OBVIOUS
  <2> SUFFICES ASSUME NEW n \in 0..5
               PROVE  w[n] = IF n = 0 THEN h0 ELSE Nearer(w[n - 1])
    OBVIOUS
  <2>4. CASE n = 0
    BY <2>1, <2>4
  <2>5. CASE n = 1
    BY <2>2, <2>5
  <2>6. CASE n = 2
    BY <2>2, <2>6
  <2>7. CASE n = 3
    BY <2>2, <2>7
  <2>8. CASE n = 4
    BY <2>2, <2>8
  <2>9. CASE n = 5
    BY <2>2, <2>9
  <2> QED
    BY <2>3, <2>4, <2>5, <2>6, <2>7, <2>8, <2>9
<1>5. w = body(w)
  BY <1>1, <1>3, <1>4
<1>6. WaysHome = CHOOSE g : g = body(g)
  BY DEF WaysHome
<1> HIDE DEF body
<1>7. WaysHome = body(WaysHome)
  BY <1>5, <1>6
<1> QED
  BY <1>7 DEF body

LEMMA OneNearer ==
  ASSUME NEW n \in 0..4, NEW s \in Screens, NEW b \in Buttons(s) \intersect DOMAIN Opens,
         NEW t \in Opens[b], t \in WaysHome[n]
  PROVE  s \in WaysHome[n + 1]
<1>1. WaysHome[n + 1] = Nearer(WaysHome[n])
  <2>1. n + 1 \in 1..5 /\ (n + 1) - 1 = n
    OBVIOUS
  <2> QED
    BY <2>1, WaysHomeUnfolds
<1>2. t \in LeadsTo(s)
  BY DEF LeadsTo
<1> QED
  BY <1>1, <1>2 DEF Nearer

LEMMA HomeStaysNear == WaysHome[0] \subseteq WaysHome[1] /\ WaysHome[1] \subseteq WaysHome[2]
                       /\ WaysHome[2] \subseteq WaysHome[3] /\ WaysHome[3] \subseteq WaysHome[4]
                       /\ WaysHome[4] \subseteq WaysHome[5]
<1>1. \A n \in 1..5 : WaysHome[n - 1] \subseteq WaysHome[n]
  BY WaysHomeUnfolds DEF Nearer
<1>2. 1 - 1 = 0 /\ 2 - 1 = 1 /\ 3 - 1 = 2 /\ 4 - 1 = 3 /\ 5 - 1 = 4
      /\ 1 \in 1..5 /\ 2 \in 1..5 /\ 3 \in 1..5 /\ 4 \in 1..5 /\ 5 \in 1..5
  OBVIOUS
<1>3. /\ WaysHome[1 - 1] \subseteq WaysHome[1] /\ WaysHome[2 - 1] \subseteq WaysHome[2]
      /\ WaysHome[3 - 1] \subseteq WaysHome[3] /\ WaysHome[4 - 1] \subseteq WaysHome[4]
      /\ WaysHome[5 - 1] \subseteq WaysHome[5]
  BY <1>1, <1>2
<1> QED
  BY <1>2, <1>3

\* Screens that buttons open are screens of the chat.
LEMMA OpenedIsScreen == \A b \in DOMAIN Opens : Opens[b] \subseteq Screens
<1> SUFFICES ASSUME NEW b \in DOMAIN Opens, NEW s \in Opens[b]
             PROVE  s \in Screens
  OBVIOUS
<1>1. Opens[b] \in {Opens[i] : i \in DOMAIN Opens} \union {Typed[i] : i \in DOMAIN Typed}
  OBVIOUS
<1> QED
  BY <1>1 DEF Screens

LEMMA TypedIsScreen == \A b \in DOMAIN Typed : Typed[b] \subseteq Screens
<1> SUFFICES ASSUME NEW b \in DOMAIN Typed, NEW s \in Typed[b]
             PROVE  s \in Screens
  OBVIOUS
<1>1. Typed[b] \in {Opens[i] : i \in DOMAIN Opens} \union {Typed[i] : i \in DOMAIN Typed}
  OBVIOUS
<1> QED
  BY <1>1 DEF Screens

\* What the buttons open that lead home.
LEMMA WhatOpens ==
  /\ Screen("product_menu") \in Opens[ROOT_BACK]
  /\ Screen("product_menu") \in Opens["accept_legal_terms"]
  /\ With("mtproxy_menu", {"boost_free"}) \in Opens[MTPROXY_BACK]
  /\ Screen("vpn_menu") \in Opens[VPN_BACK]
  /\ Screen("referral_cabinet") \in Opens["referral"]
  /\ Screen("apples_status") \in Opens["apples_status"]
  /\ Screen("apples_redemption_done") \in Opens["apples_confirm"]
  /\ Screen("vpn_subscription") \in Opens["vpn_subscription"]
  /\ Screen("my_servers") \in Opens[MY_SERVERS]
  /\ Opens["vpn"] = Offers("vpn_payment_methods")
  /\ Opens["boost_paid"] = Offers("payment_methods")
  /\ Screen("confirm_reissue") \in Opens["update_link"]
  /\ {ROOT_BACK, "accept_legal_terms", MTPROXY_BACK, VPN_BACK, "referral", "apples_status",
      "apples_confirm", "vpn_subscription", MY_SERVERS, "vpn", "boost_paid", "update_link"}
     \subseteq DOMAIN Opens
<1> USE OpensIsWhole, OpensDomains DEF ROOT_BACK, MTPROXY_BACK, VPN_BACK, MY_SERVERS
<1>1. /\ Screen("product_menu") \in Opens[ROOT_BACK]
      /\ Screen("product_menu") \in Opens["accept_legal_terms"]
      /\ With("mtproxy_menu", {"boost_free"}) \in Opens[MTPROXY_BACK]
  <2>1. /\ StartScreens[ROOT_BACK] = {Screen("product_menu")}
        /\ StartScreens["accept_legal_terms"] = {Screen("product_menu")}
        /\ StartScreens[MTPROXY_BACK] =
             {With("mtproxy_menu", {b}) : b \in {"boost_free", "boost_paid"}}
    BY DEF StartScreens
  <2>2. {ROOT_BACK, "accept_legal_terms", MTPROXY_BACK} \subseteq DOMAIN StartScreens
    OBVIOUS
  <2> QED
    BY <2>1, <2>2
<1>2. Screen("vpn_menu") \in Opens[VPN_BACK] /\ Opens["vpn"] = Offers("vpn_payment_methods")
      /\ Screen("vpn_subscription") \in Opens["vpn_subscription"]
  BY DEF VpnScreens, Subscription
<1>3. Screen("referral_cabinet") \in Opens["referral"]
  BY DEF OtherScreens
<1>4. Screen("apples_status") \in Opens["apples_status"]
      /\ Screen("apples_redemption_done") \in Opens["apples_confirm"]
  BY DEF ApplesScreens
<1>5. Screen("my_servers") \in Opens[MY_SERVERS] /\ Screen("confirm_reissue") \in Opens["update_link"]
  BY DEF LinksScreens
<1>6. Opens["boost_paid"] = Offers("payment_methods")
  BY DEF PaymentScreens
<1> QED
  BY <1>1, <1>2, <1>3, <1>4, <1>5, <1>6

\* The ways back that the keyboards of these screens hold.
LEMMA WaysBack ==
  /\ ROOT_BACK \in Buttons(With("mtproxy_menu", {"boost_free"}))
  /\ ROOT_BACK \in Buttons(Screen("vpn_menu"))
  /\ ROOT_BACK \in Buttons(Screen("referral_cabinet"))
  /\ MTPROXY_BACK \in Buttons(Screen("apples_status"))
  /\ MTPROXY_BACK \in Buttons(Screen("apples_redemption_done"))
  /\ MTPROXY_BACK \in Buttons(Screen("my_servers"))
  /\ VPN_BACK \in Buttons(Screen("vpn_subscription"))
  /\ MY_SERVERS \in Buttons(Screen("confirm_reissue"))
  /\ \A s \in Offers("vpn_payment_methods") : VPN_BACK \in Buttons(s)
  /\ \A s \in Offers("payment_methods") : MTPROXY_BACK \in Buttons(s)
<1> USE KeyboardIsWhole, KeyboardDomains
<1>1. /\ ROOT_BACK \in Keyboard["mtproxy_menu"]
      /\ MTPROXY_BACK \in Keyboard["apples_status"]
      /\ MTPROXY_BACK \in Keyboard["apples_redemption_done"]
      /\ MTPROXY_BACK \in Keyboard["my_servers"]
      /\ MY_SERVERS \in Keyboard["confirm_reissue"]
  BY DEF MtproxyKeyboards
<1>2. ROOT_BACK \in Keyboard["vpn_menu"] /\ VPN_BACK \in Keyboard["vpn_subscription"]
  BY DEF VpnKeyboards
<1>3. ROOT_BACK \in Keyboard["referral_cabinet"]
  BY DEF StartKeyboards
<1>4. VPN_BACK \in Keyboard["vpn_payment_methods"] /\ MTPROXY_BACK \in Keyboard["payment_methods"]
  BY DEF PaymentKeyboards
<1> QED
  BY <1>1, <1>2, <1>3, <1>4 DEF Screen, With, Buttons, Offers

Steps(n) ==
  CASE n = 1 -> {ROOT_BACK, "accept_legal_terms"}
    [] n = 2 -> {MTPROXY_BACK, VPN_BACK, "referral"}
    [] n = 3 -> {"apples_status", "apples_confirm", "vpn_subscription", MY_SERVERS, "vpn",
                 "boost_paid"}
    [] n = 4 -> {"update_link"}

LEMMA Homewards ==
  \A n \in 1..4 : \A s \in Screens : Buttons(s) \intersect Steps(n) # {} => s \in WaysHome[n]
<1>1. ASSUME NEW n \in 1..4,
             \A b \in Steps(n) : b \in DOMAIN Opens /\ \E t \in Opens[b] : t \in WaysHome[n - 1]
      PROVE  \A s \in Screens : Buttons(s) \intersect Steps(n) # {} => s \in WaysHome[n]
  <2> SUFFICES ASSUME NEW s \in Screens, NEW b \in Buttons(s) \intersect Steps(n)
               PROVE  s \in WaysHome[n]
    OBVIOUS
  <2>1. PICK t \in Opens[b] : t \in WaysHome[n - 1]
    BY <1>1
  <2>2. n - 1 \in 0..4 /\ (n - 1) + 1 = n
    OBVIOUS
  <2>3. s \in WaysHome[(n - 1) + 1]
    BY <1>1, <2>1, <2>2, OneNearer
  <2> QED
    BY <2>2, <2>3
<1>2. \A s \in Screens : Buttons(s) \intersect Steps(1) # {} => s \in WaysHome[1]
  <2>1. \A b \in Steps(1) : b \in DOMAIN Opens /\ \E t \in Opens[b] : t \in WaysHome[1 - 1]
    BY WhatOpens, WaysHomeUnfolds DEF Steps
  <2> QED
    BY <1>1, <2>1
<1>3. /\ With("mtproxy_menu", {"boost_free"}) \in WaysHome[1]
      /\ Screen("vpn_menu") \in WaysHome[1] /\ Screen("referral_cabinet") \in WaysHome[1]
  <2>1. /\ With("mtproxy_menu", {"boost_free"}) \in Screens
        /\ Screen("vpn_menu") \in Screens /\ Screen("referral_cabinet") \in Screens
    BY WhatOpens, OpenedIsScreen
  <2>2. ROOT_BACK \in Steps(1)
    BY DEF Steps
  <2> QED
    BY <1>2, <2>1, <2>2, WaysBack
<1>4. \A s \in Screens : Buttons(s) \intersect Steps(2) # {} => s \in WaysHome[2]
  <2>1. \A b \in Steps(2) : b \in DOMAIN Opens /\ \E t \in Opens[b] : t \in WaysHome[2 - 1]
    BY <1>3, WhatOpens DEF Steps
  <2> QED
    BY <1>1, <2>1
<1>5. /\ Screen("apples_status") \in WaysHome[2] /\ Screen("apples_redemption_done") \in WaysHome[2]
      /\ Screen("vpn_subscription") \in WaysHome[2] /\ Screen("my_servers") \in WaysHome[2]
      /\ Offers("vpn_payment_methods") \subseteq WaysHome[2]
      /\ Offers("payment_methods") \subseteq WaysHome[2]
  <2>1. /\ Screen("apples_status") \in Screens /\ Screen("apples_redemption_done") \in Screens
        /\ Screen("vpn_subscription") \in Screens /\ Screen("my_servers") \in Screens
        /\ Offers("vpn_payment_methods") \subseteq Screens
        /\ Offers("payment_methods") \subseteq Screens
    BY WhatOpens, OpenedIsScreen
  <2>2. MTPROXY_BACK \in Steps(2) /\ VPN_BACK \in Steps(2)
    BY DEF Steps
  <2> QED
    BY <1>4, <2>1, <2>2, WaysBack
<1>6. \A s \in Screens : Buttons(s) \intersect Steps(3) # {} => s \in WaysHome[3]
  <2>1. \A x : Offers(x) # {}
    BY CataloguesAssumption DEF Offers
  <2>2. \A b \in Steps(3) : b \in DOMAIN Opens /\ \E t \in Opens[b] : t \in WaysHome[3 - 1]
    BY <1>5, <2>1, WhatOpens DEF Steps
  <2> QED
    BY <1>1, <2>2
<1>7. Screen("confirm_reissue") \in WaysHome[3]
  <2>1. Screen("confirm_reissue") \in Screens
    BY WhatOpens, OpenedIsScreen
  <2>2. MY_SERVERS \in Steps(3)
    BY DEF Steps
  <2> QED
    BY <1>6, <2>1, <2>2, WaysBack
<1>8. \A s \in Screens : Buttons(s) \intersect Steps(4) # {} => s \in WaysHome[4]
  <2>1. \A b \in Steps(4) : b \in DOMAIN Opens /\ \E t \in Opens[b] : t \in WaysHome[4 - 1]
    BY <1>7, WhatOpens DEF Steps
  <2> QED
    BY <1>1, <2>1
<1>9. \A n \in 1..4 : n = 1 \/ n = 2 \/ n = 3 \/ n = 4
  OBVIOUS
<1> QED
  BY <1>2, <1>4, <1>6, <1>8, <1>9

\* Every known screen but a deleted one and the error notice holds a way back.
LEMMA KnownLeadsHome ==
  ASSUME NEW s \in Screens, Known(s), s # NoScreen, s # Screen("reissue_error_notification")
  PROVE  s \in WaysHome[5]
<1> DEFINE Back == Steps(1) \union Steps(2) \union Steps(3) \union Steps(4)
<1>1. ASSUME Buttons(s) \intersect Back # {} PROVE s \in WaysHome[5]
  <2>1. PICK n \in 1..4 : Buttons(s) \intersect Steps(n) # {}
    BY <1>1
  <2>2. s \in WaysHome[n] /\ (n = 1 \/ n = 2 \/ n = 3 \/ n = 4)
    BY <2>1, Homewards
  <2> QED
    BY <2>2, HomeStaysNear
<1>2. {ROOT_BACK, "accept_legal_terms", MTPROXY_BACK, VPN_BACK, "referral", "apples_status",
       "apples_confirm", "vpn_subscription", MY_SERVERS, "vpn", "boost_paid", "update_link"}
      \subseteq Back
  BY DEF Steps
<1> HIDE DEF Back
<1>3. \A x \in PlainNames \ {"reissue_error_notification"} : Keyboard[x] \intersect Back # {}
  BY <1>2, KeyboardIsWhole, KeyboardDomains
  DEF PlainNames, StartKeyboards, VpnKeyboards, MtproxyKeyboards
<1>4. \A x \in OfferNames : Keyboard[x] \intersect Back # {}
  BY <1>2, KeyboardIsWhole, KeyboardDomains DEF OfferNames, PaymentKeyboards
<1>5. \A e \in Extras : e[2] \in Back \/ Keyboard[e[1]] \intersect Back # {}
  <2>1. Keyboard["mtproxy_menu"] \intersect Back # {}
    BY <1>2, KeyboardIsWhole, KeyboardDomains DEF MtproxyKeyboards
  <2> QED
    BY <1>2, <2>1 DEF Extras
<1>6. CASE \E x \in PlainNames : s = Screen(x)
  <2>1. PICK x \in PlainNames \ {"reissue_error_notification"} : s = Screen(x)
    BY <1>6
  <2>2. Buttons(s) = Keyboard[x]
    BY <2>1 DEF Buttons, Screen, With, PlainNames
  <2> QED
    BY <1>1, <1>3, <2>2
<1>7. CASE \E e \in Extras : s = With(e[1], {e[2]})
  <2>1. PICK e \in Extras : s = With(e[1], {e[2]})
    BY <1>7
  <2>2. s.name = e[1] /\ s.more = {e[2]}
    BY <2>1 DEF With
  <2>3. Buttons(s) = Keyboard[e[1]] \union {e[2]}
    BY <2>2, ButtonsOfKeyboard
  <2> QED
    BY <1>1, <1>5, <2>3
<1>8. CASE \E x \in OfferNames : s \in Offers(x)
  <2>1. PICK x \in OfferNames : s \in Offers(x)
    BY <1>8
  <2>2. Buttons(s) = Keyboard[x] \union s.more
    BY <2>1, OfferIsHandled, ButtonsOfKeyboard
  <2> QED
    BY <1>1, <1>4, <2>1, <2>2
<1>9. CASE \E r \in Inviters \union {NoOne} : s = legal_consent(r)
  <2>1. Buttons(s) = {"accept_legal_terms"}
    BY <1>9 DEF legal_consent, With, Buttons
  <2> QED
    BY <1>1, <1>2, <2>1
<1> QED
  BY <1>6, <1>7, <1>8, <1>9 DEF Known

-------------------------------------------------------------------------------
(* Types.                                                                   *)

Updates == DOMAIN Opens \union DOMAIN Typed
Refs == Inviters \union {NoOne}
WorkRows == [step : {"idle", "call", "show"}, msg : Msgs \union {NoMsg}, update : Updates,
             ref : Refs, calls : 0..2, screen : Screens]
ChargeRows == [step : {"none", "checkout", "paid", "call", "answer", "done", "lost"},
               payload : Payloads, got : Products \union {"none"},
               told : {"none", "bought", "support"}]

AccountTypes == /\ user \in [row : BOOLEAN, accepted : BOOLEAN, inviter : Refs]
                /\ agreements \subseteq Refs
ChatTypes == chat \in [Msgs -> Screens]
WorkTypes == work \in [Handlers -> WorkRows]
ChargeTypes == invoices \subseteq Payloads /\ charge \in [Charges -> ChargeRows]
ProcessTypes == up \in BOOLEAN /\ faults \in 0..MaxFaults

LEMMA DialogueTypes ==
  TypeOK <=> AccountTypes /\ ChatTypes /\ WorkTypes /\ ChargeTypes /\ ProcessTypes
BY DEF TypeOK, AccountTypes, ChatTypes, WorkTypes, ChargeTypes, ProcessTypes, Updates, Refs,
       WorkRows, ChargeRows

LEMMA SomeScreens ==
  /\ NoScreen \in Screens /\ Screen("reissue_error_notification") \in Screens
  /\ Screen("vpn_purchased") \in Screens /\ Screen("key_generated") \in Screens
  /\ \A r \in Refs : legal_consent(r) \in Screens
  /\ \A b \in NotificationButtons : With("notification", {b}) \in Screens
<1>1. Screen("key_generated") \in Screens
  <2>1. "code" \in DOMAIN Typed /\ Screen("key_generated") \in Typed["code"]
    BY DEF Typed
  <2> QED
    BY <2>1, TypedIsScreen
<1> QED
  BY <1>1 DEF Screens, Refs

\* A handler that calls nothing has one screen to show.
LEMMA ShownAtOnce ==
  ASSUME NEW b \in Updates, Calls(b) = 0
  PROVE  (CHOOSE s \in Result(b) : TRUE) \in Screens
<1>1. b \in {"show_start_screen", "info", "show_vpn_menu", "update_link",
             "dismiss_error_notification"}
  BY DEF Calls
<1>2. b \in DOMAIN Opens /\ Opens[b] # {}
  <2>1. CASE b \in {"show_start_screen", "info"}
    BY <2>1, OpensIsWhole, OpensDomains DEF StartScreens
  <2>2. CASE b = "show_vpn_menu"
    BY <2>2, OpensIsWhole, OpensDomains DEF VpnScreens
  <2>3. CASE b = "update_link"
    BY <2>3, OpensIsWhole, OpensDomains DEF LinksScreens
  <2>4. CASE b = "dismiss_error_notification"
    BY <2>4, OpensIsWhole, OpensDomains DEF OtherScreens
  <2> QED
    BY <1>1, <2>1, <2>2, <2>3, <2>4
<1>3. Result(b) = Opens[b] /\ Opens[b] \subseteq Screens
  BY <1>2, OpenedIsScreen DEF Result
<1> QED
  BY <1>2, <1>3

LEMMA ResultIsScreen == \A b \in Updates : Result(b) \subseteq Screens
BY OpenedIsScreen, TypedIsScreen DEF Result, Updates

LEMMA TypesInit == Init => TypeOK
<1> SUFFICES ASSUME Init PROVE TypeOK
  OBVIOUS
<1>1. NoWork \in WorkRows
  <2>1. "start" \in Updates
    BY DEF Updates, Typed
  <2> QED
    BY <2>1, SomeScreens DEF NoWork, WorkRows, Refs
<1>2. NoCharge \in ChargeRows
  BY DEF NoCharge, ChargeRows, Payloads
<1>3. AccountTypes
  <2>1. CASE user = [row |-> FALSE, accepted |-> FALSE, inviter |-> NoOne] /\ agreements = {}
    BY <2>1 DEF AccountTypes, Refs
  <2>2. CASE user = [row |-> TRUE, accepted |-> TRUE, inviter |-> NoOne] /\ agreements = {NoOne}
    BY <2>2 DEF AccountTypes, Refs
  <2> QED
    BY <2>1, <2>2 DEF Init
<1>4. ChatTypes /\ WorkTypes /\ ChargeTypes
  BY <1>1, <1>2, SomeScreens DEF Init, ChatTypes, WorkTypes, ChargeTypes
<1>5. ProcessTypes
  BY FaultsAssumption DEF Init, ProcessTypes
<1> QED
  BY <1>3, <1>4, <1>5, DialogueTypes

\* A pressed button or a typed text becomes work.
LEMMA TypesByUpdate ==
  ASSUME TypeOK, NEW h \in Handlers, (\E m \in Msgs : Press(h, m)) \/ Type(h)
  PROVE  TypeOK'
<1>1. PICK m \in Msgs \union {NoMsg}, update \in Updates, ref \in Refs : Begin(h, m, update, ref)
  <2>1. CASE \E m \in Msgs : Press(h, m)
    <3>1. PICK m \in Msgs : Press(h, m)
      BY <2>1
    <3>2. PICK b \in Buttons(chat[m]) \intersect DOMAIN Opens :
            Begin(h, m, b, IF b = "accept_legal_terms" THEN CHOOSE r \in chat[m].more : TRUE
                           ELSE NoOne)
      BY <3>1 DEF Press
    <3>3. CASE b = "accept_legal_terms"
      <4>1. Known(chat[m])
        BY ScreensAreKnown, DialogueTypes DEF ChatTypes
      <4>2. PICK r \in Refs : chat[m] = legal_consent(r)
        BY <3>2, <3>3, <4>1, ScreenButtons DEF Refs
      <4>3. chat[m].more = {r}
        BY <4>2 DEF legal_consent, With
      <4>4. (CHOOSE i \in chat[m].more : TRUE) = r
        BY <4>3
      <4> QED
        BY <3>2, <3>3, <4>4 DEF Updates
    <3>4. CASE b # "accept_legal_terms"
      BY <3>2, <3>4 DEF Updates, Refs
    <3> QED
      BY <3>3, <3>4
  <2>2. CASE Type(h)
    BY <2>2 DEF Type, Updates, Refs
  <2> QED
    BY <2>1, <2>2
<1> DEFINE new == [step |-> IF Calls(update) = 0 THEN "show" ELSE "call", msg |-> m,
                   update |-> update, ref |-> ref, calls |-> Calls(update), screen |-> NoScreen]
<1>2. new \in WorkRows
  <2>1. Calls(update) \in 0..2
    BY DEF Calls
  <2> QED
    BY <2>1, SomeScreens DEF WorkRows
<1>3. /\ work' = [work EXCEPT ![h] = new]
      /\ UNCHANGED <<user, agreements, chat, invoices, charge, up, faults>>
  BY <1>1 DEF Begin, accountVars, paymentVars, processVars
<1> HIDE DEF new
<1>4. WorkTypes'
  BY <1>2, <1>3, DialogueTypes DEF WorkTypes
<1> QED
  BY <1>3, <1>4 DEF TypeOK, WorkTypes, Updates, Refs, WorkRows

LEMMA FinishKeepsTypes ==
  ASSUME TypeOK, NEW h \in Handlers, Finish(h)
  PROVE  WorkTypes'
<1>1. NoWork \in WorkRows
  <2>1. "start" \in Updates
    BY DEF Updates, Typed
  <2> QED
    BY <2>1, SomeScreens DEF NoWork, WorkRows, Refs
<1> QED
  BY <1>1, DialogueTypes DEF Finish, WorkTypes

LEMMA EffectKeepsTypes ==
  ASSUME TypeOK, NEW update, NEW ref \in Refs, Effect(update, ref) \/ NoAccountChange
  PROVE  AccountTypes'
<1>1. user \in [row : BOOLEAN, accepted : BOOLEAN, inviter : Refs] /\ agreements \subseteq Refs
  BY DialogueTypes DEF AccountTypes
<1>2. CASE NoAccountChange
  BY <1>1, <1>2 DEF NoAccountChange, accountVars, AccountTypes
<1>3. CASE AcceptConsent(ref)
  BY <1>1, <1>3 DEF AcceptConsent, AccountTypes
<1>4. CASE EnsureUser
  BY <1>1, <1>4 DEF EnsureUser, AccountTypes
<1> QED
  BY <1>2, <1>3, <1>4 DEF Effect

\* An answered call goes on, or has a screen to show.
LEMMA TypesByAnswer ==
  ASSUME TypeOK, NEW h \in Handlers, CallAnswered(h)
  PROVE  TypeOK'
<1>1. PICK w : w = work[h]
  OBVIOUS
<1>2. work \in [Handlers -> WorkRows] /\ w \in WorkRows /\ w.update \in Updates /\ w.ref \in Refs
  BY <1>1, DialogueTypes DEF WorkTypes, WorkRows
<1>3. Effect(w.update, w.ref) /\ UNCHANGED <<chat, invoices, charge, up, faults>>
  BY <1>1 DEF CallAnswered, HandlerFrame, processVars
<1>4. PICK new \in WorkRows : work' = [work EXCEPT ![h] = new]
  <2>1. CASE work' = [work EXCEPT ![h].calls = 1]
    <3>1. work' = [work EXCEPT ![h] = [w EXCEPT !.calls = 1]]
      BY <1>1, <2>1
    <3>2. [w EXCEPT !.calls = 1] \in WorkRows
      BY <1>2 DEF WorkRows
    <3> QED
      BY <3>1, <3>2
  <2>2. ASSUME NEW s \in Screens,
               work' = [work EXCEPT ![h] = [w EXCEPT !.step = "show", !.screen = s]]
        PROVE  \E new \in WorkRows : work' = [work EXCEPT ![h] = new]
    <3>1. [w EXCEPT !.step = "show", !.screen = s] \in WorkRows
      BY <1>2 DEF WorkRows
    <3> QED
      BY <2>2, <3>1
  <2>3. \/ work' = [work EXCEPT ![h].calls = 1]
        \/ \E s \in Screens : work' = [work EXCEPT ![h] = [w EXCEPT !.step = "show", !.screen = s]]
    <3>1. legal_consent(w.ref) \in Screens /\ Result(w.update) \subseteq Screens
      BY <1>2, SomeScreens, ResultIsScreen
    <3> QED
      BY <1>1, <3>1 DEF CallAnswered
  <2> QED
    BY <2>1, <2>2, <2>3
<1>5. WorkTypes'
  BY <1>2, <1>4 DEF WorkTypes
<1>6. AccountTypes'
  BY <1>2, <1>3, EffectKeepsTypes
<1> QED
  BY <1>3, <1>5, <1>6 DEF TypeOK, AccountTypes, WorkTypes, Updates, Refs, WorkRows

\* The other ends of a handler: an invoice, an error text, a screen.
LEMMA TypesByHandler ==
  ASSUME TypeOK, NEW h \in Handlers, SendInvoice(h) \/ CallFails(h) \/ Show(h)
  PROVE  TypeOK'
<1>1. PICK w : w = work[h]
  OBVIOUS
<1>2. /\ w.update \in Updates /\ w.ref \in Refs /\ w.screen \in Screens
      /\ chat \in [Msgs -> Screens] /\ invoices \subseteq Payloads
  BY <1>1, DialogueTypes DEF WorkTypes, WorkRows, ChatTypes, ChargeTypes
<1>3. UNCHANGED <<charge, up, faults>> /\ Finish(h)
  BY DEF SendInvoice, CallFails, Show, HandlerFrame, processVars
<1>4. WorkTypes'
  BY <1>3, FinishKeepsTypes
<1>5. AccountTypes'
  <2>1. Effect(w.update, w.ref) \/ NoAccountChange
    BY <1>1 DEF SendInvoice, CallFails, Show, NoAccountChange, accountVars
  <2> QED
    BY <1>2, <2>1, EffectKeepsTypes
<1>6. ChatTypes'
  <2>1. CASE chat' = chat
    BY <1>2, <2>1 DEF ChatTypes
  <2>2. CASE \E m \in Msgs, s \in Screens : chat' = [chat EXCEPT ![m] = s]
    BY <1>2, <2>2 DEF ChatTypes
  <2>3. CASE CallFails(h)
    BY <2>1, <2>2, <2>3, SomeScreens DEF CallFails
  <2>4. CASE Show(h)
    <3>1. PICK s : s = IF Calls(w.update) = 0 THEN CHOOSE i \in Result(w.update) : TRUE ELSE w.screen
      OBVIOUS
    <3>2. s \in Screens
      BY <1>2, <3>1, ShownAtOnce
    <3>3. \E m \in Msgs : chat' = [chat EXCEPT ![m] = s]
      BY <1>1, <2>4, <3>1 DEF Show
    <3> QED
      BY <2>2, <3>2, <3>3
  <2> QED
    BY <2>1, <2>3, <2>4 DEF SendInvoice
<1>7. invoices' \subseteq Payloads
  BY <1>1, <1>2 DEF SendInvoice, CallFails, Show, PayloadOf, Payloads
<1> QED
  BY <1>3, <1>4, <1>5, <1>6, <1>7
  DEF TypeOK, AccountTypes, ChatTypes, WorkTypes, Updates, Refs, WorkRows

-------------------------------------------------------------------------------
(* Receipts.                                                                *)

\* Nothing is granted before the purchase is confirmed; a receipt waits for a grant.
Honest(k) == /\ k.step \in {"none", "checkout", "paid", "call"} => k.got = "none" /\ k.told = "none"
             /\ k.step = "answer" => k.got = SoldBy[k.payload]
             /\ k.got \in {"none", SoldBy[k.payload]}
             /\ k.told = "bought" => k.got # "none"

LEMMA ConfirmedIsSold ==
  \A p \in Payloads : ConfirmedAs(p) = SoldBy[p] /\ ConfirmedAs(p) \in Products /\ SoldBy[p] # "none"
BY DEF Payloads, ConfirmedAs, SoldBy, Products

\* What becomes of a charge.
LEMMA ChargeMoves ==
  ASSUME TypeOK, NEW c \in Charges,
         \/ Checkout(c) \/ AnswerPreCheckout(c) \/ CheckoutExpires(c)
         \/ PaymentStep(c) \/ AnswerFails(c)
  PROVE  \E new \in ChargeRows : /\ charge' = [charge EXCEPT ![c] = new]
                                 /\ Honest(charge[c]) => Honest(new)
<1>1. PICK k : k = charge[c]
  OBVIOUS
<1>2. charge \in [Charges -> ChargeRows] /\ k \in ChargeRows /\ invoices \subseteq Payloads
      /\ k.payload \in Payloads
  BY <1>1, DialogueTypes DEF ChargeTypes, ChargeRows
<1>3. CASE Checkout(c)
  <2>1. PICK p \in Payloads :
          charge' = [charge EXCEPT ![c].step = "checkout", ![c].payload = p]
    BY <1>2, <1>3 DEF Checkout
  <2>2. k.step = "none"
    BY <1>1, <1>3 DEF Checkout
  <2>3. charge' = [charge EXCEPT ![c] = [k EXCEPT !.step = "checkout", !.payload = p]]
    BY <1>1, <1>2, <2>1
  <2>4. [k EXCEPT !.step = "checkout", !.payload = p] \in ChargeRows
    BY <1>2 DEF ChargeRows
  <2>5. Honest(k) => Honest([k EXCEPT !.step = "checkout", !.payload = p])
    BY <1>2, <2>2 DEF ChargeRows, Honest
  <2> QED
    BY <1>1, <2>3, <2>4, <2>5
<1>4. ASSUME NEW s \in {"paid", "none", "call"}, ChargeGoto(c, s), k.step \in {"checkout", "paid"}
      PROVE  \E new \in ChargeRows : /\ charge' = [charge EXCEPT ![c] = new]
                                     /\ Honest(charge[c]) => Honest(new)
  <2>1. charge' = [charge EXCEPT ![c] = [k EXCEPT !.step = s]]
    BY <1>1, <1>4 DEF ChargeGoto
  <2>2. [k EXCEPT !.step = s] \in ChargeRows
    BY <1>2 DEF ChargeRows
  <2>3. Honest(k) => Honest([k EXCEPT !.step = s])
    BY <1>2, <1>4 DEF ChargeRows, Honest
  <2> QED
    BY <1>1, <2>1, <2>2, <2>3
<1>5. CASE AnswerPreCheckout(c) \/ CheckoutExpires(c) \/ TakeSuccessfulPayment(c)
  BY <1>1, <1>4, <1>5 DEF AnswerPreCheckout, CheckoutExpires, TakeSuccessfulPayment
<1>6. CASE ConfirmPurchase(c)
  <2>1. PICK g \in {"none", ConfirmedAs(k.payload)}, s \in {"answer", "done"},
             t \in {"none", "support", k.told} :
          /\ charge' = [charge EXCEPT ![c].step = s, ![c].got = g, ![c].told = t]
          /\ s = "answer" => g = ConfirmedAs(k.payload)
          /\ t # "bought" \/ t = k.told
    <3>1. CASE charge' = [charge EXCEPT ![c].step = "answer", ![c].got = ConfirmedAs(k.payload)]
      <4>1. charge' = [charge EXCEPT ![c] = [k EXCEPT !.step = "answer", !.got = ConfirmedAs(k.payload)]]
        BY <1>1, <1>2, <3>1
      <4>2. [k EXCEPT !.step = "answer", !.got = ConfirmedAs(k.payload)]
            = [k EXCEPT !.step = "answer", !.got = ConfirmedAs(k.payload), !.told = k.told]
        BY <1>2 DEF ChargeRows
      <4>3. charge' = [charge EXCEPT ![c].step = "answer", ![c].got = ConfirmedAs(k.payload),
                                     ![c].told = k.told]
        BY <1>1, <1>2, <4>1, <4>2
      <4> QED
        BY <4>3
    <3>2. CASE \E g \in {"none", ConfirmedAs(k.payload)} :
                 charge' = [charge EXCEPT ![c].step = "done", ![c].got = g, ![c].told = "support"]
      BY <3>2
    <3> QED
      BY <1>1, <1>6, <3>1, <3>2 DEF ConfirmPurchase
  <2>2. charge' = [charge EXCEPT ![c] = [k EXCEPT !.step = s, !.got = g, !.told = t]]
    BY <1>1, <1>2, <2>1
  <2>3. g \in Products \union {"none"} /\ g \in {"none", SoldBy[k.payload]}
    BY <1>2, <2>1, ConfirmedIsSold
  <2>4. t \in {"none", "support", "bought"} /\ k.step = "call"
    BY <1>1, <1>2, <1>6, <2>1 DEF ChargeRows, ConfirmPurchase
  <2>5. [k EXCEPT !.step = s, !.got = g, !.told = t] \in ChargeRows
    BY <1>2, <2>1, <2>3, <2>4 DEF ChargeRows
  <2>6. s = "answer" => g = SoldBy[k.payload]
    BY <1>2, <2>1, ConfirmedIsSold
  <2>7. Honest(k) => Honest([k EXCEPT !.step = s, !.got = g, !.told = t])
    BY <1>2, <2>1, <2>3, <2>4, <2>6 DEF ChargeRows, Honest
  <2> QED
    BY <1>1, <2>2, <2>5, <2>7
<1>7. CASE AnswerPurchase(c) \/ AnswerFails(c)
  <2>1. PICK t \in {"bought", "support"} :
          charge' = [charge EXCEPT ![c].step = "done", ![c].told = t]
    BY <1>7 DEF AnswerPurchase, AnswerFails
  <2>2. charge' = [charge EXCEPT ![c] = [k EXCEPT !.step = "done", !.told = t]]
    BY <1>1, <1>2, <2>1
  <2>3. [k EXCEPT !.step = "done", !.told = t] \in ChargeRows
    BY <1>2 DEF ChargeRows
  <2>4. k.step = "answer"
    BY <1>1, <1>7 DEF AnswerPurchase, AnswerFails
  <2>5. Honest(k) => Honest([k EXCEPT !.step = "done", !.told = t])
    BY <1>2, <2>4, ConfirmedIsSold DEF ChargeRows, Honest
  <2> QED
    BY <1>1, <2>2, <2>3, <2>5
<1> QED
  BY <1>3, <1>5, <1>6, <1>7 DEF PaymentStep

\* A restart loses charges, and changes nothing else about them.
LEMMA RestartLoses ==
  ASSUME TypeOK, Stop \/ Boot
  PROVE  /\ charge' \in [Charges -> ChargeRows]
         /\ \A c \in Charges : Honest(charge[c]) => Honest(charge'[c])
<1>1. charge \in [Charges -> ChargeRows]
  BY DialogueTypes DEF ChargeTypes
<1>2. ASSUME NEW c \in Charges
      PROVE  charge'[c] \in {charge[c], [charge[c] EXCEPT !.step = "lost"]}
  BY DEF Stop, Boot
<1>3. ASSUME NEW c \in Charges
      PROVE  charge'[c] \in ChargeRows /\ (Honest(charge[c]) => Honest(charge'[c]))
  <2>1. charge[c] \in ChargeRows
    BY <1>1
  <2>2. [charge[c] EXCEPT !.step = "lost"] \in ChargeRows
    BY <2>1 DEF ChargeRows
  <2>3. Honest(charge[c]) => Honest([charge[c] EXCEPT !.step = "lost"])
    BY <2>1 DEF ChargeRows, Honest
  <2> QED
    BY <1>2, <2>1, <2>2, <2>3
<1>4. charge' = [c \in Charges |-> charge'[c]]
  BY DEF Stop, Boot
<1> QED
  BY <1>3, <1>4

LEMMA TypesByCharge ==
  ASSUME TypeOK, NEW c \in Charges,
         \/ Checkout(c) \/ AnswerPreCheckout(c) \/ CheckoutExpires(c)
         \/ PaymentStep(c) \/ AnswerFails(c)
  PROVE  TypeOK'
<1> USE DEF PaymentStep
<1>1. UNCHANGED <<user, agreements, work, invoices>>
  BY DEF Checkout, AnswerPreCheckout, CheckoutExpires, TakeSuccessfulPayment, ConfirmPurchase,
         AnswerPurchase, AnswerFails, PaymentFrame, accountVars
<1>2. charge' \in [Charges -> ChargeRows]
  BY ChargeMoves, DialogueTypes DEF ChargeTypes
<1>3. chat' \in [Msgs -> Screens]
  <2>1. chat \in [Msgs -> Screens]
    BY DialogueTypes DEF ChatTypes
  <2>2. chat' = chat \/ \E m \in Msgs, s \in Screens : chat' = [chat EXCEPT ![m] = s]
    BY SomeScreens DEF Checkout, AnswerPreCheckout, CheckoutExpires, TakeSuccessfulPayment,
                       ConfirmPurchase, AnswerPurchase, AnswerFails
  <2> QED
    BY <2>1, <2>2
<1>4. ProcessTypes'
  <2>1. ProcessTypes /\ MaxFaults \in Nat
    BY DialogueTypes, FaultsAssumption
  <2>2. up' = up /\ (faults' = faults \/ (faults < MaxFaults /\ faults' = faults + 1))
    <3>1. CASE AnswerFails(c)
      BY <3>1 DEF AnswerFails, Fault
    <3>2. CASE UNCHANGED processVars
      BY <3>2 DEF processVars
    <3> QED
      BY <3>1, <3>2 DEF Checkout, AnswerPreCheckout, CheckoutExpires, TakeSuccessfulPayment,
                        ConfirmPurchase, AnswerPurchase
  <2> QED
    BY <2>1, <2>2 DEF ProcessTypes
<1> QED
  BY <1>1, <1>2, <1>3, <1>4 DEF TypeOK, ProcessTypes, ChargeRows

LEMMA TypesByProcess ==
  ASSUME TypeOK, Notify \/ Stop \/ Boot
  PROVE  TypeOK'
<1>1. UNCHANGED <<user, agreements, invoices>>
  BY DEF Notify, Stop, Boot, accountVars, paymentVars
<1>2. CASE Notify
  <2>1. UNCHANGED <<work, charge, up, faults>>
    BY <1>2 DEF Notify, paymentVars, processVars
  <2>2. chat' \in [Msgs -> Screens]
    <3>1. chat \in [Msgs -> Screens]
      BY DialogueTypes DEF ChatTypes
    <3>2. \E m \in Msgs, s \in Screens : chat' = [chat EXCEPT ![m] = s]
      BY <1>2, SomeScreens DEF Notify
    <3> QED
      BY <3>1, <3>2
  <2> QED
    BY <1>1, <2>1, <2>2 DEF TypeOK
<1>3. CASE Stop \/ Boot
  <2>1. chat' = chat /\ charge' \in [Charges -> ChargeRows]
    BY <1>3, RestartLoses DEF Stop, Boot
  <2>2. ProcessTypes'
    <3>1. ProcessTypes /\ MaxFaults \in Nat
      BY DialogueTypes, FaultsAssumption
    <3>2. up' \in BOOLEAN
      BY <1>3 DEF Stop, Boot
    <3>3. faults' = faults \/ (faults < MaxFaults /\ faults' = faults + 1)
      BY <1>3 DEF Stop, Boot, Fault
    <3> QED
      BY <1>3, <3>1, <3>2, <3>3 DEF ProcessTypes
  <2>3. WorkTypes'
    <3>1. NoWork \in WorkRows
      <4>1. "start" \in Updates
        BY DEF Updates, Typed
      <4> QED
        BY <4>1, SomeScreens DEF NoWork, WorkRows, Refs
    <3> QED
      BY <1>3, <3>1, DialogueTypes DEF WorkTypes, Stop, Boot
  <2> QED
    BY <1>1, <2>1, <2>2, <2>3
    DEF TypeOK, ProcessTypes, WorkTypes, ChargeRows, WorkRows, Updates, Refs
<1> QED
  BY <1>2, <1>3

LEMMA TypesStep == TypeOK /\ [Next]_vars => TypeOK'
<1> SUFFICES ASSUME TypeOK, [Next]_vars PROVE TypeOK'
  OBVIOUS
<1>1. CASE \E h \in Handlers : (\E m \in Msgs : Press(h, m)) \/ Type(h)
  BY <1>1, TypesByUpdate
<1>2. CASE \E h \in Handlers : HandlerStep(h)
  BY <1>2, TypesByAnswer, TypesByHandler DEF HandlerStep
<1>3. CASE \E c \in Charges : \/ Checkout(c) \/ AnswerPreCheckout(c) \/ CheckoutExpires(c)
                              \/ PaymentStep(c) \/ AnswerFails(c)
  BY <1>3, TypesByCharge
<1>4. CASE Notify \/ Stop \/ Boot
  BY <1>4, TypesByProcess
<1>5. CASE UNCHANGED vars
  BY <1>5 DEF vars, accountVars, paymentVars, processVars, TypeOK
<1> QED
  BY <1>1, <1>2, <1>3, <1>4, <1>5 DEF Next

\* Every message shows a screen of the bot, and every update being handled is one that a
\* handler is registered for, however updates, payments and restarts overlap.
THEOREM DialogueIsTyped == Safety => []TypeOK
BY TypesInit, TypesStep, PTL DEF Safety

\* Every button in the chat has a handler, and from every screen presses lead back to the
\* product menu: the argument is about the keyboards alone, and holds in any state whose
\* messages show screens of the bot.
THEOREM NobodyIsStranded == Safety => []NoDeadEnds
<1>1. TypeOK => NoDeadEnds
  <2> SUFFICES ASSUME TypeOK, NEW m \in Msgs
               PROVE  /\ Buttons(chat[m]) \subseteq DOMAIN Opens
                      /\ chat[m] \in WaysHome[5] \union {NoScreen, Screen("reissue_error_notification")}
    BY DEF NoDeadEnds
  <2>1. chat[m] \in Screens /\ Known(chat[m])
    BY ScreensAreKnown, DialogueTypes DEF ChatTypes
  <2> QED
    BY <2>1, ScreenButtons, KnownLeadsHome
<1> QED
  BY <1>1, TypesInit, TypesStep, PTL DEF Safety

\* Every charge is told honestly, for any number of charges handled at once.
HonestInv == TypeOK /\ \A c \in Charges : Honest(charge[c])

LEMMA HonestInit == Init => HonestInv
<1>1. Honest(NoCharge)
  BY DEF Honest, NoCharge
<1> QED
  BY <1>1, TypesInit DEF Init, HonestInv

LEMMA HonestStep == HonestInv /\ [Next]_vars => HonestInv'
<1> SUFFICES ASSUME HonestInv, [Next]_vars PROVE HonestInv'
  OBVIOUS
<1>1. TypeOK /\ TypeOK'
  BY TypesStep DEF HonestInv
<1>2. \A c \in Charges : Honest(charge'[c])
  <2>1. CASE charge' = charge
    BY <2>1 DEF HonestInv
  <2>2. CASE \E c \in Charges : \/ Checkout(c) \/ AnswerPreCheckout(c) \/ CheckoutExpires(c)
                                \/ PaymentStep(c) \/ AnswerFails(c)
    <3>1. PICK c \in Charges, new \in ChargeRows :
            /\ charge' = [charge EXCEPT ![c] = new] /\ (Honest(charge[c]) => Honest(new))
      BY <1>1, <2>2, ChargeMoves
    <3>2. charge \in [Charges -> ChargeRows]
      BY <1>1, DialogueTypes DEF ChargeTypes
    <3>3. charge'[c] = new /\ \A i \in Charges \ {c} : charge'[i] = charge[i]
      BY <3>1, <3>2
    <3> QED
      BY <3>1, <3>3 DEF HonestInv
  <2>3. CASE Stop \/ Boot
    BY <1>1, <2>3, RestartLoses DEF HonestInv
  <2>4. CASE \E h \in Handlers : (\E m \in Msgs : Press(h, m)) \/ Type(h) \/ HandlerStep(h)
    BY <2>1, <2>4 DEF Press, Type, Begin, HandlerStep, CallAnswered, SendInvoice, CallFails, Show,
                      HandlerFrame, paymentVars
  <2>5. CASE Notify \/ UNCHANGED vars
    BY <2>1, <2>5 DEF Notify, paymentVars, vars
  <2> QED
    BY <2>2, <2>3, <2>4, <2>5 DEF Next
<1> QED
  BY <1>1, <1>2 DEF HonestInv

\* A Stars charge is confirmed as what its invoice sold, or not at all, and the user is
\* sent a receipt only for a purchase the backend granted, also across restarts.
THEOREM ReceiptsAreHonest == Safety => []ReceiptsAreTrue
<1>1. HonestInv => ReceiptsAreTrue
  BY DEF HonestInv, Honest, ReceiptsAreTrue
<1> QED
  BY <1>1, HonestInit, HonestStep, PTL DEF Safety
===============================================================================
