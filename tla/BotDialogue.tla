------------------------------ MODULE BotDialogue ------------------------------
(***************************************************************************)
(* One user's chat with the Telegram bot: the legal consent gate, the      *)
(* keyboards and the handlers behind their buttons, and Telegram Stars     *)
(* payments.  Every update is handled in a task of its own, so between a   *)
(* press, the backend's answer and the new screen anything may happen.     *)
(*                                                                         *)
(* The backend answers what its own modules allow: here any answer may     *)
(* come, or an error, also for a call that took effect (a timeout).  A     *)
(* screen is a keyboard with the optional buttons it was built with.       *)
(***************************************************************************)
EXTENDS Naturals

CONSTANTS Msgs,        \* messages of the bot in sight
          Handlers,    \* bound: updates being handled at once
          Charges,     \* bound: Telegram Stars charges
          Inviters,    \* referrers other than the user
          NoOne,       \* no referrer
          NoMsg,       \* an update that came without a message of the bot
          Catalogues,  \* sets of payment methods the administrator may have activated
          FaultKinds,  \* "restart" and "telegram", those that may happen
          MaxFaults    \* bound: how many of them

Methods == {"platega_sbp", "stars", "crypto_pay"}

ASSUME InvitersAssumption == NoOne \notin Inviters
ASSUME MsgsAssumption == NoMsg \notin Msgs
ASSUME CataloguesAssumption == Catalogues \subseteq SUBSET Methods /\ Catalogues # {}
ASSUME FaultsAssumption == FaultKinds \subseteq {"restart", "telegram"} /\ MaxFaults \in Nat

VARIABLES user,        \* the SystemUser row of this user
          agreements,  \* history: the referrers of the consents given, the first one only
          chat,        \* the screen each message shows
          work,        \* the updates being handled
          invoices,    \* products a Stars invoice was sent for
          charge,      \* the Stars payments
          up,          \* the bot is running
          faults       \* faults so far

accountVars == <<user, agreements>>
paymentVars == <<invoices, charge>>
processVars == <<up, faults>>
vars == <<accountVars, chat, work, paymentVars, processVars>>

-------------------------------------------------------------------------------
(* Keyboards: the callback data of the buttons.                             *)

\* One table of two.
Joined(f, g) == [x \in DOMAIN f \union DOMAIN g |-> IF x \in DOMAIN f THEN f[x] ELSE g[x]]

\* Mutants (named ...Mutant) are plausible bugs; no specification uses them.
ROOT_BACK == "show_start_screen"
MTPROXY_BACK == "show_mtproxy_menu"
VPN_BACKMutant == "vpn_menu"
VPN_BACK == "show_vpn_menu"
MY_SERVERS == "my_servers"

VpnKeyboards ==
  [vpn_menu |-> {"vpn", "vpn_subscription", ROOT_BACK},
   vpn_subscription |-> {"vpn_reissue", VPN_BACK},
   vpn_reissue_confirmation |-> {"vpn_reissue_confirm", "vpn_subscription"},
   vpn_purchased |-> {"vpn_subscription", VPN_BACK}]

MtproxyKeyboards ==
  [mtproxy_menu |-> {MY_SERVERS, "apples_status", "gift_certificate", "info", ROOT_BACK},
   apples_status |-> {"apples_spend", MTPROXY_BACK},
   apples_spend |-> {"apples_redeem_one", "apples_redeem_all"},
   apples_back_to_status |-> {},
   apples_redemption_confirmation |-> {"apples_confirm", "apples_spend"},
   apples_redemption_done |-> {"apples_status", MTPROXY_BACK},
   key_generated |-> {MY_SERVERS, MTPROXY_BACK},
   my_servers |-> {"update_link", MTPROXY_BACK},
   confirm_reissue |-> {"update_link_confirm", MY_SERVERS},
   info |-> {MTPROXY_BACK}]

PaymentKeyboards ==
  [payment_methods |-> {MTPROXY_BACK},
   vpn_payment_methods |-> {VPN_BACK},
   gift_certificate_payment_methods |-> {MTPROXY_BACK},
   invoice |-> {}]

StartKeyboards ==
  [notification |-> {},
   product_menu |-> {MTPROXY_BACK, VPN_BACK, "referral"},
   referral_cabinet |-> {"apples_spend_referral", ROOT_BACK},
   reissue_error_notification |-> {"dismiss_error_notification"}]

\* The buttons every instance of a keyboard has.
Keyboard == Joined(StartKeyboards, Joined(VpnKeyboards,
                   Joined(MtproxyKeyboards, PaymentKeyboards)))

With(name, buttons) == [name |-> name, more |-> buttons]
Screen(name) == With(name, {})
NoScreen == Screen("none")

\* The consent button's callback data carries the referrer.
legal_consent(ref) == With("legal_consent", {ref})

Buttons(s) == IF s.name = "legal_consent" THEN {"accept_legal_terms"}
              ELSE IF s.name = "none" THEN {}
              ELSE Keyboard[s.name] \union s.more

PayButtons ==
  [payment_methods |-> [platega_sbp |-> "pay_platega_sbp", stars |-> "pay_stars",
                        crypto_pay |-> "pay_crypto"],
   vpn_payment_methods |-> [platega_sbp |-> "vpn_pay_platega_sbp", stars |-> "vpn_pay_stars",
                            crypto_pay |-> "vpn_pay_crypto"],
   gift_certificate_payment_methods |-> [platega_sbp |-> "gift_platega_sbp",
                                         stars |-> "gift_stars", crypto_pay |-> "gift_crypto"]]

\* Only the methods active when the screen is opened; none leaves the way back.
Offers(name) == {With(name, {PayButtons[name][m] : m \in active}) : active \in Catalogues}

\* What the buttons of the backend's notifications and mailings lead to.
NotificationButtons == {MY_SERVERS, "vpn", "boost_paid", "update_link"}
-------------------------------------------------------------------------------
(* Handlers: the screens a button, a command or a code may open.            *)

StartScreens ==
  [accept_legal_terms |-> {Screen("product_menu")},
   show_start_screen |-> {Screen("product_menu")},
   show_mtproxy_menu |-> {With("mtproxy_menu", {b}) : b \in {"boost_free", "boost_paid"}},
   info |-> {Screen("info")}]

SpendScreens(back) == {With("apples_spend", {back}), With("apples_back_to_status", {back})}

ApplesScreens ==
  [apples_status |-> {Screen("apples_status")},
   apples_spend |-> SpendScreens("apples_status"),
   apples_spend_referral |-> SpendScreens("referral"),
   apples_redeem_one |-> {Screen("apples_redemption_confirmation")},
   apples_redeem_all |-> {Screen("apples_redemption_confirmation")},
   apples_confirm |-> {Screen("apples_redemption_done")}]

LinksScreens ==
  [my_servers |-> {Screen("my_servers")},
   update_link |-> {Screen("confirm_reissue")},
   update_link_confirm |-> {Screen("my_servers")}]

Invoice(back) == {With("invoice", {back})}

Subscription == {Screen("vpn_subscription"), With("vpn_subscription", {"vpn"})}

VpnScreens ==
  [show_vpn_menu |-> {Screen("vpn_menu")},
   vpn |-> Offers("vpn_payment_methods"),
   vpn_subscription |-> Subscription,
   vpn_reissue |-> {Screen("vpn_reissue_confirmation")},
   vpn_reissue_confirm |-> Subscription,
   vpn_pay_stars |-> {},   \* an invoice message of its own
   vpn_pay_crypto |-> Invoice(VPN_BACK),
   vpn_pay_platega_sbp |-> Invoice(VPN_BACK)]

PaymentScreens ==
  [boost_paid |-> Offers("payment_methods"),
   pay_stars |-> {},
   pay_crypto |-> Invoice(MTPROXY_BACK),
   pay_platega_sbp |-> Invoice(MTPROXY_BACK),
   gift_certificate |-> Offers("gift_certificate_payment_methods"),
   gift_stars |-> {},
   gift_crypto |-> Invoice(MTPROXY_BACK),
   gift_platega_sbp |-> Invoice(MTPROXY_BACK)]

OtherScreens ==
  [boost_free |-> {Screen("key_generated")},
   referral |-> {Screen("referral_cabinet")},
   dismiss_error_notification |-> {NoScreen}]   \* deletes the message

Opens == Joined(StartScreens, Joined(ApplesScreens, Joined(LinksScreens,
                Joined(VpnScreens, Joined(PaymentScreens, OtherScreens)))))

\* Typed by the user: /start, /start apples_spend and a certificate's code.
Typed ==
  [start |-> {Screen("product_menu")},
   start_apples_spend |-> SpendScreens("apples_status"),
   code |-> {Screen("key_generated")}]

Result(b) == IF b \in DOMAIN Opens THEN Opens[b] ELSE Typed[b]

\* How many calls to the backend a handler makes, one after the other.
Calls(b) ==
  IF b \in {"show_start_screen", "info", "show_vpn_menu", "update_link",
            "dismiss_error_notification"} THEN 0
  ELSE IF b \in {"update_link_confirm", "vpn_reissue_confirm", "start_apples_spend"} THEN 2
  ELSE 1

\* The payload of a Stars invoice, and what the charge is confirmed as.
Products == {"subscription", "gift_certificate", "vpn_subscription"}
PayloadOfMutant(b) ==   \* the VPN invoice is sent with its start parameter's stem
  CASE b = "pay_stars" -> "payment_stars"
    [] b = "gift_stars" -> "gift_certificate_stars"
    [] b = "vpn_pay_stars" -> "vpn"
PayloadOf(b) == CASE b = "pay_stars" -> "payment_stars"
                  [] b = "gift_stars" -> "gift_certificate_stars"
                  [] b = "vpn_pay_stars" -> "vpn_stars"
Payloads == {"payment_stars", "gift_certificate_stars", "vpn_stars"}
SoldBy == [payment_stars |-> "subscription", gift_certificate_stars |-> "gift_certificate",
           vpn_stars |-> "vpn_subscription"]
ConfirmedAsMutant(payload) ==   \* the gift's payload is not told apart
  IF payload = "vpn_stars" THEN "vpn_subscription" ELSE "subscription"
ConfirmedAs(payload) ==
  IF payload = "vpn_stars" THEN "vpn_subscription"
  ELSE IF payload = "gift_certificate_stars" THEN "gift_certificate"
  ELSE "subscription"
-------------------------------------------------------------------------------
Screens == (UNION ({Opens[b] : b \in DOMAIN Opens} \union {Typed[b] : b \in DOMAIN Typed}))
           \union {legal_consent(r) : r \in Inviters \union {NoOne}}
           \union {Screen("vpn_purchased"), Screen("reissue_error_notification"), NoScreen}
           \union {With("notification", {b}) : b \in NotificationButtons}

NoWork == [step |-> "idle", msg |-> NoMsg, update |-> "start", ref |-> NoOne,
           calls |-> 0, screen |-> NoScreen]
NoCharge == [step |-> "none", payload |-> "payment_stars", got |-> "none", told |-> "none"]

TypeOK ==
  /\ user \in [row : BOOLEAN, accepted : BOOLEAN, inviter : Inviters \union {NoOne}]
  /\ agreements \subseteq Inviters \union {NoOne}
  /\ chat \in [Msgs -> Screens]
  /\ work \in [Handlers -> [step : {"idle", "call", "show"}, msg : Msgs \union {NoMsg},
                            update : DOMAIN Opens \union DOMAIN Typed,
                            ref : Inviters \union {NoOne}, calls : 0..2, screen : Screens]]
  /\ invoices \subseteq Payloads
  /\ charge \in [Charges -> [step : {"none", "checkout", "paid", "call", "answer", "done",
                                     "lost"},
                             payload : Payloads, got : Products \union {"none"},
                             told : {"none", "bought", "support"}]]
  /\ up \in BOOLEAN
  /\ faults \in 0..MaxFaults

\* A user the bot has never seen, or one who agreed before.
Init ==
  /\ \/ user = [row |-> FALSE, accepted |-> FALSE, inviter |-> NoOne] /\ agreements = {}
     \/ user = [row |-> TRUE, accepted |-> TRUE, inviter |-> NoOne] /\ agreements = {NoOne}
  /\ chat = [m \in Msgs |-> NoScreen]
  /\ work = [h \in Handlers |-> NoWork]
  /\ invoices = {}
  /\ charge = [c \in Charges |-> NoCharge]
  /\ up = TRUE
  /\ faults = 0

Fault(k) == k \in FaultKinds /\ faults < MaxFaults /\ faults' = faults + 1

-------------------------------------------------------------------------------
(* Updates and their handlers.                                              *)

Begin(h, m, update, ref) ==
  /\ up
  /\ work[h].step = "idle"
  /\ work' = [work EXCEPT ![h] = [step |-> IF Calls(update) = 0 THEN "show" ELSE "call",
                                  msg |-> m, update |-> update, ref |-> ref,
                                  calls |-> Calls(update), screen |-> NoScreen]]
  /\ UNCHANGED <<accountVars, chat, paymentVars, processVars>>

Press(h, m) ==
  \E b \in Buttons(chat[m]) \intersect DOMAIN Opens :
    Begin(h, m, b, IF b = "accept_legal_terms" THEN CHOOSE r \in chat[m].more : TRUE ELSE NoOne)

\* /start takes a referrer other than the user, a code is typed by anyone.
Type(h) == \E update \in DOMAIN Typed, ref \in Inviters \union {NoOne} :
             (ref # NoOne => update = "start") /\ Begin(h, NoMsg, update, ref)

HandlerFrame == UNCHANGED <<charge, processVars>>
Finish(h) == work' = [work EXCEPT ![h] = NoWork]
NoAccountChange == UNCHANGED accountVars

\* consent/accept: creates the user with the referrer of this button, or
\* confirms the one there is.
AcceptConsent(ref) ==
  /\ user' = IF user.row THEN [user EXCEPT !.accepted = TRUE]
             ELSE [row |-> TRUE, accepted |-> TRUE, inviter |-> ref]
  /\ agreements' = IF agreements = {} THEN {ref} ELSE agreements

\* check-first-free-link, and first-free-link also behind "my servers", create the
\* user they do not find.
CreatesUser == {"show_mtproxy_menu", "boost_free", "my_servers"}
EnsureUser ==
  /\ user' = [user EXCEPT !.row = TRUE]
  /\ UNCHANGED agreements

\* What a call changes at the backend that this dialogue depends on.
Effect(update, ref) ==
  \/ update = "accept_legal_terms" /\ AcceptConsent(ref)
  \/ update \in CreatesUser /\ EnsureUser
  \/ update \notin CreatesUser \union {"accept_legal_terms"} /\ NoAccountChange

NeedsConsentMutant(update) == update = "start"   \* the deep link skips the question
NeedsConsent(update) == update \in {"start", "start_apples_spend"}

\* The call that is not the last one, or that answers the screen.  A certificate
\* is activated for a user there is.
CallAnswered(h) ==
  LET w == work[h] IN
  /\ w.step = "call"
  /\ w.update = "code" => user.row
  /\ Effect(w.update, w.ref)
  /\ \/ /\ NeedsConsent(w.update) /\ ~user.accepted   \* consent/status answered no
        /\ work' = [work EXCEPT ![h] = [w EXCEPT !.step = "show",
                                                 !.screen = legal_consent(w.ref)]]
     \/ /\ NeedsConsent(w.update) => user.accepted
        /\ w.calls = 2
        /\ work' = [work EXCEPT ![h].calls = 1]
     \/ /\ NeedsConsent(w.update) => user.accepted
        /\ w.calls = 1
        /\ \E s \in Result(w.update) :
             work' = [work EXCEPT ![h] = [w EXCEPT !.step = "show", !.screen = s]]
  /\ HandlerFrame
  /\ UNCHANGED <<chat, invoices>>

\* A Stars invoice is a message of its own, priced by the catalogue's answer.
SendInvoice(h) ==
  LET w == work[h] IN
  /\ w.step = "call"
  /\ w.update \in {"pay_stars", "gift_stars", "vpn_pay_stars"}
  /\ invoices' = invoices \union {PayloadOf(w.update)}
  /\ Finish(h)
  /\ HandlerFrame
  /\ UNCHANGED <<accountVars, chat>>

\* An error, before or after the call took effect: the user gets a text, with a
\* button to dismiss it after a confirmed reissue.
CallFails(h) ==
  LET w == work[h] IN
  /\ w.step = "call"
  /\ Effect(w.update, w.ref) \/ NoAccountChange
  /\ IF w.update \in {"update_link_confirm", "vpn_reissue_confirm"}
     THEN \E m \in Msgs : chat' = [chat EXCEPT ![m] = Screen("reissue_error_notification")]
     ELSE UNCHANGED chat
  /\ Finish(h)
  /\ HandlerFrame
  /\ UNCHANGED invoices

\* edit_text on the pressed message; a typed update is answered with a new one,
\* which takes the place of one in sight.
Show(h) ==
  LET w == work[h]
      screen == IF Calls(w.update) = 0 THEN CHOOSE s \in Result(w.update) : TRUE ELSE w.screen
  IN
  /\ w.step = "show"
  /\ \E m \in Msgs : /\ w.msg # NoMsg => m = w.msg
                     /\ chat' = [chat EXCEPT ![m] = screen]
  /\ Finish(h)
  /\ HandlerFrame
  /\ UNCHANGED <<accountVars, invoices>>

\* The backend writes to users it knows.
Notify ==
  /\ user.row
  /\ \E m \in Msgs, b \in NotificationButtons :
       chat' = [chat EXCEPT ![m] = With("notification", {b})]
  /\ UNCHANGED <<accountVars, work, paymentVars, processVars>>
-------------------------------------------------------------------------------
(* Telegram Stars.                                                          *)

PaymentFrame == UNCHANGED <<accountVars, work, invoices>>
ChargeGoto(c, s) == charge' = [charge EXCEPT ![c].step = s]

\* The user presses Pay; nothing is taken until the bot has answered.
Checkout(c) ==
  /\ charge[c].step = "none"
  /\ \E p \in invoices : charge' = [charge EXCEPT ![c].step = "checkout", ![c].payload = p]
  /\ PaymentFrame
  /\ UNCHANGED <<chat, processVars>>

\* Every Stars checkout is approved; Telegram takes the money and queues the update.
AnswerPreCheckout(c) ==
  /\ up
  /\ charge[c].step = "checkout"
  /\ ChargeGoto(c, "paid")
  /\ PaymentFrame
  /\ UNCHANGED <<chat, processVars>>

\* Telegram does not wait for long.
CheckoutExpires(c) ==
  /\ charge[c].step = "checkout"
  /\ ChargeGoto(c, "none")
  /\ PaymentFrame
  /\ UNCHANGED <<chat, processVars>>

TakeSuccessfulPayment(c) ==
  /\ up
  /\ charge[c].step = "paid"
  /\ ChargeGoto(c, "call")
  /\ PaymentFrame
  /\ UNCHANGED <<chat, processVars>>

ConfirmPurchaseMutant(c) ==   \* an error of the backend is left to the error handler
  /\ charge[c].step = "call"
  /\ \/ charge' = [charge EXCEPT ![c].step = "answer",
                                 ![c].got = ConfirmedAs(charge[c].payload)]
     \/ \E got \in {"none", ConfirmedAs(charge[c].payload)} :
          charge' = [charge EXCEPT ![c].step = "done", ![c].got = got]
  /\ PaymentFrame
  /\ UNCHANGED <<chat, processVars>>

\* The purchase is confirmed at the backend: granted and answered, refused, or
\* granted with the answer lost.  Every error ends in the text naming the support.
ConfirmPurchase(c) ==
  /\ charge[c].step = "call"
  /\ \/ charge' = [charge EXCEPT ![c].step = "answer",
                                 ![c].got = ConfirmedAs(charge[c].payload)]
     \/ \E got \in {"none", ConfirmedAs(charge[c].payload)} :
          charge' = [charge EXCEPT ![c].step = "done", ![c].got = got, ![c].told = "support"]
  /\ PaymentFrame
  /\ UNCHANGED <<chat, processVars>>

\* The receipt: a new message with a keyboard, except for a certificate.
AnswerPurchase(c) ==
  /\ charge[c].step = "answer"
  /\ charge' = [charge EXCEPT ![c].step = "done", ![c].told = "bought"]
  /\ IF charge[c].payload = "gift_certificate_stars" THEN UNCHANGED chat
     ELSE \E m \in Msgs :
            chat' = [chat EXCEPT ![m] = Screen(IF charge[c].payload = "vpn_stars"
                                               THEN "vpn_purchased" ELSE "key_generated")]
  /\ PaymentFrame
  /\ UNCHANGED processVars

\* The receipt cannot be sent: the same handler sends the text naming the support.
AnswerFails(c) ==
  /\ charge[c].step = "answer"
  /\ Fault("telegram")
  /\ charge' = [charge EXCEPT ![c].step = "done", ![c].told = "support"]
  /\ PaymentFrame
  /\ UNCHANGED <<chat, up>>
-------------------------------------------------------------------------------
(* The process.                                                             *)

\* The process ends; what it was handling is gone.
Stop ==
  /\ up
  /\ Fault("restart")
  /\ up' = FALSE
  /\ work' = [h \in Handlers |-> NoWork]
  /\ charge' = [c \in Charges |-> IF charge[c].step \in {"call", "answer"}
                                  THEN [charge[c] EXCEPT !.step = "lost"] ELSE charge[c]]
  /\ UNCHANGED <<accountVars, chat, invoices>>

\* It starts with delete_webhook(drop_pending_updates=True).
Boot ==
  /\ ~up
  /\ up' = TRUE
  /\ charge' = [c \in Charges |-> IF charge[c].step = "paid"
                                  THEN [charge[c] EXCEPT !.step = "lost"] ELSE charge[c]]
  /\ UNCHANGED <<accountVars, chat, work, invoices, faults>>

HandlerStep(h) == CallAnswered(h) \/ SendInvoice(h) \/ CallFails(h) \/ Show(h)
PaymentStep(c) == TakeSuccessfulPayment(c) \/ ConfirmPurchase(c) \/ AnswerPurchase(c)

Next == \/ \E h \in Handlers : \/ \E m \in Msgs : Press(h, m)
                               \/ Type(h) \/ HandlerStep(h)
        \/ \E c \in Charges : \/ Checkout(c) \/ AnswerPreCheckout(c) \/ CheckoutExpires(c)
                              \/ PaymentStep(c) \/ AnswerFails(c)
        \/ Notify \/ Stop \/ Boot

Safety == Init /\ [][Next]_vars

\* The bot is started again when it stopped, takes the updates it is sent and
\* finishes the handlers it began; the user owes nothing.
Spec == Safety /\ WF_vars(Boot)
               /\ \A h \in Handlers : WF_vars(HandlerStep(h))
               /\ \A c \in Charges : WF_vars(PaymentStep(c))
-------------------------------------------------------------------------------
(* Properties.                                                              *)

LeadsTo(s) == UNION {Opens[b] : b \in Buttons(s) \intersect DOMAIN Opens}

\* The screens from which presses alone reach the product menu.
Nearer(near) == near \union {s \in Screens : LeadsTo(s) \intersect near # {}}
WaysHome[n \in 0..5] ==
  IF n = 0 THEN {Screen("product_menu")} ELSE Nearer(WaysHome[n - 1])

\* Every button in the chat, those of the backend's notifications included, has a
\* handler, and no screen strands the user: unless the backend refuses, presses
\* lead from it to the product menu.  An error notice is only dismissed.
NoDeadEnds ==
  \A m \in Msgs :
    /\ Buttons(chat[m]) \subseteq DOMAIN Opens
    /\ chat[m] \in WaysHome[5] \union {NoScreen, Screen("reissue_error_notification")}

\* However updates overlap, the user's row is first created by an accepted
\* consent, and its referrer is the one of the first consent accepted: the calls
\* that create a missing user are behind screens shown only after it.
RegisteredByConsent ==
  user.row => user.accepted /\ agreements = {user.inviter}

\* A charge grants what its invoice sold or nothing, and a receipt is sent only
\* for a purchase that was granted.
ReceiptsAreTrue ==
  \A c \in Charges : /\ charge[c].got \in {"none", SoldBy[charge[c].payload]}
                     /\ charge[c].told = "bought" => charge[c].got # "none"

\* Whoever was charged hears of it, a receipt or the text naming the support,
\* whatever the backend does, unless the bot was restarted meanwhile.
EveryPaymentIsAnswered ==
  \A c \in Charges : charge[c].step = "paid" ~> charge[c].told # "none" \/ charge[c].step = "lost"
===============================================================================
