------------------------------ MODULE Routing ------------------------------
(***************************************************************************)
(* MerchantTerminalsService, SitefAuthService and the credentials SitefAdapter *)
(* resolves for every call: which terminal a payment goes to, and with which    *)
(* credentials and token.                                                       *)
(*                                                                           *)
(* A payment calls the gateway once or twice (to ask for a code, to confirm     *)
(* it); each call resolves the terminal anew.                                    *)
(***************************************************************************)
EXTENDS Naturals, FiniteSets

CONSTANTS
  Applications, Methods,
  Usernames, Secrets,   \* credentials at Sitef
  OwnerOf,              \* OwnerOf[s]: the user whose password s is, at Sitef
  MaxTerminals,         \* bound: terminals created, numbered in order of createdAt
  MaxChanges,           \* bound: calls of administrators
  Admins, Payments,     \* requests being served
  Cached,               \* SITEF_TOKEN_STRATEGY is `cached`
  Nothing

ASSUME RoutingAssumption ==
  /\ OwnerOf \in [Secrets -> Usernames] /\ MaxTerminals \in Nat /\ MaxChanges \in Nat
  /\ Cached \in BOOLEAN
  /\ Nothing \notin Applications \cup Methods \cup Usernames \cup Secrets \cup Nat

Terminals == 1..MaxTerminals

VARIABLES
  terminal,   \* terminal[t]: the row, Nothing before it is inserted
  change,     \* change[a]: the administrator's call a is in
  changes,
  payment,    \* payment[p]: the payment and the gateway call it is in
  cache,      \* cache[u]: the owner of the token cached for u
  contended,  \* history: applications two administrators worked on at once
  reactivated \* history: applications with a terminal that was activated again

routeVars == <<terminal, change, changes, payment, cache, contended, reactivated>>

-----------------------------------------------------------------------------
TerminalRow == [app : Applications, kinds : SUBSET Methods, active : BOOLEAN,
        username : Usernames, secret : Secrets]
(* What a change gives as Nothing is kept. *)
Change == [pc : {"idle", "insert", "load", "save"}, terminal : Terminals \cup {Nothing},
           app : Applications \cup {Nothing}, kinds : (SUBSET Methods) \cup {Nothing},
           username : Usernames \cup {Nothing}, secret : Secrets \cup {Nothing},
           active : BOOLEAN \cup {Nothing}, row : TerminalRow \cup {Nothing}]
NoChange == [pc |-> "idle", terminal |-> Nothing, app |-> Nothing, kinds |-> Nothing,
             username |-> Nothing, secret |-> Nothing, active |-> Nothing, row |-> Nothing]

(* `first` is the terminal the first one went to; *)
(* `steady`: no administrator has changed the application's terminals since the   *)
(* payment began.                                                                  *)
Payment == [pc : {"idle", "resolve", "row", "secret", "token", "send", "wait"},
            app : Applications \cup {Nothing}, method : Methods \cup {Nothing},
            chosen : Terminals \cup {Nothing}, username : Usernames \cup {Nothing},
            secret : Secrets \cup {Nothing}, token : Usernames \cup {Nothing},
            first : Terminals \cup {Nothing}, steady : BOOLEAN]
NoPayment == [pc |-> "idle", app |-> Nothing, method |-> Nothing, chosen |-> Nothing,
              username |-> Nothing, secret |-> Nothing, token |-> Nothing,
              first |-> Nothing, steady |-> FALSE]

ASSUME NothingIsNoRow == Nothing \notin TerminalRow

Rows == {t \in Terminals : terminal[t] # Nothing}

FindActiveByApplication(app) == {t \in Rows : terminal[t].app = app /\ terminal[t].active}

(* Mutation: an empty list of methods is not looked at. *)
ConflictOnMethods(app, kinds, exclude) ==
  \E t \in FindActiveByApplication(app) \ {exclude} : terminal[t].kinds \cap kinds # {}

(* assertNoRoutingConflict: one active terminal per method, and one default. *)
RoutingConflict(app, kinds, exclude) ==
  \E t \in FindActiveByApplication(app) \ {exclude} :
    IF kinds = {} THEN terminal[t].kinds = {} ELSE terminal[t].kinds \cap kinds # {}

Earliest(ts) == {t \in ts : \A u \in ts : t <= u}

(* resolveForApplication: the terminal that claims the method, else the default  *)
(* one, else the first one that is active.                                         *)
ResolveForApplication(app, method) ==
  LET active == FindActiveByApplication(app)
      claims == {t \in active : method \in terminal[t].kinds}
      default == {t \in active : terminal[t].kinds = {}}
  IN  Earliest(IF claims # {} THEN claims ELSE IF default # {} THEN default ELSE active)

-----------------------------------------------------------------------------
(* Administration *)

Administered(app) == \E a \in Admins : change[a].app = app

BeginChange(a, call) ==
  /\ change[a] = NoChange /\ changes < MaxChanges
  /\ change' = [change EXCEPT ![a] = call]
  /\ changes' = changes + 1
  /\ contended' = IF Administered(call.app) THEN contended \cup {call.app} ELSE contended
  /\ UNCHANGED <<terminal, payment, cache, reactivated>>

CreateTerminal(a, app, kinds, u, s) ==
  /\ ~RoutingConflict(app, kinds, Nothing)
  /\ BeginChange(a, [NoChange EXCEPT !.pc = "insert", !.app = app, !.kinds = kinds,
                                     !.username = u, !.secret = s])

(* The methods are checked only if they change; an omitted password is kept. *)
UpdateTerminal(a, t, kinds, u, s) ==
  /\ t \in Rows
  /\ kinds # Nothing => ~RoutingConflict(terminal[t].app, kinds, t)
  /\ BeginChange(a, [NoChange EXCEPT !.pc = "load", !.terminal = t, !.app = terminal[t].app,
                                     !.kinds = kinds, !.username = u, !.secret = s])

(* setActive looks at no conflict. *)
SetActive(a, t, active) ==
  /\ t \in Rows
  /\ BeginChange(a, [NoChange EXCEPT !.pc = "load", !.terminal = t, !.app = terminal[t].app,
                                     !.active = active])

(* Payments of the application are no longer steady once its terminals change. *)
Unsteady(app) == payment' = [p \in Payments |-> IF payment[p].app = app
                                                 THEN [payment[p] EXCEPT !.steady = FALSE] ELSE payment[p]]

InsertTerminal(a) ==
  /\ change[a].pc = "insert" /\ Rows # Terminals
  /\ LET c == change[a]
         t == Cardinality(Rows) + 1
     IN  /\ terminal' = [terminal EXCEPT ![t] = [app |-> c.app, kinds |-> c.kinds, active |-> TRUE,
                                                 username |-> c.username, secret |-> c.secret]]
         /\ Unsteady(c.app)
  /\ change' = [change EXCEPT ![a] = NoChange]
  /\ UNCHANGED <<changes, cache, contended, reactivated>>

(* The repository reads the row again... *)
LoadTerminal(a) ==
  /\ change[a].pc = "load"
  /\ change' = [change EXCEPT ![a].pc = "save", ![a].row = terminal[change[a].terminal]]
  /\ UNCHANGED <<terminal, changes, payment, cache, contended, reactivated>>

Given(new, old) == IF new = Nothing THEN old ELSE new

(* ... assigns what is given, and saves every column. *)
SaveTerminal(a) ==
  /\ change[a].pc = "save"
  /\ LET c == change[a]
     IN  /\ terminal' = [terminal EXCEPT ![c.terminal] =
              [app |-> c.app, kinds |-> Given(c.kinds, c.row.kinds), active |-> Given(c.active, c.row.active),
               username |-> Given(c.username, c.row.username), secret |-> Given(c.secret, c.row.secret)]]
         /\ Unsteady(c.app)
         /\ reactivated' = IF c.active = TRUE THEN reactivated \cup {c.app} ELSE reactivated
  /\ change' = [change EXCEPT ![a] = NoChange]
  /\ UNCHANGED <<changes, cache, contended>>

-----------------------------------------------------------------------------
(* The gateway's calls *)

BeginPayment(p, app, method) ==
  /\ payment[p] = NoPayment
  /\ payment' = [payment EXCEPT ![p] = [NoPayment EXCEPT !.pc = "resolve", !.app = app, !.method = method,
                                                         !.steady = TRUE]]
  /\ UNCHANGED <<terminal, change, changes, cache, contended, reactivated>>

Advance(p, fields) == payment' = [payment EXCEPT ![p] = fields]
GatewayOnly == UNCHANGED <<terminal, change, changes, contended, reactivated>>

(* The payment's next call starts over. *)
Over(c) == [c EXCEPT !.pc = "wait", !.chosen = Nothing, !.username = Nothing, !.secret = Nothing,
                     !.token = Nothing]
Fail(p) == Advance(p, Over(payment[p]))

Resolve(p) ==
  /\ payment[p].pc = "resolve"
  /\ LET c == payment[p]
     IN  \/ \E t \in ResolveForApplication(c.app, c.method) : Advance(p, [c EXCEPT !.pc = "row", !.chosen = t])
         \/ ResolveForApplication(c.app, c.method) = {} /\ Fail(p)
  /\ GatewayOnly /\ UNCHANGED cache

(* getDecrypted reads the row by its id, active or not... *)
ReadTerminal(p) ==
  /\ payment[p].pc = "row"
  /\ Advance(p, [payment[p] EXCEPT !.pc = "secret", !.username = terminal[payment[p].chosen].username])
  /\ GatewayOnly /\ UNCHANGED cache

(* ... and the password by another query. *)
ReadSecret(p) ==
  /\ payment[p].pc = "secret"
  /\ Advance(p, [payment[p] EXCEPT !.pc = "token", !.secret = terminal[payment[p].chosen].secret])
  /\ GatewayOnly /\ UNCHANGED cache

(* Mutation: one token is cached for all. *)
GetAnyToken(p) ==
  /\ payment[p].pc = "token"
  /\ \E u \in Usernames :
       /\ Cached /\ cache[u] # Nothing
       /\ Advance(p, [payment[p] EXCEPT !.pc = "send", !.token = cache[u]])
       /\ UNCHANGED cache
  /\ GatewayOnly

(* A cached token is taken for its user, whatever the password is now... *)
GetCachedToken(p) ==
  /\ payment[p].pc = "token"
  /\ LET u == payment[p].username
     IN  /\ Cached /\ cache[u] # Nothing
         /\ Advance(p, [payment[p] EXCEPT !.pc = "send", !.token = cache[u]])
  /\ GatewayOnly /\ UNCHANGED cache

(* ... else Sitef issues one to the owner of the password, or refuses.  Another   *)
(* call may have stored its token meanwhile: the last one stays.                   *)
FetchToken(p) ==
  /\ payment[p].pc = "token"
  /\ LET c == payment[p]
     IN  IF OwnerOf[c.secret] = c.username
         THEN /\ Advance(p, [c EXCEPT !.pc = "send", !.token = c.username])
              /\ cache' = IF Cached THEN [cache EXCEPT ![c.username] = c.username] ELSE cache
         ELSE Fail(p) /\ UNCHANGED cache
  /\ GatewayOnly

(* The call leaves with the credentials resolved for it. *)
Send(p) ==
  /\ payment[p].pc = "send"
  /\ LET c == payment[p]
     IN  Advance(p, [Over(c) EXCEPT !.first = IF @ = Nothing THEN c.chosen ELSE @])
  /\ GatewayOnly /\ UNCHANGED cache

(* The code is submitted, or the payment is looked up. *)
FollowUp(p) ==
  /\ payment[p].pc = "wait"
  /\ Advance(p, [payment[p] EXCEPT !.pc = "resolve"])
  /\ GatewayOnly /\ UNCHANGED cache

TokenExpires(u) ==
  /\ cache[u] # Nothing
  /\ cache' = [cache EXCEPT ![u] = Nothing]
  /\ UNCHANGED <<terminal, change, changes, payment, contended, reactivated>>

-----------------------------------------------------------------------------
RouteInit ==
  /\ terminal = [t \in Terminals |-> Nothing]
  /\ change = [a \in Admins |-> NoChange] /\ changes = 0
  /\ payment = [p \in Payments |-> NoPayment]
  /\ cache = [u \in Usernames |-> Nothing]
  /\ contended = {} /\ reactivated = {}

Administer(a) ==
  \/ \E app \in Applications, kinds \in SUBSET Methods, s \in Secrets :
       CreateTerminal(a, app, kinds, OwnerOf[s], s)
  \/ \E t \in Terminals :
       \/ \E kinds \in SUBSET Methods : UpdateTerminal(a, t, kinds, Nothing, Nothing)
       \/ \E u \in Usernames \cup {Nothing}, s \in Secrets \cup {Nothing} : UpdateTerminal(a, t, Nothing, u, s)
  \/ \E t \in Terminals, active \in BOOLEAN : SetActive(a, t, active)
  \/ InsertTerminal(a) \/ LoadTerminal(a) \/ SaveTerminal(a)

Pay(p) ==
  \/ \E app \in Applications, method \in Methods : BeginPayment(p, app, method)
  \/ Resolve(p) \/ ReadTerminal(p) \/ ReadSecret(p) \/ GetCachedToken(p) \/ FetchToken(p)
  \/ Send(p) \/ FollowUp(p)

RouteNext ==
  \/ \E a \in Admins : Administer(a)
  \/ \E p \in Payments : Pay(p)
  \/ \E u \in Usernames : TokenExpires(u)

RouteSpec == RouteInit /\ [][RouteNext]_routeVars

-----------------------------------------------------------------------------
(* Properties *)

RouteTypeOK ==
  /\ terminal \in [Terminals -> TerminalRow \cup {Nothing}]
  /\ change \in [Admins -> Change] /\ changes \in 0..MaxChanges
  /\ payment \in [Payments -> Payment]
  /\ cache \in [Usernames -> Usernames \cup {Nothing}]
  /\ contended \subseteq Applications /\ reactivated \subseteq Applications

(* merchant-terminals.service: "El ruteo debe ser determinista": a method is      *)
(* claimed by one active terminal and one active terminal is the default.  The    *)
(* check is made before the write, and setActive makes none, so this is so where   *)
(* administrators' calls did not overlap and nothing was activated again.           *)
RoutingIsDeterministic ==
  \A app \in Applications \ (contended \cup reactivated) :
    \A t, u \in FindActiveByApplication(app) :
      t # u => /\ terminal[t].kinds \cap terminal[u].kinds = {}
               /\ terminal[t].kinds # {} \/ terminal[u].kinds # {}

(* The code is confirmed on the terminal it was asked on, and that terminal is     *)
(* active and the application's own, unless its terminals changed in between:        *)
(* even where two terminals claim one method.                                         *)
FollowUpStaysOnItsTerminal ==
  \A p \in Payments :
    LET c == payment[p]
    IN  c.pc = "send" /\ c.steady =>
          /\ c.first \in {Nothing, c.chosen}
          /\ terminal[c.chosen].active /\ terminal[c.chosen].app = c.app

(* A call never carries the token of one user and the name of another, although   *)
(* terminals share the cache and the row and the password are read apart.           *)
TokenIsItsUsers == \A p \in Payments : payment[p].pc = "send" => payment[p].token = payment[p].username

(* Both: every call of a payment goes out with the credentials of its terminal.    *)
CallsKeepTheirTerminal == FollowUpStaysOnItsTerminal /\ TokenIsItsUsers
=============================================================================
