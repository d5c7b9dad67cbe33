-------------------------- MODULE IntegrationsProofs --------------------------
(***************************************************************************)
(* For any number of administrators, terminals and payments: routing is       *)
(* deterministic where changes did not overlap, and every call of a payment     *)
(* goes out with the credentials of the terminal it began on.                    *)
(*                                                                                *)
(* For any number of exchanges with Sitef, whatever the bank does and whatever    *)
(* is lost: an invoice is only credited with money the bank moved, every charge    *)
(* that was reported is credited, and the answers are those the code foresees.      *)
(*                                                                                    *)
(* For fields of any length: what is sent is what the payer meant.                     *)
(*                                                                                       *)
(* And the modules that face a third party hold their types where they run together.      *)
(***************************************************************************)
EXTENDS MCIntegrations, FxRatesProofs, SumsProofs, SequenceTheorems, FiniteSetTheorems, TLAPS

(* An administrator's call names an application, and the row it changes is that *)
(* application's; terminals are numbered in the order they are inserted.          *)
ChangeFits(c) ==
  /\ c.pc = "idle" => c = NoChange
  /\ c.pc # "idle" => c.app \in Applications
  /\ c.pc = "insert" => c.kinds \in SUBSET Methods /\ c.username \in Usernames /\ c.secret \in Secrets
  /\ c.pc \in {"load", "save"} => c.terminal \in Rows /\ terminal[c.terminal].app = c.app
  /\ c.pc = "save" => c.row \in TerminalRow

(* What was checked before an await still holds after it, where nobody else      *)
(* works on the application.                                                      *)
StillChecked(c) ==
  c.app \notin contended \cup {Nothing} =>
    /\ c.pc = "insert" => ~RoutingConflict(c.app, c.kinds, Nothing)
    /\ c.pc \in {"load", "save"} /\ c.kinds # Nothing => ~RoutingConflict(c.app, c.kinds, c.terminal)
    /\ c.pc = "save" => c.row = terminal[c.terminal]

ChangesFit == \A a \in Admins : ChangeFits(change[a]) /\ StillChecked(change[a])

OneAdmin ==
  \A a, b \in Admins : a # b /\ change[a].app = change[b].app /\ change[a].app # Nothing
                         => change[a].app \in contended

RowsInOrder == \E n \in 0..MaxTerminals : Rows = 1..n

(* A payment past its resolution holds a terminal and what it read of it; while   *)
(* it is steady, each resolution still gives that terminal.                        *)
PaymentFits(c) ==
  /\ c.pc # "idle" => c.app \in Applications
  /\ c.pc \in {"row", "secret", "token", "send"} => c.chosen \in Rows
  /\ c.pc \in {"secret", "token", "send"} => c.username \in Usernames
  /\ c.pc = "token" => c.secret \in Secrets
  /\ c.pc = "send" => c.token = c.username
  /\ c.steady /\ c.pc \in {"row", "secret", "token", "send"} => c.chosen \in ResolveForApplication(c.app, c.method)
  /\ c.steady /\ c.first # Nothing => c.first \in ResolveForApplication(c.app, c.method)

PaymentsFit == \A p \in Payments : PaymentFits(payment[p])

CacheFits == \A u \in Usernames : cache[u] \in {u, Nothing}

RouteInv ==
  /\ RouteTypeOK /\ ChangesFit /\ OneAdmin /\ RowsInOrder /\ PaymentsFit /\ CacheFits
  /\ RoutingIsDeterministic

-----------------------------------------------------------------------------
(* What the operators depend on *)

LEMMA SameTerminals ==
  ASSUME UNCHANGED terminal
  PROVE  /\ Rows' = Rows
         /\ \A app : FindActiveByApplication(app)' = FindActiveByApplication(app)
         /\ \A app, kinds, t : RoutingConflict(app, kinds, t)' <=> RoutingConflict(app, kinds, t)
         /\ \A app, method : ResolveForApplication(app, method)' = ResolveForApplication(app, method)
<1>1. Rows' = Rows
  BY DEF Rows
<1>2. \A app : FindActiveByApplication(app)' = FindActiveByApplication(app)
  BY <1>1 DEF FindActiveByApplication
<1>3. \A app, kinds, t : RoutingConflict(app, kinds, t)' <=> RoutingConflict(app, kinds, t)
  BY <1>2 DEF RoutingConflict
<1>4. \A app, method : ResolveForApplication(app, method)' = ResolveForApplication(app, method)
  BY <1>2 DEF ResolveForApplication, Earliest
<1>5. QED
  BY <1>1, <1>2, <1>3, <1>4

(* Only rows of the application `own` change. *)
LEMMA OtherApplications ==
  ASSUME NEW own, NEW app, app # own,
         \A t \in Terminals :
           \/ terminal'[t] = terminal[t]
           \/ /\ terminal[t] = Nothing \/ terminal[t].app = own
              /\ terminal'[t] # Nothing /\ terminal'[t].app = own
  PROVE  /\ FindActiveByApplication(app)' = FindActiveByApplication(app)
         /\ \A kinds, t : RoutingConflict(app, kinds, t)' <=> RoutingConflict(app, kinds, t)
         /\ \A method : ResolveForApplication(app, method)' = ResolveForApplication(app, method)
<1>1. FindActiveByApplication(app)' = FindActiveByApplication(app)
  BY SMT DEF FindActiveByApplication, Rows
<1>2. \A t \in FindActiveByApplication(app) : terminal'[t] = terminal[t]
  BY SMT DEF FindActiveByApplication, Rows
<1>3. \A kinds, t : RoutingConflict(app, kinds, t)' <=> RoutingConflict(app, kinds, t)
  BY <1>1, <1>2 DEF RoutingConflict
<1>4. ASSUME NEW method
      PROVE  ResolveForApplication(app, method)' = ResolveForApplication(app, method)
  <2> DEFINE claims == {t \in FindActiveByApplication(app) : method \in terminal[t].kinds}
             default == {t \in FindActiveByApplication(app) : terminal[t].kinds = {}}
  <2>1. claims' = claims /\ default' = default
    BY <1>1, <1>2
  <2>2. QED
    BY <1>1, <2>1 DEF ResolveForApplication, Earliest
<1>5. QED
  BY <1>1, <1>3, <1>4

(* A resolution gives one terminal, active and the application's. *)
LEMMA ResolutionIsOne ==
  ASSUME NEW app, NEW method, NEW t \in ResolveForApplication(app, method)
  PROVE  /\ t \in FindActiveByApplication(app)
         /\ \A u \in ResolveForApplication(app, method) : u = t
BY SMT DEF ResolveForApplication, Earliest, FindActiveByApplication, Rows, Terminals

LEMMA RouteInitInv == RouteInit => RouteInv
<1> SUFFICES ASSUME RouteInit PROVE RouteInv
  OBVIOUS
<1>1. RouteTypeOK
  <2>1. NoChange \in Change /\ NoPayment \in Payment
    BY Zenon DEF Change, NoChange, Payment, NoPayment
  <2>2. QED
    BY <2>1, RoutingAssumption, SMT DEF RouteInit, RouteTypeOK
<1>2. ChangesFit /\ OneAdmin
  BY SMT DEF RouteInit, ChangesFit, ChangeFits, StillChecked, OneAdmin, NoChange
<1>3. Rows = {}
  BY SMT DEF RouteInit, Rows
<1>4. RowsInOrder
  BY <1>3, RoutingAssumption, SMT DEF RowsInOrder
<1>5. PaymentsFit /\ CacheFits
  BY SMT DEF RouteInit, PaymentsFit, PaymentFits, NoPayment, CacheFits
<1>6. RoutingIsDeterministic
  BY <1>3 DEF RoutingIsDeterministic, FindActiveByApplication
<1>7. QED
  BY <1>1, <1>2, <1>4, <1>5, <1>6 DEF RouteInv

-----------------------------------------------------------------------------
(* The administrators *)

(* A call begins: it marks the application as contended if another is at it. *)
LEMMA BeginChangeInv ==
  ASSUME RouteInv, NEW a \in Admins, NEW call \in Change, BeginChange(a, call),
         call.pc # "idle", ChangeFits(call),
         call.pc # "save",
         call.pc = "insert" => ~RoutingConflict(call.app, call.kinds, Nothing),
         call.pc = "load" /\ call.kinds # Nothing => ~RoutingConflict(call.app, call.kinds, call.terminal)
  PROVE  RouteInv'
<1>1. /\ terminal' = terminal /\ payment' = payment /\ cache' = cache /\ reactivated' = reactivated
      /\ change' = [change EXCEPT ![a] = call]
      /\ contended \subseteq contended' /\ contended' \subseteq Applications
      /\ changes' \in 0..MaxChanges
      /\ \A b \in Admins : change[b].app = call.app => call.app \in contended'
  BY RoutingAssumption, SMT DEF RouteInv, RouteTypeOK, BeginChange, Administered, ChangeFits
<1>2. RouteTypeOK'
  BY <1>1, SMT DEF RouteInv, RouteTypeOK
<1>3. ChangesFit'
  BY <1>1, SameTerminals, SMT DEF RouteInv, RouteTypeOK, ChangesFit, ChangeFits, StillChecked
<1>4. OneAdmin'
  BY <1>1, SMT DEF RouteInv, RouteTypeOK, OneAdmin
<1>5. RowsInOrder' /\ PaymentsFit' /\ CacheFits'
  BY <1>1, SameTerminals, SMT DEF RouteInv, RowsInOrder, PaymentsFit, PaymentFits, CacheFits
<1>6. RoutingIsDeterministic'
  BY <1>1, SameTerminals, SMT DEF RouteInv, RoutingIsDeterministic
<1>7. QED
  BY <1>2, <1>3, <1>4, <1>5, <1>6 DEF RouteInv

LEMMA CreateTerminalInv ==
  ASSUME RouteInv, NEW a \in Admins, NEW app \in Applications, NEW kinds \in SUBSET Methods,
         NEW u \in Usernames, NEW s \in Secrets, CreateTerminal(a, app, kinds, u, s)
  PROVE  RouteInv'
<1> DEFINE call == [NoChange EXCEPT !.pc = "insert", !.app = app, !.kinds = kinds,
                                    !.username = u, !.secret = s]
<1>1. call \in Change
  BY Zenon DEF Change, NoChange
<1>2. /\ call.pc = "insert" /\ call.app = app /\ call.kinds = kinds
      /\ call.username = u /\ call.secret = s
  BY SMT DEF NoChange
<1>3. BeginChange(a, call) /\ ~RoutingConflict(app, kinds, Nothing)
  BY DEF CreateTerminal
<1> HIDE DEF call
<1>4. ChangeFits(call)
  BY <1>2, SMT DEF ChangeFits
<1>5. QED
  BY <1>1, <1>2, <1>3, <1>4, BeginChangeInv

LEMMA UpdateTerminalInv ==
  ASSUME RouteInv, NEW a \in Admins, NEW t \in Terminals, NEW kinds \in (SUBSET Methods) \cup {Nothing},
         NEW u \in Usernames \cup {Nothing}, NEW s \in Secrets \cup {Nothing}, UpdateTerminal(a, t, kinds, u, s)
  PROVE  RouteInv'
<1> DEFINE call == [NoChange EXCEPT !.pc = "load", !.terminal = t, !.app = terminal[t].app,
                                    !.kinds = kinds, !.username = u, !.secret = s]
<1>1. terminal[t].app \in Applications /\ t \in Rows
  BY SMT DEF RouteInv, RouteTypeOK, TerminalRow, UpdateTerminal, Rows
<1>2. call \in Change
  BY <1>1, Zenon DEF Change, NoChange
<1>3. call.pc = "load" /\ call.app = terminal[t].app /\ call.kinds = kinds /\ call.terminal = t
  BY SMT DEF NoChange
<1>4. BeginChange(a, call) /\ (kinds # Nothing => ~RoutingConflict(terminal[t].app, kinds, t))
  BY DEF UpdateTerminal
<1> HIDE DEF call
<1>5. ChangeFits(call)
  BY <1>1, <1>3, SMT DEF ChangeFits
<1>6. QED
  BY <1>2, <1>3, <1>4, <1>5, BeginChangeInv

LEMMA SetActiveInv ==
  ASSUME RouteInv, NEW a \in Admins, NEW t \in Terminals, NEW active \in BOOLEAN, SetActive(a, t, active)
  PROVE  RouteInv'
<1> DEFINE call == [NoChange EXCEPT !.pc = "load", !.terminal = t, !.app = terminal[t].app, !.active = active]
<1>1. terminal[t].app \in Applications /\ t \in Rows
  BY SMT DEF RouteInv, RouteTypeOK, TerminalRow, SetActive, Rows
<1>2. call \in Change
  BY <1>1, Zenon DEF Change, NoChange
<1>3. call.pc = "load" /\ call.app = terminal[t].app /\ call.kinds = Nothing /\ call.terminal = t
  BY SMT DEF NoChange
<1>4. BeginChange(a, call)
  BY DEF SetActive
<1> HIDE DEF call
<1>5. ChangeFits(call)
  BY <1>1, <1>3, SMT DEF ChangeFits
<1>6. QED
  BY <1>2, <1>3, <1>4, <1>5, BeginChangeInv

LEMMA LoadTerminalInv ==
  ASSUME RouteInv, NEW a \in Admins, LoadTerminal(a)
  PROVE  RouteInv'
<1> DEFINE call == [change[a] EXCEPT !.pc = "save", !.row = terminal[change[a].terminal]]
<1>1. /\ change[a] \in Change /\ change[a].pc = "load"
      /\ ChangeFits(change[a]) /\ StillChecked(change[a])
  BY DEF RouteInv, RouteTypeOK, ChangesFit, LoadTerminal
<1>2. change[a].terminal \in Rows /\ terminal[change[a].terminal] \in TerminalRow
  BY <1>1, SMT DEF RouteInv, RouteTypeOK, ChangeFits, Rows
<1>3. call \in Change
  BY <1>1, <1>2, Zenon DEF Change
<1>4. /\ call.pc = "save" /\ call.row = terminal[change[a].terminal] /\ call.terminal = change[a].terminal
      /\ call.app = change[a].app /\ call.kinds = change[a].kinds
  BY <1>1, SMT DEF Change
<1>5. change' = [change EXCEPT ![a] = call]
  BY <1>1 DEF LoadTerminal, RouteInv, RouteTypeOK
<1> HIDE DEF call
<1>6. /\ terminal' = terminal /\ payment' = payment /\ cache' = cache /\ reactivated' = reactivated
      /\ contended' = contended /\ changes' = changes
  BY DEF LoadTerminal
<1>7. RouteTypeOK'
  BY <1>3, <1>5, <1>6, SMT DEF RouteInv, RouteTypeOK
<1>8. ChangeFits(call) /\ StillChecked(call)
  BY <1>1, <1>2, <1>4, SMT DEF ChangeFits, StillChecked
<1>9. ChangesFit'
  BY <1>5, <1>6, <1>8, SameTerminals, SMT DEF RouteInv, RouteTypeOK, ChangesFit, ChangeFits, StillChecked
<1>10. OneAdmin'
  BY <1>4, <1>5, <1>6, SMT DEF RouteInv, RouteTypeOK, OneAdmin
<1>11. RowsInOrder' /\ PaymentsFit' /\ CacheFits' /\ RoutingIsDeterministic'
  BY <1>6, SameTerminals, SMT
     DEF RouteInv, RowsInOrder, PaymentsFit, PaymentFits, CacheFits, RoutingIsDeterministic
<1>12. QED
  BY <1>7, <1>9, <1>10, <1>11 DEF RouteInv

(* A row of the application is written, and the call ends.  What is left of the  *)
(* other calls and of the payments, which are no longer steady if theirs.         *)
LEMMA WriteInv ==
  ASSUME RouteInv, NEW a \in Admins, NEW t \in Terminals, NEW new \in TerminalRow,
         change[a].pc # "idle", new.app = change[a].app,
         terminal' = [terminal EXCEPT ![t] = new],
         terminal[t] = Nothing \/ terminal[t].app = change[a].app,
         RowsInOrder',
         Unsteady(change[a].app),
         change' = [change EXCEPT ![a] = NoChange],
         reactivated' \in {reactivated, reactivated \cup {change[a].app}},
         UNCHANGED <<changes, cache, contended>>,
         change[a].app \notin contended \cup reactivated' /\ new.active =>
           ~RoutingConflict(new.app, new.kinds, t)
  PROVE  RouteInv'
<1>0. PICK own : own = change[a].app
  OBVIOUS
<1>1. own \in Applications /\ own # Nothing
  BY <1>0, RoutingAssumption DEF RouteInv, ChangesFit, ChangeFits
<1>2. new # Nothing
  BY NothingIsNoRow
<1>3. terminal'[t] = new /\ \A u \in Terminals : u # t => terminal'[u] = terminal[u]
  BY SMT DEF RouteInv, RouteTypeOK
<1>4. \A u \in Terminals :
           \/ terminal'[u] = terminal[u]
           \/ /\ terminal[u] = Nothing \/ terminal[u].app = own
              /\ terminal'[u] # Nothing /\ terminal'[u].app = own
  BY <1>0, <1>2, <1>3
<1>5. ASSUME NEW app, app # own
      PROVE  /\ FindActiveByApplication(app)' = FindActiveByApplication(app)
             /\ \A kinds, u : RoutingConflict(app, kinds, u)' <=> RoutingConflict(app, kinds, u)
             /\ \A method : ResolveForApplication(app, method)' = ResolveForApplication(app, method)
  BY <1>4, <1>5, OtherApplications
<1>6. Rows \subseteq Rows'
  BY <1>2, <1>3, SMT DEF Rows
<1>7. RouteTypeOK'
  <2>1. \A p \in Payments : payment[p] \in Payment => [payment[p] EXCEPT !.steady = FALSE] \in Payment
    BY Zenon DEF Payment
  <2>2. payment' \in [Payments -> Payment]
    BY <2>1, SMT DEF RouteInv, RouteTypeOK, Unsteady
  <2>3. NoChange \in Change
    BY Zenon DEF NoChange, Change
  <2>4. reactivated' \subseteq Applications
    BY <1>0, <1>1 DEF RouteInv, RouteTypeOK
  <2>5. QED
    BY <2>2, <2>3, <2>4, SMT DEF RouteInv, RouteTypeOK
<1>8. \A b \in Admins : change[b].app = own /\ b # a => own \in contended
  BY <1>0, <1>1 DEF RouteInv, OneAdmin
<1>9. ChangesFit'
  <2> SUFFICES ASSUME NEW b \in Admins PROVE (ChangeFits(change[b]) /\ StillChecked(change[b]))'
    BY DEF ChangesFit
  <2>1. CASE b = a
    <3>1. change'[b] = NoChange
      BY <2>1 DEF RouteInv, RouteTypeOK
    <3>2. QED
      BY <3>1, SMT DEF ChangeFits, StillChecked, NoChange
  <2>2. CASE b # a
    <3>1. change'[b] = change[b] /\ change[b] \in Change
      BY <2>2 DEF RouteInv, RouteTypeOK
    <3>2. ChangeFits(change[b]) /\ StillChecked(change[b])
      BY DEF RouteInv, ChangesFit
    <3>3. ChangeFits(change[b])'
      BY <1>3, <1>6, <3>1, <3>2, SMT DEF ChangeFits, Rows
    <3>4. CASE change[b].app = own
      <4>1. own \in contended'
        BY <1>8, <2>2, <3>4
      <4>2. QED
        BY <3>1, <3>3, <3>4, <4>1 DEF StillChecked
    <3>5. CASE change[b].app # own
      <4>1. change[b].pc = "save" => terminal'[change[b].terminal] = terminal[change[b].terminal]
        BY <1>0, <1>3, <3>2, <3>5, SMT DEF ChangeFits, Rows
      <4>2. QED
        BY <1>5, <3>1, <3>2, <3>3, <3>5, <4>1 DEF StillChecked
    <3>6. QED
      BY <3>4, <3>5
  <2>3. QED
    BY <2>1, <2>2
<1>10. OneAdmin'
  BY SMT DEF RouteInv, RouteTypeOK, OneAdmin, NoChange
<1>11. PaymentsFit'
  <2> SUFFICES ASSUME NEW p \in Payments PROVE PaymentFits(payment[p])'
    BY DEF PaymentsFit
  <2>1. PaymentFits(payment[p]) /\ payment[p] \in Payment
    BY DEF RouteInv, RouteTypeOK, PaymentsFit
  <2>2. CASE payment[p].app = own
    <3>1. payment'[p] = [payment[p] EXCEPT !.steady = FALSE]
      BY <1>0, <2>2 DEF Unsteady
    <3>2. /\ payment'[p].pc = payment[p].pc /\ payment'[p].app = payment[p].app
          /\ payment'[p].chosen = payment[p].chosen /\ payment'[p].username = payment[p].username
          /\ payment'[p].secret = payment[p].secret /\ payment'[p].token = payment[p].token
          /\ payment'[p].steady = FALSE
      BY <2>1, <3>1, SMT DEF Payment
    <3>3. QED
      BY <1>6, <2>1, <3>2, SMT DEF PaymentFits
  <2>3. CASE payment[p].app # own
    <3>1. PICK c : c = payment[p]
      OBVIOUS
    <3>2. payment'[p] = c
      BY <1>0, <2>3, <3>1 DEF Unsteady
    <3>3. ResolveForApplication(c.app, c.method)' = ResolveForApplication(c.app, c.method)
      BY <1>5, <2>3, <3>1
    <3>4. QED
      BY <1>6, <2>1, <3>1, <3>2, <3>3, SMT DEF PaymentFits
  <2>4. QED
    BY <2>2, <2>3
<1>12. CacheFits'
  BY DEF RouteInv, CacheFits
<1>13. RoutingIsDeterministic'
  <2> SUFFICES ASSUME NEW app \in Applications, app \notin contended' \cup reactivated',
                      NEW u \in FindActiveByApplication(app)', NEW v \in FindActiveByApplication(app)', u # v
               PROVE  /\ terminal'[u].kinds \cap terminal'[v].kinds = {}
                      /\ terminal'[u].kinds # {} \/ terminal'[v].kinds # {}
    BY DEF RoutingIsDeterministic
  <2>1. app \notin contended \cup reactivated
    OBVIOUS
  <2>2. \A w \in FindActiveByApplication(app) : \A x \in FindActiveByApplication(app) :
          w # x => /\ terminal[w].kinds \cap terminal[x].kinds = {}
                   /\ terminal[w].kinds # {} \/ terminal[x].kinds # {}
    BY <2>1 DEF RouteInv, RoutingIsDeterministic
  <2>3. CASE app # own
    <3>1. u \in FindActiveByApplication(app) /\ v \in FindActiveByApplication(app)
      BY <1>5, <2>3
    <3>2. (u # t /\ v # t) \/ (terminal'[u] = terminal[u] /\ terminal'[v] = terminal[v])
      BY <1>0, <1>3, <2>3, SMT DEF FindActiveByApplication, Rows
    <3>3. terminal'[u] = terminal[u] /\ terminal'[v] = terminal[v]
      BY <1>3, <3>1, <3>2 DEF FindActiveByApplication, Rows
    <3>4. QED
      BY <2>2, <3>1, <3>3
  <2>4. CASE app = own
    <3>1. new.active => ~RoutingConflict(own, new.kinds, t)
      BY <1>0, <2>4
    <3>2. \A w \in FindActiveByApplication(app)' : w # t => w \in FindActiveByApplication(app) /\ terminal'[w] = terminal[w]
      BY <1>3, SMT DEF FindActiveByApplication, Rows
    <3>3. t \in FindActiveByApplication(app)' => new.active
      BY <1>3 DEF FindActiveByApplication
    <3>4. \A w \in FindActiveByApplication(app)' : w # t /\ new.active =>
            /\ terminal'[w].kinds \cap new.kinds = {}
            /\ terminal'[w].kinds # {} \/ new.kinds # {}
      <4> SUFFICES ASSUME NEW w \in FindActiveByApplication(app)', w # t, new.active
                   PROVE  /\ terminal'[w].kinds \cap new.kinds = {}
                          /\ terminal'[w].kinds # {} \/ new.kinds # {}
        OBVIOUS
      <4>1. w \in FindActiveByApplication(own) \ {t} /\ terminal'[w] = terminal[w]
        BY <2>4, <3>2
      <4>2. IF new.kinds = {} THEN terminal[w].kinds # {} ELSE terminal[w].kinds \cap new.kinds = {}
        BY <3>1, <4>1 DEF RoutingConflict
      <4>3. QED
        BY <4>1, <4>2
    <3>5. CASE u = t
      BY <1>3, <3>3, <3>4, <3>5
    <3>6. CASE v = t
      BY <1>3, <3>3, <3>4, <3>6
    <3>7. CASE u # t /\ v # t
      BY <2>2, <3>2, <3>7
    <3>8. QED
      BY <3>5, <3>6, <3>7
  <2>5. QED
    BY <2>3, <2>4
<1>14. QED
  BY <1>7, <1>9, <1>10, <1>11, <1>12, <1>13 DEF RouteInv

LEMMA InsertTerminalInv ==
  ASSUME RouteInv, NEW a \in Admins, InsertTerminal(a)
  PROVE  RouteInv'
<1> DEFINE c == change[a]
           t == Cardinality(Rows) + 1
           new == [app |-> c.app, kinds |-> c.kinds, active |-> TRUE, username |-> c.username, secret |-> c.secret]
<1>1. PICK n \in 0..MaxTerminals : Rows = 1..n
  BY DEF RouteInv, RowsInOrder
<1>2. n # MaxTerminals
  BY <1>1 DEF InsertTerminal, Terminals
<1>3. Cardinality(Rows) = n
  <2>1. 1 \in Int /\ n \in Int
    BY <1>1, RoutingAssumption, SMT
  <2>2. Cardinality(1..n) = IF 1 > n THEN 0 ELSE n - 1 + 1
    BY <2>1, FS_Interval
  <2>3. QED
    BY <1>1, <2>2, RoutingAssumption, SMT
<1>4. t \in Terminals /\ t = n + 1 /\ t \notin Rows
  BY <1>1, <1>2, <1>3, RoutingAssumption, SMT DEF Terminals
<1>5. terminal[t] = Nothing
  BY <1>4 DEF Rows
<1>6. /\ c.pc = "insert" /\ c.app \in Applications /\ c.kinds \in SUBSET Methods
      /\ c.username \in Usernames /\ c.secret \in Secrets
  BY DEF RouteInv, ChangesFit, ChangeFits, InsertTerminal
<1>7. new \in TerminalRow /\ new.app = c.app /\ new.kinds = c.kinds /\ new.active
  BY <1>6 DEF TerminalRow
<1>8. /\ terminal' = [terminal EXCEPT ![t] = new] /\ Unsteady(c.app)
      /\ change' = [change EXCEPT ![a] = NoChange]
      /\ UNCHANGED <<changes, cache, contended, reactivated>>
  BY DEF InsertTerminal
<1>9. c.app \notin contended => ~RoutingConflict(c.app, c.kinds, Nothing)
  BY <1>6, RoutingAssumption DEF RouteInv, ChangesFit, StillChecked
<1> HIDE DEF new, t
<1>10. c.app \notin contended => ~RoutingConflict(new.app, new.kinds, t)
  BY <1>4, <1>7, <1>9, RoutingAssumption, SMT DEF RoutingConflict, FindActiveByApplication, Rows, Terminals
<1>11. Rows' = 1..(n + 1)
  <2>1. new # Nothing
    BY <1>7, NothingIsNoRow
  <2>2. \A u \in Terminals : u \in Rows' <=> u \in Rows \/ u = t
    BY <1>4, <1>8, <2>1, SMT DEF RouteInv, RouteTypeOK, Rows
  <2>3. Rows' \subseteq Terminals /\ Rows \subseteq Terminals
    BY DEF Rows
  <2>4. \A u : u \in 1..(n + 1) <=> u \in 1..n \/ u = n + 1
    BY <1>1, RoutingAssumption, SMT
  <2>5. QED
    BY <1>1, <1>4, <2>2, <2>3, <2>4
<1>12. RowsInOrder'
  BY <1>1, <1>2, <1>11, RoutingAssumption, SMT DEF RowsInOrder
<1>13. QED
  BY <1>4, <1>5, <1>6, <1>7, <1>8, <1>10, <1>12, WriteInv

LEMMA SaveTerminalInv ==
  ASSUME RouteInv, NEW a \in Admins, SaveTerminal(a)
  PROVE  RouteInv'
<1> DEFINE c == change[a]
           new == [app |-> c.app, kinds |-> Given(c.kinds, c.row.kinds), active |-> Given(c.active, c.row.active),
                   username |-> Given(c.username, c.row.username), secret |-> Given(c.secret, c.row.secret)]
<1>1. /\ c.pc = "save" /\ c.app \in Applications /\ c.row \in TerminalRow /\ c \in Change
      /\ c.terminal \in Rows /\ terminal[c.terminal].app = c.app
      /\ StillChecked(c)
  BY DEF RouteInv, RouteTypeOK, ChangesFit, ChangeFits, SaveTerminal
<1>2. c.terminal \in Terminals
  BY <1>1 DEF Rows
<1>3. new \in TerminalRow
  <2>1. /\ Given(c.kinds, c.row.kinds) \in SUBSET Methods /\ Given(c.active, c.row.active) \in BOOLEAN
        /\ Given(c.username, c.row.username) \in Usernames /\ Given(c.secret, c.row.secret) \in Secrets
    BY <1>1 DEF Given, Change, TerminalRow
  <2>2. QED
    BY <1>1, <2>1 DEF TerminalRow
<1>4. /\ new.app = c.app /\ new.kinds = Given(c.kinds, c.row.kinds) /\ new.active = Given(c.active, c.row.active)
  OBVIOUS
<1>5. /\ terminal' = [terminal EXCEPT ![c.terminal] = new] /\ Unsteady(c.app)
      /\ change' = [change EXCEPT ![a] = NoChange]
      /\ UNCHANGED <<changes, cache, contended>>
      /\ reactivated' = IF c.active = TRUE THEN reactivated \cup {c.app} ELSE reactivated
  BY DEF SaveTerminal
<1> HIDE DEF new
<1>6. ASSUME c.app \notin contended \cup reactivated', new.active
      PROVE  ~RoutingConflict(new.app, new.kinds, c.terminal)
  <2>1. c.app # Nothing
    BY <1>1, RoutingAssumption
  <2>2. c.row = terminal[c.terminal]
    BY <1>1, <1>6, <2>1 DEF StillChecked
  <2>3. c.active # TRUE /\ c.app \notin reactivated
    BY <1>5, <1>6
  <2>4. c.row.active
    BY <1>1, <1>4, <1>6, <2>3 DEF Given, Change, TerminalRow
  <2>5. c.terminal \in FindActiveByApplication(c.app)
    BY <1>1, <2>2, <2>4 DEF FindActiveByApplication
  <2>6. CASE c.kinds # Nothing
    BY <1>1, <1>4, <1>6, <2>1, <2>6 DEF StillChecked, Given
  <2>7. CASE c.kinds = Nothing
    <3>1. new.kinds = terminal[c.terminal].kinds
      BY <1>4, <2>2, <2>7 DEF Given
    <3>2. \A u \in FindActiveByApplication(c.app) : u # c.terminal =>
            /\ terminal[c.terminal].kinds \cap terminal[u].kinds = {}
            /\ terminal[c.terminal].kinds # {} \/ terminal[u].kinds # {}
      BY <1>1, <1>6, <2>3, <2>5 DEF RouteInv, RoutingIsDeterministic
    <3>3. QED
      BY <1>4, <3>1, <3>2 DEF RoutingConflict
  <2>8. QED
    BY <2>6, <2>7
<1>7. RowsInOrder'
  <2>1. new # Nothing
    BY <1>3, NothingIsNoRow
  <2>2. Rows' = Rows
    BY <1>1, <1>2, <1>5, <2>1, SMT DEF RouteInv, RouteTypeOK, Rows
  <2>3. QED
    BY <2>2 DEF RouteInv, RowsInOrder
<1>8. QED
  BY <1>1, <1>2, <1>3, <1>4, <1>5, <1>6, <1>7, WriteInv

-----------------------------------------------------------------------------
(* The payments *)

LEMMA PaymentStepInv ==
  ASSUME RouteInv, NEW p \in Payments, NEW new \in Payment,
         payment' = [payment EXCEPT ![p] = new], PaymentFits(new),
         cache' \in [Usernames -> Usernames \cup {Nothing}],
         \A u \in Usernames : cache'[u] \in {u, Nothing},
         GatewayOnly
  PROVE  RouteInv'
<1>1. UNCHANGED <<terminal, change, changes, contended, reactivated>>
  BY DEF GatewayOnly
<1>2. RouteTypeOK'
  BY <1>1, SMT DEF RouteInv, RouteTypeOK
<1>3. ChangesFit' /\ OneAdmin' /\ RowsInOrder' /\ RoutingIsDeterministic'
  BY <1>1, SameTerminals, SMT
     DEF RouteInv, ChangesFit, ChangeFits, StillChecked, OneAdmin, RowsInOrder, RoutingIsDeterministic
<1>4. PaymentsFit'
  <2> SUFFICES ASSUME NEW q \in Payments PROVE PaymentFits(payment[q])'
    BY DEF PaymentsFit
  <2>1. payment'[q] = IF q = p THEN new ELSE payment[q]
    BY DEF RouteInv, RouteTypeOK
  <2>2. PaymentFits(payment[q]) /\ payment[q] \in Payment
    BY DEF RouteInv, RouteTypeOK, PaymentsFit
  <2>3. QED
    BY <1>1, <2>1, <2>2, SameTerminals, SMT DEF PaymentFits
<1>5. CacheFits'
  BY DEF CacheFits
<1>6. QED
  BY <1>2, <1>3, <1>4, <1>5 DEF RouteInv

LEMMA CacheKept ==
  ASSUME RouteInv, UNCHANGED cache
  PROVE  /\ cache' \in [Usernames -> Usernames \cup {Nothing}]
         /\ \A u \in Usernames : cache'[u] \in {u, Nothing}
BY DEF RouteInv, RouteTypeOK, CacheFits

LEMMA BeginPaymentInv ==
  ASSUME RouteInv, NEW p \in Payments, NEW app \in Applications, NEW method \in Methods,
         BeginPayment(p, app, method)
  PROVE  RouteInv'
<1> DEFINE new == [NoPayment EXCEPT !.pc = "resolve", !.app = app, !.method = method, !.steady = TRUE]
<1>1. new \in Payment
  BY Zenon DEF Payment, NoPayment
<1>2. new.pc = "resolve" /\ new.app = app /\ new.first = Nothing
  BY SMT DEF NoPayment
<1>3. payment' = [payment EXCEPT ![p] = new] /\ UNCHANGED cache /\ GatewayOnly
  BY DEF BeginPayment, GatewayOnly
<1> HIDE DEF new
<1>4. PaymentFits(new)
  BY <1>2, SMT DEF PaymentFits
<1>5. QED
  BY <1>1, <1>3, <1>4, CacheKept, PaymentStepInv

(* A call that ends leaves the payment waiting for the next one. *)
LEMMA OverFits ==
  ASSUME RouteInv, NEW p \in Payments, payment[p].pc # "idle"
  PROVE  /\ Over(payment[p]) \in Payment /\ PaymentFits(Over(payment[p]))
         /\ Over(payment[p]).pc = "wait" /\ Over(payment[p]).first = payment[p].first
         /\ Over(payment[p]).app = payment[p].app /\ Over(payment[p]).method = payment[p].method
         /\ Over(payment[p]).steady = payment[p].steady
<1>1. payment[p] \in Payment /\ PaymentFits(payment[p])
  BY DEF RouteInv, RouteTypeOK, PaymentsFit
<1>2. Over(payment[p]) \in Payment
  BY <1>1, Zenon DEF Payment, Over
<1>3. /\ Over(payment[p]).pc = "wait" /\ Over(payment[p]).first = payment[p].first
      /\ Over(payment[p]).app = payment[p].app /\ Over(payment[p]).method = payment[p].method
      /\ Over(payment[p]).steady = payment[p].steady
  BY <1>1, SMT DEF Payment, Over
<1>4. PaymentFits(Over(payment[p]))
  BY <1>1, <1>3, SMT DEF PaymentFits
<1>5. QED
  BY <1>2, <1>3, <1>4

LEMMA ResolveInv ==
  ASSUME RouteInv, NEW p \in Payments, Resolve(p)
  PROVE  RouteInv'
<1> DEFINE c == payment[p]
<1>1. c \in Payment /\ PaymentFits(c) /\ c.pc = "resolve" /\ UNCHANGED cache /\ GatewayOnly
  BY DEF RouteInv, RouteTypeOK, PaymentsFit, Resolve
<1>2. ASSUME NEW t \in ResolveForApplication(c.app, c.method),
             Advance(p, [c EXCEPT !.pc = "row", !.chosen = t])
      PROVE  RouteInv'
  <2> DEFINE new == [c EXCEPT !.pc = "row", !.chosen = t]
  <2>1. t \in Rows /\ t \in Terminals
    BY ResolutionIsOne DEF FindActiveByApplication, Rows
  <2>2. new \in Payment
    BY <1>1, <2>1, Zenon DEF Payment
  <2>3. /\ new.pc = "row" /\ new.chosen = t /\ new.app = c.app /\ new.method = c.method
        /\ new.first = c.first /\ new.steady = c.steady
    BY <1>1, SMT DEF Payment
  <2>4. payment' = [payment EXCEPT ![p] = new]
    BY <1>2 DEF Advance
  <2> HIDE DEF new
  <2>5. PaymentFits(new)
    BY <1>1, <2>1, <2>3, SMT DEF PaymentFits
  <2>6. QED
    BY <1>1, <2>2, <2>4, <2>5, CacheKept, PaymentStepInv
<1>3. CASE Fail(p)
  <2>1. payment' = [payment EXCEPT ![p] = Over(payment[p])]
    BY <1>3 DEF Fail, Advance
  <2>2. QED
    BY <1>1, <2>1, OverFits, CacheKept, PaymentStepInv
<1>4. QED
  BY <1>2, <1>3 DEF Resolve

LEMMA ReadTerminalInv ==
  ASSUME RouteInv, NEW p \in Payments, ReadTerminal(p)
  PROVE  RouteInv'
<1> DEFINE c == payment[p]
           new == [c EXCEPT !.pc = "secret", !.username = terminal[c.chosen].username]
<1>1. c \in Payment /\ PaymentFits(c) /\ c.pc = "row" /\ UNCHANGED cache /\ GatewayOnly
  BY DEF RouteInv, RouteTypeOK, PaymentsFit, ReadTerminal
<1>2. terminal[c.chosen].username \in Usernames
  BY <1>1, SMT DEF RouteInv, RouteTypeOK, TerminalRow, PaymentFits, Rows
<1>3. new \in Payment
  BY <1>1, <1>2, Zenon DEF Payment
<1>4. /\ new.pc = "secret" /\ new.username = terminal[c.chosen].username
      /\ new.chosen = c.chosen /\ new.app = c.app /\ new.method = c.method
      /\ new.first = c.first /\ new.steady = c.steady
  BY <1>1, SMT DEF Payment
<1>5. payment' = [payment EXCEPT ![p] = new]
  BY DEF Advance, ReadTerminal
<1> HIDE DEF new
<1>6. PaymentFits(new)
  BY <1>1, <1>2, <1>4, SMT DEF PaymentFits
<1>7. QED
  BY <1>1, <1>3, <1>5, <1>6, CacheKept, PaymentStepInv

LEMMA ReadSecretInv ==
  ASSUME RouteInv, NEW p \in Payments, ReadSecret(p)
  PROVE  RouteInv'
<1> DEFINE c == payment[p]
           new == [c EXCEPT !.pc = "token", !.secret = terminal[c.chosen].secret]
<1>1. c \in Payment /\ PaymentFits(c) /\ c.pc = "secret" /\ UNCHANGED cache /\ GatewayOnly
  BY DEF RouteInv, RouteTypeOK, PaymentsFit, ReadSecret
<1>2. terminal[c.chosen].secret \in Secrets
  BY <1>1, SMT DEF RouteInv, RouteTypeOK, TerminalRow, PaymentFits, Rows
<1>3. new \in Payment
  BY <1>1, <1>2, Zenon DEF Payment
<1>4. /\ new.pc = "token" /\ new.secret = terminal[c.chosen].secret /\ new.username = c.username
      /\ new.chosen = c.chosen /\ new.app = c.app /\ new.method = c.method
      /\ new.first = c.first /\ new.steady = c.steady
  BY <1>1, SMT DEF Payment
<1>5. payment' = [payment EXCEPT ![p] = new]
  BY DEF Advance, ReadSecret
<1> HIDE DEF new
<1>6. PaymentFits(new)
  BY <1>1, <1>2, <1>4, SMT DEF PaymentFits
<1>7. QED
  BY <1>1, <1>3, <1>5, <1>6, CacheKept, PaymentStepInv

(* The call leaves with the token of its own user. *)
LEMMA TokenFits ==
  ASSUME RouteInv, NEW p \in Payments, payment[p].pc = "token"
  PROVE  LET new == [payment[p] EXCEPT !.pc = "send", !.token = payment[p].username]
         IN  new \in Payment /\ PaymentFits(new)
<1> DEFINE c == payment[p]
           new == [c EXCEPT !.pc = "send", !.token = c.username]
<1>1. c \in Payment /\ PaymentFits(c)
  BY DEF RouteInv, RouteTypeOK, PaymentsFit
<1>2. c.username \in Usernames
  BY <1>1 DEF PaymentFits
<1>3. new \in Payment
  BY <1>1, <1>2, Zenon DEF Payment
<1>4. /\ new.pc = "send" /\ new.token = c.username /\ new.username = c.username
      /\ new.chosen = c.chosen /\ new.app = c.app /\ new.method = c.method
      /\ new.first = c.first /\ new.steady = c.steady
  BY <1>1, SMT DEF Payment
<1> HIDE DEF new
<1>5. PaymentFits(new)
  BY <1>1, <1>4, SMT DEF PaymentFits
<1>6. QED
  BY <1>3, <1>5 DEF new

LEMMA GetCachedTokenInv ==
  ASSUME RouteInv, NEW p \in Payments, GetCachedToken(p)
  PROVE  RouteInv'
<1>1. payment[p].username \in Usernames
  BY DEF RouteInv, PaymentsFit, PaymentFits, GetCachedToken
<1>2. cache[payment[p].username] = payment[p].username
  BY <1>1 DEF RouteInv, CacheFits, GetCachedToken
<1>3. /\ payment[p].pc = "token" /\ UNCHANGED cache /\ GatewayOnly
      /\ payment' = [payment EXCEPT ![p] = [payment[p] EXCEPT !.pc = "send", !.token = payment[p].username]]
  BY <1>2 DEF GetCachedToken, Advance
<1>4. QED
  BY <1>3, TokenFits, CacheKept, PaymentStepInv

LEMMA FetchTokenInv ==
  ASSUME RouteInv, NEW p \in Payments, FetchToken(p)
  PROVE  RouteInv'
<1>1. payment[p].username \in Usernames /\ payment[p].pc = "token" /\ GatewayOnly
  BY DEF RouteInv, PaymentsFit, PaymentFits, FetchToken
<1>2. CASE OwnerOf[payment[p].secret] = payment[p].username
  <2>1. payment' = [payment EXCEPT ![p] = [payment[p] EXCEPT !.pc = "send", !.token = payment[p].username]]
    BY <1>2 DEF FetchToken, Advance
  <2>2. cache' = IF Cached THEN [cache EXCEPT ![payment[p].username] = payment[p].username] ELSE cache
    BY <1>2 DEF FetchToken
  <2>3. /\ cache' \in [Usernames -> Usernames \cup {Nothing}]
        /\ \A u \in Usernames : cache'[u] \in {u, Nothing}
    BY <1>1, <2>2 DEF RouteInv, RouteTypeOK, CacheFits
  <2>4. QED
    BY <1>1, <2>1, <2>3, TokenFits, PaymentStepInv
<1>3. CASE OwnerOf[payment[p].secret] # payment[p].username
  <2>1. payment' = [payment EXCEPT ![p] = Over(payment[p])] /\ UNCHANGED cache
    BY <1>3 DEF FetchToken, Fail, Advance
  <2>2. QED
    BY <1>1, <2>1, OverFits, CacheKept, PaymentStepInv
<1>4. QED
  BY <1>2, <1>3

LEMMA SendInv ==
  ASSUME RouteInv, NEW p \in Payments, Send(p)
  PROVE  RouteInv'
<1> DEFINE c == payment[p]
           over == Over(payment[p])
           new == [over EXCEPT !.first = IF c.first = Nothing THEN c.chosen ELSE c.first]
<1>1. c \in Payment /\ PaymentFits(c) /\ c.pc = "send" /\ UNCHANGED cache /\ GatewayOnly
  BY DEF RouteInv, RouteTypeOK, PaymentsFit, Send
<1>2. /\ over \in Payment /\ PaymentFits(over)
      /\ over.pc = "wait" /\ over.first = c.first /\ over.app = c.app /\ over.method = c.method
      /\ over.steady = c.steady
  BY <1>1, OverFits
<1>3. payment' = [payment EXCEPT ![p] = new]
  BY <1>2, Zenon DEF Advance, Send
<1> HIDE DEF over
<1>4. (IF c.first = Nothing THEN c.chosen ELSE c.first) \in Terminals \cup {Nothing}
  BY <1>1 DEF Payment
<1>5. new \in Payment
  BY <1>2, <1>4, Zenon DEF Payment
<1>6. /\ new.pc = "wait" /\ new.app = c.app /\ new.method = c.method /\ new.steady = c.steady
      /\ new.first = IF c.first = Nothing THEN c.chosen ELSE c.first
  BY <1>2, SMT DEF Payment
<1> HIDE DEF new
<1>7. PaymentFits(new)
  BY <1>1, <1>6, SMT DEF PaymentFits
<1>8. QED
  BY <1>1, <1>3, <1>5, <1>7, CacheKept, PaymentStepInv

LEMMA FollowUpInv ==
  ASSUME RouteInv, NEW p \in Payments, FollowUp(p)
  PROVE  RouteInv'
<1> DEFINE c == payment[p]
           new == [c EXCEPT !.pc = "resolve"]
<1>1. c \in Payment /\ PaymentFits(c) /\ c.pc = "wait" /\ UNCHANGED cache /\ GatewayOnly
  BY DEF RouteInv, RouteTypeOK, PaymentsFit, FollowUp
<1>2. new \in Payment
  BY <1>1, Zenon DEF Payment
<1>3. /\ new.pc = "resolve" /\ new.app = c.app /\ new.method = c.method /\ new.first = c.first
      /\ new.steady = c.steady
  BY <1>1, SMT DEF Payment
<1>4. payment' = [payment EXCEPT ![p] = new]
  BY DEF Advance, FollowUp
<1> HIDE DEF new
<1>5. PaymentFits(new)
  BY <1>1, <1>3, SMT DEF PaymentFits
<1>6. QED
  BY <1>1, <1>2, <1>4, <1>5, CacheKept, PaymentStepInv

LEMMA TokenExpiresInv ==
  ASSUME RouteInv, NEW u \in Usernames, TokenExpires(u)
  PROVE  RouteInv'
<1>1. UNCHANGED <<terminal, change, changes, payment, contended, reactivated>>
  BY DEF TokenExpires
<1>2. RouteTypeOK' /\ CacheFits'
  BY <1>1, SMT DEF RouteInv, RouteTypeOK, CacheFits, TokenExpires
<1>3. ChangesFit' /\ OneAdmin' /\ RowsInOrder' /\ PaymentsFit' /\ RoutingIsDeterministic'
  BY <1>1, SameTerminals, SMT
     DEF RouteInv, ChangesFit, ChangeFits, StillChecked, OneAdmin, RowsInOrder, PaymentsFit, PaymentFits,
         RoutingIsDeterministic
<1>4. QED
  BY <1>2, <1>3 DEF RouteInv

-----------------------------------------------------------------------------
LEMMA AdministerInv ==
  ASSUME RouteInv, NEW a \in Admins, Administer(a)
  PROVE  RouteInv'
<1>1. CASE \E app \in Applications, kinds \in SUBSET Methods, s \in Secrets :
             CreateTerminal(a, app, kinds, OwnerOf[s], s)
  BY <1>1, RoutingAssumption, CreateTerminalInv
<1>2. CASE \E t \in Terminals :
       \/ \E kinds \in SUBSET Methods : UpdateTerminal(a, t, kinds, Nothing, Nothing)
       \/ \E u \in Usernames \cup {Nothing}, s \in Secrets \cup {Nothing} : UpdateTerminal(a, t, Nothing, u, s)
  BY <1>2, UpdateTerminalInv
<1>3. QED
  BY <1>1, <1>2, SetActiveInv, InsertTerminalInv, LoadTerminalInv, SaveTerminalInv DEF Administer

LEMMA RouteNextInv == RouteInv /\ [RouteNext]_routeVars => RouteInv'
<1> SUFFICES ASSUME RouteInv, [RouteNext]_routeVars PROVE RouteInv'
  OBVIOUS
<1>1. CASE RouteNext
  BY <1>1, AdministerInv, BeginPaymentInv, ResolveInv, ReadTerminalInv, ReadSecretInv, GetCachedTokenInv,
     FetchTokenInv, SendInv, FollowUpInv, TokenExpiresInv DEF RouteNext, Pay
<1>2. CASE UNCHANGED routeVars
  <2>1. UNCHANGED <<terminal, change, changes, payment, cache, contended, reactivated>>
    BY <1>2 DEF routeVars
  <2>2. QED
    BY <2>1, SameTerminals, SMT
       DEF RouteInv, RouteTypeOK, ChangesFit, ChangeFits, StillChecked, OneAdmin, RowsInOrder, PaymentsFit,
           PaymentFits, CacheFits, RoutingIsDeterministic
<1>3. QED
  BY <1>1, <1>2

(* The invariant holds of every behaviour of administrators and payments. *)
THEOREM RouteInvariance == RouteSpec => []RouteInv
<1>1. QED
  BY RouteInitInv, RouteNextInv, PTL DEF RouteSpec

(* Every state of the routing is well typed. *)
THEOREM RouteTypeCorrect == RouteSpec => []RouteTypeOK
<1>1. RouteInv => RouteTypeOK
  BY DEF RouteInv
<1>2. QED
  BY <1>1, RouteInvariance, PTL

(* A method has one active terminal, and an application one default, where the   *)
(* administrators' calls did not overlap and nothing was activated again.          *)
THEOREM RoutingDetermined == RouteSpec => []RoutingIsDeterministic
<1>1. RouteInv => RoutingIsDeterministic
  BY DEF RouteInv
<1>2. QED
  BY <1>1, RouteInvariance, PTL

(* Every call of a payment goes to the terminal its first one went to, with the  *)
(* token of the user that terminal names, unless the terminals change meanwhile.   *)
THEOREM CallsStayOnTheirTerminal == RouteSpec => []CallsKeepTheirTerminal
<1>1. RouteInv => CallsKeepTheirTerminal
  <2> SUFFICES ASSUME RouteInv, NEW p \in Payments, payment[p].pc = "send"
               PROVE  /\ payment[p].token = payment[p].username
                      /\ payment[p].steady =>
                           /\ payment[p].first \in {Nothing, payment[p].chosen}
                           /\ terminal[payment[p].chosen].active
                           /\ terminal[payment[p].chosen].app = payment[p].app
    BY DEF CallsKeepTheirTerminal, FollowUpStaysOnItsTerminal, TokenIsItsUsers
  <2>1. PaymentFits(payment[p])
    BY DEF RouteInv, PaymentsFit
  <2>2. ASSUME payment[p].steady
        PROVE  /\ payment[p].chosen \in FindActiveByApplication(payment[p].app)
               /\ payment[p].first \in {Nothing, payment[p].chosen}
    BY <2>1, <2>2, ResolutionIsOne DEF PaymentFits
  <2>3. QED
    BY <2>1, <2>2 DEF PaymentFits, FindActiveByApplication
<1>2. QED
  BY <1>1, RouteInvariance, PTL

-----------------------------------------------------------------------------
(* The exchange with the bank *)

(* Only the bank's debits have a payer. *)
MovementsFit == \A m \in Movements : movement[m].payer # Nil => movement[m].kind = "debit"

(* The money a payment is credited for. *)
Backed(x) ==
  \/ Charged(x)
  \/ /\ exchange[x].method \in TypedMethods
     /\ LET m == movement[exchange[x].key.of]
        IN  /\ m.kind = exchange[x].method /\ (m.kind = "pago_movil" => m.bill = exchange[x].bill)
            /\ (exchange[x].key.form = "short") <=> m.short

(* A reference the bank gave: the order's, or that of a debit of the payment's own. *)
OwnReference(x, ref) == ref = OrderOf(x) \/ (ref \in MovementReference /\ movement[ref.of].payer = x)

Rejections == {"SITEF", "SITEF_330", "REFERENCE_ALREADY_USED"}

(* Which step a payment can be in, with which method, and what it knows of the   *)
(* reference: a typed one is kept from the start, in eight digits; a debit's is    *)
(* learned when it succeeds.                                                        *)
StepFits(e) ==
  /\ e.pc = "new" => e = NewExchange
  /\ e.pc # "new" => e.bill \in Bills
  /\ e.pc \in {"sent", "answered"} =>
       \/ (e.step = "create" /\ e.status = "pending")
       \/ (e.step = "otp" /\ e.status = "requires_otp")
       \/ (e.step = "poll" /\ e.status = "requires_action" /\ e.method = "web_button")
  /\ e.status = "requires_otp" => e.method \in CodeMethods
  /\ e.status = "requires_action" => e.method \in {"card_ccr", "web_button"}
  /\ e.pc # "new" /\ e.method \in TypedMethods => e.key \in MovementReference /\ e.key.form # "full"
  /\ e.method \notin TypedMethods /\ e.status # "succeeded" => e.key = Nil
  /\ e.code = "DEBIT_NO_REFERENCE" => e.status = "failed"
  /\ e.step = "poll" => e.method = "web_button"
  /\ e.step = "poll" /\ e.status = "failed" => e.code \in Rejections
  /\ e.shown => e.status = "succeeded"

(* What backs a success, credited or about to be. *)
CreditFits(x) ==
  exchange[x].status = "succeeded" =>
    /\ Backed(x)
    /\ exchange[x].method \notin TypedMethods /\ exchange[x].key # Nil => OwnReference(x, exchange[x].key)

(* A query shows the movement, finds nothing, or is rejected. *)
QueryFits(e, o) ==
  \/ o.status = "succeeded"
  \/ e.body.block # "list" /\ (o.status = "pending" \/ (o.status = "failed" /\ o.code \in Rejections))

AnswerFits(x) ==
  LET e == exchange[x]
      o == Mapped(e, OrderOf(x))
  IN  e.pc = "answered" =>
        /\ o.status = "succeeded" =>
             /\ Backed(x)
             /\ e.method \notin TypedMethods /\ o.ref # Nil => OwnReference(x, o.ref)
        /\ e.step = "poll" => QueryFits(e, o)

(* Where money that was debited may be: about to be credited, about to be asked for in *)
(* a query, or in one of the ways it may escape.                                        *)
ChargeFits(x) ==
  LET e == exchange[x]
      o == Mapped(e, OrderOf(x))
  IN  Charged(x) =>
        /\ e.pc # "new" /\ e.method \notin TypedMethods
        /\ e.pc = "sent" => e.lost \/ e.status = "requires_action"
        /\ e.pc = "answered" =>
             e.lost \/ o.status = "succeeded" \/ o.code = "DEBIT_NO_REFERENCE" \/ e.step = "poll"
        /\ e.pc = "rest" =>
             \/ e.lost \/ e.status = "succeeded" \/ e.code = "DEBIT_NO_REFERENCE"
             \/ e.status = "requires_action" \/ (e.status = "failed" /\ e.step = "poll")

ExchangeFits(x) == StepFits(exchange[x]) /\ CreditFits(x) /\ AnswerFits(x) /\ ChargeFits(x)

ExchangesFit == \A x \in Exchanges : ExchangeFits(x)

(* The unique index: no two credits with one key. *)
KeysDiffer ==
  \A x, y \in Exchanges :
    /\ x # y /\ exchange[x].status = "succeeded" /\ exchange[y].status = "succeeded"
    /\ exchange[x].key # Nil
    => exchange[x].key # exchange[y].key

SitefInv == SitefTypeOK /\ CardIsNotKept /\ MovementsFit /\ ExchangesFit /\ KeysDiffer

(* Bodies *)

Notices == {"none", "blank", "error", "not_found", "duplicate"}
Blocks == {"none", "c2p", "keyInfo", "debit", "list", "auth", "tx", "order", "receipt", "url"}
Sayings == {"nothing", "approved", "otp", "rejected", "ready"}
Codes == {"none", "REFERENCE_ALREADY_USED", "SITEF", "SITEF_330", "BANK", "NOT_FOUND", "NO_RESPONSE", "NO_CONFIRMATION",
          "DEBIT_NO_REFERENCE", "AUTH_FAILED", "CCR_NO_ORDER", "CCR_REJECTED"}

BodyHas(b, notice, block, says, ref, bill) ==
  /\ b \in Body /\ b.notice = notice /\ b.block = block /\ b.says = says
  /\ b.ref = ref /\ b.bill = bill

(* A body is its six parts. *)
LEMMA BodyParts ==
  ASSUME NEW notice \in Notices, NEW block \in Blocks, NEW says \in Sayings,
         NEW ref \in Reference \cup {Nil}, NEW bill \in Bills \cup {Nil}, NEW http \in {200, 400},
         NEW b, b = [notice |-> notice, block |-> block, says |-> says, ref |-> ref, bill |-> bill, http |-> http]
  PROVE  BodyHas(b, notice, block, says, ref, bill)
BY DEF BodyHas, Body, Notices, Blocks, Sayings

LEMMA SayingBody ==
  ASSUME NEW block \in Blocks, NEW says \in Sayings
  PROVE  BodyHas(Saying(block, says), "none", block, says, Nil, Nil)
<1>1. ASSUME NEW b, b = Saying(block, says)
      PROVE  b = [notice |-> "none", block |-> block, says |-> says, ref |-> Nil,
                  bill |-> Nil, http |-> 200]
  BY <1>1 DEF Saying, Bare
<1>2. "none" \in Notices
  BY DEF Notices
<1> QED
  BY <1>1, <1>2, BodyParts

LEMMA BareBody == BodyHas(Bare, "none", "none", "nothing", Nil, Nil)
BY DEF BodyHas, Bare, Body

(* A notice, a reference, an invoice put on a body change nothing else of it. *)
LEMMA BodyExcept ==
  ASSUME NEW b \in Body, NEW notice \in Notices, NEW ref \in Reference \cup {Nil},
         NEW bill \in Bills \cup {Nil}
  PROVE  /\ BodyHas([b EXCEPT !.notice = notice], notice, b.block, b.says, b.ref, b.bill)
         /\ BodyHas([b EXCEPT !.ref = ref], b.notice, b.block, b.says, ref, b.bill)
         /\ BodyHas([b EXCEPT !.bill = bill], b.notice, b.block, b.says, b.ref, bill)
         /\ BodyHas([b EXCEPT !.notice = notice, !.ref = ref], notice, b.block, b.says, ref, b.bill)
         /\ BodyHas([b EXCEPT !.notice = notice, !.bill = bill], notice, b.block, b.says, b.ref, bill)
<1>1. /\ b.notice \in Notices /\ b.block \in Blocks /\ b.says \in Sayings
      /\ b.ref \in Reference \cup {Nil} /\ b.bill \in Bills \cup {Nil} /\ b.http \in {200, 400}
      /\ b = [notice |-> b.notice, block |-> b.block, says |-> b.says, ref |-> b.ref,
              bill |-> b.bill, http |-> b.http]
  BY DEF Body, Notices, Blocks, Sayings
<1>2. ASSUME NEW c, c = [b EXCEPT !.notice = notice]
      PROVE  BodyHas(c, notice, b.block, b.says, b.ref, b.bill)
  <2>1. c = [notice |-> notice, block |-> b.block, says |-> b.says, ref |-> b.ref,
             bill |-> b.bill, http |-> b.http]
    BY <1>1, <1>2
  <2> QED
    BY <1>1, <2>1, BodyParts
<1>3. ASSUME NEW c, c = [b EXCEPT !.ref = ref]
      PROVE  BodyHas(c, b.notice, b.block, b.says, ref, b.bill)
  <2>1. c = [notice |-> b.notice, block |-> b.block, says |-> b.says, ref |-> ref,
             bill |-> b.bill, http |-> b.http]
    BY <1>1, <1>3
  <2> QED
    BY <1>1, <2>1, BodyParts
<1>4. ASSUME NEW c, c = [b EXCEPT !.bill = bill]
      PROVE  BodyHas(c, b.notice, b.block, b.says, b.ref, bill)
  <2>1. c = [notice |-> b.notice, block |-> b.block, says |-> b.says, ref |-> b.ref,
             bill |-> bill, http |-> b.http]
    BY <1>1, <1>4
  <2> QED
    BY <1>1, <2>1, BodyParts
<1>5. ASSUME NEW c, c = [b EXCEPT !.notice = notice, !.ref = ref]
      PROVE  BodyHas(c, notice, b.block, b.says, ref, b.bill)
  <2>1. c = [notice |-> notice, block |-> b.block, says |-> b.says, ref |-> ref,
             bill |-> b.bill, http |-> b.http]
    BY <1>1, <1>5
  <2> QED
    BY <1>1, <2>1, BodyParts
<1>6. ASSUME NEW c, c = [b EXCEPT !.notice = notice, !.bill = bill]
      PROVE  BodyHas(c, notice, b.block, b.says, b.ref, bill)
  <2>1. c = [notice |-> notice, block |-> b.block, says |-> b.says, ref |-> b.ref,
             bill |-> bill, http |-> b.http]
    BY <1>1, <1>6
  <2> QED
    BY <1>1, <2>1, BodyParts
<1> QED
  BY <1>2, <1>3, <1>4, <1>5, <1>6

LEMMA HttpBody ==
  ASSUME NEW b \in Body
  PROVE  BodyHas([b EXCEPT !.http = 400], b.notice, b.block, b.says, b.ref, b.bill)
BY DEF BodyHas, Body

LEMMA RefusingBody ==
  ASSUME NEW b \in Refusing
  PROVE  /\ BodyHas(b, b.notice, "none", "nothing", Nil, Nil)
         /\ b.notice \in {"error", "not_found"}
<1>1. PICK n \in {"error", "not_found"}, h \in {200, 400} :
        b = [Bare EXCEPT !.notice = n, !.http = h]
  BY DEF Refusing
<1>2. b = [notice |-> n, block |-> "none", says |-> "nothing", ref |-> Nil, bill |-> Nil, http |-> h]
  BY <1>1 DEF Bare
<1>3. n \in Notices /\ "none" \in Blocks /\ "nothing" \in Sayings
  BY DEF Notices, Blocks, Sayings
<1> QED
  BY <1>2, <1>3, BodyParts

(* Outcomes *)

GoodOutcome(o, statuses) ==
  /\ o.status \in statuses /\ o.ref \in Reference \cup {Nil} /\ o.code \in Codes
  /\ o.code = "DEBIT_NO_REFERENCE" => o.status = "failed"

(* Each mapping, whatever the body, gives a status its method may have. *)
LEMMA C2pOutcome ==
  ASSUME NEW b \in Body, NEW step
  PROVE  GoodOutcome(MapC2pResult(b, step), C2pAnswers)
<1>1. b.ref \in Reference \cup {Nil}
  BY DEF Body
<1>2. GoodOutcome(MapMercantilKeyInfo(b, step), C2pAnswers)
  BY <1>1 DEF GoodOutcome, MapMercantilKeyInfo, Outcome, Refused, C2pAnswers, Codes
<1>3. GoodOutcome(MapImmediateDebit(b), C2pAnswers)
  BY <1>1 DEF GoodOutcome, MapImmediateDebit, Outcome, Refused, C2pAnswers, Codes
<1>4. ASSUME NEW o, o \in {Refused(b.ref, SitefRejection(b)), Refused(Nil, "NO_RESPONSE"),
                         Outcome("succeeded", b.ref, "none"), Outcome("requires_otp", b.ref, "none"),
                         Refused(b.ref, "BANK")}
      PROVE  GoodOutcome(o, C2pAnswers)
  BY <1>1, <1>4 DEF GoodOutcome, Outcome, Refused, SitefRejection, C2pAnswers, Codes
<1> QED
  BY <1>2, <1>3, <1>4 DEF MapC2pResult, MapC2pBlock

LEMMA ListOutcome ==
  ASSUME NEW b \in Body, NEW expected
  PROVE  /\ GoodOutcome(MapTransactionListResult(b, expected), VerificationAnswers)
         /\ GoodOutcome(MapPollResult(b, expected), PollAnswers)
<1>1. b.ref \in Reference \cup {Nil}
  BY DEF Body
<1> QED
  BY <1>1 DEF MapTransactionListResult, MapPollResult, GoodOutcome, Outcome, Refused, SitefRejection,
     VerificationAnswers, PollAnswers, Codes

LEMMA CardOutcome ==
  ASSUME NEW b \in Body
  PROVE  /\ GoodOutcome(MapMercantilAuthResult(b), CardAnswers)
         /\ GoodOutcome(MapMercantilPayResult(b), CardPayAnswers)
<1>1. b.ref \in Reference \cup {Nil}
  BY DEF Body
<1> QED
  BY <1>1 DEF MapMercantilAuthResult, MapMercantilPayResult, GoodOutcome, Outcome, Refused,
     SitefRejection, CardAnswers, CardPayAnswers, Codes

LEMMA CcrOutcome ==
  ASSUME NEW b \in Body, NEW order \in Reference
  PROVE  /\ GoodOutcome(MapCcrOrder(b, order), CcrAnswers)
         /\ GoodOutcome(MapCcrReceipt(b, order), CcrFinalAnswers)
         /\ GoodOutcome(MapWebButton(b), WebButtonAnswers)
<1>1. b.ref \in Reference \cup {Nil}
  BY DEF Body
<1> QED
  BY <1>1 DEF MapCcrOrder, MapCcrReceipt, MapWebButton, GoodOutcome, Outcome, Refused,
     SitefRejection, CcrAnswers, CcrFinalAnswers, WebButtonAnswers, Codes

ForeseenAnswers(e) ==
  CASE e.step = "create" -> CreateAnswers(e.method)
    [] e.step = "otp"    -> OtpAnswers(e.method)
    [] OTHER             -> StatusAnswers(e.method)

(* A payment in a step its method has gets an answer PaymentsService knows. *)
LEMMA OutcomeForeseen ==
  ASSUME NEW e \in Exchange, NEW order \in Reference, StepFits(e), e.pc \in {"sent", "answered"}
  PROVE  GoodOutcome(Mapped(e, order), ForeseenAnswers(e))
<1> DEFINE b == e.body
<1>1. b \in Body /\ e.method \in SitefMethods /\ e.debit \in BOOLEAN
  BY DEF Exchange
<1> HIDE DEF b
<1>2. GoodOutcome(CreatePayment(e.method, b, e.bill, e.debit, order), CreateAnswers(e.method))
  <2>1. CardPayAnswers \subseteq CardAnswers
    BY DEF CardPayAnswers, CardAnswers
  <2> QED
    BY <1>1, <2>1, C2pOutcome, ListOutcome, CardOutcome, CcrOutcome
       DEF CreatePayment, CreateAnswers, SitefMethods, TypedMethods, GoodOutcome
<1>3. e.method \in CodeMethods => GoodOutcome(SubmitOtp(e.method, b, order), OtpAnswers(e.method))
  BY <1>1, C2pOutcome, CardOutcome, CcrOutcome DEF SubmitOtp, OtpAnswers, CodeMethods
<1>4. e.method # "card_ccr" => GoodOutcome(MapPollResult(b, e.bill), StatusAnswers(e.method))
  BY <1>1, ListOutcome DEF StatusAnswers
<1>5. \/ e.step = "create"
      \/ (e.step = "otp" /\ e.method \in CodeMethods)
      \/ (e.step = "poll" /\ e.method # "card_ccr")
  BY DEF StepFits
<1> QED
  BY <1>2, <1>3, <1>4, <1>5 DEF Mapped, ForeseenAnswers, b

(* What makes the status of a payment a success, and what an answer may ask for. *)
LEMMA OutcomeStatus ==
  ASSUME NEW e \in Exchange, NEW order \in Reference, StepFits(e), e.pc \in {"sent", "answered"}
  PROVE  LET o == Mapped(e, order) IN
         /\ o.status \in {"pending", "requires_otp", "requires_action", "succeeded", "failed"}
         /\ o.ref \in Reference \cup {Nil} /\ o.code \in Codes
         /\ o.code = "DEBIT_NO_REFERENCE" => o.status = "failed"
         /\ o.status = "requires_otp" => e.method \in CodeMethods
         /\ o.status = "requires_action" => e.method \in {"card_ccr", "web_button"}
         /\ o.status = "requires_action" => e.step = "create"
         /\ o.status = "pending" => e.step = "poll"
<1> DEFINE o == Mapped(e, order)
<1>1. GoodOutcome(o, ForeseenAnswers(e)) /\ e.method \in SitefMethods
  BY OutcomeForeseen DEF Exchange
<1> HIDE DEF o
<1> QED
  BY <1>1 DEF o, GoodOutcome, ForeseenAnswers, CreateAnswers, OtpAnswers, StatusAnswers, VerificationAnswers,
     C2pAnswers, CardAnswers, CardPayAnswers, CcrAnswers, CcrFinalAnswers, WebButtonAnswers,
     PollAnswers, SitefMethods, TypedMethods, CodeMethods, StepFits

(* Steps *)

(* An order's id is no movement's reference. *)
LEMMA OrderForm ==
  ASSUME NEW x \in Exchanges
  PROVE  OrderOf(x) \in Reference /\ OrderOf(x) \notin MovementReference
BY DEF OrderOf, Reference, MovementReference

(* What the bank wrote of a movement it does not take back. *)
MovementsGrow ==
  \A m \in Movements :
    /\ movement[m].payer # Nil => movement'[m].payer = movement[m].payer
    /\ movement[m].kind # "none" => movement'[m].kind = movement[m].kind /\ movement'[m].short = movement[m].short
    /\ movement[m].kind = "pago_movil" /\ movement[m].bill # Nil =>
         movement'[m].bill = movement[m].bill

LEMMA SitefFacts ==
  ASSUME SitefInv, NEW x \in Exchanges
  PROVE  /\ OrderOf(x) \in Reference
         /\ exchange[x] \in Exchange /\ exchange[x].body \in Body
         /\ StepFits(exchange[x]) /\ CreditFits(x) /\ AnswerFits(x) /\ ChargeFits(x)
         /\ exchange[x].bill \in Bills \cup {Nil} /\ exchange[x].key \in Reference \cup {Nil}
         /\ {"cardNumber", "cvv"} \cap (exchange[x].row \cup exchange[x].attempts) = {}
         /\ \A m \in Movements : movement[m] \in Movement
BY OrderForm DEF SitefInv, SitefTypeOK, ExchangesFit, ExchangeFits, CardIsNotKept, Exchange

LEMMA NilIsNobody == Nil \notin Exchanges /\ Nil \notin Bills /\ Nil \notin Movements
BY SitefAssumption

(* A payment that is left alone keeps what backs it. *)
LEMMA OtherExchange ==
  ASSUME SitefInv, NEW y \in Exchanges, exchange'[y] = exchange[y], MovementsGrow,
         Charged(y)' => Charged(y)
  PROVE  ExchangeFits(y)'
<1> DEFINE e == exchange[y]
<1>1. /\ e \in Exchange /\ StepFits(e) /\ CreditFits(y) /\ AnswerFits(y) /\ ChargeFits(y)
      /\ e.bill \in Bills \cup {Nil} /\ e.key \in Reference \cup {Nil}
  BY SitefFacts
<1>2. Charged(y)' <=> Charged(y)
  BY NilIsNobody DEF Charged, MovementsGrow
<1>3. e.pc # "new" => (Backed(y) => Backed(y)')
  <2>1. CASE Charged(y)
    BY <1>2, <2>1 DEF Backed
  <2>2. CASE e.method \in TypedMethods /\ e.pc # "new"
    <3>1. e.key.of \in Movements /\ e.bill \in Bills /\ e.method # "none"
      BY <1>1, <2>2 DEF StepFits, MovementReference, TypedMethods
    <3> DEFINE m == e.key.of
    <3>2. /\ movement[m].kind = e.method => movement'[m].kind = e.method /\ movement'[m].short = movement[m].short
          /\ movement[m].kind = "pago_movil" /\ movement[m].bill = e.bill => movement'[m].bill = e.bill
      BY <3>1, NilIsNobody DEF MovementsGrow
    <3> QED
      BY <1>2, <2>2, <3>2 DEF Backed
  <2> QED
    BY <2>1, <2>2 DEF Backed
<1>4. \A k : OwnReference(y, k) => OwnReference(y, k)'
  BY NilIsNobody DEF MovementsGrow, MovementReference, OwnReference
<1>5. e.status = "succeeded" => e.pc # "new"
  BY <1>1 DEF StepFits, NewExchange
<1>6. CreditFits(y)'
  BY <1>1, <1>3, <1>4, <1>5 DEF CreditFits
<1>7. e.pc = "answered" => Mapped(e, OrderOf(y)).ref \in Reference \cup {Nil}
  BY <1>1, OrderForm, OutcomeStatus
<1>8. AnswerFits(y)'
  BY <1>1, <1>3, <1>4, <1>7 DEF AnswerFits
<1>9. ChargeFits(y)'
  BY <1>1, <1>2 DEF ChargeFits
<1> QED
  BY <1>1, <1>6, <1>8, <1>9 DEF ExchangeFits

(* One payment takes a step. *)
LEMMA ExchangeStep ==
  ASSUME SitefInv, NEW x \in Exchanges, NEW e \in Exchange,
         exchange' = [exchange EXCEPT ![x] = e],
         movement' \in [Movements -> Movement], MovementsFit', MovementsGrow,
         \A y \in Exchanges \ {x} : Charged(y)' => Charged(y),
         ExchangeFits(x)', {"cardNumber", "cvv"} \cap (e.row \cup e.attempts) = {},
         e.status = "succeeded" /\ e.key # Nil =>
           \A y \in Exchanges \ {x} :
             exchange[y].status = "succeeded" => exchange[y].key # e.key
  PROVE  SitefInv'
<1>1. /\ exchange' \in [Exchanges -> Exchange] /\ exchange'[x] = e
      /\ \A y \in Exchanges : y # x => exchange'[y] = exchange[y]
  BY DEF SitefInv, SitefTypeOK
<1>2. SitefTypeOK' /\ CardIsNotKept'
  BY <1>1 DEF SitefInv, SitefTypeOK, CardIsNotKept
<1>3. ExchangesFit'
  BY <1>1, OtherExchange DEF ExchangesFit
<1>4. KeysDiffer'
  BY <1>1 DEF SitefInv, KeysDiffer
<1> QED
  BY <1>2, <1>3, <1>4 DEF SitefInv

(* A step that leaves the bank as it is. *)
LEMMA SameMovements ==
  ASSUME SitefInv, UNCHANGED movement
  PROVE  /\ movement' \in [Movements -> Movement] /\ MovementsFit' /\ MovementsGrow
         /\ \A y : Charged(y)' <=> Charged(y)
BY DEF SitefInv, SitefTypeOK, MovementsFit, MovementsGrow, Charged

(* A free movement becomes the payment's debit. *)
LEMMA Debited ==
  ASSUME SitefInv, NEW x \in Exchanges, NEW m \in Movements, DebitBy(x, m)
  PROVE  /\ movement' \in [Movements -> Movement] /\ MovementsFit' /\ MovementsGrow
         /\ movement'[m].payer = x
         /\ \A y \in Exchanges \ {x} : Charged(y)' => Charged(y)
<1> DEFINE d == [movement[m] EXCEPT !.kind = "debit", !.bill = exchange[x].bill, !.payer = x]
<1>2. /\ movement \in [Movements -> Movement] /\ movement[m] = NoMovement /\ movement[m] \in Movement
      /\ movement' = [movement EXCEPT ![m] = d]
  BY DEF DebitBy, SitefInv, SitefTypeOK
<1>1. d \in Movement
  BY <1>2, SitefFacts DEF Movement
<1>3. d.payer = x /\ d.kind = "debit"
  BY <1>2 DEF Movement
<1> HIDE DEF d
<1>4. /\ movement' \in [Movements -> Movement] /\ movement'[m] = d
      /\ \A n \in Movements : n # m => movement'[n] = movement[n]
  BY <1>1, <1>2
<1>5. MovementsFit' /\ MovementsGrow
  BY <1>2, <1>3, <1>4 DEF SitefInv, MovementsFit, MovementsGrow, NoMovement
<1>6. \A y \in Exchanges \ {x} : Charged(y)' => Charged(y)
  BY <1>3, <1>4 DEF Charged
<1> QED
  BY <1>3, <1>4, <1>5, <1>6

(* The bank answers *)

SameCall(d, e) ==
  /\ d.method = e.method /\ d.debit = e.debit /\ d.bill = e.bill /\ d.key = e.key
  /\ d.step = e.step /\ d.status = e.status /\ d.code = e.code /\ d.polls = e.polls
  /\ d.row = e.row /\ d.attempts = e.attempts /\ d.lost = e.lost /\ d.shown = e.shown

Answering(e, b) == [e EXCEPT !.pc = "answered", !.body = b]

LEMMA AnswerMoves ==
  ASSUME NEW e \in Exchange, NEW b \in Body, NEW d, d = Answering(e, b)
  PROVE  d \in Exchange /\ SameCall(d, e) /\ d.pc = "answered" /\ d.body = b
BY DEF Exchange, SameCall, Answering

(* An answer leaves the call as it was, but for the body. *)
LEMMA Answered ==
  ASSUME SitefInv, NEW x \in Exchanges, NEW b \in Body, exchange[x].pc = "sent", AnswerWith(x, b)
  PROVE  /\ exchange' = [exchange EXCEPT ![x] = exchange'[x]]
         /\ exchange'[x] \in Exchange /\ SameCall(exchange'[x], exchange[x])
         /\ exchange'[x].pc = "answered" /\ exchange'[x].body = b /\ StepFits(exchange'[x])
<1> DEFINE e == exchange[x]
           d == Answering(e, b)
<1>1. e \in Exchange /\ StepFits(e) /\ e.pc = "sent"
  BY SitefFacts
<1>2. exchange' = [exchange EXCEPT ![x] = d] /\ exchange'[x] = d
  BY DEF AnswerWith, SitefInv, SitefTypeOK, Answering
<1>3. d \in Exchange /\ SameCall(d, e) /\ d.pc = "answered" /\ d.body = b
  BY <1>1, AnswerMoves
<1> HIDE DEF d, e
<1>4. StepFits(d)
  BY <1>1, <1>3 DEF StepFits, SameCall
<1> QED
  BY <1>2, <1>3, <1>4 DEF e

(* An answer is fit when its outcome is backed, and loses no charge. *)
LEMMA AnswerStep ==
  ASSUME SitefInv, NEW x \in Exchanges, NEW b \in Body, exchange[x].pc = "sent", AnswerWith(x, b),
         movement' \in [Movements -> Movement], MovementsFit', MovementsGrow,
         \A y \in Exchanges \ {x} : Charged(y)' => Charged(y),
         AnswerFits(x)', ChargeFits(x)'
  PROVE  SitefInv'
<1>1. /\ exchange' = [exchange EXCEPT ![x] = exchange'[x]]
      /\ exchange'[x] \in Exchange /\ SameCall(exchange'[x], exchange[x]) /\ StepFits(exchange'[x])
      /\ exchange'[x].pc = "answered"
  BY Answered
<1>2. exchange'[x].status # "succeeded"
  BY <1>1 DEF StepFits
<1>3. ExchangeFits(x)'
  BY <1>1, <1>2 DEF ExchangeFits, CreditFits
<1>4. {"cardNumber", "cvv"} \cap (exchange'[x].row \cup exchange'[x].attempts) = {}
  BY <1>1, SitefFacts DEF SameCall
<1> QED
  BY <1>1, <1>2, <1>3, <1>4, ExchangeStep

(* A confirmation succeeds with the movement's reference, or shows a debit without one. *)
Decorated(s, notice, ref) == [s EXCEPT !.notice = notice, !.ref = ref]

ConfirmingBlocks(e) ==
  CASE e.method = "c2p"      -> {Saying("c2p", "approved"), Saying("debit", "nothing")}
    [] e.method = "card"     -> {Saying("tx", "approved")}
    [] e.method = "card_ccr" -> {Saying("receipt", "approved")}

(* A reference of a movement's. *)
OfMovement(r, m) == r \in MovementReference /\ r.of = m

LEMMA ListReference ==
  ASSUME NEW m \in Movements
  PROVE  OfMovement(AllDigits(m), m) /\ AllDigits(m) \in Reference
BY DEF OfMovement, AllDigits, MovementReference, Reference

LEMMA ConfirmationSet ==
  ASSUME NEW e, NEW m
  PROVE  Confirmations(e, m) =
           {Decorated(s, n, r) : s \in ConfirmingBlocks(e), n \in {"none", "blank"}, r \in {Nil, AllDigits(m)}}
BY DEF Confirmations, Decorated, ConfirmingBlocks

LEMMA ConfirmationMeans ==
  ASSUME NEW e \in Exchange, NEW m \in Movements, NEW b \in Confirmations(e, m), NEW order \in Reference,
         NEW d, d.method = e.method, d.debit = e.debit, d.bill = e.bill, d.step = e.step, d.body = b,
         \/ e.step = "otp" /\ e.method \in CodeMethods
         \/ (e.step = "create" /\ (e.method = "c2p" \/ (e.method = "card" /\ ~e.debit)))
  PROVE  /\ b \in Body
         /\ \/ (Mapped(d, order).status = "succeeded" /\ (Mapped(d, order).ref # Nil => Mapped(d, order).ref = order \/ OfMovement(Mapped(d, order).ref, m)))
            \/ Mapped(d, order).code = "DEBIT_NO_REFERENCE" /\ Mapped(d, order).status = "failed"
<1> DEFINE refs == {Nil, AllDigits(m)}
           Confirms(block, says) ==
             /\ b \in Body /\ b.notice \in {"none", "blank"} /\ b.block = block /\ b.says = says
             /\ b.ref \in Reference \cup {Nil} /\ (b.ref # Nil => OfMovement(b.ref, m))
<1>1. refs \subseteq Reference \cup {Nil} /\ \A r \in refs : r # Nil => OfMovement(r, m)
  BY ListReference
<1>2. ASSUME NEW block \in Blocks, NEW says \in Sayings, NEW n \in {"none", "blank"}, NEW r \in refs,
             b = Decorated(Saying(block, says), n, r)
      PROVE  Confirms(block, says)
  <2>1. BodyHas(Saying(block, says), "none", block, says, Nil, Nil)
    BY SayingBody
  <2>2. n \in Notices /\ r \in Reference \cup {Nil}
    BY <1>1 DEF Notices
  <2>3. BodyHas(b, n, block, says, r, Nil)
    <3> DEFINE s == Saying(block, says)
    <3>1. s \in Body /\ BodyHas(s, "none", block, says, Nil, Nil)
      BY <2>1 DEF BodyHas
    <3> HIDE DEF s
    <3>2. BodyHas(Decorated(s, n, r), n, s.block, s.says, r, s.bill)
      BY <2>2, <3>1, BodyExcept DEF Decorated
    <3> QED
      BY <1>2, <3>1, <3>2 DEF s, BodyHas
  <2> HIDE DEF refs
  <2> QED
    BY <1>1, <2>2, <2>3 DEF BodyHas
<1>7. PICK s \in ConfirmingBlocks(e), n \in {"none", "blank"}, r \in refs : b = Decorated(s, n, r)
  BY ConfirmationSet
<1> HIDE DEF refs
<1>8. ASSUME NEW block \in Blocks, NEW says \in Sayings, s = Saying(block, says)
      PROVE  Confirms(block, says)
  BY <1>2, <1>7, <1>8
<1> HIDE DEF Confirms
<1>3. CASE e.method = "c2p"
  <2>1. Confirms("c2p", "approved") \/ Confirms("debit", "nothing")
    <3>1. s = Saying("c2p", "approved") \/ s = Saying("debit", "nothing")
      BY <1>3, <1>7 DEF ConfirmingBlocks
    <3> QED
      BY <1>8, <3>1 DEF Blocks, Sayings
  <2>2. Mapped(d, order) = MapC2pResult(b, e.step)
    BY <1>3 DEF Mapped, CreatePayment, SubmitOtp
  <2>3. CASE Confirms("c2p", "approved")
    <3>1. MapC2pResult(b, e.step) = Outcome("succeeded", b.ref, "none")
      BY <2>3 DEF Confirms, MapC2pResult, MapC2pBlock, ExtractSitefError
    <3> QED
      BY <2>2, <2>3, <3>1 DEF Outcome, Confirms
  <2>4. CASE Confirms("debit", "nothing")
    <3>1. MapC2pResult(b, e.step) = MapImmediateDebit(b)
      BY <2>4 DEF Confirms, MapC2pResult, ExtractSitefError
    <3> QED
      BY <2>2, <2>4, <3>1 DEF MapImmediateDebit, Outcome, Refused, Confirms
  <2> QED
    BY <2>1, <2>3, <2>4
<1>4. CASE e.method = "card"
  <2>1. Confirms("tx", "approved")
    <3>1. s = Saying("tx", "approved")
      BY <1>4, <1>7 DEF ConfirmingBlocks
    <3> QED
      BY <1>8, <3>1 DEF Blocks, Sayings
  <2>2. Mapped(d, order) = MapMercantilPayResult(b)
    BY <1>4 DEF Mapped, CreatePayment, SubmitOtp
  <2>3. MapMercantilPayResult(b) = Outcome("succeeded", b.ref, "none")
    BY <2>1 DEF Confirms, MapMercantilPayResult, ExtractSitefError
  <2> QED
    BY <2>1, <2>2, <2>3 DEF Outcome, Confirms
<1>5. CASE e.method = "card_ccr"
  <2>1. Confirms("receipt", "approved")
    <3>1. s = Saying("receipt", "approved")
      BY <1>5, <1>7 DEF ConfirmingBlocks
    <3> QED
      BY <1>8, <3>1 DEF Blocks, Sayings
  <2>2. Mapped(d, order) = MapCcrReceipt(b, order)
    BY <1>5 DEF Mapped, SubmitOtp
  <2>3. MapCcrReceipt(b, order) = Outcome("succeeded", IF b.ref = Nil THEN order ELSE b.ref, "none")
    BY <2>1 DEF Confirms, MapCcrReceipt
  <2> QED
    BY <2>1, <2>2, <2>3 DEF Outcome, Confirms
<1> QED
  BY <1>3, <1>4, <1>5 DEF CodeMethods

(* The bank debits what it was asked to. *)
LEMMA BankChargesStep ==
  ASSUME SitefInv, NEW x \in Exchanges, NEW m \in Movements, BankCharges(x, m)
  PROVE  SitefInv'
<1> DEFINE e == exchange[x]
           d == exchange'[x]
<1>1. e \in Exchange /\ StepFits(e) /\ e.pc = "sent" /\ OrderOf(x) \in Reference
  BY SitefFacts DEF BankCharges
<1>2. \/ e.step = "otp" /\ e.method \in CodeMethods
      \/ (e.step = "create" /\ (e.method = "c2p" \/ (e.method = "card" /\ ~e.debit)))
  BY <1>1 DEF BankCharges, StepFits
<1>3. PICK b \in Confirmations(e, m) : AnswerWith(x, b)
  BY DEF BankCharges
<1>4. b \in Body
  <2> DEFINE c == [method |-> e.method, debit |-> e.debit, bill |-> e.bill, step |-> e.step, body |-> b]
  <2>1. c.method = e.method /\ c.debit = e.debit /\ c.bill = e.bill /\ c.step = e.step /\ c.body = b
    OBVIOUS
  <2> HIDE DEF c, e
  <2> QED BY <1>1, <1>2, <1>3, <2>1, ConfirmationMeans
<1>5. d \in Exchange /\ SameCall(d, e) /\ d.pc = "answered" /\ d.body = b
  BY <1>1, <1>3, <1>4, Answered
<1>6. \/ (Mapped(d, OrderOf(x)).status = "succeeded" /\ (Mapped(d, OrderOf(x)).ref # Nil =>
             Mapped(d, OrderOf(x)).ref = OrderOf(x) \/ OfMovement(Mapped(d, OrderOf(x)).ref, m)))
      \/ Mapped(d, OrderOf(x)).code = "DEBIT_NO_REFERENCE" /\ Mapped(d, OrderOf(x)).status = "failed"
  <2> HIDE DEF d, e
  <2> QED BY <1>1, <1>2, <1>3, <1>5, ConfirmationMeans DEF SameCall
<1>7. /\ movement' \in [Movements -> Movement] /\ MovementsFit' /\ MovementsGrow
      /\ movement'[m].payer = x
      /\ \A y \in Exchanges \ {x} : Charged(y)' => Charged(y)
  BY Debited DEF BankCharges
<1>8. Charged(x)'
  BY <1>7 DEF Charged
<1>9. d.step # "poll"
  BY <1>2, <1>5 DEF SameCall
<1>10. AnswerFits(x)'
  BY <1>6, <1>7, <1>8, <1>9 DEF AnswerFits, Backed, OwnReference, OfMovement
<1>11. ChargeFits(x)'
  BY <1>2, <1>5, <1>6 DEF ChargeFits, SameCall, CodeMethods, TypedMethods
<1> QED
  BY <1>1, <1>3, <1>4, <1>7, <1>10, <1>11, AnswerStep

(* An answer that debits nothing loses no charge: what was debited before is lost already. *)
LEMMA ChargeStays ==
  ASSUME SitefInv, NEW x \in Exchanges, NEW b \in Body, exchange[x].pc = "sent", AnswerWith(x, b),
         Charged(x)' => Charged(x)
  PROVE  ChargeFits(x)'
<1>1. /\ exchange'[x].lost = exchange[x].lost /\ exchange'[x].pc = "answered"
      /\ exchange'[x].method = exchange[x].method /\ exchange'[x].step = exchange[x].step
  BY Answered DEF SameCall
<1>2. Charged(x) => (exchange[x].lost \/ exchange[x].step = "poll") /\ exchange[x].method \notin TypedMethods
  BY SitefFacts DEF ChargeFits, StepFits
<1> QED
  BY <1>1, <1>2 DEF ChargeFits

(* A code or a page is no success. *)
InvitesWith(e, b) ==
  /\ b \in Body
  /\ \/ e.method = "c2p" /\ BodyHas(b, "none", "c2p", "otp", Nil, Nil)
     \/ e.method = "c2p" /\ BodyHas(b, "none", "keyInfo", "approved", Nil, Nil)
     \/ e.method = "card" /\ e.debit /\ BodyHas(b, "none", "auth", "approved", Nil, Nil)
     \/ e.method = "card_ccr" /\ BodyHas(b, "none", "order", b.says, Nil, Nil)
     \/ e.method = "web_button" /\ BodyHas(b, "none", "url", "nothing", Nil, Nil)

LEMMA InvitationMeans ==
  ASSUME NEW e \in Exchange, NEW order \in Reference, e.step = "create", NEW b, InvitesWith(e, b),
         NEW d, SameCall(d, e), d.body = b
  PROVE  Mapped(d, order).status # "succeeded" /\ d.step # "poll"
<1>1. Mapped(d, order) = CreatePayment(e.method, b, e.bill, e.debit, order) /\ d.step # "poll"
  BY DEF Mapped, SameCall
<1>2. CASE e.method = "c2p" /\ BodyHas(b, "none", "c2p", "otp", Nil, Nil)
  BY <1>1, <1>2 DEF CreatePayment, BodyHas, MapC2pResult, MapC2pBlock, ExtractSitefError, Outcome
<1>3. CASE e.method = "c2p" /\ BodyHas(b, "none", "keyInfo", "approved", Nil, Nil)
  BY <1>1, <1>3 DEF CreatePayment, BodyHas, MapC2pResult, MapMercantilKeyInfo, ExtractSitefError, Outcome
<1>4. CASE e.method = "card" /\ e.debit
  BY <1>1, <1>4 DEF CreatePayment, MapMercantilAuthResult, Outcome, Refused
<1>5. CASE e.method = "card_ccr"
  BY <1>1, <1>5 DEF CreatePayment, MapCcrOrder, Outcome, Refused
<1>6. CASE e.method = "web_button"
  BY <1>1, <1>6 DEF CreatePayment, MapWebButton, Outcome, Refused
<1> QED
  BY <1>2, <1>3, <1>4, <1>5, <1>6 DEF InvitesWith

LEMMA BankInvitesStep ==
  ASSUME SitefInv, NEW x \in Exchanges, BankInvites(x)
  PROVE  SitefInv'
<1> DEFINE e == exchange[x]
           d == exchange'[x]
<1>1. /\ e \in Exchange /\ StepFits(e) /\ e.pc = "sent" /\ e.step = "create" /\ e.method \in SitefMethods
      /\ OrderOf(x) \in Reference
  BY SitefFacts DEF BankInvites, Exchange
<1>2. PICK b : AnswerWith(x, b) /\ InvitesWith(e, b)
  <2>1. /\ BodyHas(Saying("c2p", "otp"), "none", "c2p", "otp", Nil, Nil)
        /\ BodyHas(Saying("keyInfo", "approved"), "none", "keyInfo", "approved", Nil, Nil)
        /\ BodyHas(Saying("auth", "approved"), "none", "auth", "approved", Nil, Nil)
    BY SayingBody DEF Blocks, Sayings
  <2>2. /\ BodyHas(Saying("order", "otp"), "none", "order", "otp", Nil, Nil)
        /\ BodyHas(Saying("order", "ready"), "none", "order", "ready", Nil, Nil)
        /\ BodyHas(Saying("url", "nothing"), "none", "url", "nothing", Nil, Nil)
    BY SayingBody DEF Blocks, Sayings
  <2>3. CASE e.method = "c2p"
    <3>1. PICK b \in {Saying("c2p", "otp"), Saying("keyInfo", "approved")} : AnswerWith(x, b)
      BY <2>3 DEF BankInvites
    <3> QED
      BY <2>1, <2>3, <3>1 DEF InvitesWith, BodyHas
  <2>4. CASE e.method = "card"
    <3>1. e.debit /\ AnswerWith(x, Saying("auth", "approved"))
      BY <2>4 DEF BankInvites
    <3> QED
      BY <2>1, <2>4, <3>1 DEF InvitesWith, BodyHas
  <2>5. CASE e.method = "card_ccr"
    <3>1. PICK b \in {Saying("order", "otp"), Saying("order", "ready")} : AnswerWith(x, b)
      BY <2>5 DEF BankInvites
    <3> QED
      BY <2>2, <2>5, <3>1 DEF InvitesWith, BodyHas
  <2>6. CASE e.method = "web_button"
    <3>1. AnswerWith(x, Saying("url", "nothing"))
      BY <2>6 DEF BankInvites
    <3> QED
      BY <2>2, <2>6, <3>1 DEF InvitesWith, BodyHas
  <2>7. e.method \notin TypedMethods
    BY DEF BankInvites, TypedMethods
  <2> QED
    BY <1>1, <2>3, <2>4, <2>5, <2>6, <2>7 DEF SitefMethods
<1>3. b \in Body /\ UNCHANGED movement
  BY <1>2 DEF InvitesWith, BankInvites
<1>4. SameCall(d, e) /\ d.body = b
  BY <1>1, <1>2, <1>3, Answered
<1>5. Mapped(d, OrderOf(x)).status # "succeeded" /\ d.step # "poll"
  <2> HIDE DEF d, e
  <2> QED BY <1>1, <1>2, <1>4, InvitationMeans
<1>6. AnswerFits(x)'
  BY <1>5 DEF AnswerFits
<1>7. ChargeFits(x)'
  BY <1>1, <1>2, <1>3, SameMovements, ChargeStays
<1> QED
  BY <1>1, <1>2, <1>3, <1>6, <1>7, SameMovements, AnswerStep

(* A refusal, a bare body, a second step that confirms nothing: no success; and what *)
(* a query finds rejected says so.                                                     *)
RefusesWith(e, b) ==
  /\ b \in Body
  /\ \/ ExtractSitefError(b) /\ b.block \in {"none", "c2p"}
     \/ b.block = "none"
     \/ b.says = "rejected" /\ b.block \in {"c2p", "keyInfo"} /\ e.method = "c2p"
     \/ b.says = "rejected" /\ b.block = "tx" /\ e.method = "card"
     \/ b.block = "keyInfo" /\ e.step = "otp" /\ e.method = "c2p"

LEMMA RefusalMeans ==
  ASSUME NEW e \in Exchange, NEW order \in Reference, StepFits(e), e.pc = "sent", NEW b, RefusesWith(e, b),
         NEW d, SameCall(d, e), d.body = b
  PROVE  /\ Mapped(d, order).status # "succeeded"
         /\ e.step = "poll" => QueryFits(d, Mapped(d, order))
<1>1. e.method \in SitefMethods /\ e.debit \in BOOLEAN
  BY DEF Exchange
<1>2. ASSUME NEW step, e.method = "c2p", step = e.step
      PROVE  MapC2pResult(b, step).status # "succeeded"
  <2>1. CASE ExtractSitefError(b)
    BY <2>1 DEF MapC2pResult, Refused, Outcome
  <2>2. CASE ~ExtractSitefError(b) /\ b.block = "none"
    BY <2>2 DEF MapC2pResult, Refused, Outcome
  <2>3. CASE ~ExtractSitefError(b) /\ b.says = "rejected" /\ b.block = "c2p"
    BY <2>3 DEF MapC2pResult, MapC2pBlock, Refused, Outcome
  <2>4. CASE ~ExtractSitefError(b) /\ b.block = "keyInfo" /\ (b.says = "rejected" \/ step = "otp")
    BY <2>4 DEF MapC2pResult, MapMercantilKeyInfo, Refused, Outcome
  <2> QED
    BY <1>2, <2>1, <2>2, <2>3, <2>4 DEF RefusesWith
<1>3. ASSUME NEW expected, e.method # "c2p"
      PROVE  MapTransactionListResult(b, expected).status # "succeeded"
  BY <1>3 DEF RefusesWith, MapTransactionListResult, Refused, Outcome
<1>4. CASE e.step = "create"
  <2>1. Mapped(d, order) = CreatePayment(e.method, b, e.bill, e.debit, order)
    BY <1>4 DEF Mapped, SameCall
  <2>2. CASE e.method = "c2p"
    BY <1>2, <1>4, <2>1, <2>2 DEF CreatePayment
  <2>3. CASE e.method \in TypedMethods
    BY <1>4, <1>3, <2>1, <2>3 DEF CreatePayment, TypedMethods
  <2>4. CASE e.method = "card_ccr"
    BY <1>4, <2>1, <2>4 DEF CreatePayment, RefusesWith, MapCcrOrder, Refused, Outcome
  <2>5. CASE e.method = "card"
    BY <1>4, <1>1, <2>1, <2>5 DEF CreatePayment, RefusesWith, MapMercantilAuthResult, MapMercantilPayResult, Refused, Outcome
  <2>6. CASE e.method = "web_button"
    BY <1>4, <2>1, <2>6 DEF CreatePayment, MapWebButton, Refused, Outcome
  <2> QED
    BY <1>1, <1>4, <2>2, <2>3, <2>4, <2>5, <2>6 DEF SitefMethods
<1>5. CASE e.step = "otp"
  <2>1. Mapped(d, order) = SubmitOtp(e.method, b, order) /\ e.method \in CodeMethods
    BY <1>5 DEF Mapped, SameCall, StepFits
  <2>2. CASE e.method = "c2p"
    BY <1>2, <1>5, <2>1, <2>2 DEF SubmitOtp
  <2>3. CASE e.method = "card_ccr"
    BY <1>5, <2>1, <2>3 DEF SubmitOtp, RefusesWith, MapCcrReceipt, Refused, Outcome
  <2>4. CASE e.method = "card"
    BY <1>5, <2>1, <2>4 DEF SubmitOtp, RefusesWith, MapMercantilPayResult, Refused, Outcome
  <2> QED
    BY <1>5, <2>1, <2>2, <2>3, <2>4 DEF CodeMethods
<1>6. CASE e.step = "poll"
  <2>1. Mapped(d, order) = MapPollResult(b, e.bill) /\ e.method = "web_button"
    BY <1>6 DEF Mapped, SameCall, StepFits
  <2>2. CASE ExtractSitefError(b)
    BY <1>6, <2>1, <2>2 DEF RefusesWith, MapPollResult, Refused, Outcome, QueryFits, SitefRejection, Rejections
  <2>3. CASE ~ExtractSitefError(b) /\ b.block = "none"
    BY <1>6, <2>1, <2>3 DEF MapPollResult, Outcome, QueryFits
  <2> QED
    BY <2>1, <2>2, <2>3 DEF RefusesWith
<1> QED
  BY <1>4, <1>5, <1>6 DEF StepFits

(* What the bank answers when it refuses. *)
LEMMA RefusalBodies ==
  ASSUME SitefInv, NEW x \in Exchanges, BankRefuses(x)
  PROVE  \E b : AnswerWith(x, b) /\ RefusesWith(exchange[x], b)
<1> DEFINE e == exchange[x]
<1>1. PICK b \in Refusing \cup {Bare, [Bare EXCEPT !.http = 400]}
            \cup (IF e.method = "c2p" THEN {Saying("c2p", "rejected"), Saying("keyInfo", "rejected")} ELSE {})
            \cup (IF e.step = "otp" /\ e.method = "c2p" THEN {Saying("keyInfo", "approved")} ELSE {})
            \cup (IF e.method = "card" THEN {Saying("tx", "rejected")} ELSE {})
            \cup (IF Charged(x) THEN {[b EXCEPT !.notice = "duplicate"] : b \in {Saying("c2p", "approved")}} ELSE {}) :
            AnswerWith(x, b)
  BY DEF BankRefuses
<1> HIDE DEF e
<1>2. CASE b \in Refusing
  BY <1>1, <1>2, RefusingBody DEF RefusesWith, e, BodyHas
<1>3. CASE b = Bare \/ b = [Bare EXCEPT !.http = 400]
  <2>1. Bare \in Body /\ Bare.block = "none"
    BY BareBody DEF BodyHas
  <2>2. [Bare EXCEPT !.http = 400] \in Body /\ [Bare EXCEPT !.http = 400].block = "none"
    BY <2>1, HttpBody DEF BodyHas
  <2> QED
    BY <1>1, <1>3, <2>1, <2>2 DEF RefusesWith, e
<1>4. CASE e.method = "c2p" /\ (b = Saying("c2p", "rejected") \/ b = Saying("keyInfo", "rejected"))
  <2>1. /\ BodyHas(Saying("c2p", "rejected"), "none", "c2p", "rejected", Nil, Nil)
        /\ BodyHas(Saying("keyInfo", "rejected"), "none", "keyInfo", "rejected", Nil, Nil)
    BY SayingBody DEF Blocks, Sayings
  <2> QED
    BY <1>1, <1>4, <2>1 DEF RefusesWith, e, BodyHas
<1>5. CASE e.step = "otp" /\ e.method = "c2p" /\ b = Saying("keyInfo", "approved")
  <2>1. BodyHas(Saying("keyInfo", "approved"), "none", "keyInfo", "approved", Nil, Nil)
    BY SayingBody DEF Blocks, Sayings
  <2> QED
    BY <1>1, <1>5, <2>1 DEF RefusesWith, e, BodyHas
<1>6. CASE e.method = "card" /\ b = Saying("tx", "rejected")
  <2>1. BodyHas(Saying("tx", "rejected"), "none", "tx", "rejected", Nil, Nil)
    BY SayingBody DEF Blocks, Sayings
  <2> QED
    BY <1>1, <1>6, <2>1 DEF RefusesWith, e, BodyHas
<1>7. CASE b = [Saying("c2p", "approved") EXCEPT !.notice = "duplicate"]
  <2> DEFINE s == Saying("c2p", "approved")
  <2>1. s \in Body /\ BodyHas(s, "none", "c2p", "approved", Nil, Nil)
    BY SayingBody DEF Blocks, Sayings, BodyHas
  <2> HIDE DEF s
  <2>2. BodyHas([s EXCEPT !.notice = "duplicate"], "duplicate", s.block, s.says, s.ref, s.bill)
    <3>1. /\ s.ref \in Reference \cup {Nil} /\ s.bill \in Bills \cup {Nil} /\ "duplicate" \in Notices
      BY <2>1 DEF BodyHas, Notices
    <3> QED
      BY <2>1, <3>1, BodyExcept
  <2> QED
    BY <1>1, <1>7, <2>1, <2>2 DEF RefusesWith, e, BodyHas, ExtractSitefError, s
<1> QED
  BY <1>1, <1>2, <1>3, <1>4, <1>5, <1>6, <1>7 DEF e

LEMMA BankRefusesStep ==
  ASSUME SitefInv, NEW x \in Exchanges, BankRefuses(x)
  PROVE  SitefInv'
<1> DEFINE e == exchange[x]
           d == exchange'[x]
<1>1. e \in Exchange /\ StepFits(e) /\ e.pc = "sent" /\ OrderOf(x) \in Reference
  BY SitefFacts DEF BankRefuses
<1>2. PICK b : AnswerWith(x, b) /\ RefusesWith(e, b)
  BY RefusalBodies
<1>3. b \in Body /\ UNCHANGED movement
  BY <1>2 DEF RefusesWith, BankRefuses
<1>4. SameCall(d, e) /\ d.body = b
  BY <1>1, <1>2, <1>3, Answered
<1>5. /\ Mapped(d, OrderOf(x)).status # "succeeded"
      /\ d.step = "poll" => QueryFits(d, Mapped(d, OrderOf(x)))
  <2> HIDE DEF d, e
  <2> QED BY <1>1, <1>2, <1>4, RefusalMeans DEF SameCall
<1>6. AnswerFits(x)'
  BY <1>5 DEF AnswerFits
<1>7. ChargeFits(x)'
  BY <1>1, <1>2, <1>3, SameMovements, ChargeStays DEF BankRefuses
<1> QED
  BY <1>1, <1>2, <1>3, <1>6, <1>7, SameMovements, AnswerStep

(* The bank shows the movement of a typed reference: a success only of the kind that  *)
(* was asked for, and for a pago movil only to the invoice it is bound to.             *)
LEMMA ListBodies ==
  ASSUME NEW m \in Movements
  PROVE  BodyHas(ListOf(m), "none", "list", "nothing", AllDigits(m), Nil)
<1> DEFINE s == Saying("list", "nothing")
           r == AllDigits(m)
<1>1. r \in Reference \cup {Nil}
  BY ListReference
<1>2. s \in Body /\ BodyHas(s, "none", "list", "nothing", Nil, Nil)
  BY SayingBody DEF Blocks, Sayings, BodyHas
<1>3. ListOf(m) = [s EXCEPT !.ref = r]
  BY DEF ListOf
<1> HIDE DEF s, r
<1>4. s.notice \in Notices /\ s.bill \in Bills \cup {Nil}
  BY <1>2 DEF BodyHas, Notices
<1>5. BodyHas([s EXCEPT !.ref = r], s.notice, s.block, s.says, r, s.bill)
  BY <1>1, <1>2, <1>4, BodyExcept
<1> QED
  BY <1>2, <1>3, <1>5 DEF BodyHas, r

(* A list with a notice or an invoice put on it. *)
LEMMA ListWith ==
  ASSUME NEW m \in Movements, NEW n \in Notices, NEW i \in Bills \cup {Nil}
  PROVE  /\ BodyHas([ListOf(m) EXCEPT !.notice = n], n, "list", "nothing", AllDigits(m), Nil)
         /\ BodyHas([ListOf(m) EXCEPT !.bill = i], "none", "list", "nothing", AllDigits(m), i)
         /\ BodyHas([ListOf(m) EXCEPT !.notice = n, !.bill = i], n, "list", "nothing", AllDigits(m), i)
<1> DEFINE l == ListOf(m)
<1>1. l \in Body /\ BodyHas(l, "none", "list", "nothing", AllDigits(m), Nil)
  BY ListBodies DEF BodyHas
<1> HIDE DEF l
<1>2. l.ref \in Reference \cup {Nil}
  BY <1>1, ListReference DEF BodyHas
<1>3. /\ BodyHas([l EXCEPT !.notice = n], n, l.block, l.says, l.ref, l.bill)
      /\ BodyHas([l EXCEPT !.bill = i], l.notice, l.block, l.says, l.ref, i)
      /\ BodyHas([l EXCEPT !.notice = n, !.bill = i], n, l.block, l.says, l.ref, i)
  BY <1>1, <1>2, BodyExcept
<1> QED
  BY <1>1, <1>3 DEF BodyHas, l

(* The three answers: the movement, shown to the invoice that may have it, or refused. *)
LEMMA TransferShown ==
  ASSUME SitefInv, NEW x \in Exchanges, BankVerifies(x), exchange[x].method = "transfer"
  PROVE  \E b \in Body : AnswerWith(x, b) /\ UNCHANGED movement
<1>1. exchange[x].key.of \in Movements
  BY SitefFacts DEF BankVerifies, StepFits, MovementReference
<1>2. PICK n \in {"none", "blank", "duplicate"} :
        AnswerWith(x, [ListOf(exchange[x].key.of) EXCEPT !.notice = n])
  BY DEF BankVerifies
<1>3. [ListOf(exchange[x].key.of) EXCEPT !.notice = n] \in Body
  <2>1. n \in Notices /\ Nil \in Bills \cup {Nil}
    BY DEF Notices
  <2> QED
    BY <1>1, <2>1, ListWith DEF BodyHas
<1> QED
  BY <1>2, <1>3 DEF BankVerifies

LEMMA PagoMovilShown ==
  ASSUME SitefInv, NEW x \in Exchanges, BankVerifies(x), exchange[x].method = "pago_movil"
  PROVE  LET e == exchange[x]
             m == e.key.of
         IN  \E b \in Body :
               /\ AnswerWith(x, b)
               /\ \/ movement' = [movement EXCEPT ![m].bill = e.bill] /\ movement[m].bill \in {Nil, e.bill}
                  \/ UNCHANGED movement /\ MapTransactionListResult(b, e.bill).status # "succeeded"
<1> DEFINE e == exchange[x]
           m == e.key.of
<1>1. m \in Movements /\ e.bill \in Bills /\ movement[m] \in Movement
  BY SitefFacts DEF BankVerifies, StepFits, MovementReference
<1>2. CASE movement[m].bill \in {Nil, e.bill}
  <2>1. PICK i \in {Nil, e.bill} :
          /\ AnswerWith(x, [ListOf(m) EXCEPT !.bill = i])
          /\ movement' = [movement EXCEPT ![m].bill = e.bill]
    BY <1>2 DEF BankVerifies
  <2>2. [ListOf(m) EXCEPT !.bill = i] \in Body
    <3>1. i \in Bills \cup {Nil} /\ "none" \in Notices
      BY <1>1 DEF Notices
    <3> QED
      BY <1>1, <3>1, ListWith DEF BodyHas
  <2> QED
    BY <1>2, <2>1, <2>2
<1>3. CASE movement[m].bill \notin {Nil, e.bill}
  <2>1. PICK says \in {<<"none", movement[m].bill>>, <<"duplicate", movement[m].bill>>, <<"duplicate", Nil>>} :
          AnswerWith(x, [ListOf(m) EXCEPT !.notice = says[1], !.bill = says[2]]) /\ UNCHANGED movement
    BY <1>3 DEF BankVerifies
  <2> DEFINE n == says[1]  i == says[2]
  <2>2. /\ n \in {"none", "duplicate"} /\ i \in Bills \cup {Nil}
        /\ n = "none" => i = movement[m].bill
    BY <1>1, <2>1 DEF Movement
  <2> HIDE DEF n, i
  <2> DEFINE c == [ListOf(m) EXCEPT !.notice = n, !.bill = i]
  <2>4. c \in Body /\ c.notice = n /\ c.block = "list" /\ c.bill = i
    <3>1. n \in Notices
      BY <2>2 DEF Notices
    <3>2. BodyHas(c, n, "list", "nothing", AllDigits(m), i)
      BY <1>1, <2>2, <3>1, ListWith
    <3> HIDE DEF c
    <3> QED
      BY <3>2 DEF BodyHas
  <2>5. AnswerWith(x, c)
    BY <2>1 DEF n, i
  <2> HIDE DEF c
  <2>6. MapTransactionListResult(c, e.bill).status # "succeeded"
    <3>1. CASE n = "duplicate"
      BY <2>4, <3>1 DEF MapTransactionListResult, ExtractSitefError, Refused, Outcome
    <3>2. CASE n = "none"
      <4>1. e.bill # Nil /\ c.bill \notin {Nil, e.bill}
        BY <1>1, <1>3, <2>2, <2>4, <3>2, NilIsNobody
      <4> QED
        BY <2>4, <4>1 DEF MapTransactionListResult, Refused, Outcome
    <3> QED
      BY <2>2, <3>1, <3>2
  <2> QED
    BY <2>1, <2>4, <2>5, <2>6
<1> QED
  BY <1>2, <1>3

LEMMA BankVerifiesStep ==
  ASSUME SitefInv, NEW x \in Exchanges, BankVerifies(x)
  PROVE  SitefInv'
<1> DEFINE e == exchange[x]
           d == exchange'[x]
           m == e.key.of
<1>1. /\ e \in Exchange /\ StepFits(e) /\ e.pc = "sent" /\ e.method \in TypedMethods
      /\ m \in Movements /\ movement[m].kind = e.method /\ e.bill \in Bills /\ e.step = "create"
      /\ (e.key.form = "short") <=> movement[m].short
      /\ movement \in [Movements -> Movement] /\ movement[m] \in Movement
  BY SitefFacts DEF BankVerifies, StepFits, MovementReference, SitefInv, SitefTypeOK, TypedMethods, CodeMethods
<1>2. ASSUME NEW b \in Body, AnswerWith(x, b), movement' \in [Movements -> Movement],
             MovementsFit', MovementsGrow, \A y : Charged(y)' <=> Charged(y),
             Mapped(d, OrderOf(x)).status = "succeeded" => Backed(x)'
      PROVE  SitefInv'
  <2>1. SameCall(d, e) /\ d.body = b
    BY <1>1, <1>2, Answered
  <2>2. AnswerFits(x)'
    BY <1>1, <1>2, <2>1 DEF AnswerFits, SameCall
  <2>3. ChargeFits(x)'
    BY <1>1, <1>2, ChargeStays
  <2> QED
    BY <1>1, <1>2, <2>2, <2>3, AnswerStep
<1>3. ASSUME NEW b \in Body, AnswerWith(x, b)
      PROVE  /\ SameCall(d, e) /\ d.body = b
             /\ e.method = "pago_movil" => Mapped(d, OrderOf(x)) = MapTransactionListResult(b, e.bill)
  <2>1. SameCall(d, e) /\ d.body = b
    BY <1>1, <1>3, Answered
  <2> HIDE DEF d, e
  <2> QED BY <1>1, <2>1 DEF Mapped, SameCall, CreatePayment
<1>4. CASE e.method = "transfer"
  <2>1. PICK b \in Body : AnswerWith(x, b) /\ UNCHANGED movement
    BY <1>4, TransferShown
  <2>2. Backed(x)'
    BY <1>1, <1>3, <1>4, <2>1 DEF Backed, SameCall
  <2> QED
    BY <1>2, <2>1, <2>2, SameMovements
<1>5. CASE e.method = "pago_movil"
  <2>1. PICK b \in Body :
          /\ AnswerWith(x, b)
          /\ \/ movement' = [movement EXCEPT ![m].bill = e.bill] /\ movement[m].bill \in {Nil, e.bill}
             \/ UNCHANGED movement /\ MapTransactionListResult(b, e.bill).status # "succeeded"
    BY <1>5, PagoMovilShown
  <2>2. CASE UNCHANGED movement /\ MapTransactionListResult(b, e.bill).status # "succeeded"
    BY <1>2, <1>3, <1>5, <2>1, <2>2, SameMovements
  <2>3. CASE movement' = [movement EXCEPT ![m].bill = e.bill] /\ movement[m].bill \in {Nil, e.bill}
    <3>1. /\ movement' \in [Movements -> Movement]
          /\ movement'[m].bill = e.bill /\ movement'[m].kind = movement[m].kind
          /\ movement'[m].short = movement[m].short
          /\ movement'[m].payer = movement[m].payer
          /\ \A n \in Movements : n # m => movement'[n] = movement[n]
      BY <1>1, <2>3 DEF Movement
    <3>2. MovementsFit' /\ MovementsGrow /\ \A y : Charged(y)' <=> Charged(y)
      BY <2>3, <3>1 DEF SitefInv, MovementsFit, MovementsGrow, Charged
    <3>3. Backed(x)'
      BY <1>1, <1>3, <1>5, <2>1, <3>1 DEF Backed, SameCall
    <3> QED
      BY <1>2, <2>1, <3>1, <3>2, <3>3
  <2> QED
    BY <2>1, <2>2, <2>3
<1> QED
  BY <1>1, <1>4, <1>5 DEF TypedMethods

(* The page is shown paid: the movement is the payment's own. *)
LEMMA BankShowsPageStep ==
  ASSUME SitefInv, NEW x \in Exchanges, BankShowsPage(x)
  PROVE  SitefInv'
<1> DEFINE e == exchange[x]
           d == exchange'[x]
<1>1. /\ e \in Exchange /\ StepFits(e) /\ e.pc = "sent" /\ e.step = "poll" /\ e.bill \in Bills \cup {Nil}
      /\ e.method = "web_button" /\ UNCHANGED movement
  BY SitefFacts DEF BankShowsPage, StepFits
<1>0. PICK m \in Movements :
        /\ movement[m].payer = x
        /\ \E i \in {Nil, e.bill} : AnswerWith(x, [ListOf(m) EXCEPT !.bill = i])
  BY DEF BankShowsPage
<1>2. PICK i \in {Nil, e.bill} : AnswerWith(x, [ListOf(m) EXCEPT !.bill = i])
  BY <1>0
<1> DEFINE b == [ListOf(m) EXCEPT !.bill = i]
           r == AllDigits(m)
<1>3. BodyHas(b, "none", "list", "nothing", r, i) /\ OfMovement(r, m)
  BY <1>1, ListWith, ListReference DEF Notices
<1>4. AnswerWith(x, b)
  BY <1>2
<1> HIDE DEF b, r
<1>5. b \in Body
  BY <1>3 DEF BodyHas
<1>6. SameCall(d, e) /\ d.body = b /\ d.pc = "answered"
  BY <1>1, <1>4, <1>5, Answered
<1>7. Mapped(d, OrderOf(x)) = Outcome("succeeded", r, "none")
  <2> HIDE DEF d, e
  <2>1. Mapped(d, OrderOf(x)) = MapPollResult(b, e.bill)
    BY <1>1, <1>6 DEF Mapped, SameCall
  <2> QED
    BY <1>2, <1>3, <2>1 DEF MapPollResult, BodyHas, ExtractSitefError, e
<1>8. Charged(x) /\ Charged(x)'
  BY <1>0, <1>1 DEF Charged
<1>9. AnswerFits(x)'
  BY <1>0, <1>1, <1>3, <1>7, <1>8 DEF AnswerFits, Backed, Outcome, OwnReference, OfMovement, QueryFits
<1>10. ChargeFits(x)'
  BY <1>1, <1>6, <1>7 DEF ChargeFits, Outcome, SameCall, TypedMethods
<1> QED
  BY <1>1, <1>4, <1>5, <1>9, <1>10, SameMovements, AnswerStep

(* The page is paid: a query may come to show it, or was rejected before. *)
LEMMA PayOnPageStep ==
  ASSUME SitefInv, NEW x \in Exchanges, NEW m \in Movements, PayOnPage(x, m)
  PROVE  SitefInv'
<1> DEFINE e == exchange[x]
<1>1. /\ e \in Exchange /\ StepFits(e) /\ CreditFits(x) /\ AnswerFits(x)
      /\ {"cardNumber", "cvv"} \cap (e.row \cup e.attempts) = {}
  BY SitefFacts
<1>2. /\ e.status = "requires_action" \/ (e.status = "failed" /\ e.step = "poll")
      /\ exchange' = exchange /\ exchange' = [exchange EXCEPT ![x] = e] /\ e.status # "succeeded"
  BY DEF PayOnPage, SitefInv, SitefTypeOK
<1>3. /\ movement' \in [Movements -> Movement] /\ MovementsFit' /\ MovementsGrow
      /\ movement'[m].payer = x
      /\ \A y \in Exchanges \ {x} : Charged(y)' => Charged(y)
  BY Debited DEF PayOnPage
<1>4. /\ e.pc # "new" /\ e.method \in {"card_ccr", "web_button"}
      /\ e.pc \in {"sent", "answered"} => e.status = "requires_action" /\ e.step = "poll"
  BY <1>1, <1>2 DEF StepFits, NewExchange
<1>5. Charged(x)'
  BY <1>3 DEF Charged
<1>6. CreditFits(x)'
  BY <1>2 DEF CreditFits
<1>7. AnswerFits(x)'
  <2>1. \A r : OwnReference(x, r) => OwnReference(x, r)'
    BY <1>3, NilIsNobody DEF MovementsGrow, MovementReference, OwnReference
  <2>2. Backed(x)'
    BY <1>5 DEF Backed
  <2> QED
    BY <1>1, <1>2, <2>1, <2>2 DEF AnswerFits
<1>8. ChargeFits(x)'
  BY <1>2, <1>4 DEF ChargeFits, TypedMethods
<1>9. ExchangeFits(x)'
  BY <1>1, <1>2, <1>6, <1>7, <1>8 DEF ExchangeFits
<1> QED
  BY <1>1, <1>2, <1>3, <1>9, ExchangeStep

(* The calls *)

(* A step of the program's: the bank's side stays, and the call moves to e. *)
LEMMA CallStep ==
  ASSUME SitefInv, NEW x \in Exchanges, NEW e \in Exchange,
         exchange' = [exchange EXCEPT ![x] = e], UNCHANGED movement,
         StepFits(e), CreditFits(x)', e.pc # "answered", ChargeFits(x)',
         {"cardNumber", "cvv"} \cap (e.row \cup e.attempts) = {},
         e.status = "succeeded" /\ e.key # Nil =>
           \A y \in Exchanges \ {x} :
             exchange[y].status = "succeeded" => exchange[y].key # e.key
  PROVE  SitefInv'
<1>1. exchange'[x] = e
  BY DEF SitefInv, SitefTypeOK
<1>2. ExchangeFits(x)'
  BY <1>1 DEF ExchangeFits, AnswerFits
<1> QED
  BY <1>2, SameMovements, ExchangeStep

Unanswered(e, body) == [e EXCEPT !.pc = "rest", !.body = body, !.lost = @ \/ e.step # "poll"]

LEMMA UnansweredParts ==
  ASSUME NEW e \in Exchange, NEW b \in Body, NEW d, d = Unanswered(e, b)
  PROVE  /\ d \in Exchange /\ d.pc = "rest" /\ d.lost = (e.lost \/ e.step # "poll") /\ d.body = b
         /\ d.step = e.step /\ d.shown = e.shown
         /\ d.method = e.method /\ d.bill = e.bill /\ d.key = e.key /\ d.status = e.status
         /\ d.code = e.code /\ d.row = e.row /\ d.attempts = e.attempts
BY DEF Exchange, Unanswered

(* An answer that never comes leaves the payment as it was, and its money may be gone. *)
LEMMA LoseAnswerStep ==
  ASSUME SitefInv, NEW x \in Exchanges, LoseAnswer(x)
  PROVE  SitefInv'
<1> DEFINE e == exchange[x]
           d == Unanswered(e, Bare)
<1>1. /\ e \in Exchange /\ StepFits(e) /\ CreditFits(x) /\ ChargeFits(x)
      /\ {"cardNumber", "cvv"} \cap (e.row \cup e.attempts) = {}
  BY SitefFacts
<1>2. Bare \in Body
  BY BareBody DEF BodyHas
<1>3. /\ exchange' = [exchange EXCEPT ![x] = d] /\ exchange'[x] = d /\ UNCHANGED movement
      /\ e.pc \in {"sent", "answered"}
  BY DEF LoseAnswer, SitefInv, SitefTypeOK, Unanswered
<1>4. /\ d \in Exchange /\ d.pc = "rest" /\ d.lost = (e.lost \/ e.step # "poll")
      /\ d.step = e.step /\ d.shown = e.shown
      /\ d.method = e.method /\ d.bill = e.bill /\ d.key = e.key /\ d.status = e.status
      /\ d.code = e.code /\ d.row = e.row /\ d.attempts = e.attempts
  BY <1>1, <1>2, UnansweredParts
<1> HIDE DEF d
<1>5. StepFits(d)
  BY <1>1, <1>3, <1>4 DEF StepFits
<1>6. CreditFits(x)'
  BY <1>1, <1>3, <1>4 DEF CreditFits, StepFits
<1>7. ChargeFits(x)'
  BY <1>1, <1>3, <1>4 DEF ChargeFits, StepFits, Charged
<1>8. d.status # "succeeded"
  BY <1>1, <1>3, <1>4 DEF StepFits
<1> QED
  BY <1>1, <1>3, <1>4, <1>5, <1>6, <1>7, <1>8, CallStep

(* What is stored of a card, in the row and in the attempts. *)
LEMMA NothingOfTheCard ==
  ASSUME NEW method, NEW fields
  PROVE  /\ {"cardNumber", "cvv"} \cap SanitizeMethodDataForStorage(method, DataOf(method)) = {}
         /\ SanitizeMethodDataForStorage(method, DataOf(method)) \subseteq Fields
         /\ {"cardNumber", "cvv"} \cap MaskRequest(fields) = {}
         /\ fields \subseteq Fields => MaskRequest(fields) \subseteq Fields
BY DEF SanitizeMethodDataForStorage, DataOf, MaskRequest, Fields, TypedMethods

Started(method, debit, bill, key, row, attempts) ==
  [pc |-> "sent", method |-> method, debit |-> debit, bill |-> bill, key |-> key, step |-> "create",
   status |-> "pending", code |-> "none", body |-> Bare, polls |-> 0, otps |-> 0,
   row |-> row, attempts |-> attempts, lost |-> FALSE, shown |-> FALSE]

Stored(method, debit, bill, key, row) ==
  [pc |-> "new", method |-> method, debit |-> debit, bill |-> bill, key |-> key, step |-> "create",
   status |-> "pending", code |-> "none", body |-> Bare, polls |-> 0, otps |-> 0,
   row |-> row, attempts |-> {}, lost |-> FALSE, shown |-> FALSE]

SentWith(e, fields) == [e EXCEPT !.pc = "sent", !.attempts = @ \cup fields]

LEMMA SentStored ==
  ASSUME NEW method, NEW debit, NEW bill, NEW key, NEW row, NEW fields
  PROVE  SentWith(Stored(method, debit, bill, key, row), fields)
           = Started(method, debit, bill, key, row, {} \cup fields)
<1>1. ASSUME NEW c, c = SentWith(Stored(method, debit, bill, key, row), fields)
      PROVE  c = Started(method, debit, bill, key, row, {} \cup fields)
  BY <1>1 DEF Stored, Started, SentWith
<1> QED
  BY <1>1

LEMMA StartedParts ==
  ASSUME NEW method \in SitefMethods, NEW debit \in BOOLEAN, NEW bill \in Bills, NEW key \in Reference \cup {Nil},
         NEW row \in SUBSET Fields, NEW attempts \in SUBSET Fields,
         NEW d, d = Started(method, debit, bill, key, row, attempts)
  PROVE  /\ d \in Exchange /\ d.pc = "sent" /\ d.step = "create" /\ d.status = "pending" /\ d.code = "none" /\ ~d.shown
         /\ d.method = method /\ d.bill = bill /\ d.key = key /\ d.row = row /\ d.attempts = attempts
<1>1. Bare \in Body
  BY BareBody DEF BodyHas
<1>2. 0 \in 0..MaxPolls /\ 0 \in 0..MaxOtps
  BY SitefAssumption
<1> QED
  BY <1>1, <1>2 DEF Started, Exchange

(* A payment begins with its reference in eight digits at most, and nothing of its card. *)
LEMMA BeginExchangeStep ==
  ASSUME SitefInv, NEW x \in Exchanges, NEW method \in SitefMethods, NEW debit \in BOOLEAN,
         NEW bill \in Bills, NEW typed,
         BeginExchange(x, method, debit, bill, typed), typed \in MovementReference \cup {Nil}
  PROVE  SitefInv'
<1> DEFINE key == IF typed = Nil THEN Nil ELSE NormalizeReference(typed)
           row == SanitizeMethodDataForStorage(method, DataOf(method))
           attempts == {} \cup MaskRequest(DataOf(method))
           d == Started(method, debit, bill, key, row, attempts)
<1>1. exchange' = [exchange EXCEPT ![x] = d] /\ UNCHANGED movement /\ exchange[x].pc = "new"
  <2>1. ASSUME NEW a, a = [NewExchange EXCEPT !.method = method, !.debit = debit, !.bill = bill, !.key = key, !.row = row]
        PROVE  a = Stored(method, debit, bill, key, row)
    <3> HIDE DEF key, row
    <3> QED BY <2>1 DEF NewExchange, Stored
  <2>2. Ask(x, [NewExchange EXCEPT !.method = method, !.debit = debit, !.bill = bill, !.key = key, !.row = row],
               DataOf(method)) /\ exchange[x].pc = "new"
    BY DEF BeginExchange
  <2>3. [NewExchange EXCEPT !.method = method, !.debit = debit, !.bill = bill, !.key = key, !.row = row]
          = Stored(method, debit, bill, key, row)
    BY <2>1
  <2>4. Ask(x, Stored(method, debit, bill, key, row), DataOf(method)) /\ exchange[x].pc = "new"
    BY <2>2, <2>3, Zenon
  <2> HIDE DEF key, row
  <2>5. exchange' = [exchange EXCEPT ![x] =
          SentWith(Stored(method, debit, bill, key, row), MaskRequest(DataOf(method)))]
    BY <2>4 DEF Ask, SentWith
  <2> QED
    <3>1. SentWith(Stored(method, debit, bill, key, row), MaskRequest(DataOf(method))) = d
      BY SentStored
    <3>2. UNCHANGED movement
      BY <2>4 DEF Ask
    <3> HIDE DEF d
    <3> QED
      BY <2>4, <2>5, <3>1, <3>2, Zenon
<1>2. /\ key \in Reference \cup {Nil} /\ (method \notin TypedMethods => key = Nil)
      /\ method \in TypedMethods => key \in MovementReference /\ key.form # "full"
  <2>1. ASSUME NEW r \in MovementReference
        PROVE  /\ NormalizeReference(r) \in MovementReference /\ NormalizeReference(r).form # "full"
               /\ NormalizeReference(r) \in Reference
    BY DEF NormalizeReference, MovementReference, Reference
  <2> QED
    BY <2>1 DEF BeginExchange
<1>3. row \in SUBSET Fields /\ attempts \in SUBSET Fields /\ {"cardNumber", "cvv"} \cap (row \cup attempts) = {}
  <2>1. DataOf(method) \subseteq Fields
    BY DEF DataOf, Fields
  <2> QED
    BY <2>1, NothingOfTheCard
<1> HIDE DEF key, row, attempts
<1>4. /\ d \in Exchange /\ d.pc = "sent" /\ d.step = "create" /\ d.status = "pending" /\ d.code = "none" /\ ~d.shown
      /\ d.method = method /\ d.bill = bill /\ d.key = key /\ d.row = row /\ d.attempts = attempts
  BY <1>2, <1>3, StartedParts
<1> HIDE DEF d
<1>5. exchange'[x] = d
  BY <1>1 DEF SitefInv, SitefTypeOK
<1>6. StepFits(d)
  BY <1>2, <1>4 DEF StepFits
<1>7. CreditFits(x)'
  BY <1>4, <1>5 DEF CreditFits
<1>8. ~Charged(x)
  BY <1>1, SitefFacts DEF ChargeFits
<1>9. ChargeFits(x)'
  BY <1>1, <1>8 DEF ChargeFits, Charged
<1> QED
  BY <1>1, <1>3, <1>4, <1>6, <1>7, <1>9, CallStep

OtpSent(e, fields) ==
  [e EXCEPT !.step = "otp", !.otps = @ + 1, !.pc = "sent", !.attempts = @ \cup fields]

LEMMA OtpSentParts ==
  ASSUME NEW e \in Exchange, NEW fields \in SUBSET Fields, e.otps < MaxOtps, NEW d, d = OtpSent(e, fields)
  PROVE  /\ d \in Exchange /\ d.pc = "sent" /\ d.step = "otp" /\ d.attempts = e.attempts \cup fields
         /\ d.method = e.method /\ d.bill = e.bill /\ d.key = e.key /\ d.status = e.status
         /\ d.code = e.code /\ d.row = e.row /\ d.lost = e.lost /\ d.shown = e.shown
<1>1. e.otps + 1 \in 0..MaxOtps /\ e.attempts \cup fields \in SUBSET Fields
  BY SitefAssumption DEF Exchange
<1> QED
  BY <1>1 DEF Exchange, OtpSent

(* A code is sent for a payment that asked for one: what was debited before is lost. *)
LEMMA EnterOtpStep ==
  ASSUME SitefInv, NEW x \in Exchanges, NEW extra \in {{}, {"cardNumber", "cvv"}}, EnterOtp(x, extra)
  PROVE  SitefInv'
<1> DEFINE e == exchange[x]
           masked == MaskRequest(e.row \cup extra)
           d == OtpSent(e, masked)
<1>1. /\ e \in Exchange /\ StepFits(e) /\ ChargeFits(x) /\ {"cardNumber", "cvv"} \cap (e.row \cup e.attempts) = {}
  BY SitefFacts
<1>2. e.pc = "rest" /\ e.status = "requires_otp" /\ e.otps < MaxOtps /\ UNCHANGED movement /\ e.method \in CodeMethods
  BY DEF EnterOtp, Ask
<1>3. exchange' = [exchange EXCEPT ![x] = d]
  BY DEF EnterOtp, Ask, OtpSent
<1>4. masked \in SUBSET Fields /\ {"cardNumber", "cvv"} \cap masked = {}
  <2>1. e.row \cup extra \subseteq Fields
    BY <1>1 DEF Exchange, Fields
  <2> QED
    BY <2>1, NothingOfTheCard
<1> HIDE DEF masked
<1>5. /\ d \in Exchange /\ d.pc = "sent" /\ d.step = "otp" /\ d.attempts = e.attempts \cup masked
      /\ d.method = e.method /\ d.bill = e.bill /\ d.key = e.key /\ d.status = e.status
      /\ d.code = e.code /\ d.row = e.row /\ d.lost = e.lost /\ d.shown = e.shown
  BY <1>1, <1>2, <1>4, OtpSentParts
<1> HIDE DEF d
<1>6. exchange'[x] = d
  BY <1>3 DEF SitefInv, SitefTypeOK
<1>7. StepFits(d)
  BY <1>1, <1>2, <1>5 DEF StepFits
<1>8. CreditFits(x)'
  BY <1>2, <1>5, <1>6 DEF CreditFits
<1>9. ChargeFits(x)'
  <2>1. Charged(x) => e.lost /\ e.method \notin TypedMethods
    BY <1>1, <1>2 DEF ChargeFits, StepFits
  <2> QED
    BY <1>2, <1>5, <1>6, <2>1 DEF ChargeFits, Charged
<1>10. {"cardNumber", "cvv"} \cap (d.row \cup d.attempts) = {}
  BY <1>1, <1>4, <1>5
<1> QED
  BY <1>2, <1>3, <1>5, <1>7, <1>8, <1>9, <1>10, CallStep

PollSent(e, fields) ==
  [e EXCEPT !.step = "poll", !.polls = @ - 1, !.pc = "sent", !.attempts = @ \cup fields]

LEMMA PollSentParts ==
  ASSUME NEW e \in Exchange, NEW fields \in SUBSET Fields, e.polls > 0, NEW d, d = PollSent(e, fields)
  PROVE  /\ d \in Exchange /\ d.pc = "sent" /\ d.step = "poll" /\ d.attempts = e.attempts \cup fields
         /\ d.method = e.method /\ d.bill = e.bill /\ d.key = e.key /\ d.status = e.status
         /\ d.code = e.code /\ d.row = e.row /\ d.shown = e.shown
<1>1. e.polls - 1 \in 0..MaxPolls /\ e.attempts \cup fields \in SUBSET Fields
  BY SitefAssumption DEF Exchange
<1> QED
  BY <1>1 DEF Exchange, PollSent

(* A query is for a page: its payment waits, and is not credited. *)
LEMMA PollStatusStep ==
  ASSUME SitefInv, NEW x \in Exchanges, PollStatus(x)
  PROVE  SitefInv'
<1> DEFINE e == exchange[x]
<1>1. /\ e \in Exchange /\ StepFits(e) /\ ChargeFits(x) /\ {"cardNumber", "cvv"} \cap (e.row \cup e.attempts) = {}
  BY SitefFacts
<1>2. e.pc = "rest" /\ e.status = "requires_action" /\ e.polls > 0 /\ UNCHANGED movement
  BY DEF PollStatus, Ask
<1>3. e.method \in {"card_ccr", "web_button"}
  BY <1>1, <1>2 DEF StepFits
<1>4. CASE e.method = "card_ccr"
  <2> DEFINE d == [e EXCEPT !.polls = @ - 1]
  <2>1. exchange' = [exchange EXCEPT ![x] = d] /\ exchange'[x] = d
    BY <1>4 DEF PollStatus, SitefInv, SitefTypeOK
  <2>2. e.polls - 1 \in 0..MaxPolls
    BY <1>1, <1>2, SitefAssumption DEF Exchange
  <2>3. /\ d \in Exchange /\ d.pc = e.pc /\ d.step = e.step /\ d.attempts = e.attempts
        /\ d.method = e.method /\ d.bill = e.bill /\ d.key = e.key /\ d.status = e.status
        /\ d.code = e.code /\ d.row = e.row /\ d.shown = e.shown
    BY <1>1, <2>2 DEF Exchange
  <2> HIDE DEF d
  <2>4. StepFits(d)
    BY <1>1, <1>2, <2>3 DEF StepFits
  <2>5. CreditFits(x)'
    BY <1>2, <2>1, <2>3 DEF CreditFits
  <2>6. ChargeFits(x)'
    BY <1>2, <1>4, <2>1, <2>3 DEF ChargeFits, TypedMethods
  <2> QED
    BY <1>1, <1>2, <2>1, <2>3, <2>4, <2>5, <2>6, CallStep
<1>5. CASE e.method = "web_button"
  <2> DEFINE masked == MaskRequest({})
             d == PollSent(e, masked)
  <2>1. exchange' = [exchange EXCEPT ![x] = d]
    BY <1>5 DEF PollStatus, Ask, PollSent
  <2>2. masked \in SUBSET Fields /\ {"cardNumber", "cvv"} \cap masked = {}
    BY NothingOfTheCard
  <2> HIDE DEF masked
  <2>3. /\ d \in Exchange /\ d.pc = "sent" /\ d.step = "poll" /\ d.attempts = e.attempts \cup masked
        /\ d.method = e.method /\ d.bill = e.bill /\ d.key = e.key /\ d.status = e.status
        /\ d.code = e.code /\ d.row = e.row /\ d.shown = e.shown
    BY <1>1, <1>2, <2>2, PollSentParts
  <2> HIDE DEF d
  <2>4. exchange'[x] = d
    BY <2>1 DEF SitefInv, SitefTypeOK
  <2>5. StepFits(d)
    BY <1>1, <1>2, <1>5, <2>3 DEF StepFits
  <2>6. CreditFits(x)'
    BY <1>2, <2>3, <2>4 DEF CreditFits
  <2>7. ChargeFits(x)'
    BY <1>2, <1>5, <2>3, <2>4 DEF ChargeFits, TypedMethods
  <2>8. {"cardNumber", "cvv"} \cap (d.row \cup d.attempts) = {}
    BY <1>1, <2>2, <2>3
  <2> QED
    BY <1>2, <2>1, <2>3, <2>5, <2>6, <2>7, <2>8, CallStep
<1> QED
  BY <1>3, <1>4, <1>5

(* A customer's own payment is nobody's debit. *)
LEMMA CustomerPaysStep ==
  ASSUME SitefInv, NEW m \in Movements, NEW kind \in TypedMethods, NEW short \in BOOLEAN, CustomerPays(m, kind, short)
  PROVE  SitefInv'
<1> DEFINE d == [movement[m] EXCEPT !.kind = kind, !.short = short]
<1>1. /\ movement \in [Movements -> Movement] /\ movement[m] = NoMovement /\ exchange' = exchange
      /\ movement' = [movement EXCEPT ![m] = d]
  BY DEF CustomerPays, SitefInv, SitefTypeOK
<1>2. d \in Movement /\ d.payer = Nil
  <2>1. movement[m] \in Movement /\ movement[m].payer = Nil /\ kind \in {"transfer", "pago_movil"}
    <3>1. NoMovement.payer = Nil
      BY DEF NoMovement
    <3> QED
      BY <1>1, <3>1 DEF TypedMethods
  <2> QED
    BY <2>1 DEF Movement
<1> HIDE DEF d
<1>3. /\ movement' \in [Movements -> Movement] /\ movement'[m] = d
      /\ \A n \in Movements : n # m => movement'[n] = movement[n]
  BY <1>1, <1>2
<1>4. MovementsFit' /\ MovementsGrow
  BY <1>1, <1>2, <1>3 DEF SitefInv, MovementsFit, MovementsGrow, NoMovement
<1>5. \A y \in Exchanges : Charged(y)' => Charged(y)
  BY <1>2, <1>3, NilIsNobody DEF Charged
<1>6. ExchangesFit'
  BY <1>1, <1>4, <1>5, OtherExchange DEF ExchangesFit
<1>7. (SitefTypeOK /\ CardIsNotKept /\ KeysDiffer)'
  BY <1>1, <1>3 DEF SitefInv, SitefTypeOK, CardIsNotKept, KeysDiffer
<1> QED
  BY <1>4, <1>6, <1>7 DEF SitefInv

Delivered(e, status, code, key, polls, shown) ==
  [e EXCEPT !.pc = "rest", !.body = Bare, !.status = status, !.code = code, !.key = key, !.polls = polls, !.shown = shown]

QueriesLeft == 0..MaxPolls

LEMMA DeliveredParts ==
  ASSUME NEW e \in Exchange, NEW status \in {"pending", "requires_otp", "requires_action", "succeeded", "failed"},
         NEW code \in Codes, NEW key \in Reference \cup {Nil}, NEW polls \in QueriesLeft, NEW shown \in BOOLEAN,
         NEW d, d = Delivered(e, status, code, key, polls, shown)
  PROVE  /\ d \in Exchange /\ d.pc = "rest" /\ d.status = status /\ d.code = code /\ d.key = key /\ d.polls = polls
         /\ d.method = e.method /\ d.bill = e.bill /\ d.row = e.row /\ d.attempts = e.attempts
         /\ d.lost = e.lost /\ d.shown = shown /\ d.step = e.step
<1>1. Bare \in Body
  BY BareBody DEF BodyHas
<1> QED
  BY <1>1 DEF Exchange, Delivered, Codes, QueriesLeft

(* A debit's reference is nobody else's: the index refuses typed references only. *)
LEMMA DebitKeyIsFree ==
  ASSUME SitefInv, NEW x \in Exchanges, NEW key \in Reference, OwnReference(x, key)
  PROVE  ~KeyTaken(x, key)
<1> SUFFICES ASSUME NEW y \in Exchanges, y # x, exchange[y].status = "succeeded", exchange[y].key = key, key # Nil
             PROVE  FALSE
  BY DEF KeyTaken
<1>1. StepFits(exchange[y]) /\ CreditFits(y) /\ ChargeFits(y) /\ exchange[y].pc # "new"
  BY SitefFacts DEF StepFits, NewExchange
<1>2. key = OrderOf(x) => key \notin MovementReference /\ key # OrderOf(y)
  BY OrderForm DEF OrderOf
<1>3. key \in MovementReference => key # OrderOf(y) /\ key.of \in Movements
  BY OrderForm DEF MovementReference
<1>4. key \in MovementReference /\ movement[key.of].payer = x /\ movement[key.of].kind = "debit"
  <2>1. CASE key = OrderOf(x)
    BY <1>1, <1>2, <2>1 DEF CreditFits, OwnReference, StepFits
  <2>2. CASE key \in MovementReference /\ movement[key.of].payer = x
    BY <1>3, <2>2, NilIsNobody DEF SitefInv, MovementsFit
  <2> QED
    BY <2>1, <2>2 DEF OwnReference
<1>5. CASE exchange[y].method \in TypedMethods
  <2>1. ~Charged(y)
    BY <1>1, <1>5 DEF ChargeFits
  <2> QED
    BY <1>1, <1>4, <1>5, <2>1 DEF CreditFits, Backed, TypedMethods
<1>6. CASE exchange[y].method \notin TypedMethods
  BY <1>1, <1>3, <1>4, <1>6 DEF CreditFits, OwnReference
<1> QED
  BY <1>5, <1>6

(* An answer is credited when it succeeds and its reference has credited nothing. *)
LEMMA DeliverStep ==
  ASSUME SitefInv, NEW x \in Exchanges, Deliver(x)
  PROVE  SitefInv'
<1> DEFINE e == exchange[x]
           o == Mapped(e, OrderOf(x))
           key == IF e.key = Nil THEN o.ref ELSE e.key
           refused == o.status = "succeeded" /\ KeyTaken(x, key)
           status == IF refused THEN "failed" ELSE IF o.status = "pending" THEN e.status ELSE o.status
           code == IF refused THEN "REFERENCE_ALREADY_USED" ELSE o.code
           kept == IF o.status = "succeeded" THEN key ELSE e.key
           polls == IF e.step = "create" /\ o.status = "requires_action" THEN MaxPolls ELSE e.polls
           shown == e.shown \/ (e.step = "poll" /\ e.body.block = "list")
           d == Delivered(e, status, code, kept, polls, shown)
<1>1. /\ e \in Exchange /\ StepFits(e) /\ CreditFits(x) /\ AnswerFits(x) /\ ChargeFits(x)
      /\ {"cardNumber", "cvv"} \cap (e.row \cup e.attempts) = {} /\ e.key \in Reference \cup {Nil}
      /\ OrderOf(x) \in Reference
  BY SitefFacts
<1>2. e.pc = "answered" /\ UNCHANGED movement /\ exchange' = [exchange EXCEPT ![x] = d]
  BY DEF Deliver, Delivered
<1>3. /\ o.status \in {"pending", "requires_otp", "requires_action", "succeeded", "failed"}
      /\ o.ref \in Reference \cup {Nil} /\ o.code \in Codes
      /\ o.code = "DEBIT_NO_REFERENCE" => o.status = "failed"
      /\ o.status = "requires_otp" => e.method \in CodeMethods
      /\ o.status = "requires_action" => e.method \in {"card_ccr", "web_button"}
      /\ o.status = "requires_action" => e.step = "create"
      /\ o.status = "pending" => e.step = "poll"
  BY <1>1, <1>2, OutcomeStatus
<1>4. /\ o.status = "succeeded" => Backed(x)
      /\ o.status = "succeeded" /\ e.method \notin TypedMethods /\ o.ref # Nil => OwnReference(x, o.ref)
      /\ e.step = "poll" => QueryFits(e, o)
  BY <1>1, <1>2 DEF AnswerFits
<1>5. /\ Charged(x) => e.method \notin TypedMethods
      /\ Charged(x) => e.lost \/ o.status = "succeeded" \/ o.code = "DEBIT_NO_REFERENCE" \/ e.step = "poll"
  BY <1>1, <1>2 DEF ChargeFits
<1> HIDE DEF o
<1>6. e.method \notin TypedMethods => ~refused /\ e.key = Nil /\ key = o.ref
  <2> SUFFICES ASSUME e.method \notin TypedMethods PROVE ~refused /\ e.key = Nil /\ key = o.ref
    OBVIOUS
  <2>1. e.key = Nil
    BY <1>1, <1>2 DEF StepFits
  <2>2. ~refused
    <3> SUFFICES ASSUME o.status = "succeeded", KeyTaken(x, o.ref) PROVE FALSE
      BY <2>1
    <3>1. o.ref # Nil
      BY DEF KeyTaken
    <3> QED
      BY <1>3, <1>4, <3>1, DebitKeyIsFree
  <2> QED
    BY <2>1, <2>2
<1>7. e.method \in TypedMethods => key = e.key /\ e.key \in MovementReference /\ e.key.form # "full"
  <2> SUFFICES ASSUME e.method \in TypedMethods PROVE key = e.key /\ e.key \in MovementReference /\ e.key.form # "full"
    OBVIOUS
  <2>1. e.key \in MovementReference /\ e.key.form # "full"
    BY <1>1, <1>2 DEF StepFits
  <2> QED
    BY <2>1, ReferenceAssumption DEF Reference
<1>8. key \in Reference \cup {Nil} /\ (~refused /\ o.status = "succeeded" => ~KeyTaken(x, key)) /\ (refused => o.status = "succeeded")
  BY <1>1, <1>3
<1> HIDE DEF key, refused
<1>9. /\ status \in {"pending", "requires_otp", "requires_action", "succeeded", "failed"}
      /\ code \in Codes /\ kept \in Reference \cup {Nil}
  BY <1>1, <1>3, <1>8 DEF Exchange, Codes
<1>10. polls \in QueriesLeft
  BY <1>1, SitefAssumption DEF Exchange, QueriesLeft
<1>11. /\ status = "succeeded" => ~refused /\ o.status = "succeeded"
       /\ status = "requires_otp" => e.method \in CodeMethods
       /\ status = "requires_action" => e.method \in {"card_ccr", "web_button"}
       /\ code = "DEBIT_NO_REFERENCE" => status = "failed"
  BY <1>1, <1>2, <1>3 DEF StepFits
<1>12. /\ e.method \in TypedMethods => kept = e.key
       /\ e.method \notin TypedMethods /\ status # "succeeded" => kept = Nil
       /\ status = "succeeded" => kept = key
  BY <1>3, <1>6, <1>7, <1>11
<1>13. Charged(x) => \/ e.lost \/ status = "succeeded" \/ code = "DEBIT_NO_REFERENCE"
                     \/ status = "requires_action" \/ (status = "failed" /\ e.step = "poll")
  <2> SUFFICES ASSUME Charged(x), ~e.lost
               PROVE  \/ status = "succeeded" \/ code = "DEBIT_NO_REFERENCE"
                      \/ status = "requires_action" \/ (status = "failed" /\ e.step = "poll")
    OBVIOUS
  <2>1. ~refused
    BY <1>5, <1>6
  <2>2. CASE o.status = "succeeded"
    BY <2>1, <2>2
  <2>3. CASE o.code = "DEBIT_NO_REFERENCE"
    BY <2>1, <2>3
  <2>4. CASE e.step = "poll" /\ o.status # "succeeded"
    <3>1. e.status = "requires_action"
      BY <1>1, <1>2, <2>4 DEF StepFits
    <3> QED
      BY <1>4, <2>1, <2>4, <3>1 DEF QueryFits
  <2> QED
    BY <1>5, <2>2, <2>3, <2>4
<1>20. /\ e.step = "poll" => e.method = "web_button"
       /\ e.step = "poll" /\ status = "failed" => code \in Rejections
       /\ shown => status = "succeeded"
  <2>1. e.step = "poll" => e.method = "web_button" /\ e.method \notin TypedMethods /\ e.status = "requires_action"
    BY <1>1, <1>2 DEF StepFits, TypedMethods
  <2>2. ~e.shown
    BY <1>1, <1>2 DEF StepFits
  <2>3. e.step = "poll" => ~refused
    BY <1>6, <2>1
  <2> QED
    BY <1>4, <2>1, <2>2, <2>3 DEF QueryFits
<1>21. shown \in BOOLEAN
  BY <1>1 DEF Exchange
<1> HIDE DEF status, code, kept, polls, shown
<1>14. /\ d \in Exchange /\ d.pc = "rest" /\ d.status = status /\ d.code = code /\ d.key = kept /\ d.polls = polls
       /\ d.method = e.method /\ d.bill = e.bill /\ d.row = e.row /\ d.attempts = e.attempts
       /\ d.lost = e.lost /\ d.shown = shown /\ d.step = e.step
  <2>1. d = Delivered(e, status, code, kept, polls, shown) /\ e \in Exchange
    BY <1>1
  <2> HIDE DEF d, e
  <2> QED
    BY <1>9, <1>10, <1>21, <2>1, DeliveredParts
<1> HIDE DEF d
<1>15. exchange'[x] = d
  BY <1>2 DEF SitefInv, SitefTypeOK
<1>16. StepFits(d)
  BY <1>1, <1>2, <1>7, <1>11, <1>12, <1>14, <1>20 DEF StepFits
<1>17. CreditFits(x)'
  <2> SUFFICES ASSUME d.status = "succeeded"
               PROVE  /\ Backed(x)'
                      /\ d.method \notin TypedMethods /\ d.key # Nil =>
                           d.key = OrderOf(x) \/ (d.key \in MovementReference /\ movement'[d.key.of].payer = x)
    BY <1>15 DEF CreditFits, OwnReference
  <2>1. o.status = "succeeded" /\ d.key = key
    BY <1>11, <1>12, <1>14
  <2>2. Backed(x)'
    BY <1>2, <1>4, <1>7, <1>14, <1>15, <2>1 DEF Backed, Charged
  <2> QED
    BY <1>2, <1>4, <1>6, <1>14, <2>1, <2>2 DEF OwnReference
<1>18. ChargeFits(x)'
  BY <1>2, <1>5, <1>13, <1>14, <1>15 DEF ChargeFits, Charged
<1>19. d.status = "succeeded" /\ d.key # Nil =>
         \A y \in Exchanges \ {x} : exchange[y].status = "succeeded" => exchange[y].key # d.key
  BY <1>8, <1>11, <1>12, <1>14 DEF KeyTaken
<1> QED
  BY <1>1, <1>2, <1>14, <1>16, <1>17, <1>18, <1>19, CallStep

(* The theorems of the exchange *)

LEMMA SitefInitially == SitefInit => SitefInv
<1> SUFFICES ASSUME SitefInit PROVE SitefInv
  OBVIOUS
<1> DEFINE new == NewExchange
<1>1. new \in Exchange
  <2>1. Bare \in Body
    BY BareBody DEF BodyHas
  <2>2. 0 \in 0..MaxPolls /\ 0 \in 0..MaxOtps
    BY SitefAssumption
  <2> QED
    BY <2>1, <2>2 DEF NewExchange, Exchange, SitefMethods
<1>2. /\ new.pc = "new" /\ new.status = "pending" /\ new.key = Nil /\ new.code = "none"
      /\ new.row = {} /\ new.attempts = {} /\ new.step = "create" /\ ~new.shown
  BY DEF NewExchange
<1> HIDE DEF new
<1>3. NoMovement \in Movement /\ NoMovement.payer = Nil
  BY DEF NoMovement, Movement
<1>4. \A x \in Exchanges : exchange[x] = new
  BY DEF SitefInit, new
<1>5. \A m \in Movements : movement[m] = NoMovement
  BY DEF SitefInit
<1>6. SitefTypeOK
  BY <1>1, <1>3 DEF SitefInit, SitefTypeOK, new
<1>7. StepFits(new)
  BY <1>2 DEF StepFits, new
<1>8. \A x \in Exchanges : ~Charged(x)
  BY <1>3, <1>5, NilIsNobody DEF Charged
<1>9. ExchangesFit
  BY <1>2, <1>4, <1>7, <1>8 DEF ExchangesFit, ExchangeFits, CreditFits, AnswerFits, ChargeFits
<1>10. CardIsNotKept /\ MovementsFit /\ KeysDiffer
  BY <1>2, <1>3, <1>4, <1>5 DEF CardIsNotKept, MovementsFit, KeysDiffer
<1> QED
  BY <1>6, <1>9, <1>10 DEF SitefInv

LEMMA SitefStep == SitefInv /\ [SitefNext]_sitefVars => SitefInv'
<1> SUFFICES ASSUME SitefInv, [SitefNext]_sitefVars PROVE SitefInv'
  OBVIOUS
<1>1. ASSUME NEW x \in Exchanges, Calls(x)
      PROVE  SitefInv'
  BY <1>1, BeginExchangeStep, EnterOtpStep, PollStatusStep, DeliverStep, LoseAnswerStep DEF Calls
<1>2. ASSUME NEW x \in Exchanges, Bank(x)
      PROVE  SitefInv'
  BY <1>2, BankChargesStep, PayOnPageStep, BankInvitesStep, BankRefusesStep, BankVerifiesStep,
     BankShowsPageStep DEF Bank
<1>3. ASSUME NEW m \in Movements, NEW kind \in TypedMethods, NEW short \in BOOLEAN, CustomerPays(m, kind, short)
      PROVE  SitefInv'
  BY <1>3, CustomerPaysStep
<1>4. CASE UNCHANGED sitefVars
  BY <1>4 DEF sitefVars, SitefInv, SitefTypeOK, CardIsNotKept, MovementsFit, ExchangesFit, ExchangeFits,
     CreditFits, AnswerFits, ChargeFits, Backed, Charged, KeysDiffer, OwnReference
<1> QED
  BY <1>1, <1>2, <1>3, <1>4 DEF SitefNext

LEMMA SitefInvariance == SitefSpec => []SitefInv
BY SitefInitially, SitefStep, PTL DEF SitefSpec

(* The payments and the movements stay in their types, the bounds included. *)
THEOREM SitefTypes == SitefSpec => []SitefTypeOK
<1>1. SitefInv => SitefTypeOK
  BY DEF SitefInv
<1> QED
  BY <1>1, SitefInvariance, PTL

(* No payment is credited but for money the bank moved for it, and no movement credits *)
(* two invoices: whatever the bodies put together, whoever answers first.              *)
THEOREM CreditsHaveTheirMoney == SitefSpec => []CreditsAreBacked
<1>1. SitefInv => CreditedWasMoved
  BY SitefFacts DEF CreditedWasMoved, CreditFits, Backed
<1>2. ASSUME SitefInv
      PROVE  OneMovementOneBill
  <2> SUFFICES ASSUME NEW x \in Exchanges, NEW y \in Exchanges,
                      exchange[x].status = "succeeded", exchange[y].status = "succeeded",
                      x # y, exchange[x].key \in MovementReference, exchange[y].key \in MovementReference,
                      exchange[x].key.of = exchange[y].key.of
               PROVE  FALSE
    BY DEF OneMovementOneBill
  <2> DEFINE m == exchange[x].key.of
  <2>1. ASSUME NEW z \in Exchanges, exchange[z].status = "succeeded", exchange[z].key \in MovementReference,
               exchange[z].key.of = m
        PROVE  /\ m \in Movements
               /\ exchange[z].method \notin TypedMethods => movement[m].payer = z /\ movement[m].kind = "debit"
               /\ exchange[z].method \in TypedMethods =>
                    /\ exchange[z].key.form # "full" /\ movement[m].kind # "debit"
                    /\ (exchange[z].key.form = "short") <=> movement[m].short
    <3>1. /\ StepFits(exchange[z]) /\ CreditFits(z) /\ ChargeFits(z)
          /\ exchange[z].pc # "new" /\ exchange[z].key # OrderOf(z) /\ exchange[z].key # Nil
      BY <1>2, <2>1, SitefFacts, OrderForm, ReferenceAssumption DEF StepFits, NewExchange, Reference
    <3>2. m \in Movements
      BY <2>1, <3>1 DEF MovementReference
    <3>3. exchange[z].method \notin TypedMethods => movement[m].payer = z /\ movement[m].kind = "debit"
      BY <1>2, <2>1, <3>1, <3>2, NilIsNobody DEF CreditFits, OwnReference, SitefInv, MovementsFit
    <3>4. exchange[z].method \in TypedMethods =>
            /\ exchange[z].key.form # "full" /\ movement[m].kind # "debit"
            /\ (exchange[z].key.form = "short") <=> movement[m].short
      BY <2>1, <3>1 DEF StepFits, CreditFits, ChargeFits, Backed, TypedMethods
    <3> QED
      BY <3>1, <3>2, <3>3, <3>4
  <2>2. exchange[x].method \in TypedMethods <=> exchange[y].method \in TypedMethods
    BY <2>1
  <2>3. CASE exchange[x].method \notin TypedMethods
    BY <2>1, <2>2, <2>3
  <2>4. CASE exchange[x].method \in TypedMethods
    <3>1. exchange[x].key = exchange[y].key
      BY <2>1, <2>2, <2>4 DEF MovementReference
    <3> QED
      BY <1>2, <3>1, ReferenceAssumption DEF SitefInv, KeysDiffer, Reference
  <2> QED
    BY <2>3, <2>4
<1> QED
  BY <1>1, <1>2, SitefInvariance, PTL DEF CreditsAreBacked

(* What is debited for a payment is credited, but in the ways the property names. *)
THEOREM ChargesAreCredited == SitefSpec => []NoChargeIsMissed
<1>1. SitefInv => NoChargeIsMissed
  BY SitefFacts DEF NoChargeIsMissed, ChargeFits, StepFits, Rejections
<1> QED
  BY <1>1, SitefInvariance, PTL

(* Whatever body arrives, the payment takes a status that PaymentsService foresees. *)
THEOREM EveryAnswerIsForeseen == SitefSpec => []AnswersAreForeseen
<1>1. SitefInv => AnswersAreForeseen
  BY SitefFacts, OutcomeForeseen DEF AnswersAreForeseen, ForeseenAnswers, GoodOutcome
<1> QED
  BY <1>1, SitefInvariance, PTL

(* Neither the number of a card nor its code is ever stored. *)
THEOREM NoCardIsKept == SitefSpec => []CardIsNotKept
<1>1. SitefInv => CardIsNotKept
  BY DEF SitefInv
<1> QED
  BY <1>1, SitefInvariance, PTL

-----------------------------------------------------------------------------
(* The fields of a payer *)

(***************************************************************************)
(* What is kept of two values written one after the other is what is kept of   *)
(* each: so a separator anywhere is as if it were not there.  The rest is the    *)
(* length of what is left, that says how the value was written.                   *)
(***************************************************************************)
Keeping(f, value, chars, n) ==
  f = [k \in 0..n |-> IF k = 0 THEN <<>>
                      ELSE IF value[k] \in chars THEN Append(f[k - 1], value[k]) ELSE f[k - 1]]

LEMMA KeepingExists ==
  ASSUME NEW value, NEW chars, NEW n \in Nat
  PROVE  \E f : Keeping(f, value, chars, n)
<1> DEFINE S == {m \in Nat : \E f : Keeping(f, value, chars, m)}
<1>1. 0 \in S
  <2> DEFINE f == [k \in 0..0 |-> <<>>]
  <2>1. f = [k \in 0..0 |-> IF k = 0 THEN <<>>
                            ELSE IF value[k] \in chars THEN Append(f[k - 1], value[k]) ELSE f[k - 1]]
    OBVIOUS
  <2> QED
    BY <2>1 DEF Keeping
<1>2. ASSUME NEW m \in Nat, m \in S PROVE m + 1 \in S
  <2>1. PICK f : Keeping(f, value, chars, m)
    BY <1>2
  <2> DEFINE last == IF value[m + 1] \in chars THEN Append(f[m], value[m + 1]) ELSE f[m]
             g == [k \in 0..(m + 1) |-> IF k = m + 1 THEN last ELSE f[k]]
  <2>2. \A k \in 0..m : f[k] = IF k = 0 THEN <<>>
                               ELSE IF value[k] \in chars THEN Append(f[k - 1], value[k]) ELSE f[k - 1]
    BY <2>1 DEF Keeping
  <2>3. \A k \in 0..(m + 1) : g[k] = IF k = 0 THEN <<>>
                                     ELSE IF value[k] \in chars THEN Append(g[k - 1], value[k]) ELSE g[k - 1]
    BY <2>2
  <2>4. g = [k \in 0..(m + 1) |-> IF k = 0 THEN <<>>
                                  ELSE IF value[k] \in chars THEN Append(g[k - 1], value[k]) ELSE g[k - 1]]
    BY <2>3
  <2> HIDE DEF g
  <2>5. Keeping(g, value, chars, m + 1)
    BY <2>4 DEF Keeping
  <2>6. m + 1 \in Nat
    OBVIOUS
  <2> QED
    BY <2>5, <2>6
<1> HIDE DEF S
<1>3. n \in S
  BY <1>1, <1>2, FromZeroUp
<1> QED
  BY <1>3 DEF S

LEMMA KeepingIsKept ==
  ASSUME NEW value, NEW chars, NEW n \in Nat
  PROVE  \E f : Keeping(f, value, chars, n) /\ KeptUpTo(value, chars, n) = f[n]
<1> DEFINE f == CHOOSE g : Keeping(g, value, chars, n)
<1>1. Keeping(f, value, chars, n)
  BY KeepingExists
<1>2. KeptUpTo(value, chars, n) = f[n]
  BY DEF KeptUpTo, Keeping
<1> HIDE DEF f
<1> QED
  BY <1>1, <1>2

LEMMA KeepingAgree ==
  ASSUME NEW value, NEW chars, NEW m \in Nat, NEW n \in Nat, NEW f, NEW g,
         Keeping(f, value, chars, m), Keeping(g, value, chars, n), NEW k \in 0..m, k <= n
  PROVE  f[k] = g[k]
<1> DEFINE S == {j \in Nat : j <= m /\ j <= n => f[j] = g[j]}
<1>1. /\ \A j \in 0..m : f[j] = IF j = 0 THEN <<>>
                               ELSE IF value[j] \in chars THEN Append(f[j - 1], value[j]) ELSE f[j - 1]
      /\ \A j \in 0..n : g[j] = IF j = 0 THEN <<>>
                               ELSE IF value[j] \in chars THEN Append(g[j - 1], value[j]) ELSE g[j - 1]
  BY DEF Keeping
<1>2. 0 \in S
  BY <1>1
<1>3. ASSUME NEW j \in Nat, j \in S PROVE j + 1 \in S
  <2> SUFFICES ASSUME j + 1 <= m, j + 1 <= n PROVE f[j + 1] = g[j + 1]
    OBVIOUS
  <2>1. f[j] = g[j]
    BY <1>3
  <2>2. j + 1 \in 0..m /\ j + 1 \in 0..n /\ j + 1 # 0 /\ (j + 1) - 1 = j
    OBVIOUS
  <2> QED
    BY <1>1, <2>1, <2>2
<1> HIDE DEF S
<1>4. k \in S
  BY <1>2, <1>3, FromZeroUp
<1> QED
  BY <1>4 DEF S

LEMMA KeptNone == \A value, chars : KeptUpTo(value, chars, 0) = <<>>
<1> SUFFICES ASSUME NEW value, NEW chars PROVE KeptUpTo(value, chars, 0) = <<>>
  OBVIOUS
<1>1. PICK f : Keeping(f, value, chars, 0) /\ KeptUpTo(value, chars, 0) = f[0]
  BY KeepingIsKept
<1> QED
  BY <1>1 DEF Keeping

LEMMA KeptNext ==
  ASSUME NEW value, NEW chars, NEW n \in Nat
  PROVE  KeptUpTo(value, chars, n + 1) =
           IF value[n + 1] \in chars THEN Append(KeptUpTo(value, chars, n), value[n + 1])
           ELSE KeptUpTo(value, chars, n)
<1>1. PICK f : Keeping(f, value, chars, n) /\ KeptUpTo(value, chars, n) = f[n]
  BY KeepingIsKept
<1>2. PICK g : Keeping(g, value, chars, n + 1) /\ KeptUpTo(value, chars, n + 1) = g[n + 1]
  BY KeepingIsKept
<1>3. g[n] = f[n]
  BY <1>1, <1>2, KeepingAgree
<1>4. g[n + 1] = IF value[n + 1] \in chars THEN Append(g[n], value[n + 1]) ELSE g[n]
  <2>1. n + 1 \in 0..(n + 1) /\ n + 1 # 0 /\ (n + 1) - 1 = n
    OBVIOUS
  <2> QED
    BY <1>2, <2>1 DEF Keeping
<1> QED
  BY <1>1, <1>2, <1>3, <1>4

(* What is kept of a sequence is one of the same characters. *)
LEMMA KeptIsSeq ==
  ASSUME NEW X, NEW value \in Seq(X), NEW chars, NEW n \in 0..Len(value)
  PROVE  KeptUpTo(value, chars, n) \in Seq(X)
<1> DEFINE S == {m \in Nat : m <= Len(value) => KeptUpTo(value, chars, m) \in Seq(X)}
<1>1. 0 \in S
  <2>1. <<>> \in Seq(X)
    OBVIOUS
  <2> QED
    BY <2>1, KeptNone
<1>2. ASSUME NEW m \in Nat, m \in S PROVE m + 1 \in S
  <2> SUFFICES ASSUME m + 1 <= Len(value) PROVE KeptUpTo(value, chars, m + 1) \in Seq(X)
    OBVIOUS
  <2>1. KeptUpTo(value, chars, m) \in Seq(X)
    BY <1>2, LenProperties
  <2>2. value[m + 1] \in X
    BY ElementOfSeq
  <2>3. Append(KeptUpTo(value, chars, m), value[m + 1]) \in Seq(X)
    BY <2>1, <2>2, AppendProperties
  <2> QED
    BY <2>1, <2>3, KeptNext
<1> HIDE DEF S
<1>3. n \in S
  BY <1>1, <1>2, FromZeroUp
<1> QED
  BY <1>3 DEF S

(* Where every character is kept, all of it is. *)
LEMMA KeptWhole ==
  ASSUME NEW X, NEW value \in Seq(X), NEW chars, \A k \in 1..Len(value) : value[k] \in chars
  PROVE  Kept(value, chars) = value
<1> DEFINE S == {m \in Nat : m <= Len(value) => KeptUpTo(value, chars, m) = SubSeq(value, 1, m)}
<1>1. 0 \in S
  <2>1. SubSeq(value, 1, 0) = <<>>
    BY SubSeqEmpty
  <2> QED
    BY <2>1, KeptNone
<1>2. ASSUME NEW m \in Nat, m \in S PROVE m + 1 \in S
  <2> SUFFICES ASSUME m + 1 <= Len(value) PROVE KeptUpTo(value, chars, m + 1) = SubSeq(value, 1, m + 1)
    OBVIOUS
  <2>1. KeptUpTo(value, chars, m) = SubSeq(value, 1, m)
    BY <1>2, LenProperties
  <2>2. m + 1 \in 1..Len(value)
    OBVIOUS
  <2>3. KeptUpTo(value, chars, m + 1) = Append(SubSeq(value, 1, m), value[m + 1])
    BY <2>1, <2>2, KeptNext
  <2>4. SubSeq(value, 1, m + 1) = SubSeq(value, 1, m) \o <<value[m + 1]>>
    <3>1. 1 \in 1..Len(value) /\ m + 1 \in 1..Len(value) /\ (m + 1) - 1 = m
      BY <2>2
    <3> QED
      BY <3>1, SubSeqRecursiveSecond
  <2>5. SubSeq(value, 1, m) \in Seq(X) /\ value[m + 1] \in X
    <3>1. \A i \in 1..m : value[i] \in X
      BY <2>2, ElementOfSeq
    <3> QED
      BY <2>2, <3>1, ElementOfSeq, SubSeqProperties
  <2> QED
    BY <2>3, <2>4, <2>5, AppendIsConcat
<1> HIDE DEF S
<1>3. Len(value) \in S /\ Len(value) \in Nat
  BY <1>1, <1>2, FromZeroUp, LenProperties
<1> QED
  BY <1>3, SubSeqFull DEF S, Kept

(* What is kept of two values one after the other. *)
LEMMA KeptOfBoth ==
  ASSUME NEW X, NEW s \in Seq(X), NEW t \in Seq(X), NEW chars
  PROVE  Kept(s \o t, chars) = Kept(s, chars) \o Kept(t, chars)
<1> DEFINE both == s \o t
           S == {m \in Nat : m <= Len(s) => KeptUpTo(both, chars, m) = KeptUpTo(s, chars, m)}
           T == {m \in Nat : m <= Len(t) =>
                   KeptUpTo(both, chars, Len(s) + m) = Kept(s, chars) \o KeptUpTo(t, chars, m)}
<1>1. /\ both \in Seq(X) /\ Len(both) = Len(s) + Len(t) /\ Len(s) \in Nat /\ Len(t) \in Nat
      /\ \A i \in 1..Len(s) : both[i] = s[i]
      /\ \A i \in 1..Len(t) : both[Len(s) + i] = t[i]
  <2>1. /\ both \in Seq(X) /\ Len(both) = Len(s) + Len(t)
        /\ \A i \in 1..Len(s) + Len(t) : both[i] = IF i <= Len(s) THEN s[i] ELSE t[i - Len(s)]
    BY ConcatProperties
  <2>2. Len(s) \in Nat /\ Len(t) \in Nat
    BY LenProperties
  <2> HIDE DEF both
  <2>3. ASSUME NEW i \in 1..Len(s) PROVE both[i] = s[i]
    <3>1. i \in 1..Len(s) + Len(t) /\ i <= Len(s)
      BY <2>2
    <3> QED
      BY <2>1, <3>1
  <2>4. ASSUME NEW i \in 1..Len(t) PROVE both[Len(s) + i] = t[i]
    <3>1. Len(s) + i \in 1..Len(s) + Len(t) /\ ~(Len(s) + i <= Len(s)) /\ (Len(s) + i) - Len(s) = i
      BY <2>2
    <3> QED
      BY <2>1, <3>1
  <2> QED
    BY <2>1, <2>2, <2>3, <2>4
<1> HIDE DEF both
<1>2. Len(s) \in S
  <2>1. 0 \in S
    BY KeptNone
  <2>2. ASSUME NEW m \in Nat, m \in S PROVE m + 1 \in S
    <3> SUFFICES ASSUME m + 1 <= Len(s) PROVE KeptUpTo(both, chars, m + 1) = KeptUpTo(s, chars, m + 1)
      OBVIOUS
    <3>1. KeptUpTo(both, chars, m) = KeptUpTo(s, chars, m) /\ both[m + 1] = s[m + 1]
      BY <1>1, <2>2
    <3> QED
      BY <3>1, KeptNext
  <2> HIDE DEF S
  <2> QED
    BY <1>1, <2>1, <2>2, FromZeroUp
<1>3. KeptUpTo(both, chars, Len(s)) = Kept(s, chars) /\ Kept(s, chars) \in Seq(X)
  <2>1. Len(s) \in 0..Len(s)
    BY <1>1
  <2>2. Kept(s, chars) = KeptUpTo(s, chars, Len(s))
    BY DEF Kept
  <2>3. KeptUpTo(s, chars, Len(s)) \in Seq(X)
    BY <2>1, KeptIsSeq
  <2> QED
    BY <1>1, <1>2, <2>2, <2>3 DEF S
<1>4. Len(t) \in T
  <2>1. 0 \in T
    <3>1. Kept(s, chars) \o <<>> = Kept(s, chars)
      BY <1>3, ConcatEmptySeq
    <3>2. KeptUpTo(t, chars, 0) = <<>> /\ Len(s) + 0 = Len(s)
      BY <1>1, KeptNone
    <3> QED
      BY <1>3, <3>1, <3>2
  <2>2. ASSUME NEW m \in Nat, m \in T PROVE m + 1 \in T
    <3> SUFFICES ASSUME m + 1 <= Len(t)
                 PROVE  KeptUpTo(both, chars, Len(s) + (m + 1)) = Kept(s, chars) \o KeptUpTo(t, chars, m + 1)
      OBVIOUS
    <3> DEFINE a == Kept(s, chars)  b == KeptUpTo(t, chars, m)  c == t[m + 1]
    <3>1. KeptUpTo(both, chars, Len(s) + m) = a \o b
      BY <1>1, <2>2
    <3>2. both[(Len(s) + m) + 1] = c /\ Len(s) + m \in Nat /\ (Len(s) + m) + 1 = Len(s) + (m + 1)
      BY <1>1
    <3>3. KeptUpTo(both, chars, Len(s) + (m + 1)) = IF c \in chars THEN Append(a \o b, c) ELSE a \o b
      <4> DEFINE n == Len(s) + m
      <4>1. n \in Nat /\ both[n + 1] = c /\ KeptUpTo(both, chars, n) = a \o b /\ n + 1 = Len(s) + (m + 1)
        BY <3>1, <3>2
      <4> HIDE DEF n, a, b, c
      <4>2. KeptUpTo(both, chars, n + 1) = IF both[n + 1] \in chars THEN Append(KeptUpTo(both, chars, n), both[n + 1])
                                           ELSE KeptUpTo(both, chars, n)
        BY <4>1, KeptNext
      <4> QED
        BY <4>1, <4>2
    <3>4. KeptUpTo(t, chars, m + 1) = IF c \in chars THEN Append(b, c) ELSE b
      BY KeptNext
    <3>5. a \in Seq(X) /\ b \in Seq(X) /\ c \in X
      <4>1. m \in 0..Len(t) /\ m + 1 \in 1..Len(t)
        BY <1>1
      <4> QED
        BY <1>3, <4>1, KeptIsSeq, ElementOfSeq
    <3> HIDE DEF a, b, c
    <3>6. Append(a \o b, c) = a \o Append(b, c)
      <4>1. a \o b \in Seq(X) /\ <<c>> \in Seq(X)
        BY <3>5, ConcatProperties
      <4>2. Append(a \o b, c) = (a \o b) \o <<c>> /\ Append(b, c) = b \o <<c>>
        BY <3>5, <4>1, AppendIsConcat
      <4>3. (a \o b) \o <<c>> = a \o (b \o <<c>>)
        BY <3>5, <4>1, ConcatAssociative
      <4> QED
        BY <4>2, <4>3
    <3> QED
      BY <3>3, <3>4, <3>6 DEF a
  <2> HIDE DEF T
  <2> QED
    BY <1>1, <2>1, <2>2, FromZeroUp
<1> QED
  BY <1>1, <1>4 DEF T, Kept, both

(* Characters that are not kept are as if they were not there. *)
LEMMA KeptOfSeparators ==
  ASSUME NEW X, NEW value \in Seq(X), NEW chars, \A k \in 1..Len(value) : value[k] \notin chars
  PROVE  Kept(value, chars) = <<>>
<1> DEFINE S == {m \in Nat : m <= Len(value) => KeptUpTo(value, chars, m) = <<>>}
<1>1. 0 \in S
  BY KeptNone
<1>2. ASSUME NEW m \in Nat, m \in S PROVE m + 1 \in S
  <2> SUFFICES ASSUME m + 1 <= Len(value) PROVE KeptUpTo(value, chars, m + 1) = <<>>
    OBVIOUS
  <2>1. KeptUpTo(value, chars, m) = <<>> /\ m + 1 \in 1..Len(value)
    BY <1>2, LenProperties
  <2> QED
    BY <2>1, KeptNext
<1> HIDE DEF S
<1>3. Len(value) \in S /\ Len(value) \in Nat
  BY <1>1, <1>2, FromZeroUp, LenProperties
<1> QED
  BY <1>3 DEF S, Kept

Chars == Digits \cup DocumentLetters \cup {"-"}

LEMMA KeptOfSeparated ==
  ASSUME NEW chars \in SUBSET (Chars \ {"-"}), NEW value \in Seq(chars), NEW typed \in Separated(value)
  PROVE  Kept(typed, chars) = value
<1>1. ASSUME NEW v \in Seq(chars) PROVE Kept(v, chars) = v
  BY ElementOfSeq, KeptWhole
<1>2. CASE typed = value
  BY <1>1, <1>2
<1>3. ASSUME NEW k \in 0..Len(value),
             typed = SubSeq(value, 1, k) \o <<"-">> \o SubSeq(value, k + 1, Len(value))
      PROVE  Kept(typed, chars) = value
  <2> DEFINE a == SubSeq(value, 1, k)  b == SubSeq(value, k + 1, Len(value))
  <2>1. Len(value) \in Nat
    BY LenProperties
  <2>2. a \in Seq(chars) /\ b \in Seq(chars)
    <3>1. (\A i \in 1..k : value[i] \in chars) /\ \A i \in k + 1..Len(value) : value[i] \in chars
      BY <2>1, ElementOfSeq
    <3> QED
      BY <2>1, <3>1, SubSeqProperties
  <2>3. a \o b = value
    <3>1. 1 \in 1..Len(value) + 1 /\ k \in 1 - 1..Len(value) /\ Len(value) \in k..Len(value)
      BY <2>1
    <3>2. a \o b = SubSeq(value, 1, Len(value))
      BY <3>1, ConcatAdjacentSubSeq
    <3> QED
      BY <3>2, SubSeqFull
  <2>4. typed = (a \o <<"-">>) \o b
    BY <1>3
  <2> HIDE DEF a, b
  <2>5. a \in Seq(Chars) /\ b \in Seq(Chars) /\ <<"-">> \in Seq(Chars)
    BY <2>2, SeqMonotonic DEF Chars
  <2>6. a \o <<"-">> \in Seq(Chars)
    BY <2>5, ConcatProperties
  <2>7. Kept(typed, chars) = (Kept(a, chars) \o Kept(<<"-">>, chars)) \o Kept(b, chars)
    <3>1. \A s, t \in Seq(Chars) : Kept(s \o t, chars) = Kept(s, chars) \o Kept(t, chars)
      BY KeptOfBoth
    <3>2. Kept(typed, chars) = Kept(a \o <<"-">>, chars) \o Kept(b, chars)
      BY <2>4, <2>5, <2>6, <3>1
    <3>3. Kept(a \o <<"-">>, chars) = Kept(a, chars) \o Kept(<<"-">>, chars)
      BY <2>5, <3>1
    <3> QED
      BY <3>2, <3>3
  <2>8. Kept(typed, chars) = (a \o <<>>) \o b
    <3>1. <<"-">> \in Seq(Chars) /\ \A i \in 1..Len(<<"-">>) : <<"-">>[i] \notin chars
      BY <2>5
    <3>2. Kept(<<"-">>, chars) = <<>>
      BY <3>1, KeptOfSeparators
    <3> QED
      BY <1>1, <2>2, <2>7, <3>2
  <2> QED
    BY <2>2, <2>3, <2>8, ConcatEmptySeq
<1> QED
  BY <1>2, <1>3 DEF Separated

-----------------------------------------------------------------------------
(* However it is written, what is sent is what was meant. *)

LEMMA WhatWasMeant ==
  ASSUME NEW kind, NEW meant, NEW form, NEW typed, NEW sent,
         Converted(kind, meant, form, typed, sent),
         sent \in {meant, Rejected}, form.documented => sent # Rejected
  PROVE  MeantIsSent'
BY DEF Converted, MeantIsSent

LEMMA DigitsAreNoLetters ==
  /\ Digits \in SUBSET (Chars \ {"-"}) /\ Digits \cup DocumentLetters \in SUBSET (Chars \ {"-"})
  /\ Digits \cap DocumentLetters = {}
BY DEF Digits, DocumentLetters, Chars

LEMMA DigitsOfTyped ==
  ASSUME NEW value \in Seq(Digits), NEW typed \in Separated(value)
  PROVE  DigitsOf(typed) = value
<1>1. Kept(typed, Digits) = value
  BY DigitsAreNoLetters, KeptOfSeparated
<1> QED
  BY <1>1 DEF DigitsOf

LEMMA WrittenIsSent ==
  ASSUME NEW value \in Seq(Digits \cup DocumentLetters)
  PROVE  value # Rejected
<1>1. value \in Seq(Digits \cup DocumentLetters \cup {"-"})
  BY SeqMonotonic
<1> QED
  BY <1>1, FieldsAssumption DEF Written

LEMMA DigitsAreSent ==
  ASSUME NEW value \in Seq(Digits)
  PROVE  value # Rejected
<1>1. value \in Seq(Digits \cup DocumentLetters)
  BY SeqMonotonic
<1> QED
  BY <1>1, WrittenIsSent

(* Digits before digits. *)
LEMMA PrefixedDigits ==
  \A before, value \in Seq(Digits) :
    /\ before \o value \in Seq(Digits) /\ Len(before \o value) = Len(before) + Len(value)
    /\ Len(before) \in Nat /\ Len(value) \in Nat
    /\ \A i \in 1..Len(before) : (before \o value)[i] = before[i]
    /\ \A i \in 1..Len(value) : (before \o value)[Len(before) + i] = value[i]
<1> SUFFICES ASSUME NEW before \in Seq(Digits), NEW value \in Seq(Digits)
             PROVE  /\ before \o value \in Seq(Digits) /\ Len(before \o value) = Len(before) + Len(value)
                    /\ Len(before) \in Nat /\ Len(value) \in Nat
                    /\ \A i \in 1..Len(before) : (before \o value)[i] = before[i]
                    /\ \A i \in 1..Len(value) : (before \o value)[Len(before) + i] = value[i]
  OBVIOUS
<1>1. /\ before \o value \in Seq(Digits) /\ Len(before \o value) = Len(before) + Len(value)
      /\ \A i \in 1..Len(before) + Len(value) :
           (before \o value)[i] = IF i <= Len(before) THEN before[i] ELSE value[i - Len(before)]
  BY ConcatProperties
<1>2. Len(before) \in Nat /\ Len(value) \in Nat
  BY LenProperties
<1>3. \A i \in 1..Len(before) : i \in 1..Len(before) + Len(value) /\ i <= Len(before)
  BY <1>2
<1>4. \A i \in 1..Len(value) : /\ Len(before) + i \in 1..Len(before) + Len(value)
                               /\ ~(Len(before) + i <= Len(before)) /\ Len(before) + i - Len(before) = i
  BY <1>2
<1>5. ASSUME NEW i \in 1..Len(value) PROVE (before \o value)[Len(before) + i] = value[i]
  BY <1>1, <1>4
<1> QED
  BY <1>1, <1>2, <1>3, <1>5

LEMMA LastDigits ==
  \A value \in Seq(Digits) : \A n \in Nat : n <= Len(value) /\ n > 0 =>
    /\ LastOf(value, n) \in Seq(Digits) /\ Len(LastOf(value, n)) = n
    /\ \A i \in 1..n : LastOf(value, n)[i] = value[Len(value) - n + i]
<1> SUFFICES ASSUME NEW value \in Seq(Digits), NEW n \in Nat, n <= Len(value), n > 0
             PROVE  /\ LastOf(value, n) \in Seq(Digits) /\ Len(LastOf(value, n)) = n
                    /\ \A i \in 1..n : LastOf(value, n)[i] = value[Len(value) - n + i]
  OBVIOUS
<1>1. Len(value) \in Nat
  BY LenProperties
<1>2. CASE Len(value) > n
  <2> DEFINE m == Len(value) - n + 1
  <2>1. LastOf(value, n) = SubSeq(value, m, Len(value))
    BY <1>2 DEF LastOf
  <2>2. m \in 1..Len(value) /\ Len(value) - m + 1 = n /\ m <= Len(value)
    BY <1>1, <1>2
  <2>3. \A i \in m..Len(value) : value[i] \in Digits
    BY <2>2, ElementOfSeq
  <2>4. /\ SubSeq(value, m, Len(value)) \in Seq(Digits)
        /\ Len(SubSeq(value, m, Len(value))) = IF m <= Len(value) THEN Len(value) - m + 1 ELSE 0
        /\ \A i \in 1..Len(value) - m + 1 : SubSeq(value, m, Len(value))[i] = value[m + i - 1]
    BY <1>1, <2>2, <2>3, SubSeqProperties
  <2>5. \A i \in 1..n : i \in 1..Len(value) - m + 1 /\ m + i - 1 = Len(value) - n + i
    BY <1>1, <2>2
  <2> HIDE DEF m
  <2> QED
    BY <2>1, <2>2, <2>4, <2>5
<1>3. CASE ~(Len(value) > n)
  <2>1. LastOf(value, n) = value /\ Len(value) = n
    BY <1>1, <1>3 DEF LastOf
  <2>2. \A i \in 1..n : Len(value) - n + i = i
    BY <2>1
  <2> QED
    BY <2>1, <2>2
<1> QED
  BY <1>2, <1>3

LEMMA SendPhoneMeant == SendPhone => MeantIsSent'
<1> SUFFICES ASSUME NEW phone \in Subscribers, NEW form \in PhoneForms(phone), NEW typed \in Separated(form.value),
                    Converted("phone", <<"5", "8">> \o phone, form, typed, ToInternationalPhone(typed))
             PROVE  MeantIsSent'
  BY DEF SendPhone
<1> DEFINE meant == <<"5", "8">> \o phone
           sent == ToInternationalPhone(typed)
<1>1. phone \in Seq(Digits) /\ Len(phone) = 10 /\ phone[1] = "4"
  BY FieldsAssumption
<1>2. /\ <<"0">> \in Seq(Digits) /\ <<"5", "8">> \in Seq(Digits)
      /\ <<"0", "0", "5", "8">> \in Seq(Digits) /\ <<"5", "8", "0">> \in Seq(Digits)
  BY DEF Digits
<1>3. meant \in Seq(Digits) /\ Len(meant) = 12 /\ meant[1] = "5" /\ meant[2] = "8"
  <2>1. Len(<<"5", "8">>) = 2 /\ <<"5", "8">>[1] = "5" /\ <<"5", "8">>[2] = "8"
    OBVIOUS
  <2>2. 1 \in 1..2 /\ 2 \in 1..2
    OBVIOUS
  <2> DEFINE country == <<"5", "8">>
  <2> HIDE DEF country
  <2>3. country \in Seq(Digits) /\ Len(country) = 2 /\ country[1] = "5" /\ country[2] = "8"
    BY <1>2, <2>1 DEF country
  <2> DEFINE whole == country \o phone
  <2>4. /\ whole \in Seq(Digits) /\ Len(whole) = Len(country) + Len(phone)
        /\ \A i \in 1..Len(country) : whole[i] = country[i]
    BY <1>1, <2>3, PrefixedDigits
  <2> HIDE DEF whole
  <2>5. whole \in Seq(Digits) /\ Len(whole) = 12 /\ whole[1] = "5" /\ whole[2] = "8"
    BY <1>1, <2>2, <2>3, <2>4
  <2> QED
    BY <2>5 DEF country, whole
<1>4. meant # Rejected
  BY <1>3, DigitsAreSent
<1>5. CASE form = Form(TRUE, phone)
  <2>1. DigitsOf(typed) = phone
    BY <1>1, <1>5, DigitsOfTyped DEF Form
  <2>2. sent = meant
    BY <1>1, <2>1 DEF ToInternationalPhone
  <2> QED
    BY <1>4, <2>2, WhatWasMeant
<1>6. CASE form = Form(TRUE, <<"0">> \o phone)
  <2> DEFINE zero == <<"0">>  dialled == zero \o phone
  <2>0. zero \in Seq(Digits) /\ Len(zero) = 1 /\ zero[1] = "0"
    BY <1>2
  <2> HIDE DEF zero
  <2>a. /\ dialled \in Seq(Digits) /\ Len(dialled) = Len(zero) + Len(phone)
        /\ \A i \in 1..Len(zero) : dialled[i] = zero[i]
        /\ \A i \in 1..Len(phone) : dialled[Len(zero) + i] = phone[i]
    BY <1>1, <2>0, PrefixedDigits
  <2> HIDE DEF dialled
  <2>1. /\ dialled \in Seq(Digits) /\ Len(dialled) = 11 /\ dialled[1] = "0"
        /\ \A i \in 1..10 : dialled[i + 1] = phone[i]
    <3>1. 1 \in 1..1 /\ \A i \in 1..10 : 1 + i = i + 1
      OBVIOUS
    <3> QED
      BY <1>1, <2>0, <2>a, <3>1
  <2>2. DigitsOf(typed) = dialled
    BY <1>6, <2>1, DigitsOfTyped DEF Form, dialled, zero
  <2>3. Tail(dialled) = phone
    <3>1. dialled # <<>>
      BY <2>1
    <3>2. /\ Tail(dialled) \in Seq(Digits) /\ Len(Tail(dialled)) = 11 - 1
          /\ \A i \in 1..Len(Tail(dialled)) : Tail(dialled)[i] = dialled[i + 1]
      BY <2>1, <3>1, HeadTailProperties
    <3>3. Len(Tail(dialled)) = Len(phone)
      BY <1>1, <3>2
    <3>4. \A i \in 1..Len(Tail(dialled)) : Tail(dialled)[i] = phone[i]
      BY <2>1, <3>2, 11 - 1 = 10
    <3> QED
      BY <1>1, <3>2, <3>3, <3>4, SeqEqual
  <2>4. sent = meant
    <3>1. Len(dialled) # 12
      BY <2>1
    <3> QED
      BY <2>1, <2>2, <2>3, <3>1 DEF ToInternationalPhone
  <2> QED
    BY <1>4, <2>4, WhatWasMeant
<1>7. CASE form = Form(TRUE, meant)
  <2>1. DigitsOf(typed) = meant
    BY <1>3, <1>7, DigitsOfTyped DEF Form
  <2>2. sent = meant
    <3> HIDE DEF meant
    <3> QED
      BY <1>3, <2>1 DEF ToInternationalPhone
  <2> QED
    BY <1>4, <2>2, WhatWasMeant
<1>8. ASSUME NEW before \in {<<"0", "0", "5", "8">>, <<"5", "8", "0">>}, form = Form(FALSE, before \o phone)
      PROVE  MeantIsSent'
  <2>0. before \in Seq(Digits) /\ Len(before) \in 3..4
    <3>1. CASE before = <<"0", "0", "5", "8">>
      BY <1>2, <3>1
    <3>2. CASE before = <<"5", "8", "0">>
      BY <1>2, <3>2
    <3> QED
      BY <1>8, <3>1, <3>2
  <2>a. before \o phone \in Seq(Digits) /\ Len(before \o phone) = Len(before) + Len(phone)
    BY <1>1, <2>0, PrefixedDigits
  <2>1. before \o phone \in Seq(Digits) /\ Len(before \o phone) \in 13..14
    <3>0. \A n \in 3..4 : n + 10 \in 13..14
      OBVIOUS
    <3>1. Len(before) + Len(phone) \in 13..14
      BY <1>1, <2>0, <3>0, Zenon
    <3> QED
      BY <2>a, <3>1, Zenon
  <2>2. DigitsOf(typed) = before \o phone
    BY <1>8, <2>1, DigitsOfTyped DEF Form
  <2>3. sent = Rejected
    BY <2>1, <2>2 DEF ToInternationalPhone
  <2>4. form.documented = FALSE
    BY <1>8 DEF Form
  <2> QED
    BY <2>3, <2>4, WhatWasMeant
<1> QED
  BY <1>5, <1>6, <1>7, <1>8 DEF PhoneForms

LEMMA SendReferenceMeant == SendReference => MeantIsSent'
<1> SUFFICES ASSUME NEW reference \in Transfers, NEW form \in ReferenceForms(reference),
                    NEW typed \in Separated(form.value),
                    Converted("reference", LastOf(reference, 8), form, typed, ToPaymentReference(typed))
             PROVE  MeantIsSent'
  BY DEF SendReference
<1>1. reference \in Seq(Digits) /\ Len(reference) >= 8 /\ Len(reference) \in Nat
  BY FieldsAssumption, LenProperties
<1>2. PICK n \in 8..Len(reference) : form = Form(TRUE, LastOf(reference, n))
  BY DEF ReferenceForms
<1> DEFINE known == LastOf(reference, n)
           meant == LastOf(reference, 8)
<1>3. /\ known \in Seq(Digits) /\ Len(known) = n
      /\ \A i \in 1..n : known[i] = reference[Len(reference) - n + i]
  <2>1. n \in Nat /\ n > 0 /\ n <= Len(reference)
    BY <1>1
  <2> QED
    BY <1>1, <2>1, LastDigits
<1>4. /\ meant \in Seq(Digits) /\ Len(meant) = 8
      /\ \A i \in 1..8 : meant[i] = reference[Len(reference) - 8 + i]
  <2>1. 8 \in Nat /\ 8 > 0 /\ 8 <= Len(reference)
    BY <1>1
  <2> QED
    BY <1>1, <2>1, LastDigits
<1> HIDE DEF known, meant
<1>5. /\ LastOf(known, 8) \in Seq(Digits) /\ Len(LastOf(known, 8)) = 8
      /\ \A i \in 1..8 : LastOf(known, 8)[i] = known[n - 8 + i]
  <2>1. 8 \in Nat /\ 8 > 0 /\ 8 <= Len(known)
    BY <1>3
  <2> QED
    BY <1>3, <2>1, LastDigits
<1>6. LastOf(known, 8) = meant
  <2>1. ASSUME NEW i \in 1..8 PROVE LastOf(known, 8)[i] = meant[i]
    <3>1. n - 8 + i \in 1..n /\ Len(reference) - n + (n - 8 + i) = Len(reference) - 8 + i
      BY <1>1
    <3>2. known[n - 8 + i] = reference[Len(reference) - n + (n - 8 + i)]
      BY <1>3, <3>1
    <3> QED
      BY <1>4, <1>5, <3>1, <3>2
  <2> QED
    BY <1>4, <1>5, <2>1, SeqEqual
<1>7. DigitsOf(typed) = known
  BY <1>2, <1>3, DigitsOfTyped DEF Form, known
<1>8. known # <<>>
  BY <1>3
<1>9. ToPaymentReference(typed) = meant
  BY <1>6, <1>7, <1>8 DEF ToPaymentReference
<1>10. meant # Rejected
  BY <1>4, DigitsAreSent
<1> QED
  BY <1>9, <1>10, WhatWasMeant DEF meant

LEMMA SendCardMeant == SendCard => MeantIsSent'
<1> SUFFICES ASSUME NEW card \in Cards, NEW typed \in Separated(card),
                    Converted("card", card, Form(TRUE, card), typed, ToCardNumber(typed))
             PROVE  MeantIsSent'
  BY DEF SendCard
<1>1. card \in Seq(Digits) /\ Len(card) \in 13..19
  BY FieldsAssumption
<1>2. ToCardNumber(typed) = card
  BY <1>1, DigitsOfTyped DEF ToCardNumber
<1>3. card # Rejected
  BY <1>1, DigitsAreSent
<1> QED
  BY <1>2, <1>3, WhatWasMeant

LEMMA SendDocumentMeant == SendDocument => MeantIsSent'
<1> SUFFICES ASSUME NEW document \in Citizens, NEW form \in DocumentForms(document),
                    NEW typed \in Separated(form.value),
                    Converted("document", document, form, typed, ToIdentityDocument(typed))
             PROVE  MeantIsSent'
  BY DEF SendDocument
<1> DEFINE chars == Digits \cup DocumentLetters
<1>1. /\ document \in Seq(Chars) /\ Len(document) \in 6..13 /\ document[1] \in DocumentLetters
      /\ \A k \in 2..Len(document) : document[k] \in Digits
  BY FieldsAssumption DEF Written, Chars
<1>2. document \in Seq(chars)
  <2>1. \A k \in 1..Len(document) : document[k] \in chars
    <3>1. \A k \in 1..Len(document) : k = 1 \/ k \in 2..Len(document)
      BY <1>1
    <3> QED
      BY <1>1, <3>1
  <2>2. SubSeq(document, 1, Len(document)) \in Seq(chars)
    BY <1>1, <2>1, SubSeqProperties
  <2> QED
    BY <1>1, <2>2, SubSeqFull
<1>3. document # <<>> /\ Head(document) = document[1]
  BY <1>1
<1>4. /\ Tail(document) \in Seq(chars) /\ Len(Tail(document)) = Len(document) - 1
      /\ \A i \in 1..Len(Tail(document)) : Tail(document)[i] = document[i + 1]
  BY <1>2, <1>3, HeadTailProperties
<1>5. ASSUME NEW value \in Seq(chars), form.value = value PROVE Kept(typed, chars) = value
  BY <1>5, DigitsAreNoLetters, KeptOfSeparated
<1>6. document # Rejected
  BY <1>2, WrittenIsSent
<1> HIDE DEF chars
<1>7. ASSUME NEW cleaned, cleaned = Kept(typed, chars),
             document = IF cleaned # <<>> /\ Head(cleaned) \in DocumentLetters THEN cleaned ELSE <<"V">> \o cleaned
      PROVE  ToIdentityDocument(typed) = document
  <2>1. Len(document) \in 6..13 /\ \A k \in 2..Len(document) : document[k] \in Digits
    BY <1>1
  <2> QED
    BY <1>7, <2>1 DEF ToIdentityDocument, chars
<1>8. CASE form = Form(TRUE, document)
  <2>1. Kept(typed, chars) = document
    BY <1>2, <1>5, <1>8 DEF Form
  <2> QED
    BY <1>1, <1>3, <1>6, <1>7, <2>1, WhatWasMeant
<1>9. CASE Head(document) = "V" /\ form = Form(TRUE, Tail(document))
  <2> DEFINE cleaned == Tail(document)
  <2>1. Kept(typed, chars) = cleaned
    BY <1>4, <1>5, <1>9 DEF Form
  <2>2. cleaned # <<>> /\ Head(cleaned) = document[2]
    <3>1. Len(cleaned) \in 5..12 /\ 1 \in 1..Len(cleaned) /\ 1 + 1 = 2
      BY <1>1, <1>4
    <3>2. cleaned[1] = document[2]
      BY <1>4, <3>1
    <3> HIDE DEF cleaned
    <3> QED
      BY <3>1, <3>2
  <2>3. Head(cleaned) \notin DocumentLetters
    <3>1. document[2] \in Digits
      BY <1>1
    <3> QED
      BY <2>2, <3>1, DigitsAreNoLetters
  <2>4. <<"V">> \o cleaned = document
    <3> DEFINE letter == <<"V">>  whole == letter \o cleaned
    <3>1. letter \in Seq(chars) /\ Len(letter) = 1 /\ letter[1] = document[1]
      BY <1>3, <1>9 DEF chars, DocumentLetters
    <3> HIDE DEF letter, cleaned
    <3>2. /\ whole \in Seq(chars) /\ Len(whole) = Len(letter) + Len(cleaned)
          /\ \A i \in 1..Len(letter) + Len(cleaned) :
               whole[i] = IF i <= Len(letter) THEN letter[i] ELSE cleaned[i - Len(letter)]
      <4>1. cleaned \in Seq(chars)
        BY <1>4 DEF cleaned
      <4> QED
        BY <3>1, <4>1, ConcatProperties
    <3> HIDE DEF whole
    <3>3. Len(cleaned) = Len(document) - 1 /\ \A i \in 1..Len(cleaned) : cleaned[i] = document[i + 1]
      BY <1>4 DEF cleaned
    <3>4. Len(whole) = Len(document)
      BY <1>1, <3>1, <3>2, <3>3
    <3>5. ASSUME NEW i \in 1..Len(whole) PROVE whole[i] = document[i]
      <4>1. CASE i = 1
        BY <1>1, <3>1, <3>2, <3>3, <4>1
      <4>2. CASE i # 1
        <5>1. i - 1 \in 1..Len(cleaned) /\ (i - 1) + 1 = i /\ ~(i <= Len(letter)) /\ i \in 1..Len(letter) + Len(cleaned)
          BY <1>1, <3>1, <3>3, <3>4, <4>2
        <5>2. whole[i] = cleaned[i - 1]
          BY <3>1, <3>2, <5>1
        <5> QED
          BY <3>3, <5>1, <5>2
      <4> QED
        BY <4>1, <4>2
    <3>6. whole = document
      BY <1>2, <3>2, <3>4, <3>5, SeqEqual
    <3> QED
      BY <3>6 DEF whole, letter
  <2> HIDE DEF cleaned
  <2>5. ToIdentityDocument(typed) = document
    BY <1>7, <2>1, <2>3, <2>4
  <2> QED
    BY <1>6, <2>5, WhatWasMeant
<1> QED
  BY <1>8, <1>9 DEF DocumentForms

LEMMA SendExpiryMeant == SendExpiry => MeantIsSent'
<1> SUFFICES ASSUME NEW expiry \in Expiries, NEW form \in ExpiryForms(expiry),
                    Converted("expiry", expiry, form, form.value, ToCardExpiration(form.value[1], form.value[2]))
             PROVE  MeantIsSent'
  BY DEF SendExpiry
<1> DEFINE year == expiry[1]  month == expiry[2]  short == LastOf(year, 2)
<1>1. /\ expiry \in Seq(Digits) \X Seq(Digits) /\ Len(year) = 4 /\ year[1] = "2" /\ year[2] = "0"
      /\ IsMonth(month) /\ ~IsMonth(SubSeq(year, 3, 4))
  BY FieldsAssumption
<1>2. expiry = <<year, month>> /\ year \in Seq(Digits) /\ month \in Seq(Digits)
  BY <1>1
<1>3. Len(month) = 2
  BY <1>1 DEF IsMonth
<1>4. expiry # Rejected
  <2>1. year \in Written /\ month \in Written
    BY <1>2, SeqMonotonic DEF Written
  <2>2. expiry \in Written \X Written
    BY <1>2, <2>1
  <2> QED
    BY <2>2, FieldsAssumption
<1>5. /\ short \in Seq(Digits) /\ Len(short) = 2 /\ ~IsMonth(short)
      /\ short[1] = year[3] /\ short[2] = year[4]
  <2>1. short = SubSeq(year, 3, 4)
    BY <1>1 DEF LastOf
  <2>2. 2 \in Nat /\ 2 > 0 /\ 2 <= Len(year)
    BY <1>1
  <2>3. /\ short \in Seq(Digits) /\ Len(short) = 2
        /\ \A i \in 1..2 : short[i] = year[Len(year) - 2 + i]
    BY <1>2, <2>2, LastDigits
  <2>4. 1 \in 1..2 /\ 2 \in 1..2 /\ Len(year) - 2 + 1 = 3 /\ Len(year) - 2 + 2 = 4
    BY <1>1
  <2> HIDE DEF short
  <2> QED
    BY <1>1, <2>1, <2>3, <2>4
<1> HIDE DEF short
<1>6. <<"2", "0">> \o short = year
  <2> DEFINE century == <<"2", "0">>  whole == century \o short
  <2>1. century \in Seq(Digits) /\ Len(century) = 2 /\ century[1] = "2" /\ century[2] = "0"
    BY DEF Digits
  <2> HIDE DEF century
  <2>2. /\ whole \in Seq(Digits) /\ Len(whole) = Len(century) + Len(short)
        /\ \A i \in 1..Len(century) : whole[i] = century[i]
        /\ \A i \in 1..Len(short) : whole[Len(century) + i] = short[i]
    BY <1>5, <2>1, PrefixedDigits
  <2> HIDE DEF whole
  <2>3. whole[1] = year[1] /\ whole[2] = year[2] /\ whole[3] = year[3] /\ whole[4] = year[4]
    <3>1. 1 \in 1..2 /\ 2 \in 1..2 /\ 2 + 1 = 3 /\ 2 + 2 = 4
      OBVIOUS
    <3> QED
      BY <1>1, <1>5, <2>1, <2>2, <3>1
  <2>4. Len(whole) = 4
    BY <1>5, <2>1, <2>2
  <2>5. \A i \in 1..Len(whole) : whole[i] = year[i]
    BY <2>3, <2>4
  <2>6. whole = year
    BY <1>1, <1>2, <2>2, <2>4, <2>5, SeqEqual
  <2> QED
    BY <2>6 DEF whole, century
<1> HIDE DEF year, month
<1>7. CASE form \in {Form(TRUE, <<month, short>>), Form(TRUE, <<month, year>>), Form(TRUE, <<year, month>>)}
  <2>1. ToCardExpiration(month, short) = <<year, month>>
    <3>1. Len(month) # 4 /\ Len(short) # 4
      BY <1>3, <1>5
    <3> QED
      BY <1>1, <1>6, <3>1, Zenon DEF ToCardExpiration
  <2>2. ToCardExpiration(month, year) = <<year, month>>
    BY <1>1, <1>3 DEF ToCardExpiration
  <2>3. ToCardExpiration(year, month) = <<year, month>>
    BY <1>1 DEF ToCardExpiration
  <2>4. ToCardExpiration(form.value[1], form.value[2]) = expiry
    BY <1>2, <1>7, <2>1, <2>2, <2>3 DEF Form
  <2> QED
    BY <1>4, <2>4, WhatWasMeant
<1>8. CASE form = Form(FALSE, <<short, month>>)
  <2>1. ToCardExpiration(short, month) = Rejected
    BY <1>5 DEF ToCardExpiration
  <2>2. ToCardExpiration(form.value[1], form.value[2]) = Rejected /\ form.documented = FALSE
    BY <1>8, <2>1 DEF Form
  <2> QED
    BY <2>2, WhatWasMeant
<1> QED
  BY <1>7, <1>8 DEF ExpiryForms, year, month, short

LEMMA SendInvoiceNumberMeant == SendInvoiceNumber => MeantIsSent'
<1> DEFINE cli == <<"-", "-", "-", "-">>  dash == <<"-">>
<1> SUFFICES ASSUME NEW bill \in BillNumbers, NEW typed, typed = cli \o bill[1] \o dash \o bill[2],
                    Converted("invoice", bill[1] \o bill[2], Form(TRUE, typed), typed,
                              ToMercantilInvoiceNumber(typed))
             PROVE  MeantIsSent'
  BY DEF SendInvoiceNumber
<1> DEFINE year == bill[1]  number == bill[2]  meant == year \o number
<1>1. year \in Seq(Digits) /\ number \in Seq(Digits) /\ Len(year) = 4 /\ Len(number) \in 6..8
  BY FieldsAssumption
<1>2. /\ cli \in Seq(Chars) /\ dash \in Seq(Chars)
      /\ Kept(cli, Digits) = <<>> /\ Kept(dash, Digits) = <<>>
  <2>1. cli \in Seq(Chars) /\ dash \in Seq(Chars)
    BY DEF Chars
  <2>2. \A k \in 1..Len(cli) : cli[k] \notin Digits
    BY DEF Digits
  <2>3. \A k \in 1..Len(dash) : dash[k] \notin Digits
    BY DEF Digits
  <2> HIDE DEF cli, dash
  <2> QED
    BY <2>1, <2>2, <2>3, KeptOfSeparators
<1> HIDE DEF cli, dash, year, number
<1>3. year \in Seq(Chars) /\ number \in Seq(Chars) /\ Kept(year, Digits) = year /\ Kept(number, Digits) = number
  <2>1. year \in Seq(Chars) /\ number \in Seq(Chars)
    BY <1>1, SeqMonotonic DEF Chars
  <2>2. ASSUME NEW v \in Seq(Digits) PROVE Kept(v, Digits) = v
    BY ElementOfSeq, KeptWhole
  <2> QED
    BY <1>1, <2>1, <2>2
<1>4. DigitsOf(typed) = meant
  <2> DEFINE one == cli \o year  two == one \o dash  three == two \o number
  <2>1. \A s, t \in Seq(Chars) : s \o t \in Seq(Chars) /\ Kept(s \o t, Digits) = Kept(s, Digits) \o Kept(t, Digits)
    BY KeptOfBoth, ConcatProperties
  <2>2. one \in Seq(Chars) /\ Kept(one, Digits) = Kept(cli, Digits) \o Kept(year, Digits)
    BY <1>2, <1>3, <2>1
  <2> HIDE DEF one
  <2>3. two \in Seq(Chars) /\ Kept(two, Digits) = Kept(one, Digits) \o Kept(dash, Digits)
    BY <1>2, <2>1, <2>2
  <2> HIDE DEF two
  <2>4. Kept(three, Digits) = Kept(two, Digits) \o Kept(number, Digits)
    BY <1>3, <2>1, <2>3
  <2> HIDE DEF three
  <2>5. Kept(one, Digits) = year
    BY <1>1, <1>2, <1>3, <2>2, ConcatEmptySeq
  <2>6. Kept(two, Digits) = year
    BY <1>1, <1>2, <2>3, <2>5, ConcatEmptySeq
  <2>7. Kept(three, Digits) = meant
    BY <1>3, <2>4, <2>6
  <2>8. typed = three
    BY DEF one, two, three, year, number
  <2> QED
    BY <2>7, <2>8 DEF DigitsOf
<1>5. meant \in Seq(Digits) /\ Len(meant) = Len(year) + Len(number)
  BY <1>1, PrefixedDigits
<1> HIDE DEF meant
<1>6. Len(meant) \in 10..12
  <2>1. \A n \in 6..8 : 4 + n \in 10..12
    OBVIOUS
  <2> QED
    BY <1>1, <1>5, <2>1, Zenon
<1>7. ToMercantilInvoiceNumber(typed) = meant
  <2>1. ~(Len(meant) > 12)
    <3>1. \A n \in 10..12 : ~(n > 12)
      OBVIOUS
    <3> QED
      BY <1>6, <3>1, Zenon
  <2> QED
    BY <1>4, <2>1, Zenon DEF ToMercantilInvoiceNumber, LastOf
<1>8. meant # Rejected
  BY <1>5, DigitsAreSent
<1> QED
  BY <1>7, <1>8, WhatWasMeant DEF meant, year, number

(* However the payer writes a field, Sitef is asked about what the payer meant;  *)
(* a form the comments promise is understood.                                      *)
THEOREM MeantIsAsked == FieldsSpec => []MeantIsSent
<1>1. FieldsInit => MeantIsSent
  BY DEF FieldsInit, MeantIsSent
<1>2. MeantIsSent /\ [FieldsNext]_field => MeantIsSent'
  <2> SUFFICES ASSUME MeantIsSent, [FieldsNext]_field PROVE MeantIsSent'
    OBVIOUS
  <2>1. CASE FieldsNext
    BY <2>1, SendPhoneMeant, SendReferenceMeant, SendDocumentMeant, SendCardMeant, SendExpiryMeant,
       SendInvoiceNumberMeant DEF FieldsNext
  <2>2. CASE UNCHANGED field
    BY <2>2 DEF MeantIsSent
  <2> QED
    BY <2>1, <2>2
<1> QED
  BY <1>1, <1>2, PTL DEF FieldsSpec

-----------------------------------------------------------------------------
(* The modules together: while one runs the others rest. *)

LEMMA IntegrationsAreFour == Spec => RouteSpec /\ FxSpec /\ SitefSpec /\ FieldsSpec
<1>1. Init => RouteInit /\ FxInit /\ SitefInit /\ FieldsInit
  BY DEF Init
<1>2. Next => [RouteNext]_routeVars /\ [FxNext]_fxVars /\ [SitefNext]_sitefVars /\ [FieldsNext]_field
  BY DEF Next
<1>3. UNCHANGED vars => UNCHANGED <<routeVars, fxVars, sitefVars, field>>
  BY DEF vars
<1>4. [Next]_vars => [RouteNext]_routeVars /\ [FxNext]_fxVars /\ [SitefNext]_sitefVars /\ [FieldsNext]_field
  BY <1>2, <1>3
<1> QED
  BY <1>1, <1>4, PTL DEF Spec, RouteSpec, FxSpec, SitefSpec, FieldsSpec

(* The state is typed wherever the four are, and no row keeps the number of a card. *)
THEOREM IntegrationsTypes == Spec => []IntegrationsTypeOK
<1> QED
  BY IntegrationsAreFour, RouteTypeCorrect, FxTypeCorrect, SitefTypes, NoCardIsKept, PTL DEF IntegrationsTypeOK
=============================================================================
