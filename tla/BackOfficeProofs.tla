-------------------------- MODULE BackOfficeProofs --------------------------
(***************************************************************************)
(* Of the accounts, for any number of users, sessions and requests: no       *)
(* address is held twice, a rotated token is spent for good, and where no two  *)
(* calls worked on a user at once the stored password is the one chosen, an     *)
(* older one opens nothing and a deleted account stays out.                      *)
(*                                                                                *)
(* Of the registry, for any number of rows, requests and keys: no key is given     *)
(* twice, an edit that nobody else was at is not lost, and what was revoked or       *)
(* removed is not brought back.                                                       *)
(***************************************************************************)
EXTENDS MCBackOffice, TLAPS

-----------------------------------------------------------------------------
(* Accounts *)

(* What a call holds whoever else works on its user. *)
CallFits(c) ==
  /\ c.pc = "idle" => c = Idle
  /\ c.pc = "insert" => /\ c.user = None /\ c.email # "keep" /\ c.status # "keep"
                        /\ c.password # Garbled
  /\ c.pc \notin {"idle", "insert"} => c.user \in Users /\ user[c.user].status # "none"
  /\ c.pc \in {"find", "rotate"} => c.session # None
  /\ c.pc \in {"read", "find", "rotate"} /\ c.session # None => session[c.session].user = c.user
  /\ c.pc = "read" => c.password = None
  /\ c.hashed => c.pc = "check"

(* What it may still rely on as long as nobody else does: a whole user read is the  *)
(* user, and whoever is about to change a password left no session but its own.      *)
QuietFits(c) ==
  c.user \in Users /\ c.user \notin contended =>
    /\ c.pc \in {"save", "open", "read", "find", "rotate"} => ~user[c.user].deleted
    /\ c.password # Garbled
    /\ c.hashed \/ (c.pc = "open" /\ c.password # None) => c.password = user[c.user].password
    /\ c.pc \in {"read", "find", "rotate"} /\ c.session # None => session[c.session].live
    /\ c.pc \in {"mail", "check", "merge", "save"} /\ c.password # None /\ ~c.hashed /\ ~c.admin =>
         \A s \in Sessions :
           session[s].user = c.user /\ session[s].live /\ session[s].opened # None => s = c.session

CallsFit == \A r \in Requests : CallFits(request[r]) /\ QuietFits(request[r])

OneCall ==
  \A r, q \in Requests :
    r # q /\ request[r].user = request[q].user /\ request[r].user \in Users => request[r].user \in contended

UsersFit ==
  /\ \A u \in Users : user[u].status = "none" => user[u] = NoUser
  /\ \A u \in Users \ contended : user[u].password = chosen[u]

SessionsFit ==
  /\ \A s \in Sessions :
       \/ session[s] = NoSession
       \/ /\ session[s].user \in Users /\ user[session[s].user].status # "none"
          /\ <<s, session[s].hash>> \in tokens
  /\ \A t \in tokens : t[2] <= drawn

AccInv ==
  /\ TypeOK /\ CallsFit /\ OneCall /\ UsersFit /\ EmailIsUnique
  /\ SessionsFit /\ SpentTokensStaySpent /\ OldPasswordOpensNothing

-----------------------------------------------------------------------------
LEMMA IdleFits ==
  /\ Idle \in Request /\ Idle.user = None /\ Idle.pc = "idle" /\ Idle.session = None
  /\ Idle.password = None /\ Idle.email = "keep" /\ ~Idle.hashed /\ ~Idle.admin
  /\ CallFits(Idle) /\ QuietFits(Idle)
<1>1. Idle \in Request
  BY Zenon DEF Idle, Request
<1>2. /\ Idle.user = None /\ Idle.pc = "idle" /\ Idle.session = None /\ Idle.email = "keep"
      /\ Idle.password = None /\ ~Idle.hashed /\ ~Idle.admin
  BY DEF Idle
<1>3. CallFits(Idle)
  BY <1>2, SMT DEF CallFits
<1>4. QuietFits(Idle)
  BY <1>2, AccountsAssumption, SMT DEF QuietFits
<1>5. QED
  BY <1>1, <1>2, <1>3, <1>4

LEMMA AccInitInv == Init => AccInv
<1> SUFFICES ASSUME Init PROVE AccInv
  OBVIOUS
<1>a. 0 \in 0..MaxHash
  BY AccountsAssumption, SMT
<1>1. NoUser \in User /\ NoSession \in Session
  BY <1>a, Zenon DEF NoUser, User, NoSession, Session
<1>2. TypeOK
  BY <1>1, IdleFits, AccountsAssumption, SMT DEF Init, TypeOK
<1>3. \A r \in Requests : request[r] = Idle
  BY DEF Init
<1>4. CallsFit /\ OneCall
  BY <1>3, IdleFits, AccountsAssumption DEF CallsFit, OneCall
<1>5. UsersFit /\ EmailIsUnique
  BY SMT DEF Init, UsersFit, EmailIsUnique, NoUser
<1>6. SessionsFit /\ SpentTokensStaySpent /\ OldPasswordOpensNothing
  BY SMT DEF Init, SessionsFit, SpentTokensStaySpent, OldPasswordOpensNothing, NoSession
<1>7. QED
  BY <1>2, <1>4, <1>5, <1>6 DEF AccInv

-----------------------------------------------------------------------------
LEMMA LiveHasUser ==
  ASSUME AccInv, NEW s \in Sessions, session[s].live
  PROVE  session[s].user \in Users /\ user[session[s].user].status # "none"
<1>1. NoSession.live = FALSE
  BY DEF NoSession
<1>2. session[s] # NoSession
  BY <1>1
<1>3. QED
  BY <1>2 DEF AccInv, SessionsFit

(* A call goes on fitting when another one, on user x, writes rows of x. *)
LEMMA OtherFits ==
  ASSUME AccInv, NEW d \in Requests, request'[d] = request[d], NEW x \in Users \cup {None},
         request[d].user = x => x = None \/ x \in contended',
         contended \subseteq contended',
         \A u \in Users : user[u].status # "none" =>
           user'[u].status # "none" /\ (u # x => user'[u] = user[u]),
         \A s \in Sessions :
           session'[s] = session[s] \/ (session'[s].user = x /\ session[s].user \in {x, None})
  PROVE  (CallFits(request[d]) /\ QuietFits(request[d]))'
<1>1. CallFits(request[d]) /\ QuietFits(request[d]) /\ request[d] \in Request
  BY DEF AccInv, CallsFit, TypeOK
<1>2. request[d].session \in Sessions \cup {None} /\ request[d].user \in Users \cup {None}
  BY <1>1 DEF Request
<1>3. CallFits(request[d])'
  BY <1>1, <1>2, AccountsAssumption, SMT DEF CallFits
<1>4. QuietFits(request[d])'
  BY <1>1, <1>2, AccountsAssumption, SMT DEF QuietFits, CallFits
<1>5. QED
  BY <1>3, <1>4

(* A call begins or goes on, and writes no row. *)
LEMMA RequestInv ==
  ASSUME AccInv, NEW r \in Requests, NEW new \in Request,
         request' = [request EXCEPT ![r] = new],
         UNCHANGED <<user, session, tokens, spent, drawn, chosen, kept>>,
         links' \subseteq Link, resets' \subseteq Users, used' \subseteq Passwords,
         calls' \in 0..MaxCalls, contended \subseteq contended', contended' \subseteq Users,
         \/ new.user \in {None, request[r].user}
         \/ \A q \in Requests : request[q].user = new.user => new.user \in contended',
         CallFits(new), QuietFits(new)
  PROVE  AccInv'
<1>1. request'[r] = new /\ \A d \in Requests \ {r} : request'[d] = request[d]
  BY DEF AccInv, TypeOK
<1>2. TypeOK'
  BY SMT DEF AccInv, TypeOK
<1>3. CallsFit'
  <2> SUFFICES ASSUME NEW d \in Requests PROVE (CallFits(request[d]) /\ QuietFits(request[d]))'
    BY DEF CallsFit
  <2>1. CASE d = r
    BY <1>1, <2>1, SMT DEF CallFits, QuietFits
  <2>2. CASE d # r
    BY <1>1, <2>2, OtherFits
  <2>3. QED
    BY <2>1, <2>2
<1>4. OneCall'
  BY <1>1, AccountsAssumption, SMT DEF AccInv, OneCall
<1>5. UsersFit' /\ EmailIsUnique' /\ SessionsFit' /\ SpentTokensStaySpent' /\ OldPasswordOpensNothing'
  BY SMT DEF AccInv, UsersFit, EmailIsUnique, SessionsFit, SpentTokensStaySpent, OldPasswordOpensNothing
<1>6. QED
  BY <1>2, <1>3, <1>4, <1>5 DEF AccInv

LEMMA BeginInv ==
  ASSUME AccInv, NEW r \in Requests, NEW call \in Request, Begin(r, call),
         UNCHANGED <<user, session, tokens, spent, drawn, chosen, kept>>,
         links' \subseteq Link, resets' \subseteq Users, used' \subseteq Passwords,
         \/ call.user = None /\ contended' = contended
         \/ call.user \in Users /\ Contend(call.user),
         CallFits(call), QuietFits(call)
  PROVE  AccInv'
<1>1. request' = [request EXCEPT ![r] = call] /\ calls' \in 0..MaxCalls
  BY AccountsAssumption, SMT DEF Begin, Count, AccInv, TypeOK
<1>2. contended \subseteq contended' /\ contended' \subseteq Users
  BY SMT DEF Contend, AccInv, TypeOK
<1>3. \/ call.user \in {None, request[r].user}
      \/ \A q \in Requests : request[q].user = call.user => call.user \in contended'
  BY SMT DEF Contend, Working
<1>4. QED
  BY <1>1, <1>2, <1>3, RequestInv

(* The handlers that create a user; a social sign-up is one. *)
LEMMA SignUpInv ==
  ASSUME AccInv, NEW r \in Requests, NEW call \in Request, Begin(r, call), call.pc = "insert",
         call.user = None, call.email # "keep", call.status # "keep", call.password # Garbled, ~call.hashed,
         UNCHANGED <<user, session, tokens, spent, drawn, chosen, kept, links, resets, contended>>,
         used' \subseteq Passwords
  PROVE  AccInv'
<1>1. CallFits(call)
  BY SMT DEF CallFits
<1>2. QuietFits(call)
  BY AccountsAssumption, SMT DEF QuietFits
<1>3. links' \subseteq Link /\ resets' \subseteq Users
  BY DEF AccInv, TypeOK
<1>4. QED
  BY <1>1, <1>2, <1>3, BeginInv

LEMMA CreatedInv ==
  ASSUME AccInv, NEW r \in Requests, NEW p \in Passwords, NEW call \in Request, Create(r, call),
         call.pc = "insert", call.user = None, call.email # "keep", call.status # "keep",
         call.password = p, ~call.hashed
  PROVE  AccInv'
<1>1. Begin(r, call) /\ used' \subseteq Passwords
  BY SMT DEF Create, AccInv, TypeOK
<1>2. UNCHANGED <<user, session, tokens, spent, drawn, chosen, kept, links, resets, contended>>
  BY DEF Create, history
<1>3. call.password # Garbled
  BY AccountsAssumption
<1>4. QED
  BY <1>1, <1>2, <1>3, SignUpInv

LEMMA CreateInv ==
  ASSUME AccInv, NEW r \in Requests, NEW e \in Emails, NEW p \in Passwords,
         Register(r, e, p) \/ \E status \in Given : CreateByAdmin(r, e, p, status)
  PROVE  AccInv'
<1>1. CASE Register(r, e, p)
  <2> DEFINE call == [Idle EXCEPT !.pc = "insert", !.email = e, !.password = p, !.status = "inactive", !.then = "mail"]
  <2>1. call \in Request
    BY IdleFits, Zenon DEF Request
  <2>2. /\ call.pc = "insert" /\ call.user = None /\ call.email = e /\ call.password = p
        /\ call.status = "inactive" /\ ~call.hashed
    BY Zenon DEF Idle
  <2>3. Create(r, call)
    BY <1>1 DEF Register
  <2> HIDE DEF call
  <2>4. call.email # "keep" /\ call.status # "keep"
    BY <2>2, AccountsAssumption
  <2>5. QED
    BY <2>1, <2>2, <2>3, <2>4, CreatedInv
<1>2. ASSUME NEW status \in Given, CreateByAdmin(r, e, p, status)
      PROVE  AccInv'
  <2> DEFINE call == [Idle EXCEPT !.pc = "insert", !.email = e, !.password = p, !.status = status]
  <2>1. status \in {"unset", "inactive", "active"}
    BY AccountsAssumption
  <2>2. call \in Request
    BY <2>1, IdleFits, Zenon DEF Request
  <2>3. /\ call.pc = "insert" /\ call.user = None /\ call.email = e /\ call.password = p
        /\ call.status = status /\ ~call.hashed
    BY Zenon DEF Idle
  <2>4. Create(r, call)
    BY <1>2 DEF CreateByAdmin
  <2> HIDE DEF call
  <2>5. call.email # "keep" /\ call.status # "keep"
    BY <2>1, <2>3, AccountsAssumption
  <2>6. QED
    BY <2>2, <2>3, <2>4, <2>5, CreatedInv
<1>3. QED
  BY <1>1, <1>2

LEMMA WholeUserFits ==
  ASSUME AccInv, NEW u \in Users, Live(u)
  PROVE  /\ WholeUser(u) \in Request
         /\ WholeUser(u).pc = "check" /\ WholeUser(u).user = u /\ WholeUser(u).password = user[u].password
         /\ (WholeUser(u).hashed <=> user[u].password # None) /\ WholeUser(u).admin = FALSE
<1>1. user[u] \in User /\ user[u].status # "none" /\ user[u].password \in Passwords \cup {None, Garbled}
  BY SMT DEF AccInv, TypeOK, Live, User
<1>2. user[u].email \in Emails \cup {None} /\ user[u].status \in {"unset", "inactive", "active"}
  BY <1>1, SMT DEF User
<1>3. (IF user[u].status = "unset" THEN "keep" ELSE user[u].status) \in {"keep", "unset", "inactive", "active"}
  BY <1>2
<1>4. WholeUser(u) \in Request
  BY <1>1, <1>2, <1>3, IdleFits, Zenon DEF WholeUser, Request, Idle
<1>5. QED
  BY <1>4, Zenon DEF WholeUser, Idle

(* The handlers that hand the whole user they read to an update. *)
LEMMA WholeUserInv ==
  ASSUME AccInv, NEW r \in Requests, NEW u \in Users, Live(u), Contend(u),
         NEW call \in Request, Begin(r, call), call.pc = "check", call.user = u,
         call.password = user[u].password, call.hashed <=> user[u].password # None,
         UNCHANGED <<user, session, tokens, spent, drawn, chosen, kept, links, resets, used>>
  PROVE  AccInv'
<1>1. user[u].status # "none"
  BY DEF Live
<1>2. CallFits(call)
  BY <1>1, SMT DEF CallFits
<1>3. QuietFits(call)
  <2>1. u \notin contended => user[u].password # Garbled
    BY AccountsAssumption, SMT DEF AccInv, UsersFit, TypeOK
  <2>2. QED
    BY <2>1, SMT DEF QuietFits
<1>4. links' \subseteq Link /\ resets' \subseteq Users /\ used' \subseteq Passwords
  BY DEF AccInv, TypeOK
<1>5. QED
  BY <1>2, <1>3, <1>4, BeginInv

LEMMA ConfirmInv ==
  ASSUME AccInv, NEW r \in Requests, NEW link \in links,
         ConfirmEmail(r, link) \/ ConfirmNewEmail(r, link)
  PROVE  AccInv'
<1> DEFINE u == link.user
           confirmed == [WholeUser(u) EXCEPT !.status = "active"]
           moved == [WholeUser(u) EXCEPT !.status = "active",
                       !.email = IF link.email = None THEN "keep" ELSE link.email]
<1>1. u \in Users /\ link.email \in Emails \cup {None}
  BY SMT DEF AccInv, TypeOK, Link
<1>2. Live(u) /\ Contend(u) /\ (Begin(r, confirmed) \/ Begin(r, moved))
  BY DEF ConfirmEmail, ConfirmNewEmail
<1>3. UNCHANGED <<user, session, tokens, spent, drawn, chosen, kept, links, resets, used>>
  BY DEF ConfirmEmail, ConfirmNewEmail, history
<1>4. /\ WholeUser(u) \in Request
      /\ WholeUser(u).pc = "check" /\ WholeUser(u).user = u /\ WholeUser(u).password = user[u].password
      /\ (WholeUser(u).hashed <=> user[u].password # None)
  BY <1>1, <1>2, WholeUserFits
<1>5. /\ confirmed \in Request /\ confirmed.pc = "check" /\ confirmed.user = u
      /\ confirmed.password = user[u].password /\ (confirmed.hashed <=> user[u].password # None)
  BY <1>4, Zenon DEF Request
<1>6. (IF link.email = None THEN "keep" ELSE link.email) \in Emails \cup {None, "keep"}
  BY <1>1
<1>7. /\ moved \in Request /\ moved.pc = "check" /\ moved.user = u
      /\ moved.password = user[u].password /\ (moved.hashed <=> user[u].password # None)
  BY <1>4, <1>6, Zenon DEF Request
<1> HIDE DEF confirmed, moved, u
<1>8. QED
  BY <1>1, <1>2, <1>3, <1>5, <1>7, WholeUserInv

LEMMA UpdateBeginsInv ==
  ASSUME AccInv, NEW r \in Requests, NEW u \in Users, user[u].status # "none", Contend(u),
         NEW pc \in {"revoke", "mail", "check"}, NEW p \in Passwords \cup {None}, NEW admin \in BOOLEAN,
         pc = "revoke" \/ p = None \/ admin,
         NEW call \in Request, Begin(r, call),
         call.pc = pc, call.user = u, call.password = p, ~call.hashed, call.admin = admin,
         UNCHANGED <<user, session, tokens, spent, drawn, chosen, kept, links, resets>>,
         used' = used \cup ({p} \ {None})
  PROVE  AccInv'
<1>1. CallFits(call)
  BY SMT DEF CallFits
<1>2. QuietFits(call)
  BY AccountsAssumption, SMT DEF QuietFits
<1>3. links' \subseteq Link /\ resets' \subseteq Users /\ used' \subseteq Passwords
  BY SMT DEF AccInv, TypeOK
<1>4. QED
  BY <1>1, <1>2, <1>3, BeginInv

LEMMA UpdateMeInv ==
  ASSUME AccInv, NEW r \in Requests, NEW s \in Sessions, NEW p \in Passwords \cup {None},
         NEW e \in Emails \cup {"keep"}, UpdateMe(r, s, p, e)
  PROVE  AccInv'
<1> DEFINE u == session[s].user
           pc == IF p # None THEN "revoke" ELSE "mail"
           call == [Idle EXCEPT !.user = u, !.session = s, !.password = p, !.email = e, !.pc = pc]
<1>1. u \in Users /\ user[u].status # "none" /\ Contend(u)
  BY SMT DEF UpdateMe, Live, AccInv, TypeOK, Session
<1>2. pc \in {"revoke", "mail", "check"} /\ (pc = "revoke" \/ p = None)
  OBVIOUS
<1>3. Begin(r, call) /\ used' = used \cup ({p} \ {None})
  BY DEF UpdateMe
<1>4. UNCHANGED <<user, session, tokens, spent, drawn, chosen, kept, links, resets>>
  BY DEF UpdateMe, history
<1> HIDE DEF pc, u
<1>5. call \in Request
  BY <1>1, <1>2, IdleFits, Zenon DEF Request
<1>6. call.pc = pc /\ call.user = u /\ call.password = p /\ ~call.hashed /\ call.admin = FALSE
  BY Zenon DEF Idle
<1> HIDE DEF call
<1>7. QED
  BY <1>1, <1>2, <1>3, <1>4, <1>5, <1>6, UpdateBeginsInv

LEMMA UpdateByAdminInv ==
  ASSUME AccInv, NEW r \in Requests, NEW u \in Users, NEW p \in Passwords \cup {None},
         NEW e \in Emails \cup {"keep"}, NEW status \in {"keep", "inactive", "active"},
         UpdateByAdmin(r, u, p, e, status)
  PROVE  AccInv'
<1> DEFINE call == [Idle EXCEPT !.user = u, !.password = p, !.email = e, !.status = status,
                                !.pc = "check", !.admin = TRUE]
<1>1. user[u].status # "none" /\ Contend(u) /\ Begin(r, call) /\ used' = used \cup ({p} \ {None})
  BY DEF UpdateByAdmin
<1>2. UNCHANGED <<user, session, tokens, spent, drawn, chosen, kept, links, resets>>
  BY DEF UpdateByAdmin, history
<1>3. call \in Request
  BY IdleFits, Zenon DEF Request
<1>4. call.pc = "check" /\ call.user = u /\ call.password = p /\ ~call.hashed /\ call.admin = TRUE
  BY Zenon DEF Idle
<1> HIDE DEF call
<1>5. QED
  BY <1>1, <1>2, <1>3, <1>4, UpdateBeginsInv

LEMMA ResetPasswordInv ==
  ASSUME AccInv, NEW r \in Requests, NEW u \in Users, NEW p \in Passwords, ResetPassword(r, u, p)
  PROVE  AccInv'
<1> DEFINE call == [WholeUser(u) EXCEPT !.pc = "revoke", !.password = p, !.hashed = FALSE]
<1>1. Live(u) /\ Contend(u) /\ Begin(r, call) /\ used' = used \cup ({p} \ {None})
  BY AccountsAssumption DEF ResetPassword
<1>2. UNCHANGED <<user, session, tokens, spent, drawn, chosen, kept, links, resets>>
  BY DEF ResetPassword, history
<1>3. WholeUser(u) \in Request /\ WholeUser(u).user = u /\ WholeUser(u).admin = FALSE
  BY <1>1, WholeUserFits
<1>4. call \in Request
  BY <1>3, Zenon DEF Request
<1>5. call.pc = "revoke" /\ call.user = u /\ call.password = p /\ ~call.hashed /\ call.admin = FALSE
  BY <1>3, Zenon DEF Request
<1> HIDE DEF call
<1>6. user[u].status # "none"
  BY <1>1 DEF Live
<1>7. QED
  BY <1>1, <1>2, <1>4, <1>5, <1>6, UpdateBeginsInv

(* A session will be opened for a live user, whose password is the one given. *)
LEMMA OpeningInv ==
  ASSUME AccInv, NEW r \in Requests, NEW u \in Users, Live(u), Contend(u),
         NEW call \in Request, Begin(r, call), call.pc = "open", call.user = u, ~call.hashed,
         call.password = None \/ (call.password \in Passwords /\ call.password = user[u].password),
         UNCHANGED <<user, session, tokens, spent, drawn, chosen, kept, links, resets, used>>
  PROVE  AccInv'
<1>1. CallFits(call)
  BY SMT DEF CallFits, Live
<1>2. QuietFits(call)
  BY AccountsAssumption, SMT DEF QuietFits, Live
<1>3. links' \subseteq Link /\ resets' \subseteq Users /\ used' \subseteq Passwords
  BY DEF AccInv, TypeOK
<1>4. QED
  BY <1>1, <1>2, <1>3, BeginInv

LEMMA LoginInv ==
  ASSUME AccInv, NEW r \in Requests, NEW e \in Emails, NEW p \in Passwords, Login(r, e, p)
  PROVE  AccInv'
<1>1. PICK u \in FindByEmail(e) :
        /\ user[u].password = p /\ Contend(u)
        /\ Begin(r, [Idle EXCEPT !.user = u, !.pc = "open", !.password = p])
        /\ UNCHANGED <<user, session, links, resets, tokens, drawn, history, used>>
  BY Zenon DEF Login
<1> DEFINE call == [Idle EXCEPT !.user = u, !.pc = "open", !.password = p]
<1>2. u \in Users /\ Live(u)
  BY DEF FindByEmail
<1>3. call \in Request
  BY <1>2, IdleFits, Zenon DEF Request
<1>4. call.pc = "open" /\ call.user = u /\ call.password = p /\ ~call.hashed
  BY Zenon DEF Idle
<1>5. Begin(r, call)
  BY <1>1
<1> HIDE DEF call
<1>6. QED
  BY <1>1, <1>2, <1>3, <1>4, <1>5, OpeningInv DEF history

LEMMA RefreshInv ==
  ASSUME AccInv, NEW r \in Requests, NEW s \in Sessions, NEW hash, Refresh(r, s, hash)
  PROVE  AccInv'
<1> DEFINE u == session[s].user
           call == [Idle EXCEPT !.user = u, !.session = s, !.pc = "read"]
<1>1. session[s].live /\ Live(u) /\ Contend(u) /\ Begin(r, call)
  BY DEF Refresh
<1>2. UNCHANGED <<user, session, tokens, spent, drawn, chosen, kept, links, resets, used>>
  BY DEF Refresh, history
<1>3. u \in Users
  BY <1>1, LiveHasUser
<1>4. call \in Request
  BY <1>3, IdleFits, Zenon DEF Request
<1>5. /\ call.pc = "read" /\ call.user = session[s].user /\ call.session = s /\ call.password = None /\ ~call.hashed
  BY Zenon DEF Idle
<1> HIDE DEF call
<1>6. CallFits(call)
  BY <1>1, <1>3, <1>5, SMT DEF CallFits, Live
<1>7. QuietFits(call)
  BY <1>1, <1>3, <1>5, AccountsAssumption, SMT DEF QuietFits, Live
<1>8. links' \subseteq Link /\ resets' \subseteq Users /\ used' \subseteq Passwords
  BY <1>2 DEF AccInv, TypeOK
<1>9. QED
  BY <1>1, <1>2, <1>3, <1>4, <1>5, <1>6, <1>7, <1>8, BeginInv

LEMMA SocialLoginInv ==
  ASSUME AccInv, NEW r \in Requests, NEW x \in Socials, NEW e \in Emails \cup {None}, SocialLogin(r, x, e)
  PROVE  AccInv'
<1>1. UNCHANGED <<user, session, tokens, spent, drawn, chosen, kept, links, resets, used>>
  BY DEF SocialLogin, history
<1>2. CASE \E u \in Users :
             /\ Live(u) /\ Contend(u)
             /\ Begin(r, [WholeUser(u) EXCEPT !.then = "open",
                            !.email = IF e # None /\ FindByEmail(e) = {} THEN e ELSE @])
  <2>1. PICK u \in Users :
             /\ Live(u) /\ Contend(u)
             /\ Begin(r, [WholeUser(u) EXCEPT !.then = "open",
                            !.email = IF e # None /\ FindByEmail(e) = {} THEN e ELSE @])
    BY <1>2
  <2> DEFINE call == [WholeUser(u) EXCEPT !.then = "open",
                        !.email = IF e # None /\ FindByEmail(e) = {} THEN e ELSE @]
  <2>2. /\ WholeUser(u) \in Request
        /\ WholeUser(u).pc = "check" /\ WholeUser(u).user = u /\ WholeUser(u).password = user[u].password
        /\ (WholeUser(u).hashed <=> user[u].password # None)
    BY <2>1, WholeUserFits
  <2>3. (IF e # None /\ FindByEmail(e) = {} THEN e ELSE WholeUser(u).email) \in Emails \cup {None, "keep"}
    BY <2>2, SMT DEF Request
  <2>4. /\ call \in Request /\ call.pc = "check" /\ call.user = u
        /\ call.password = user[u].password /\ (call.hashed <=> user[u].password # None)
    BY <2>2, <2>3, Zenon DEF Request
  <2>5. Begin(r, call)
    BY <2>1
  <2> HIDE DEF call
  <2>6. QED
    BY <1>1, <2>1, <2>4, <2>5, WholeUserInv
<1>3. CASE \E u \in FindByEmail(e) : /\ Begin(r, [Idle EXCEPT !.user = u, !.pc = "open"])
                                     /\ Contend(u)
  <2>1. PICK u \in Users : /\ Live(u) /\ Contend(u)
                           /\ Begin(r, [Idle EXCEPT !.user = u, !.pc = "open"])
    BY <1>3 DEF FindByEmail
  <2> DEFINE call == [Idle EXCEPT !.user = u, !.pc = "open"]
  <2>2. call \in Request
    BY IdleFits, Zenon DEF Request
  <2>3. call.pc = "open" /\ call.user = u /\ call.password = None /\ ~call.hashed
    BY Zenon DEF Idle
  <2>4. Begin(r, call)
    BY <2>1
  <2> HIDE DEF call
  <2>5. QED
    BY <1>1, <2>1, <2>2, <2>3, <2>4, OpeningInv
<1>4. CASE /\ Begin(r, [Idle EXCEPT !.pc = "insert", !.email = e, !.social = x,
                                    !.status = "active", !.then = "open"])
           /\ UNCHANGED contended
  <2> DEFINE call == [Idle EXCEPT !.pc = "insert", !.email = e, !.social = x,
                                  !.status = "active", !.then = "open"]
  <2>1. call \in Request
    BY IdleFits, Zenon DEF Request
  <2>2. /\ call.pc = "insert" /\ call.user = None /\ call.email = e /\ call.password = None
        /\ call.status = "active" /\ ~call.hashed
    BY Zenon DEF Idle
  <2>3. Begin(r, call)
    BY <1>4
  <2> HIDE DEF call
  <2>4. call.email # "keep" /\ call.status # "keep" /\ call.password # Garbled
    BY <2>2, AccountsAssumption
  <2>5. used' \subseteq Passwords
    BY <1>1 DEF AccInv, TypeOK
  <2>6. QED
    BY <1>1, <1>4, <2>1, <2>2, <2>3, <2>4, <2>5, SignUpInv
<1>5. QED
  BY <1>2, <1>3, <1>4, Zenon DEF SocialLogin

LEMMA StartInv ==
  ASSUME AccInv, NEW r \in Requests, Start(r)
  PROVE  AccInv'
<1>1. CASE \E e \in Emails, p \in Passwords :
             \/ Register(r, e, p) \/ Login(r, e, p)
             \/ \E status \in Given : CreateByAdmin(r, e, p, status)
  BY <1>1, CreateInv, LoginInv
<1>2. CASE \E link \in links : ConfirmEmail(r, link) \/ ConfirmNewEmail(r, link)
  BY <1>2, ConfirmInv
<1>3. CASE \E u \in Users, p \in Passwords : ResetPassword(r, u, p)
  BY <1>3, ResetPasswordInv
<1>4. CASE \E p \in Passwords \cup {None}, e \in Emails \cup {"keep"} :
             \/ \E s \in Sessions : UpdateMe(r, s, p, e)
             \/ \E u \in Users, status \in ({"keep"} \cup Given) \ {"unset"} : UpdateByAdmin(r, u, p, e, status)
  <2>1. ({"keep"} \cup Given) \ {"unset"} \subseteq {"keep", "inactive", "active"}
    BY AccountsAssumption
  <2>2. QED
    BY <1>4, <2>1, UpdateMeInv, UpdateByAdminInv
<1>5. CASE \E x \in Socials, e \in Emails \cup {None} : SocialLogin(r, x, e)
  BY <1>5, SocialLoginInv
<1>6. CASE \E t \in tokens : Refresh(r, t[1], t[2])
  <2>1. PICK t \in tokens : Refresh(r, t[1], t[2])
    BY <1>6
  <2>2. t[1] \in Sessions
    BY DEF AccInv, TypeOK
  <2>3. QED
    BY <2>1, <2>2, RefreshInv
<1>7. QED
  BY <1>1, <1>2, <1>3, <1>4, <1>5, <1>6 DEF Start

-----------------------------------------------------------------------------
(* Steps that only move their call *)

(* The call ends and writes nothing, or goes on with what is left of it. *)
LEMMA GoOnInv ==
  ASSUME AccInv, NEW r \in Requests, NEW new \in Request,
         request' = [request EXCEPT ![r] = new],
         UNCHANGED <<user, session, tokens, resets, drawn, calls, history, used, contended>>,
         links' \subseteq Link, new.user \in {None, request[r].user},
         CallFits(new), QuietFits(new)
  PROVE  AccInv'
<1>1. /\ UNCHANGED <<user, session, tokens, spent, drawn, chosen, kept>>
      /\ resets' \subseteq Users /\ used' \subseteq Passwords /\ calls' \in 0..MaxCalls
      /\ contended \subseteq contended' /\ contended' \subseteq Users
  BY SMT DEF AccInv, TypeOK, history
<1>2. QED
  BY <1>1, RequestInv

LEMMA CheckPayloadInv ==
  ASSUME AccInv, NEW r \in Requests, CheckPayload(r)
  PROVE  AccInv'
<1> DEFINE c == request[r]
           password == IF c.password = None \/ ~Live(c.user) THEN None
                       ELSE IF ~c.hashed THEN c.password
                       ELSE IF c.password = user[c.user].password THEN None
                       ELSE Garbled
           new == [c EXCEPT !.pc = "merge", !.password = password, !.hashed = FALSE]
<1>1. CallFits(c) /\ QuietFits(c) /\ c \in Request /\ c.pc = "check"
  BY DEF AccInv, CallsFit, TypeOK, CheckPayload
<1>2. UNCHANGED <<user, session, tokens, resets, drawn, calls, history, used, contended>> /\ links' \subseteq Link
  BY DEF CheckPayload, AccInv, TypeOK
<1>3. CASE Return(r)
  BY <1>2, <1>3, IdleFits, GoOnInv DEF Return
<1>4. CASE request' = [request EXCEPT ![r].pc = "merge", ![r].password = password, ![r].hashed = FALSE]
  <2>1. /\ password \in {None, Garbled, c.password}
        /\ password = Garbled => (c.hashed /\ c.password # user[c.user].password) \/ c.password = Garbled
        /\ password # None /\ password # Garbled => ~c.hashed
    BY AccountsAssumption, SMT
  <2>2. c.password \in Passwords \cup {None, Garbled}
    BY <1>1 DEF Request
  <2>3. password \in Passwords \cup {None, Garbled}
    BY <2>1, <2>2
  <2> HIDE DEF password
  <2>4. request' = [request EXCEPT ![r] = new]
    BY <1>4 DEF AccInv, TypeOK
  <2>5. new \in Request
    BY <1>1, <2>3, Zenon DEF Request
  <2>6. /\ new.pc = "merge" /\ new.password = password /\ ~new.hashed /\ new.user = c.user
        /\ new.session = c.session /\ new.admin = c.admin
    BY <1>1, Zenon DEF Request
  <2> HIDE DEF new, c
  <2>7. CallFits(new)
    BY <1>1, <2>6, SMT DEF CallFits
  <2>8. QuietFits(new)
    BY <1>1, <2>1, <2>6, SMT DEF QuietFits
  <2>9. QED
    BY <1>2, <2>4, <2>5, <2>6, <2>7, <2>8, GoOnInv DEF c
<1>5. QED
  BY <1>3, <1>4, Zenon DEF CheckPayload

LEMMA MergeRowInv ==
  ASSUME AccInv, NEW r \in Requests, MergeRow(r)
  PROVE  AccInv'
<1> DEFINE c == request[r]
           new == [c EXCEPT !.pc = "save"]
<1>1. CallFits(c) /\ QuietFits(c) /\ c \in Request /\ c.pc = "merge"
  BY DEF AccInv, CallsFit, TypeOK, MergeRow
<1>2. UNCHANGED <<user, session, tokens, resets, drawn, calls, history, used, contended>> /\ links' \subseteq Link
  BY DEF MergeRow, AccInv, TypeOK
<1>3. CASE Return(r)
  BY <1>2, <1>3, IdleFits, GoOnInv DEF Return
<1>4. CASE Live(c.user) /\ Goto(r, "save")
  <2>1. request' = [request EXCEPT ![r] = new]
    BY <1>4 DEF Goto, AccInv, TypeOK
  <2>2. new \in Request
    BY <1>1, Zenon DEF Request
  <2>3. /\ new.pc = "save" /\ new.password = c.password /\ (new.hashed <=> c.hashed) /\ new.user = c.user
        /\ new.session = c.session /\ (new.admin <=> c.admin)
    BY <1>1, Zenon DEF Request
  <2>4. ~user[c.user].deleted
    BY <1>4 DEF Live
  <2> HIDE DEF new, c
  <2>5. CallFits(new)
    BY <1>1, <2>3, SMT DEF CallFits
  <2>6. QuietFits(new)
    BY <1>1, <2>3, <2>4, <2>5, SMT DEF QuietFits, CallFits
  <2>7. QED
    BY <1>2, <2>1, <2>2, <2>3, <2>5, <2>6, GoOnInv DEF c
<1>5. QED
  BY <1>3, <1>4 DEF MergeRow

LEMMA MailNewEmailInv ==
  ASSUME AccInv, NEW r \in Requests, MailNewEmail(r)
  PROVE  AccInv'
<1> DEFINE c == request[r]
           mailed == c.email # "keep" /\ c.email # user[c.user].email
           new == [c EXCEPT !.pc = "check", !.email = "keep"]
<1>1. CallFits(c) /\ QuietFits(c) /\ c \in Request /\ c.pc = "mail"
  BY DEF AccInv, CallsFit, TypeOK, MailNewEmail
<1>2. UNCHANGED <<user, session, tokens, resets, drawn, calls, history, used, contended>>
  BY DEF MailNewEmail
<1>3. CASE Return(r) /\ UNCHANGED links
  BY <1>2, <1>3, IdleFits, GoOnInv DEF Return, AccInv, TypeOK
<1>4. CASE /\ links' = IF mailed THEN links \cup {[user |-> c.user, email |-> c.email]} ELSE links
           /\ request' = [request EXCEPT ![r].pc = "check", ![r].email = "keep"]
  <2>1. c.user \in Users /\ c.email \in Emails \cup {None, "keep"}
    BY <1>1, SMT DEF CallFits, Request
  <2>2. links' \subseteq Link
    BY <1>4, <2>1, SMT DEF Link, AccInv, TypeOK
  <2>3. request' = [request EXCEPT ![r] = new]
    BY <1>4 DEF AccInv, TypeOK
  <2>4. new \in Request
    BY <1>1, Zenon DEF Request
  <2>5. /\ new.pc = "check" /\ new.password = c.password /\ (new.hashed <=> c.hashed) /\ new.user = c.user
        /\ new.session = c.session /\ (new.admin <=> c.admin)
    BY <1>1, Zenon DEF Request
  <2> HIDE DEF new, c
  <2>6. CallFits(new)
    BY <1>1, <2>5, SMT DEF CallFits
  <2>7. QuietFits(new)
    BY <1>1, <2>5, SMT DEF QuietFits
  <2>8. QED
    BY <1>2, <2>2, <2>3, <2>4, <2>5, <2>6, <2>7, GoOnInv DEF c
<1>5. QED
  BY <1>3, <1>4, Zenon DEF MailNewEmail

(* A refresh, or a sign-up that opens a session, goes on with its next lookup. *)
LEMMA LookUpInv ==
  ASSUME AccInv, NEW r \in Requests, ReadUser(r) \/ FindSession(r)
  PROVE  AccInv'
<1> DEFINE c == request[r]
<1>1. CallFits(c) /\ QuietFits(c) /\ c \in Request /\ c.pc \in {"read", "find"}
  BY DEF AccInv, CallsFit, TypeOK, ReadUser, FindSession
<1>2. UNCHANGED <<user, session, tokens, resets, drawn, calls, history, used, contended>> /\ links' \subseteq Link
  BY DEF ReadUser, FindSession, AccInv, TypeOK
<1>3. CASE Return(r)
  BY <1>2, <1>3, IdleFits, GoOnInv DEF Return
<1>4. ASSUME NEW pc \in {"open", "find", "rotate"}, Goto(r, pc),
             pc = "open" => c.pc = "read", pc # "open" => c.session # None
      PROVE  AccInv'
  <2> DEFINE new == [c EXCEPT !.pc = pc]
  <2>1. request' = [request EXCEPT ![r] = new]
    BY <1>4 DEF Goto, AccInv, TypeOK
  <2>2. new \in Request
    BY <1>1, Zenon DEF Request
  <2>3. /\ new.pc = pc /\ new.password = c.password /\ (new.hashed <=> c.hashed) /\ new.user = c.user
        /\ new.session = c.session
    BY <1>1, Zenon DEF Request
  <2> HIDE DEF new, c
  <2>4. CallFits(new)
    BY <1>1, <1>4, <2>3, SMT DEF CallFits
  <2>5. QuietFits(new)
    BY <1>1, <1>4, <2>3, <2>4, SMT DEF QuietFits, CallFits
  <2>6. QED
    BY <1>2, <2>1, <2>2, <2>3, <2>4, <2>5, GoOnInv DEF c
<1>5. CASE ReadUser(r)
  BY <1>3, <1>4, <1>5 DEF ReadUser
<1>6. CASE FindSession(r)
  <2>1. c.session # None
    BY <1>1, <1>6, SMT DEF CallFits, FindSession
  <2>2. QED
    BY <1>3, <1>4, <1>6, <2>1 DEF FindSession
<1>7. QED
  BY <1>5, <1>6

-----------------------------------------------------------------------------
(* Steps that write a user *)

LEMMA InsertUserInv ==
  ASSUME AccInv, NEW r \in Requests, InsertUser(r)
  PROVE  AccInv'
<1> DEFINE c == request[r]
<1>1. CallFits(c) /\ c \in Request /\ c.pc = "insert"
  BY DEF AccInv, CallsFit, TypeOK, InsertUser
<1>2. UNCHANGED <<calls, session, resets, tokens, drawn, spent, used, kept, contended>>
  BY DEF InsertUser
<1>3. CASE Return(r) /\ UNCHANGED <<user, chosen, links>>
  <2>1. links' \subseteq Link
    BY <1>3 DEF AccInv, TypeOK
  <2>2. QED
    BY <1>2, <1>3, <2>1, IdleFits, GoOnInv DEF Return, history
<1>4. CASE /\ ~EmailTaken(c.email, None)
           /\ \E u \in Users :
                /\ user[u] = NoUser
                /\ user' = [user EXCEPT ![u] = [NoUser EXCEPT !.status = c.status, !.email = c.email,
                                                 !.password = c.password, !.social = c.social]]
                /\ chosen' = [chosen EXCEPT ![u] = c.password]
                /\ links' = IF c.then = "mail" THEN links \cup {[user |-> u, email |-> None]} ELSE links
                /\ request' = [request EXCEPT ![r] =
                     IF c.then = "open" THEN [Idle EXCEPT !.pc = "read", !.user = u] ELSE Idle]
  <2>1. PICK u \in Users :
                /\ user[u] = NoUser
                /\ user' = [user EXCEPT ![u] = [NoUser EXCEPT !.status = c.status, !.email = c.email,
                                                 !.password = c.password, !.social = c.social]]
                /\ chosen' = [chosen EXCEPT ![u] = c.password]
                /\ links' = IF c.then = "mail" THEN links \cup {[user |-> u, email |-> None]} ELSE links
                /\ request' = [request EXCEPT ![r] =
                     IF c.then = "open" THEN [Idle EXCEPT !.pc = "read", !.user = u] ELSE Idle]
    BY <1>4
  <2> DEFINE entry == [NoUser EXCEPT !.status = c.status, !.email = c.email,
                                   !.password = c.password, !.social = c.social]
             new == IF c.then = "open" THEN [Idle EXCEPT !.pc = "read", !.user = u] ELSE Idle
  <2>2. /\ c.status \in {"unset", "inactive", "active"} /\ c.email \in Emails \cup {None}
        /\ c.password \in Passwords \cup {None} /\ c.social \in Socials \cup {None} /\ c.user = None
    BY <1>1, SMT DEF CallFits, Request
  <2>3. entry \in User
    BY <2>2, Zenon DEF NoUser, User
  <2>4. /\ entry.status = c.status /\ entry.email = c.email /\ entry.password = c.password /\ entry.deleted = FALSE
        /\ NoUser.status = "none" /\ NoUser.email = None
    BY Zenon DEF NoUser
  <2>5. /\ new \in Request /\ new.user \in {None, u} /\ new.session = None /\ new.password = None
        /\ ~new.hashed /\ (new = Idle \/ (new.pc = "read" /\ new.user = u))
    <3>1. CASE c.then = "open"
      BY <3>1, IdleFits, Zenon DEF Request, Idle
    <3>2. CASE c.then # "open"
      BY <3>2, IdleFits
    <3>3. QED
      BY <3>1, <3>2
  <2>6. /\ user' = [user EXCEPT ![u] = entry] /\ request' = [request EXCEPT ![r] = new]
        /\ user[u] = NoUser /\ chosen' = [chosen EXCEPT ![u] = c.password]
    BY <2>1
  <2>7. links' \subseteq Link
    BY <2>1, SMT DEF Link, AccInv, TypeOK
  <2>8. \A v \in Users : user[v].status # "none" => c.email = None \/ user[v].email # c.email
    BY <1>4, AccountsAssumption DEF EmailTaken
  <2> HIDE DEF entry, new, c
  <2>9. TypeOK'
    BY <1>2, <2>2, <2>3, <2>5, <2>6, <2>7, SMT DEF AccInv, TypeOK
  <2>10. /\ user'[u] = entry /\ \A v \in Users \ {u} : user'[v] = user[v]
         /\ request'[r] = new /\ \A d \in Requests \ {r} : request'[d] = request[d]
    BY <2>6 DEF AccInv, TypeOK
  <2>11. \A d \in Requests : request[d].user # u
    BY <2>4, <2>6, IdleFits, AccountsAssumption, SMT DEF AccInv, CallsFit, CallFits
  <2>12. CallFits(request[r])' /\ QuietFits(request[r])'
    <3>1. CASE new = Idle
      BY <3>1, <2>10, IdleFits, AccountsAssumption, SMT DEF CallFits, QuietFits
    <3>2. CASE new.pc = "read" /\ new.user = u
      BY <3>2, <2>2, <2>4, <2>5, <2>10, AccountsAssumption, SMT DEF CallFits, QuietFits
    <3>3. QED
      BY <2>5, <3>1, <3>2
  <2>13. CallsFit'
    <3>1. \A d \in Requests \ {r} : CallFits(request[d])' /\ QuietFits(request[d])'
      BY <1>2, <2>2, <2>4, <2>6, <2>10, <2>11, OtherFits
    <3>2. QED
      BY <2>12, <3>1 DEF CallsFit
  <2>14. OneCall'
    BY <1>2, <2>5, <2>10, <2>11, AccountsAssumption, SMT DEF AccInv, OneCall
  <2>15. UsersFit'
    BY <1>2, <2>2, <2>4, <2>6, <2>10, SMT DEF AccInv, TypeOK, UsersFit
  <2>16. EmailIsUnique'
    BY <2>4, <2>8, <2>10, SMT DEF AccInv, EmailIsUnique, UsersFit
  <2>17. SessionsFit' /\ SpentTokensStaySpent'
    BY <1>2, <2>2, <2>4, <2>6, <2>10, SMT DEF AccInv, SessionsFit, SpentTokensStaySpent
  <2>18. OldPasswordOpensNothing'
    <3>1. \A s \in Sessions : session[s].live => session[s].user \in Users \ {u}
      BY <2>4, <2>6, LiveHasUser
    <3>2. QED
      BY <1>2, <2>10, <3>1, SMT DEF AccInv, OldPasswordOpensNothing
  <2>19. QED
    BY <2>9, <2>13, <2>14, <2>15, <2>16, <2>17, <2>18 DEF AccInv
<1>5. QED
  BY <1>3, <1>4, Zenon DEF InsertUser

LEMMA SaveUserInv ==
  ASSUME AccInv, NEW r \in Requests, SaveUser(r)
  PROVE  AccInv'
<1> DEFINE c == request[r]
           u == c.user
           mine == {s \in Sessions : session[s].user = u}
<1>1. CallFits(c) /\ QuietFits(c) /\ c \in Request /\ c.pc = "save"
  BY DEF AccInv, CallsFit, TypeOK, SaveUser
<1>2. UNCHANGED <<calls, session, links, resets, tokens, drawn, spent, used, contended>>
  BY DEF SaveUser
<1>3. CASE Return(r) /\ UNCHANGED <<user, chosen, kept>>
  <2>1. links' \subseteq Link
    BY <1>2 DEF AccInv, TypeOK
  <2>2. QED
    BY <1>2, <1>3, <2>1, IdleFits, GoOnInv DEF Return, history
<1>4. CASE /\ c.email = "keep" \/ ~EmailTaken(c.email, u)
           /\ user' = [user EXCEPT
                   ![u].deleted  = FALSE,
                   ![u].email    = IF c.email = "keep" THEN @ ELSE c.email,
                   ![u].password = IF c.password = None THEN @ ELSE c.password,
                   ![u].status   = IF c.status = "keep" THEN @ ELSE c.status]
           /\ IF c.password \in Passwords
              THEN /\ chosen' = [chosen EXCEPT ![u] = c.password]
                   /\ kept' = kept \cup (IF c.admin THEN mine ELSE {c.session} \ {None})
              ELSE UNCHANGED <<chosen, kept>>
           /\ request' = [request EXCEPT ![r] =
                IF c.then = "open" THEN [Idle EXCEPT !.pc = "open", !.user = u] ELSE Idle]
  <2> DEFINE email == IF c.email = "keep" THEN user[u].email ELSE c.email
             password == IF c.password = None THEN user[u].password ELSE c.password
             status == IF c.status = "keep" THEN user[u].status ELSE c.status
             entry == [user[u] EXCEPT !.deleted = FALSE, !.email = email, !.password = password, !.status = status]
             new == IF c.then = "open" THEN [Idle EXCEPT !.pc = "open", !.user = u] ELSE Idle
  <2>1. /\ u \in Users /\ user[u] \in User /\ user[u].status # "none" /\ ~c.hashed
        /\ c.status \in {"keep", "unset", "inactive", "active"} /\ c.email \in Emails \cup {None, "keep"}
        /\ c.password \in Passwords \cup {None, Garbled} /\ c.session \in Sessions \cup {None}
    BY <1>1, SMT DEF CallFits, Request, AccInv, TypeOK
  <2>2. /\ user[u].email \in Emails \cup {None} /\ user[u].password \in Passwords \cup {None, Garbled}
        /\ user[u].status \in {"unset", "inactive", "active"}
    BY <2>1, SMT DEF User
  <2>3. /\ email \in Emails \cup {None} /\ password \in Passwords \cup {None, Garbled}
        /\ status \in {"unset", "inactive", "active"}
    BY <2>1, <2>2
  <2>4. user' = [user EXCEPT ![u] = entry]
    BY <1>4, <2>1 DEF AccInv, TypeOK
  <2> HIDE DEF email, password, status
  <2>5. entry \in User /\ entry.deleted = FALSE /\ entry.email = email /\ entry.password = password /\ entry.status # "none"
    <3>1. entry \in User
      BY <2>1, <2>3, Zenon DEF User
    <3>2. entry.deleted = FALSE /\ entry.email = email /\ entry.password = password /\ entry.status = status
      BY <2>1, Zenon DEF User
    <3>3. QED
      BY <2>3, <3>1, <3>2
  <2>6. /\ user' = [user EXCEPT ![u] = entry] /\ entry \in User /\ entry.deleted = FALSE /\ entry.status # "none"
        /\ entry.email = IF c.email = "keep" THEN user[u].email ELSE c.email
        /\ entry.password = IF c.password = None THEN user[u].password ELSE c.password
    BY <2>4, <2>5 DEF email, password
  <2>7. /\ new \in Request /\ new.user \in {None, u} /\ new.session = None /\ new.password = None
        /\ ~new.hashed /\ (new = Idle \/ (new.pc = "open" /\ new.user = u))
    <3>1. CASE c.then = "open"
      BY <2>1, <3>1, IdleFits, Zenon DEF Request, Idle
    <3>2. CASE c.then # "open"
      BY <3>2, IdleFits
    <3>3. QED
      BY <3>1, <3>2
  <2>8. request' = [request EXCEPT ![r] = new]
    BY <1>4
  <2>9. IF c.password \in Passwords
        THEN /\ chosen' = [chosen EXCEPT ![u] = c.password]
             /\ kept' = kept \cup (IF c.admin THEN mine ELSE {c.session} \ {None})
        ELSE UNCHANGED <<chosen, kept>>
    BY <1>4
  <2>10. c.email = "keep" \/ c.email = None
         \/ \A v \in Users \ {u} : user[v].status # "none" => user[v].email # c.email
    BY <1>4 DEF EmailTaken
  <2>11. u \notin contended =>
           /\ c.password \in Passwords \cup {None}
           /\ c.password # None /\ ~c.admin =>
                \A s \in Sessions : session[s].user = u /\ session[s].live /\ session[s].opened # None => s = c.session
    BY <1>1, <2>1, SMT DEF QuietFits
  <2> HIDE DEF entry, new, c, u
  <2>12. mine \subseteq Sessions /\ kept' \subseteq Sessions
    BY <2>1, <2>9, SMT DEF AccInv, TypeOK
  <2>13. TypeOK'
    BY <1>2, <2>1, <2>6, <2>7, <2>8, <2>9, <2>12, SMT DEF AccInv, TypeOK
  <2>14. /\ user'[u] = entry /\ \A v \in Users \ {u} : user'[v] = user[v]
         /\ request'[r] = new /\ \A d \in Requests \ {r} : request'[d] = request[d]
    BY <2>1, <2>6, <2>8 DEF AccInv, TypeOK
  <2>15. \A d \in Requests \ {r} : request[d].user = u => u \in contended
    BY <2>1 DEF AccInv, OneCall, u, c
  <2>16. CallFits(request[r])' /\ QuietFits(request[r])'
    <3>1. CASE new = Idle
      BY <3>1, <2>14, IdleFits, AccountsAssumption, SMT DEF CallFits, QuietFits
    <3>2. CASE new.pc = "open" /\ new.user = u
      BY <3>2, <2>1, <2>6, <2>7, <2>14, AccountsAssumption, SMT DEF CallFits, QuietFits
    <3>3. QED
      BY <2>7, <3>1, <3>2
  <2>17. CallsFit'
    <3>1. \A d \in Requests \ {r} : CallFits(request[d])' /\ QuietFits(request[d])'
      BY <1>2, <2>1, <2>6, <2>14, <2>15, OtherFits
    <3>2. QED
      BY <2>16, <3>1 DEF CallsFit
  <2>18. OneCall'
    BY <1>2, <2>7, <2>14, <2>15, AccountsAssumption, SMT DEF AccInv, OneCall
  <2>19. UsersFit'
    BY <1>2, <2>1, <2>6, <2>9, <2>11, <2>14, AccountsAssumption, SMT DEF AccInv, TypeOK, UsersFit
  <2>20. EmailIsUnique'
    <3>1. \A v \in Users \ {u} : entry.email # None => user[v].email # entry.email
      <4>1. CASE c.email = "keep"
        BY <2>1, <2>6, <4>1 DEF AccInv, EmailIsUnique
      <4>2. CASE c.email # "keep"
        <5>1. NoUser.email = None
          BY DEF NoUser
        <5>2. QED
          BY <2>6, <2>10, <4>2, <5>1 DEF AccInv, UsersFit
      <4>3. QED
        BY <4>1, <4>2
    <3>2. QED
      BY <2>1, <2>14, <3>1 DEF AccInv, EmailIsUnique
  <2>21. SessionsFit' /\ SpentTokensStaySpent'
    BY <1>2, <2>1, <2>6, <2>14, SMT DEF AccInv, SessionsFit, SpentTokensStaySpent
  <2>22. OldPasswordOpensNothing'
    <3> SUFFICES ASSUME NEW s \in Sessions, session[s].live, session[s].user \notin contended,
                        session[s].opened # None
                 PROVE  session[s].opened = user'[session[s].user].password \/ s \in kept'
      BY <1>2 DEF OldPasswordOpensNothing
    <3>1. session[s].opened = user[session[s].user].password \/ s \in kept
      BY DEF AccInv, OldPasswordOpensNothing
    <3>2. kept \subseteq kept'
      BY <2>9
    <3>3. CASE session[s].user # u
      BY <2>14, <3>1, <3>2, <3>3, LiveHasUser
    <3>4. CASE session[s].user = u /\ c.password = None
      BY <2>6, <2>14, <3>1, <3>2, <3>4
    <3>5. CASE session[s].user = u /\ c.password # None
      BY <2>9, <2>11, <3>5, AccountsAssumption
    <3>6. QED
      BY <3>3, <3>4, <3>5
  <2>23. QED
    BY <2>13, <2>17, <2>18, <2>19, <2>20, <2>21, <2>22 DEF AccInv
<1>5. QED
  BY <1>3, <1>4, Zenon DEF SaveUser

LEMMA RemoveInv ==
  ASSUME AccInv, NEW u \in Users, Remove(u)
  PROVE  AccInv'
<1> DEFINE entry == [user[u] EXCEPT !.deleted = TRUE]
<1>1. /\ UNCHANGED <<session, links, resets, tokens, request, drawn, spent, chosen, kept, used>>
      /\ user[u].status # "none" /\ Contend(u) /\ calls' \in 0..MaxCalls
  BY AccountsAssumption, SMT DEF Remove, history, Count, AccInv, TypeOK
<1>2. user' = [user EXCEPT ![u] = entry] /\ user[u] \in User
  BY DEF Remove, AccInv, TypeOK
<1>3. /\ entry \in User /\ entry.email = user[u].email /\ entry.password = user[u].password
      /\ entry.status = user[u].status
  BY <1>2, Zenon DEF User
<1>4. /\ contended \subseteq contended' /\ contended' \subseteq Users
      /\ \A d \in Requests : request[d].user = u => u \in contended'
  BY <1>1, SMT DEF Contend, Working, AccInv, TypeOK
<1> HIDE DEF entry
<1>5. user'[u] = entry /\ \A v \in Users \ {u} : user'[v] = user[v]
  BY <1>2 DEF AccInv, TypeOK
<1>6. TypeOK'
  BY <1>1, <1>2, <1>3, <1>4, SMT DEF AccInv, TypeOK
<1>7. CallsFit'
  <2>1. \A d \in Requests : CallFits(request[d])' /\ QuietFits(request[d])'
    BY <1>1, <1>3, <1>4, <1>5, OtherFits
  <2>2. QED
    BY <2>1 DEF CallsFit
<1>8. OneCall' /\ UsersFit' /\ EmailIsUnique'
  BY <1>1, <1>3, <1>4, <1>5, SMT DEF AccInv, OneCall, UsersFit, EmailIsUnique
<1>9. SessionsFit' /\ SpentTokensStaySpent'
  BY <1>1, <1>3, <1>5, SMT DEF AccInv, SessionsFit, SpentTokensStaySpent
<1>10. OldPasswordOpensNothing'
  <2>1. \A s \in Sessions : session[s].live =>
          user'[session[s].user].password = user[session[s].user].password
    BY <1>3, <1>5, LiveHasUser
  <2>2. QED
    BY <1>1, <1>4, <2>1, SMT DEF AccInv, OldPasswordOpensNothing
<1>11. QED
  BY <1>6, <1>7, <1>8, <1>9, <1>10 DEF AccInv

-----------------------------------------------------------------------------
(* Steps that write sessions *)

(* Sessions of u end, and a call on u, if it is one that ends them, goes on: what   *)
(* is left to say is that r fits.                                                   *)
LEMMA SessionsEndInv ==
  ASSUME AccInv, NEW u \in Users, NEW ended \in SUBSET Sessions,
         \A s \in ended : session[s].user = u,
         session' = [s \in Sessions |-> IF s \in ended THEN [session[s] EXCEPT !.live = FALSE] ELSE session[s]],
         request' \in [Requests -> Request],
         \A q \in Requests : request'[q].user \in {None, request[q].user},
         \A q \in Requests : \/ request'[q] = request[q] /\ (request[q].user = u => u \in contended')
                             \/ (CallFits(request[q]) /\ QuietFits(request[q]))',
         contended \subseteq contended', contended' \subseteq Users, calls' \in 0..MaxCalls,
         UNCHANGED <<user, links, resets, tokens, drawn, spent, chosen, kept, used>>
  PROVE  AccInv'
<1>1. \A s \in Sessions : session[s] \in Session
  BY DEF AccInv, TypeOK
<1>2. \A s \in Sessions :
        /\ session'[s] \in Session /\ session'[s].user = session[s].user /\ session'[s].hash = session[s].hash
        /\ session'[s].opened = session[s].opened /\ (session'[s].live => session[s].live)
        /\ session'[s] = session[s] \/ session[s].user = u
  <2> SUFFICES ASSUME NEW s \in Sessions
               PROVE  /\ session'[s] \in Session /\ session'[s].user = session[s].user
                      /\ session'[s].hash = session[s].hash /\ session'[s].opened = session[s].opened
                      /\ (session'[s].live => session[s].live)
                      /\ session'[s] = session[s] \/ session[s].user = u
    OBVIOUS
  <2>1. CASE s \notin ended
    BY <1>1, <2>1
  <2>2. CASE s \in ended
    <3>1. session'[s] = [session[s] EXCEPT !.live = FALSE] /\ session[s].user = u
      BY <2>2
    <3>2. QED
      BY <1>1, <3>1, Zenon DEF Session
  <2>3. QED
    BY <2>1, <2>2
<1>3. session' \in [Sessions -> Session]
  BY <1>2
<1>4. TypeOK'
  BY <1>3, SMT DEF AccInv, TypeOK
<1>5. CallsFit'
  <2> SUFFICES ASSUME NEW q \in Requests PROVE (CallFits(request[q]) /\ QuietFits(request[q]))'
    BY DEF CallsFit
  <2>1. CASE request'[q] = request[q] /\ (request[q].user = u => u \in contended')
    BY <1>2, <2>1, OtherFits
  <2>2. QED
    BY <2>1
<1>6. OneCall'
  BY AccountsAssumption, SMT DEF AccInv, OneCall
<1>7. UsersFit' /\ EmailIsUnique'
  BY SMT DEF AccInv, UsersFit, EmailIsUnique
<1>8. SessionsFit'
  <2>1. NoSession.user = None
    BY DEF NoSession
  <2>2. \A s \in Sessions : session[s] = NoSession => session'[s] = NoSession
    BY <1>2, <2>1, AccountsAssumption
  <2>3. QED
    BY <1>2, <2>2 DEF AccInv, SessionsFit
<1>9. SpentTokensStaySpent' /\ OldPasswordOpensNothing'
  BY <1>2 DEF AccInv, SpentTokensStaySpent, OldPasswordOpensNothing
<1>10. QED
  BY <1>4, <1>5, <1>6, <1>7, <1>8, <1>9 DEF AccInv

LEMMA RevokeSessionsInv ==
  ASSUME AccInv, NEW r \in Requests, RevokeSessions(r)
  PROVE  AccInv'
<1> DEFINE c == request[r]
           pc == IF c.session = None THEN "check" ELSE "mail"
           new == [c EXCEPT !.pc = pc]
           ended == {s \in Sessions : session[s].user = c.user /\ s # c.session}
<1>1. CallFits(c) /\ QuietFits(c) /\ c \in Request /\ c.pc = "revoke" /\ c.user \in Users
  BY SMT DEF AccInv, CallsFit, CallFits, TypeOK, RevokeSessions
<1>2. /\ session' = [s \in Sessions |-> IF s \in ended THEN [session[s] EXCEPT !.live = FALSE] ELSE session[s]]
      /\ UNCHANGED <<calls, user, links, resets, tokens, drawn, spent, chosen, kept, used, contended>>
  BY DEF RevokeSessions, history
<1>3. request' = [request EXCEPT ![r] = new] /\ pc \in {"check", "mail"}
  BY DEF RevokeSessions, Goto, AccInv, TypeOK
<1> HIDE DEF pc
<1>4. new \in Request
  BY <1>1, <1>3, Zenon DEF Request
<1>5. /\ new.pc = pc /\ new.password = c.password /\ (new.hashed <=> c.hashed) /\ new.user = c.user
      /\ new.session = c.session /\ (new.admin <=> c.admin)
  BY <1>1, Zenon DEF Request
<1> HIDE DEF new
<1>6. /\ request'[r] = new /\ \A q \in Requests \ {r} : request'[q] = request[q]
      /\ request' \in [Requests -> Request]
  BY <1>3, <1>4 DEF AccInv, TypeOK
<1>7. ended \in SUBSET Sessions /\ \A s \in ended : session[s].user = c.user
  OBVIOUS
<1>8. \A s \in Sessions : session'[s].user = session[s].user /\ (s \in ended => ~session'[s].live)
  BY <1>2, SMT DEF AccInv, TypeOK, Session
<1>9. \A s \in Sessions : session'[s].user = c.user /\ session'[s].live => s = c.session
  BY <1>8
<1>10. CallFits(request[r])'
  BY <1>1, <1>2, <1>3, <1>5, <1>6, SMT DEF CallFits
<1>11. QuietFits(request[r])'
  BY <1>1, <1>2, <1>3, <1>5, <1>6, <1>9, SMT DEF QuietFits, CallFits
<1>12. \A q \in Requests \ {r} : request[q].user = c.user => c.user \in contended'
  BY <1>1, <1>2 DEF AccInv, OneCall
<1>13. calls' \in 0..MaxCalls /\ contended' \subseteq Users
  BY <1>2 DEF AccInv, TypeOK
<1>14. \A q \in Requests : request'[q].user \in {None, request[q].user}
  BY <1>5, <1>6
<1> HIDE DEF ended, c
<1>15. \A q \in Requests : \/ request'[q] = request[q] /\ (request[q].user = c.user => c.user \in contended')
                           \/ (CallFits(request[q]) /\ QuietFits(request[q]))'
  BY <1>6, <1>10, <1>11, <1>12
<1>16. QED
  BY <1>1, <1>2, <1>6, <1>7, <1>13, <1>14, <1>15, SessionsEndInv

LEMMA LogoutInv ==
  ASSUME AccInv, NEW s \in Sessions, Logout(s)
  PROVE  AccInv'
<1> DEFINE u == session[s].user
           ended == {s}
<1>1. /\ UNCHANGED <<user, links, resets, tokens, request, drawn, spent, chosen, kept, used>>
      /\ Contend(u) /\ calls' \in 0..MaxCalls /\ u \in Users
  BY AccountsAssumption, SMT DEF Logout, history, Count, AccInv, TypeOK, Session
<1>2. session' = [t \in Sessions |-> IF t \in ended THEN [session[t] EXCEPT !.live = FALSE] ELSE session[t]]
  BY DEF Logout, AccInv, TypeOK
<1>3. /\ contended \subseteq contended' /\ contended' \subseteq Users
      /\ \A q \in Requests : request[q].user = u => u \in contended'
  BY <1>1, SMT DEF Contend, Working, AccInv, TypeOK
<1>4. ended \in SUBSET Sessions /\ \A t \in ended : session[t].user = u
  OBVIOUS
<1>5. request' \in [Requests -> Request]
  BY <1>1 DEF AccInv, TypeOK
<1> HIDE DEF ended, u
<1>6. QED
  BY <1>1, <1>2, <1>3, <1>4, <1>5, SessionsEndInv

(* A session is opened or rotated: it is its user's, live and holds a new hash. *)
LEMMA NewHashInv ==
  ASSUME AccInv, NEW r \in Requests, drawn < MaxHash, NEW s \in Sessions, NEW entry \in Session,
         entry.user = request[r].user, entry.user \in Users, user[entry.user].status # "none",
         session[s].user \in {None, entry.user}, entry.hash = drawn + 1,
         entry.user \notin contended /\ entry.opened # None => entry.opened = user[entry.user].password \/ s \in kept,
         session' = [session EXCEPT ![s] = entry], tokens' = tokens \cup {<<s, drawn + 1>>},
         drawn' = drawn + 1, spent' \in {spent, spent \cup {<<s, session[s].hash>>}}, spent' \subseteq tokens,
         request' = [request EXCEPT ![r] = Idle],
         UNCHANGED <<calls, user, links, resets, chosen, kept, used, contended>>
  PROVE  AccInv'
<1>1. /\ session'[s] = entry /\ \A t \in Sessions \ {s} : session'[t] = session[t]
      /\ request'[r] = Idle /\ \A q \in Requests \ {r} : request'[q] = request[q]
  BY DEF AccInv, TypeOK
<1>2. drawn + 1 \in 1..MaxHash
  BY AccountsAssumption, SMT DEF AccInv, TypeOK
<1>3. TypeOK'
  BY <1>2, IdleFits, SMT DEF AccInv, TypeOK
<1>4. CallsFit'
  <2>1. CallFits(request[r])' /\ QuietFits(request[r])'
    BY <1>1, IdleFits, AccountsAssumption, SMT DEF CallFits, QuietFits
  <2>2. \A q \in Requests \ {r} : request[q].user = entry.user => entry.user \in contended'
    BY DEF AccInv, OneCall
  <2>3. \A q \in Requests \ {r} : CallFits(request[q])' /\ QuietFits(request[q])'
    BY <1>1, <2>2, OtherFits
  <2>4. QED
    BY <2>1, <2>3 DEF CallsFit
<1>5. OneCall'
  BY <1>1, IdleFits, AccountsAssumption DEF AccInv, OneCall
<1>6. UsersFit' /\ EmailIsUnique'
  BY SMT DEF AccInv, UsersFit, EmailIsUnique
<1>7. SessionsFit'
  <2>1. \A t \in tokens' : t[2] <= drawn'
    BY SMT DEF AccInv, SessionsFit, TypeOK
  <2>2. QED
    BY <1>1, <2>1 DEF AccInv, SessionsFit
<1>8. SpentTokensStaySpent'
  <2>1. <<s, drawn + 1>> \notin spent'
    BY SMT DEF AccInv, SessionsFit, TypeOK
  <2>2. QED
    BY <1>1, <2>1 DEF AccInv, SpentTokensStaySpent
<1>9. OldPasswordOpensNothing'
  BY <1>1 DEF AccInv, OldPasswordOpensNothing
<1>10. QED
  BY <1>3, <1>4, <1>5, <1>6, <1>7, <1>8, <1>9 DEF AccInv

LEMMA OpenSessionInv ==
  ASSUME AccInv, NEW r \in Requests, OpenSession(r)
  PROVE  AccInv'
<1> DEFINE c == request[r]
           entry == [user |-> c.user, hash |-> drawn + 1, live |-> TRUE, opened |-> c.password]
<1>1. CallFits(c) /\ QuietFits(c) /\ c \in Request /\ c.pc = "open"
  BY DEF AccInv, CallsFit, TypeOK, OpenSession
<1>2. c.user \in Users /\ user[c.user].status # "none" /\ c.password \in Passwords \cup {None, Garbled}
  BY <1>1, SMT DEF CallFits, Request
<1>3. PICK s \in Sessions : /\ session[s] = NoSession /\ session' = [session EXCEPT ![s] = entry]
                            /\ tokens' = tokens \cup {<<s, drawn + 1>>}
  BY DEF OpenSession
<1>4. /\ drawn < MaxHash /\ drawn' = drawn + 1 /\ request' = [request EXCEPT ![r] = Idle]
      /\ UNCHANGED <<calls, user, links, resets, spent, chosen, kept, used, contended>>
  BY DEF OpenSession, Return, history
<1>5. drawn + 1 \in 0..MaxHash
  BY <1>4, AccountsAssumption, SMT DEF AccInv, TypeOK
<1>6. entry \in Session
  BY <1>2, <1>5 DEF Session
<1>7. c.user \notin contended /\ c.password # None => c.password = user[c.user].password
  BY <1>1, <1>2 DEF QuietFits
<1>8. session[s].user = None /\ spent' \in {spent, spent \cup {<<s, session[s].hash>>}} /\ spent' \subseteq tokens
  BY <1>3, <1>4 DEF NoSession, AccInv, TypeOK
<1>9. entry.user = request[r].user /\ entry.hash = drawn + 1 /\ entry.opened = c.password
  OBVIOUS
<1> HIDE DEF entry, c
<1>10. QED
  BY <1>2, <1>3, <1>4, <1>6, <1>7, <1>8, <1>9, NewHashInv DEF c

LEMMA RotateHashInv ==
  ASSUME AccInv, NEW r \in Requests, RotateHash(r)
  PROVE  AccInv'
<1> DEFINE c == request[r]
           s == c.session
           entry == [session[s] EXCEPT !.hash = drawn + 1, !.live = TRUE]
<1>1. CallFits(c) /\ QuietFits(c) /\ c \in Request /\ c.pc = "rotate"
  BY DEF AccInv, CallsFit, TypeOK, RotateHash
<1>2. c.user \in Users /\ user[c.user].status # "none" /\ s \in Sessions /\ session[s].user = c.user
  BY <1>1, SMT DEF CallFits, Request
<1>3. /\ drawn < MaxHash /\ drawn' = drawn + 1 /\ request' = [request EXCEPT ![r] = Idle]
      /\ UNCHANGED <<calls, user, links, resets, chosen, kept, used, contended>>
      /\ tokens' = tokens \cup {<<s, drawn + 1>>} /\ spent' = spent \cup {<<s, session[s].hash>>}
  BY DEF RotateHash, Return
<1>4. session' = [session EXCEPT ![s] = entry] /\ session[s] \in Session
  BY <1>2 DEF RotateHash, AccInv, TypeOK
<1>5. drawn + 1 \in 0..MaxHash
  BY <1>3, AccountsAssumption, SMT DEF AccInv, TypeOK
<1>6. entry \in Session /\ entry.user = c.user /\ entry.hash = drawn + 1 /\ entry.opened = session[s].opened
  BY <1>2, <1>4, <1>5, Zenon DEF Session
<1>7. <<s, session[s].hash>> \in tokens
  <2>1. NoSession.user = None
    BY DEF NoSession
  <2>2. QED
    BY <1>2, <2>1, AccountsAssumption DEF AccInv, SessionsFit
<1>8. spent' \in {spent, spent \cup {<<s, session[s].hash>>}} /\ spent' \subseteq tokens
  BY <1>3, <1>7 DEF AccInv, TypeOK
<1>9. c.user \notin contended => session[s].live
  BY <1>1, <1>2, AccountsAssumption DEF QuietFits
<1>10. entry.user \notin contended /\ entry.opened # None => entry.opened = user[entry.user].password \/ s \in kept
  BY <1>2, <1>6, <1>9 DEF AccInv, OldPasswordOpensNothing
<1> HIDE DEF entry, s, c
<1>11. QED
  BY <1>2, <1>3, <1>4, <1>6, <1>8, <1>10, NewHashInv DEF c

-----------------------------------------------------------------------------
LEMMA ForgotPasswordInv ==
  ASSUME AccInv, NEW e \in Emails, ForgotPassword(e)
  PROVE  AccInv'
<1>1. /\ UNCHANGED <<user, session, links, tokens, request, drawn, spent, chosen, kept, used, contended>>
      /\ resets' \subseteq Users /\ calls' \in 0..MaxCalls
  BY AccountsAssumption, SMT DEF ForgotPassword, FindByEmail, Count, history, AccInv, TypeOK
<1>2. TypeOK'
  BY <1>1, SMT DEF AccInv, TypeOK
<1>3. CallsFit' /\ OneCall'
  BY <1>1, SMT DEF AccInv, CallsFit, CallFits, QuietFits, OneCall
<1>4. UsersFit' /\ EmailIsUnique' /\ SessionsFit' /\ SpentTokensStaySpent' /\ OldPasswordOpensNothing'
  BY <1>1, SMT DEF AccInv, UsersFit, EmailIsUnique, SessionsFit, SpentTokensStaySpent, OldPasswordOpensNothing
<1>5. QED
  BY <1>2, <1>3, <1>4 DEF AccInv

LEMMA AccNextInv == AccInv /\ [Next]_vars => AccInv'
<1> SUFFICES ASSUME AccInv, [Next]_vars PROVE AccInv'
  OBVIOUS
<1>1. ASSUME NEW r \in Requests, Continue(r)
      PROVE  AccInv'
  BY <1>1, InsertUserInv, RevokeSessionsInv, MailNewEmailInv, CheckPayloadInv, MergeRowInv, SaveUserInv,
     OpenSessionInv, LookUpInv, RotateHashInv DEF Continue
<1>2. CASE Next
  BY <1>1, <1>2, StartInv, ForgotPasswordInv, RemoveInv, LogoutInv DEF Next
<1>3. CASE UNCHANGED vars
  <2>1. TypeOK' /\ CallsFit' /\ OneCall'
    BY <1>3, SMT DEF vars, AccInv, TypeOK, CallsFit, CallFits, QuietFits, OneCall
  <2>2. UsersFit' /\ EmailIsUnique' /\ SessionsFit' /\ SpentTokensStaySpent' /\ OldPasswordOpensNothing'
    BY <1>3, SMT
       DEF vars, AccInv, UsersFit, EmailIsUnique, SessionsFit, SpentTokensStaySpent, OldPasswordOpensNothing
  <2>3. QED
    BY <2>1, <2>2 DEF AccInv
<1>4. QED
  BY <1>2, <1>3

(* The invariant holds of every behaviour of the accounts. *)
THEOREM AccInvariance == Spec => []AccInv
<1>1. QED
  BY AccInitInv, AccNextInv, PTL DEF Spec

(* Every state of the accounts is well typed. *)
THEOREM AccTypeCorrect == Spec => []TypeOK
<1>1. AccInv => TypeOK
  BY DEF AccInv
<1>2. QED
  BY <1>1, AccInvariance, PTL

(* However lookups and writes interleave, two rows never hold one address.  *)
THEOREM AddressesStayUnique == Spec => []EmailIsUnique
<1>1. AccInv => EmailIsUnique
  BY DEF AccInv
<1>2. QED
  BY <1>1, AccInvariance, PTL

(* A rotated refresh token is never a session's again, whatever refreshes race.   *)
THEOREM RotatedIsSpent == Spec => []SpentTokensStaySpent
<1>1. AccInv => SpentTokensStaySpent
  BY DEF AccInv
<1>2. QED
  BY <1>1, AccInvariance, PTL

(* Where no two calls worked on a user at once, the stored password is the one     *)
(* chosen: saving a whole user does not hash the hash.                              *)
THEOREM ChosenIsStored == Spec => []PasswordIsTheOneChosen
<1>1. AccInv => PasswordIsTheOneChosen
  BY DEF AccInv, UsersFit, PasswordIsTheOneChosen
<1>2. QED
  BY <1>1, AccInvariance, PTL

(* Where no two calls worked on a user at once, no session outlives the password    *)
(* it was opened with, but the one that changed it or those an administrator left.   *)
THEOREM OldPasswordsAreClosed == Spec => []OldPasswordOpensNothing
<1>1. AccInv => OldPasswordOpensNothing
  BY DEF AccInv
<1>2. QED
  BY <1>1, AccInvariance, PTL

-----------------------------------------------------------------------------
(* A user is written by four steps, and a token handed out by two. *)
LEMMA StepFrame ==
  ASSUME [Next]_vars
  PROVE  /\ \/ UNCHANGED user
            \/ \E r \in Requests : InsertUser(r) \/ SaveUser(r)
            \/ \E u \in Users : Remove(u)
         /\ \/ UNCHANGED tokens
            \/ \E r \in Requests : OpenSession(r) \/ RotateHash(r)
<1>1. ASSUME NEW r \in Requests, Start(r)
      PROVE  UNCHANGED user /\ UNCHANGED tokens
  BY <1>1, Zenon DEF Start, Register, CreateByAdmin, Create, Login, ConfirmEmail, ConfirmNewEmail, ResetPassword,
     UpdateMe, UpdateByAdmin, SocialLogin, Refresh
<1>2. ASSUME NEW r \in Requests, Continue(r)
      PROVE  /\ UNCHANGED user \/ InsertUser(r) \/ SaveUser(r)
             /\ UNCHANGED tokens \/ OpenSession(r) \/ RotateHash(r)
  BY <1>2 DEF Continue, InsertUser, RevokeSessions, MailNewEmail, CheckPayload, MergeRow, SaveUser,
     OpenSession, ReadUser, FindSession, RotateHash
<1>3. CASE UNCHANGED vars
  BY <1>3 DEF vars
<1>4. CASE \/ \E e \in Emails : ForgotPassword(e)
           \/ \E u \in Users : Remove(u)
           \/ \E s \in Sessions : Logout(s)
  BY <1>4 DEF ForgotPassword, Remove, Logout
<1>5. QED
  BY <1>1, <1>2, <1>3, <1>4 DEF Next

(* Where no two calls worked on it at once, a deleted account stays deleted and is    *)
(* handed no token.                                                                    *)
THEOREM DeletedForGood == Spec => DeletedStaysOut
<1>1. ASSUME AccInv, [Next]_vars, NEW u \in Users, user[u].deleted, u \notin contended'
      PROVE  user'[u].deleted
  <2>1. CASE UNCHANGED user
    BY <1>1, <2>1
  <2>2. ASSUME NEW r \in Requests, InsertUser(r)
        PROVE  user'[u].deleted
    <3>1. NoUser.deleted = FALSE
      BY DEF NoUser
    <3>2. user[u] # NoUser
      BY <1>1, <3>1
    <3>3. user'[u] = user[u]
      BY <1>1, <2>2, <3>2, Zenon DEF InsertUser, AccInv, TypeOK
    <3>4. QED
      BY <1>1, <3>3
  <2>3. ASSUME NEW r \in Requests, SaveUser(r)
        PROVE  user'[u].deleted
    <3>1. contended' = contended /\ request[r].pc = "save" /\ QuietFits(request[r])
      BY <1>1, <2>3 DEF SaveUser, AccInv, CallsFit
    <3>2. request[r].user # u
      BY <1>1, <3>1, SMT DEF QuietFits
    <3>3. user'[u] = user[u]
      BY <1>1, <2>3, <3>2, SMT DEF SaveUser, AccInv, TypeOK
    <3>4. QED
      BY <1>1, <3>3
  <2>4. ASSUME NEW v \in Users, Remove(v)
        PROVE  user'[u].deleted
    <3>1. user' = [user EXCEPT ![v].deleted = TRUE] /\ user \in [Users -> User]
      BY <1>1, <2>4 DEF Remove, AccInv, TypeOK
    <3>2. CASE u # v
      BY <1>1, <3>1, <3>2
    <3>3. CASE u = v
      <4>1. user'[u] = [user[u] EXCEPT !.deleted = TRUE] /\ user[u] \in User
        BY <3>1, <3>3
      <4>2. QED
        BY <4>1, Zenon DEF User
    <3>4. QED
      BY <3>2, <3>3
  <2>5. QED
    BY <1>1, <2>1, <2>2, <2>3, <2>4, StepFrame
<1>2. ASSUME AccInv, [Next]_vars, NEW t \in tokens' \ tokens
      PROVE  session'[t[1]].user \in contended' \/ ~user[session'[t[1]].user].deleted
  <2>1. PICK r \in Requests : OpenSession(r) \/ RotateHash(r)
    BY <1>2, StepFrame
  <2>2. /\ CallFits(request[r]) /\ QuietFits(request[r]) /\ request[r] \in Request
        /\ request[r].pc \in {"open", "rotate"} /\ contended' = contended
    BY <1>2, <2>1 DEF AccInv, CallsFit, TypeOK, OpenSession, RotateHash
  <2>3. request[r].user \in Users
    BY <2>2, SMT DEF CallFits
  <2>4. session'[t[1]].user = request[r].user
    <3>1. CASE OpenSession(r)
      <4>1. PICK s \in Sessions :
              /\ session' = [session EXCEPT ![s] = [user |-> request[r].user, hash |-> drawn + 1,
                                                    live |-> TRUE, opened |-> request[r].password]]
              /\ tokens' = tokens \cup {<<s, drawn + 1>>}
        BY <3>1 DEF OpenSession
      <4>2. t = <<s, drawn + 1>>
        BY <1>2, <4>1
      <4>3. QED
        BY <1>2, <4>1, <4>2 DEF AccInv, TypeOK
    <3>2. CASE RotateHash(r)
      <4> DEFINE s == request[r].session
      <4>1. /\ session' = [session EXCEPT ![s].hash = drawn + 1, ![s].live = TRUE]
            /\ tokens' = tokens \cup {<<s, drawn + 1>>}
        BY <3>2 DEF RotateHash
      <4>2. t[1] = s
        BY <1>2, <4>1
      <4>3. s \in Sessions /\ session[s].user = request[r].user /\ session[s] \in Session
        BY <1>2, <2>2, <3>2, SMT DEF CallFits, Request, RotateHash, AccInv, TypeOK
      <4>4. session'[s] = [session[s] EXCEPT !.hash = drawn + 1, !.live = TRUE]
        BY <1>2, <4>1, <4>3 DEF AccInv, TypeOK
      <4> HIDE DEF s
      <4>5. session'[s].user = session[s].user
        BY <4>3, <4>4, Zenon DEF Session
      <4>6. QED
        BY <4>2, <4>3, <4>5
    <3>3. QED
      BY <2>1, <3>1, <3>2
  <2>5. QED
    BY <2>2, <2>3, <2>4 DEF QuietFits
<1>3. AccInv /\ [Next]_vars =>
        [/\ \A u \in Users : user[u].deleted /\ u \notin contended' => user'[u].deleted
         /\ \A t \in tokens' \ tokens :
              session'[t[1]].user \in contended' \/ ~user[session'[t[1]].user].deleted]_vars
  BY <1>1, <1>2
<1>4. QED
  BY <1>3, AccInvariance, PTL DEF Spec, DeletedStaysOut

-----------------------------------------------------------------------------
(* The registry *)

(* A call that will write a row holds one of its own kind; only accounts, which  *)
(* are written column by column, can be removed under it.                         *)
EntryFits(c) ==
  /\ c.pc = "idle" => c = NoCall
  /\ c.pc = "insert" => /\ c.table \in Tables /\ c.patch \in Cols /\ c.given \in Cols
                        /\ HoldsAll(c.table, c.patch, c.given)
                        /\ c.key \in Keys \cup {Null} /\ c.id = Null
  /\ c.pc \in {"load", "save"} => /\ c.id \in RowIds /\ c.table \in Tables \ {"account"}
                                  /\ row[c.id].table = c.table
  /\ c.pc \in {"update", "delete"} => c.id \in RowIds /\ row[c.id].table \in {"account", "removed"}
  /\ c.pc = "update" => c.given = c.patch

(* Where nobody else is at the row, the row loaded is still the row, and what      *)
(* will be written holds what will have been asked.                                *)
EditFits(c) ==
  c.pc \in {"load", "save"} /\ c.id \notin clashed =>
    /\ HoldsAll(c.table, Assign(row[c.id].cols, c.patch), Assign(said[c.id], c.given))
    /\ c.pc = "save" => c.loaded = row[c.id]

EntriesFit == \A c \in Callers : EntryFits(caller[c]) /\ EditFits(caller[c])

OneCaller ==
  \A c, d \in Callers : c # d /\ caller[c].id = caller[d].id /\ caller[c].id # Null => caller[c].id \in clashed

RemovedIsBlank == \A i \in RowIds : row[i].table = "removed" => row[i] = RemovedRow

RegInv == RegTypeOK /\ EntriesFit /\ OneCaller /\ RemovedIsBlank /\ KeysAreUnique /\ EditsStay

-----------------------------------------------------------------------------
(* The columns *)

LEMMA BlankIsCols == Blank \in Cols /\ Blank \in Patch
BY SMT DEF Blank, Cols, Patch

LEMMA AssignType ==
  ASSUME NEW cols \in Cols, NEW patch \in Patch
  PROVE  Assign(cols, patch) \in Cols
BY SMT DEF Assign, Cols, Patch

LEMMA ColsArePatches == Cols \subseteq Patch
BY SMT DEF Cols, Patch

LEMMA OrElseType ==
  ASSUME NEW cols \in Cols, NEW patch \in Patch
  PROVE  OrElse(patch, cols) \in Cols
BY SMT DEF OrElse, Cols, Patch

LEMMA NeverClearedType ==
  ASSUME NEW patch \in Patch
  PROVE  NeverCleared(patch) \in Patch
BY SMT DEF NeverCleared, Patch

LEMMA ModeOrLiveType ==
  ASSUME NEW patch \in Patch
  PROVE  ModeOrLive(patch) \in Patch
BY Zenon DEF ModeOrLive, Patch, Modes, Columns

(* A column written as it is given holds what is given. *)
LEMMA SameAssignHolds ==
  ASSUME NEW table, NEW cols \in Cols, NEW asked \in Cols, NEW given \in Patch, HoldsAll(table, cols, asked)
  PROVE  HoldsAll(table, Assign(cols, given), Assign(asked, given))
BY SMT DEF HoldsAll, Holds, Assign, Cols, Patch

(* What upsert computes from the row it found holds what is given: a column not   *)
(* given, or null, stays as it was.                                                *)
LEMMA UpsertHolds ==
  ASSUME NEW cols \in Cols, NEW asked \in Cols, NEW given \in Patch, HoldsAll("customer", cols, asked)
  PROVE  HoldsAll("customer", Assign(cols, OrElse(given, cols)), Assign(asked, given))
BY RegistryAssumption, SMT DEF HoldsAll, Holds, Assign, OrElse, Cols, Patch

(* An application's column that is null stays as it was, and its mode is the one   *)
(* given or live.                                                                  *)
LEMMA ApplicationHolds ==
  ASSUME NEW cols \in Cols, NEW asked \in Cols, NEW given \in Patch, HoldsAll("application", cols, asked)
  PROVE  HoldsAll("application", Assign(cols, ModeOrLive(NeverCleared(given))), Assign(asked, given))
<1> DEFINE new == Assign(cols, ModeOrLive(NeverCleared(given)))
<1>1. NeverCleared(given) \in [Columns -> Values \cup Modes \cup {Null, Keep}]
  BY NeverClearedType DEF Patch
<1>2. ASSUME NEW f \in Columns, f # "mode"
      PROVE  Holds("application", f, new[f], Assign(asked, given)[f])
  <2>1. ModeOrLive(NeverCleared(given))[f] = NeverCleared(given)[f]
    BY <1>1, <1>2 DEF ModeOrLive
  <2>2. new[f] = IF given[f] \in {Null, Keep} THEN cols[f] ELSE given[f]
    BY <2>1, RegistryAssumption, SMT DEF Assign, NeverCleared
  <2>3. Assign(asked, given)[f] = IF given[f] = Keep THEN asked[f] ELSE given[f]
    BY DEF Assign
  <2>4. Holds("application", f, cols[f], asked[f])
    BY DEF HoldsAll
  <2>5. QED
    BY <2>2, <2>3, <2>4, SMT DEF Holds
<1>3. Holds("application", "mode", new["mode"], Assign(asked, given)["mode"])
  <2>1. "mode" \in Columns
    BY DEF Columns
  <2>2. NeverCleared(given)["mode"] = IF given["mode"] = Null THEN Keep ELSE given["mode"]
    BY <2>1 DEF NeverCleared
  <2>3. ModeOrLive(NeverCleared(given))["mode"] = IF given["mode"] \in {Null, Keep} THEN "live" ELSE given["mode"]
    BY <1>1, <2>1, <2>2, SMT DEF ModeOrLive
  <2>4. "live" # Keep
    BY RegistryAssumption DEF Modes
  <2>5. new["mode"] = IF given["mode"] \in {Null, Keep} THEN "live" ELSE given["mode"]
    BY <2>1, <2>3, <2>4, SMT DEF Assign
  <2>6. Assign(asked, given)["mode"] = IF given["mode"] = Keep THEN asked["mode"] ELSE given["mode"]
    BY <2>1 DEF Assign
  <2>7. QED
    BY <2>5, <2>6, SMT DEF Holds
<1>4. QED
  BY <1>2, <1>3 DEF HoldsAll

(* A new application is in the mode given, or live. *)
LEMMA NewApplicationHolds ==
  ASSUME NEW given \in Patch
  PROVE  HoldsAll("application", OrElse(ModeOrLive(given), Blank), OrElse(given, Blank))
<1>1. ASSUME NEW f \in Columns
      PROVE  ModeOrLive(given)[f] = IF f = "mode" /\ given[f] = Keep THEN "live" ELSE given[f]
  BY <1>1, SMT DEF ModeOrLive, Patch
<1>2. ASSUME NEW f \in Columns
      PROVE  /\ OrElse(given, Blank)[f] = IF given[f] \in {Null, Keep} THEN Null ELSE given[f]
             /\ OrElse(ModeOrLive(given), Blank)[f] =
                  IF ModeOrLive(given)[f] \in {Null, Keep} THEN Null ELSE ModeOrLive(given)[f]
  BY <1>2, SMT DEF OrElse, Blank
<1>3. ASSUME NEW f \in Columns
      PROVE  Holds("application", f, OrElse(ModeOrLive(given), Blank)[f], OrElse(given, Blank)[f])
  BY <1>1, <1>2, SMT DEF Holds
<1>4. QED
  BY <1>3 DEF HoldsAll

LEMMA RegInitInv == RegInit => RegInv
<1> SUFFICES ASSUME RegInit PROVE RegInv
  OBVIOUS
<1>1. NoCall \in Call /\ NoRow \in Stored
  BY BlankIsCols, Zenon DEF NoCall, NoRow, Call, Stored
<1>2. RegTypeOK
  BY <1>1, BlankIsCols, RegistryAssumption, SMT DEF RegInit, RegTypeOK, Key
<1>3. EntriesFit /\ OneCaller
  BY SMT DEF RegInit, EntriesFit, EntryFits, EditFits, OneCaller, NoCall
<1>4. RemovedIsBlank /\ KeysAreUnique /\ EditsStay
  BY SMT DEF RegInit, RemovedIsBlank, KeysAreUnique, EditsStay, NoRow, Tables, KeyedTables
<1>5. QED
  BY <1>2, <1>3, <1>4 DEF RegInv

-----------------------------------------------------------------------------
(* A call begins. *)
LEMMA ServeInv ==
  ASSUME RegInv, NEW c \in Callers, NEW call \in Call, Serve(c, call), EntryFits(call),
         call.pc \in {"insert", "load", "update", "delete"},
         call.pc = "load" /\ call.id \notin clashed' =>
           HoldsAll(call.table, Assign(row[call.id].cols, call.patch), Assign(said[call.id], call.given))
  PROVE  RegInv'
<1>1. /\ row' = row /\ apiKey' = apiKey /\ touching' = touching /\ said' = said
      /\ caller' = [caller EXCEPT ![c] = call]
      /\ writes' \in 0..MaxWrites
  BY RegistryAssumption, SMT DEF RegInv, RegTypeOK, Serve
<1>2. /\ clashed \subseteq clashed' /\ clashed' \subseteq RowIds
      /\ \A d \in Callers : caller[d].id = call.id /\ call.id # Null => call.id \in clashed'
  BY SMT DEF RegInv, RegTypeOK, Serve, Call
<1>3. RegTypeOK'
  BY <1>1, <1>2, SMT DEF RegInv, RegTypeOK
<1>4. EntriesFit'
  <2> SUFFICES ASSUME NEW d \in Callers PROVE (EntryFits(caller[d]) /\ EditFits(caller[d]))'
    BY DEF EntriesFit
  <2>1. caller'[d] = IF d = c THEN call ELSE caller[d]
    BY <1>1 DEF RegInv, RegTypeOK
  <2>2. EntryFits(caller[d]) /\ EditFits(caller[d])
    BY DEF RegInv, EntriesFit
  <2>3. QED
    BY <1>1, <1>2, <2>1, <2>2, SMT DEF EntryFits, EditFits
<1>5. OneCaller'
  BY <1>1, <1>2, SMT DEF RegInv, RegTypeOK, OneCaller
<1>6. RemovedIsBlank' /\ KeysAreUnique' /\ EditsStay'
  BY <1>1, <1>2, SMT DEF RegInv, RemovedIsBlank, KeysAreUnique, EditsStay
<1>7. QED
  BY <1>3, <1>4, <1>5, <1>6 DEF RegInv

LEMMA CreateRowInv ==
  ASSUME RegInv, NEW c \in Callers, NEW table \in Tables, NEW key \in Keys \cup {Null},
         NEW patch \in Patch, NEW given \in Patch,
         HoldsAll(table, OrElse(patch, Blank), OrElse(given, Blank)),
         Serve(c, [NoCall EXCEPT !.pc = "insert", !.table = table, !.key = key,
                                 !.patch = OrElse(patch, Blank), !.given = OrElse(given, Blank)])
  PROVE  RegInv'
<1> DEFINE new == OrElse(patch, Blank)
           asked == OrElse(given, Blank)
           call == [NoCall EXCEPT !.pc = "insert", !.table = table, !.key = key, !.patch = new, !.given = asked]
<1>1. new \in Cols /\ new \in Patch /\ asked \in Cols /\ asked \in Patch /\ HoldsAll(table, new, asked)
  BY BlankIsCols, OrElseType, ColsArePatches
<1>2. NoRow \in Stored
  BY BlankIsCols, Zenon DEF NoRow, Stored
<1> HIDE DEF new, asked
<1>3. call \in Call
  BY <1>1, <1>2, Zenon DEF NoCall, Call
<1>4. /\ call.pc = "insert" /\ call.table = table /\ call.key = key /\ call.patch = new
      /\ call.given = asked /\ call.id = Null
  BY SMT DEF NoCall
<1>5. Serve(c, call)
  BY DEF new, asked
<1> HIDE DEF call
<1>6. EntryFits(call)
  BY <1>1, <1>4 DEF EntryFits
<1>7. QED
  BY <1>3, <1>4, <1>5, <1>6, ServeInv

LEMMA LoadCallInv ==
  ASSUME RegInv, NEW c \in Callers, NEW call \in Call, Serve(c, call),
         call.pc = "load", call.id \in RowIds, call.table \in Tables \ {"account"}, row[call.id].table = call.table,
         HoldsAll(call.table, row[call.id].cols, said[call.id]) =>
           HoldsAll(call.table, Assign(row[call.id].cols, call.patch), Assign(said[call.id], call.given))
  PROVE  RegInv'
<1>1. EntryFits(call)
  BY SMT DEF EntryFits
<1>2. clashed \subseteq clashed'
  BY SMT DEF Serve
<1>3. call.id \notin clashed' =>
        HoldsAll(call.table, Assign(row[call.id].cols, call.patch), Assign(said[call.id], call.given))
  BY <1>2 DEF RegInv, EditsStay
<1>4. QED
  BY <1>1, <1>3, ServeInv

LEMMA UpsertCustomerInv ==
  ASSUME RegInv, NEW c \in Callers, NEW key \in Keys, NEW given \in Patch, UpsertCustomer(c, key, given)
  PROVE  RegInv'
<1>1. "customer" \in Tables \ {"account"}
  BY DEF Tables, KeyedTables
<1>2. CASE FindByKey("customer", key) = {}
  <2>1. Serve(c, [NoCall EXCEPT !.pc = "insert", !.table = "customer", !.key = key,
                                !.patch = OrElse(given, Blank), !.given = OrElse(given, Blank)])
    BY <1>2 DEF UpsertCustomer
  <2>2. HoldsAll("customer", OrElse(given, Blank), OrElse(given, Blank))
    BY DEF HoldsAll, Holds
  <2>3. QED
    BY <1>1, <2>1, <2>2, CreateRowInv
<1>3. CASE FindByKey("customer", key) # {}
  <2>1. PICK i \in FindByKey("customer", key) :
          Serve(c, [NoCall EXCEPT !.pc = "load", !.table = "customer", !.id = i,
                                  !.patch = OrElse(given, row[i].cols), !.given = given])
    BY <1>3, Zenon DEF UpsertCustomer
  <2>2. /\ i \in RowIds /\ row[i].table = "customer" /\ row[i].cols \in Cols /\ said[i] \in Cols
    BY SMT DEF FindByKey, RegInv, RegTypeOK, Stored
  <2> DEFINE patch == OrElse(given, row[i].cols)
             call == [NoCall EXCEPT !.pc = "load", !.table = "customer", !.id = i, !.patch = patch, !.given = given]
  <2>3. /\ patch \in Patch
        /\ HoldsAll("customer", row[i].cols, said[i]) =>
             HoldsAll("customer", Assign(row[i].cols, patch), Assign(said[i], given))
    BY <2>2, OrElseType, ColsArePatches, UpsertHolds
  <2>4. NoRow \in Stored
    BY BlankIsCols, Zenon DEF NoRow, Stored
  <2> HIDE DEF patch
  <2>5. call \in Call
    BY <1>1, <2>2, <2>3, <2>4, Zenon DEF NoCall, Call
  <2>6. /\ call.pc = "load" /\ call.table = "customer" /\ call.id = i /\ call.patch = patch /\ call.given = given
    BY SMT DEF NoCall
  <2>7. Serve(c, call)
    BY <2>1 DEF patch
  <2> HIDE DEF call
  <2>8. QED
    BY <1>1, <2>2, <2>3, <2>5, <2>6, <2>7, LoadCallInv
<1>4. QED
  BY <1>2, <1>3

LEMMA UpdateByIdInv ==
  ASSUME RegInv, NEW c \in Callers, NEW table \in Tables \ {"account"}, NEW i \in RowIds,
         NEW key \in Keys \cup {Keep}, NEW patch \in Patch, NEW given \in Patch,
         HoldsAll(table, row[i].cols, said[i]) =>
           HoldsAll(table, Assign(row[i].cols, patch), Assign(said[i], given)),
         UpdateById(c, table, i, key, patch, given)
  PROVE  RegInv'
<1> DEFINE call == [NoCall EXCEPT !.pc = "load", !.table = table, !.id = i, !.key = key,
                                  !.patch = patch, !.given = given]
<1>1. NoRow \in Stored
  BY BlankIsCols, Zenon DEF NoRow, Stored
<1>2. call \in Call
  BY <1>1, Zenon DEF NoCall, Call
<1>3. /\ call.pc = "load" /\ call.table = table /\ call.id = i /\ call.patch = patch /\ call.given = given
  BY SMT DEF NoCall
<1>4. Serve(c, call) /\ row[i].table = table
  BY DEF UpdateById, RowsOf
<1> HIDE DEF call
<1>5. QED
  BY <1>2, <1>3, <1>4, LoadCallInv

(* An account's columns are updated, or it is removed. *)
LEMMA AccountInv ==
  ASSUME RegInv, NEW c \in Callers, NEW i \in RowIds, NEW given \in Patch,
         UpdateAccount(c, i, given) \/ RemoveAccount(c, i)
  PROVE  RegInv'
<1>1. NoRow \in Stored
  BY BlankIsCols, Zenon DEF NoRow, Stored
<1>2. row[i].table = "account"
  BY DEF UpdateAccount, RemoveAccount
<1>3. CASE UpdateAccount(c, i, given)
  <2> DEFINE call == [NoCall EXCEPT !.pc = "update", !.table = "account", !.id = i, !.patch = given, !.given = given]
  <2>1. call \in Call
    BY <1>1, Zenon DEF NoCall, Call, Tables
  <2>2. call.pc = "update" /\ call.id = i /\ call.patch = given /\ call.given = given
    BY SMT DEF NoCall
  <2>3. Serve(c, call)
    BY <1>3 DEF UpdateAccount
  <2> HIDE DEF call
  <2>4. EntryFits(call)
    BY <1>2, <2>2, SMT DEF EntryFits
  <2>5. QED
    BY <2>1, <2>2, <2>3, <2>4, ServeInv
<1>4. CASE RemoveAccount(c, i)
  <2> DEFINE call == [NoCall EXCEPT !.pc = "delete", !.table = "account", !.id = i]
  <2>1. call \in Call
    BY <1>1, BlankIsCols, Zenon DEF NoCall, Call, Tables
  <2>2. call.pc = "delete" /\ call.id = i
    BY SMT DEF NoCall
  <2>3. Serve(c, call)
    BY <1>4 DEF RemoveAccount
  <2> HIDE DEF call
  <2>4. EntryFits(call)
    BY <1>2, <2>2, SMT DEF EntryFits
  <2>5. QED
    BY <2>1, <2>2, <2>3, <2>4, ServeInv
<1>5. QED
  BY <1>3, <1>4

LEMMA ReceiveInv ==
  ASSUME RegInv, NEW c \in Callers, Receive(c)
  PROVE  RegInv'
<1>1. /\ "product" \in Tables \ {"account"} /\ "application" \in Tables \ {"account"}
      /\ "endpoint" \in Tables \ {"account"} /\ "account" \in Tables
      /\ RowEdits \subseteq Patch /\ ApplicationEdits \subseteq Patch
  BY DEF Tables, KeyedTables, RowEdits, ApplicationEdits, Edits
<1>2. \A i \in RowIds : row[i] \in Stored /\ row[i].cols \in Cols /\ said[i] \in Cols
  BY SMT DEF RegInv, RegTypeOK, Stored
<1>3. \A table, cols : HoldsAll(table, cols, cols)
  BY DEF HoldsAll, Holds
<1>4. ASSUME NEW given \in RowEdits, NEW key \in Keys, UpsertCustomer(c, key, given) \/ CreateProduct(c, key, given)
      PROVE  RegInv'
  BY <1>1, <1>3, <1>4, UpsertCustomerInv, CreateRowInv DEF CreateProduct, CreateRow
<1>5. ASSUME NEW given \in RowEdits, CreateWebhookEndpoint(c, given) \/ CreateAccount(c, given)
      PROVE  RegInv'
  BY <1>1, <1>3, <1>5, CreateRowInv DEF CreateWebhookEndpoint, CreateAccount, CreateRow
<1>6. ASSUME NEW slug \in Keys, NEW given \in ApplicationEdits, CreateApplication(c, slug, given)
      PROVE  RegInv'
  BY <1>1, <1>6, ModeOrLiveType, NewApplicationHolds, CreateRowInv DEF CreateApplication, CreateRow
<1>7. ASSUME NEW i \in RowIds, NEW given \in RowEdits, NEW key \in Keys \cup {Keep}, NEW table \in Tables \ {"account"},
             UpdateById(c, table, i, key, given, given)
      PROVE  RegInv'
  BY <1>1, <1>2, <1>7, SameAssignHolds, UpdateByIdInv
<1>8. ASSUME NEW i \in RowIds, NEW given \in RowEdits,
             \/ UpdateAccount(c, i, given) \/ UpdateWebhookEndpoint(c, i, given)
             \/ \E sku \in Keys \cup {Keep} : UpdateProduct(c, i, sku, given)
      PROVE  RegInv'
  BY <1>1, <1>7, <1>8, AccountInv DEF UpdateWebhookEndpoint, UpdateProduct
<1>9. ASSUME NEW i \in RowIds, NEW slug \in Keys \cup {Keep}, NEW given \in ApplicationEdits,
             UpdateApplication(c, i, slug, given)
      PROVE  RegInv'
  <2>1. /\ given \in Patch /\ ModeOrLive(NeverCleared(given)) \in Patch
        /\ HoldsAll("application", row[i].cols, said[i]) =>
             HoldsAll("application", Assign(row[i].cols, ModeOrLive(NeverCleared(given))), Assign(said[i], given))
    BY <1>1, <1>2, NeverClearedType, ModeOrLiveType, ApplicationHolds
  <2>2. QED
    BY <1>1, <1>9, <2>1, UpdateByIdInv DEF UpdateApplication
<1>10. CASE \E i \in RowIds : RemoveAccount(c, i)
  BY <1>10, BlankIsCols, AccountInv
<1>11. QED
  BY <1>4, <1>5, <1>6, <1>8, <1>9, <1>10 DEF Receive

-----------------------------------------------------------------------------
(* A row is written, or not, and the call ends.  What is left of the other calls. *)
LEMMA WriteInv ==
  ASSUME RegInv, NEW c \in Callers, NEW i \in RowIds, NEW new \in Stored, NEW asked \in Cols,
         row' = [row EXCEPT ![i] = new], said' = [said EXCEPT ![i] = asked],
         caller' = [caller EXCEPT ![c] = NoCall], RowsOnly,
         row[i] = NoRow \/ caller[c].id = i,
         row[i] = NoRow \/ new.table = row[i].table \/ (row[i].table \in {"account", "removed"} /\ new = RemovedRow),
         row[i] = NoRow => new.table # "removed",
         new.table = "removed" => new = RemovedRow,
         new.key # Null => \A j \in RowIds \ {i} : row[j].table # new.table \/ row[j].key # new.key,
         new.table \in Tables /\ (i \notin clashed \/ new.table = "account") => HoldsAll(new.table, new.cols, asked)
  PROVE  RegInv'
<1>1. /\ apiKey' = apiKey /\ touching' = touching /\ writes' = writes /\ clashed' = clashed
      /\ row'[i] = new /\ \A j \in RowIds : j # i => row'[j] = row[j]
      /\ said'[i] = asked /\ \A j \in RowIds : j # i => said'[j] = said[j]
  BY DEF RowsOnly, RegInv, RegTypeOK
<1>2. NoCall \in Call
  BY BlankIsCols, Zenon DEF NoCall, NoRow, Call, Stored
<1>3. RegTypeOK'
  BY <1>1, <1>2, SMT DEF RegInv, RegTypeOK
<1>4. EntriesFit'
  <2> SUFFICES ASSUME NEW d \in Callers PROVE (EntryFits(caller[d]) /\ EditFits(caller[d]))'
    BY DEF EntriesFit
  <2>1. CASE d = c
    <3>1. caller'[d] = NoCall
      BY <2>1 DEF RegInv, RegTypeOK
    <3>2. QED
      BY <3>1, SMT DEF EntryFits, EditFits, NoCall
  <2>2. CASE d # c
    <3>1. caller'[d] = caller[d] /\ EntryFits(caller[d]) /\ EditFits(caller[d]) /\ caller[d] \in Call
      BY <2>2 DEF RegInv, RegTypeOK, EntriesFit
    <3>2. CASE caller[d].id = i /\ caller[d].pc \notin {"idle", "insert"}
      <4>1. row[i] # NoRow
        BY <3>1, <3>2, SMT DEF EntryFits, NoRow, Tables, KeyedTables, Call
      <4>2. EntryFits(caller[d])'
        BY <1>1, <3>1, <3>2, <4>1, SMT DEF EntryFits, RemovedRow, NoRow
      <4>3. i # Null => i \in clashed
        BY <2>2, <3>2, <4>1 DEF RegInv, OneCaller
      <4>4. i # Null
        BY RegistryAssumption
      <4>5. QED
        BY <1>1, <3>1, <3>2, <4>2, <4>3, <4>4 DEF EditFits
    <3>3. CASE caller[d].id # i \/ caller[d].pc \in {"idle", "insert"}
      BY <1>1, <3>1, <3>3, SMT DEF EntryFits, EditFits
    <3>4. QED
      BY <3>2, <3>3
  <2>3. QED
    BY <2>1, <2>2
<1>5. OneCaller'
  BY <1>1, SMT DEF RegInv, RegTypeOK, OneCaller, NoCall
<1>6. RemovedIsBlank' /\ KeysAreUnique'
  BY <1>1, SMT DEF RegInv, RemovedIsBlank, KeysAreUnique
<1>7. EditsStay'
  BY <1>1, SMT DEF RegInv, EditsStay
<1>8. QED
  BY <1>3, <1>4, <1>5, <1>6, <1>7 DEF RegInv

(* The call ends and writes nothing. *)
LEMMA AnsweredInv ==
  ASSUME RegInv, NEW c \in Callers, Answered(c), RowsOnly, UNCHANGED <<row, said>>
  PROVE  RegInv'
<1>1. /\ apiKey' = apiKey /\ touching' = touching /\ writes' = writes /\ clashed' = clashed
      /\ row' = row /\ said' = said /\ caller' = [caller EXCEPT ![c] = NoCall]
  BY DEF RowsOnly, Answered
<1>2. NoCall \in Call
  BY BlankIsCols, Zenon DEF NoCall, NoRow, Call, Stored
<1>3. RegTypeOK'
  BY <1>1, <1>2, SMT DEF RegInv, RegTypeOK
<1>4. EntriesFit' /\ OneCaller'
  BY <1>1, SMT DEF RegInv, RegTypeOK, EntriesFit, EntryFits, EditFits, OneCaller, NoCall
<1>5. RemovedIsBlank' /\ KeysAreUnique' /\ EditsStay'
  BY <1>1, SMT DEF RegInv, RemovedIsBlank, KeysAreUnique, EditsStay
<1>6. QED
  BY <1>3, <1>4, <1>5 DEF RegInv

LEMMA InsertRowInv ==
  ASSUME RegInv, NEW c \in Callers, InsertRow(c)
  PROVE  RegInv'
<1> DEFINE call == caller[c]
           new == [table |-> call.table, key |-> call.key, cols |-> call.patch]
<1>1. EntryFits(call) /\ call.pc = "insert" /\ call \in Call
  BY DEF RegInv, RegTypeOK, EntriesFit, InsertRow
<1>2. /\ call.table \in Tables /\ call.patch \in Cols /\ call.given \in Cols
      /\ HoldsAll(call.table, call.patch, call.given)
      /\ call.key \in Keys \cup {Null}
  BY <1>1 DEF EntryFits
<1>3. new \in Stored /\ new.table \in Tables /\ new.cols = call.patch /\ new.key = call.key /\ new.table = call.table
  BY <1>2 DEF Stored
<1>4. Answered(c) /\ RowsOnly
  BY DEF InsertRow
<1>5. CASE UNCHANGED <<row, said>>
  BY <1>4, <1>5, AnsweredInv
<1>6. CASE /\ call.key = Null \/ FindByKey(call.table, call.key) = {}
           /\ \E i \in RowIds : /\ row[i] = NoRow /\ row' = [row EXCEPT ![i] = new]
                                /\ said' = [said EXCEPT ![i] = call.given]
  <2>1. PICK i \in RowIds : /\ row[i] = NoRow /\ row' = [row EXCEPT ![i] = new]
                            /\ said' = [said EXCEPT ![i] = call.given]
    BY <1>6
  <2>2. new.key # Null => \A j \in RowIds \ {i} : row[j].table # new.table \/ row[j].key # new.key
    BY <1>3, <1>6 DEF FindByKey
  <2>3. "removed" \notin Tables
    BY DEF Tables, KeyedTables
  <2> HIDE DEF new
  <2>4. QED
    BY <1>2, <1>3, <1>4, <2>1, <2>2, <2>3, WriteInv DEF Answered
<1>7. QED
  BY <1>5, <1>6, Zenon DEF InsertRow

LEMMA LoadRowInv ==
  ASSUME RegInv, NEW c \in Callers, LoadRow(c)
  PROVE  RegInv'
<1> DEFINE call == [caller[c] EXCEPT !.pc = "save", !.loaded = row[caller[c].id]]
<1>1. EntryFits(caller[c]) /\ EditFits(caller[c]) /\ caller[c].pc = "load" /\ caller[c] \in Call
  BY DEF RegInv, RegTypeOK, EntriesFit, LoadRow
<1>2. row[caller[c].id] \in Stored
  BY <1>1 DEF RegInv, RegTypeOK, EntryFits
<1>3. call \in Call
  BY <1>1, <1>2, Zenon DEF Call
<1>4. /\ call.pc = "save" /\ call.loaded = row[caller[c].id] /\ call.id = caller[c].id
      /\ call.table = caller[c].table /\ call.patch = caller[c].patch /\ call.given = caller[c].given
  BY <1>1, SMT DEF Call
<1>5. /\ caller' = [caller EXCEPT ![c] = call]
      /\ row' = row /\ said' = said /\ apiKey' = apiKey /\ touching' = touching /\ writes' = writes
      /\ clashed' = clashed
  BY DEF LoadRow, RowsOnly, RegInv, RegTypeOK
<1> HIDE DEF call
<1>6. RegTypeOK'
  BY <1>3, <1>5, SMT DEF RegInv, RegTypeOK
<1>7. EntryFits(call) /\ EditFits(call)
  BY <1>1, <1>4, SMT DEF EntryFits, EditFits
<1>8. EntriesFit' /\ OneCaller'
  BY <1>4, <1>5, <1>7, SMT DEF RegInv, RegTypeOK, EntriesFit, EntryFits, EditFits, OneCaller
<1>9. RemovedIsBlank' /\ KeysAreUnique' /\ EditsStay'
  BY <1>5, SMT DEF RegInv, RemovedIsBlank, KeysAreUnique, EditsStay
<1>10. QED
  BY <1>6, <1>8, <1>9 DEF RegInv

LEMMA SaveWholeRowInv ==
  ASSUME RegInv, NEW c \in Callers, SaveWholeRow(c)
  PROVE  RegInv'
<1> DEFINE call == caller[c]
           i == call.id
           key == IF call.key = Keep THEN call.loaded.key ELSE call.key
           cols == Assign(call.loaded.cols, call.patch)
           new == [row[i] EXCEPT !.key = key, !.cols = cols]
           asked == Assign(said[i], call.given)
<1>1. EntryFits(call) /\ EditFits(call) /\ call.pc = "save" /\ call \in Call
  BY DEF RegInv, RegTypeOK, EntriesFit, SaveWholeRow
<1>2. /\ i \in RowIds /\ call.table \in Tables \ {"account"} /\ row[i].table = call.table
      /\ row[i] \in Stored /\ said[i] \in Cols
  BY <1>1 DEF EntryFits, RegInv, RegTypeOK
<1>3. /\ call.loaded.key \in Keys \cup {Null} /\ call.loaded.cols \in Cols
      /\ call.key \in Keys \cup {Null, Keep} /\ call.patch \in Patch /\ call.given \in Patch
  BY <1>1, SMT DEF Call, Stored
<1>4. key \in Keys \cup {Null} /\ cols \in Cols /\ asked \in Cols
  BY <1>2, <1>3, AssignType
<1>5. Answered(c) /\ RowsOnly
  BY DEF SaveWholeRow
<1>6. CASE UNCHANGED <<row, said>>
  BY <1>5, <1>6, AnsweredInv
<1>7. CASE /\ key = Null \/ FindByKey(call.table, key) \ {i} = {}
           /\ row' = [row EXCEPT ![i] = new]
           /\ said' = [said EXCEPT ![i] = asked]
  <2>1. row' = [row EXCEPT ![i] = new] /\ said' = [said EXCEPT ![i] = asked] /\ caller[c].id = i
    BY <1>7
  <2>2. i \notin clashed => HoldsAll(call.table, cols, asked)
    BY <1>1 DEF EditFits
  <2>3. key # Null => \A j \in RowIds \ {i} : row[j].table # call.table \/ row[j].key # key
    BY <1>7 DEF FindByKey
  <2> HIDE DEF key, cols, asked
  <2>4. new \in Stored
    BY <1>2, <1>4, Zenon DEF Stored
  <2>5. new.table = call.table /\ new.key = key /\ new.cols = cols
    BY <1>2, SMT DEF Stored
  <2>6. call.table \notin {"removed", "none", "account"} /\ row[i] # NoRow
    BY <1>2, SMT DEF Tables, KeyedTables, NoRow
  <2> HIDE DEF new, i, call
  <2>7. QED
    BY <1>2, <1>4, <1>5, <2>1, <2>2, <2>3, <2>4, <2>5, <2>6, WriteInv DEF Answered
<1>8. QED
  BY <1>6, <1>7, Zenon DEF SaveWholeRow

LEMMA UpdateColumnsInv ==
  ASSUME RegInv, NEW c \in Callers, UpdateColumns(c)
  PROVE  RegInv'
<1> DEFINE call == caller[c]
           i == call.id
           cols == Assign(row[i].cols, call.patch)
           new == [row[i] EXCEPT !.cols = cols]
           asked == Assign(said[i], call.given)
<1>1. EntryFits(call) /\ call.pc = "update" /\ call \in Call
  BY DEF RegInv, RegTypeOK, EntriesFit, UpdateColumns
<1>2. /\ i \in RowIds /\ row[i].table \in {"account", "removed"} /\ call.given = call.patch
      /\ row[i] \in Stored /\ said[i] \in Cols
  BY <1>1 DEF EntryFits, RegInv, RegTypeOK
<1>3. row[i].cols \in Cols /\ call.patch \in Patch
  BY <1>1, <1>2, SMT DEF Call, Stored
<1>4. cols \in Cols /\ asked \in Cols
  BY <1>2, <1>3, AssignType
<1>5. Answered(c) /\ RowsOnly
  BY DEF UpdateColumns
<1>6. CASE row[i] = RemovedRow
  <2>1. UNCHANGED <<row, said>>
    BY <1>6 DEF UpdateColumns
  <2>2. QED
    BY <1>5, <2>1, AnsweredInv
<1>7. CASE row[i] # RemovedRow
  <2>1. row[i].table = "account"
    BY <1>2, <1>7 DEF RegInv, RemovedIsBlank
  <2>2. HoldsAll("account", cols, asked)
    BY <1>2, <1>3, <2>1, SameAssignHolds, Zenon DEF RegInv, EditsStay, Tables
  <2>3. row' = [row EXCEPT ![i] = new] /\ said' = [said EXCEPT ![i] = asked]
    BY <1>2, <1>7 DEF UpdateColumns, RegInv, RegTypeOK
  <2> HIDE DEF cols, asked
  <2>4. new \in Stored
    BY <1>2, <1>4, Zenon DEF Stored
  <2>5. new.table = "account" /\ new.key = row[i].key /\ new.cols = cols
    BY <1>2, <2>1, SMT DEF Stored
  <2>6. row[i] # NoRow
    BY <2>1, SMT DEF NoRow
  <2>7. new.key # Null => \A j \in RowIds \ {i} : row[j].table # new.table \/ row[j].key # new.key
    BY <1>2, <2>1, <2>5 DEF RegInv, KeysAreUnique
  <2> HIDE DEF new
  <2>8. QED
    BY <1>2, <1>4, <1>5, <2>1, <2>2, <2>3, <2>4, <2>5, <2>6, <2>7, WriteInv DEF Answered
<1>8. QED
  BY <1>6, <1>7

LEMMA DeleteRowInv ==
  ASSUME RegInv, NEW c \in Callers, DeleteRow(c)
  PROVE  RegInv'
<1> DEFINE i == caller[c].id
<1>1. EntryFits(caller[c]) /\ caller[c].pc = "delete"
  BY DEF RegInv, EntriesFit, DeleteRow
<1>2. i \in RowIds /\ row[i].table \in {"account", "removed"} /\ said[i] \in Cols
  BY <1>1 DEF EntryFits, RegInv, RegTypeOK
<1>3. RemovedRow \in Stored
  BY BlankIsCols, Zenon DEF RemovedRow, NoRow, Stored
<1>4. RemovedRow.table = "removed" /\ RemovedRow.key = Null /\ "removed" \notin Tables
  BY SMT DEF RemovedRow, NoRow, Tables, KeyedTables
<1>5. row[i] # NoRow
  BY <1>2, SMT DEF NoRow
<1>6. said' = [said EXCEPT ![i] = said[i]]
  BY <1>2 DEF DeleteRow, RegInv, RegTypeOK
<1>7. row' = [row EXCEPT ![i] = RemovedRow] /\ Answered(c) /\ RowsOnly
  BY DEF DeleteRow
<1> HIDE DEF i
<1>8. QED
  BY <1>2, <1>3, <1>4, <1>5, <1>6, <1>7, WriteInv DEF Answered, i

(* A key's marks change, and nothing else does. *)
LEMMA ApiKeyInv ==
  ASSUME RegInv, NEW k \in ApiKeys,
         \/ \E i \in RowIds : CreateApiKey(k, i)
         \/ RevokeApiKey(k) \/ CanActivate(k) \/ TouchApiKey(k)
  PROVE  RegInv'
<1>1. KeysOnly
  BY DEF CreateApiKey, RevokeApiKey, CanActivate, TouchApiKey
<1>2. apiKey' \in [ApiKeys -> Key]
  BY Zenon DEF RegInv, RegTypeOK, Key, CreateApiKey, RevokeApiKey, CanActivate, TouchApiKey
<1>3. touching' \subseteq {l \in ApiKeys : apiKey'[l].app # Null}
  BY RegistryAssumption, SMT
     DEF RegInv, RegTypeOK, Key, CreateApiKey, RevokeApiKey, CanActivate, TouchApiKey
<1>4. RegTypeOK'
  BY <1>1, <1>2, <1>3, SMT DEF RegInv, RegTypeOK, KeysOnly
<1>5. EntriesFit' /\ OneCaller' /\ RemovedIsBlank' /\ KeysAreUnique' /\ EditsStay'
  BY <1>1, SMT DEF KeysOnly, RegInv, EntriesFit, EntryFits, EditFits, OneCaller, RemovedIsBlank, KeysAreUnique, EditsStay
<1>6. QED
  BY <1>4, <1>5 DEF RegInv

LEMMA RegNextInv == RegInv /\ [RegNext]_regVars => RegInv'
<1> SUFFICES ASSUME RegInv, [RegNext]_regVars PROVE RegInv'
  OBVIOUS
<1>1. CASE RegNext
  BY <1>1, ReceiveInv, InsertRowInv, LoadRowInv, SaveWholeRowInv, UpdateColumnsInv, DeleteRowInv, ApiKeyInv
     DEF RegNext, Finish
<1>2. CASE UNCHANGED regVars
  BY <1>2, SMT
     DEF regVars, RegInv, RegTypeOK, EntriesFit, EntryFits, EditFits, OneCaller, RemovedIsBlank, KeysAreUnique, EditsStay
<1>3. QED
  BY <1>1, <1>2

-----------------------------------------------------------------------------
LEMMA ReceiveFrame ==
  ASSUME NEW c \in Callers, Receive(c)
  PROVE  UNCHANGED <<row, apiKey, touching>>
<1>1. ASSUME NEW call, Serve(c, call)
      PROVE  UNCHANGED <<row, apiKey, touching>>
  BY <1>1 DEF Serve
<1>2. \E call : Serve(c, call)
  BY Zenon DEF Receive, UpsertCustomer, CreateProduct, CreateApplication, CreateRow, CreateWebhookEndpoint,
     CreateAccount, UpdateAccount, UpdateWebhookEndpoint, UpdateProduct, UpdateApplication, UpdateById, RemoveAccount
<1>3. QED
  BY <1>1, <1>2

LEMMA FinishFrame ==
  ASSUME NEW c \in Callers, Finish(c)
  PROVE  UNCHANGED <<apiKey, touching>>
BY DEF Finish, InsertRow, LoadRow, SaveWholeRow, UpdateColumns, DeleteRow, RowsOnly

(* The invariant holds of every behaviour of the registry. *)
THEOREM RegInvariance == RegSpec => []RegInv
<1>1. QED
  BY RegInitInv, RegNextInv, PTL DEF RegSpec

(* Every state of the registry is well typed. *)
THEOREM RegTypeCorrect == RegSpec => []RegTypeOK
<1>1. RegInv => RegTypeOK
  BY DEF RegInv
<1>2. QED
  BY <1>1, RegInvariance, PTL

(* No two customers share an email in a country, no two products a sku, no two   *)
(* applications a slug, whatever creates, upserts and renames race.                *)
THEOREM KeysStayUnique == RegSpec => []KeysAreUnique
<1>1. RegInv => KeysAreUnique
  BY DEF RegInv
<1>2. QED
  BY <1>1, RegInvariance, PTL

(* What was last given for a column is what the row holds, always for a receiving  *)
(* account, and for a row saved whole unless two calls worked on it at once; but a    *)
(* null given for a customer or an application changes nothing, and an application     *)
(* is live again after an update that does not give its mode.                          *)
THEOREM NoEditIsLost == RegSpec => []EditsStay
<1>1. RegInv => EditsStay
  BY DEF RegInv
<1>2. QED
  BY <1>1, RegInvariance, PTL

(* A revoked API key stays revoked, whatever the requests it admitted still write. *)
THEOREM RevokedForGood == RegSpec => RevokedStaysRevoked
<1>1. ASSUME RegInv, [RegNext]_regVars
      PROVE  \A k \in ApiKeys : apiKey[k].revoked => apiKey'[k].revoked
  <2>1. CASE UNCHANGED apiKey
    BY <2>1
  <2>2. CASE \E k \in ApiKeys : (\E i \in RowIds : CreateApiKey(k, i)) \/ RevokeApiKey(k)
    BY <1>1, <2>2, SMT DEF RegInv, RegTypeOK, Key, CreateApiKey, RevokeApiKey
  <2>3. QED
    BY <1>1, <2>1, <2>2, ReceiveFrame, FinishFrame DEF RegNext, regVars, CanActivate, TouchApiKey
<1>2. RegInv /\ [RegNext]_regVars => [\A k \in ApiKeys : apiKey[k].revoked => apiKey'[k].revoked]_regVars
  BY <1>1
<1>3. QED
  BY <1>2, RegInvariance, PTL DEF RegSpec, RevokedStaysRevoked

(* A removed receiving account is not brought back by an update that found it.     *)
THEOREM RemovedForGood == RegSpec => RemovedStaysRemoved
<1>1. ASSUME RegInv, [RegNext]_regVars, NEW i \in RowIds, row[i] = RemovedRow
      PROVE  row'[i] = RemovedRow
  <2>1. RemovedRow # NoRow /\ RemovedRow.table \notin Tables
    BY SMT DEF RemovedRow, NoRow, Tables, KeyedTables
  <2>2. CASE UNCHANGED row
    BY <1>1, <2>2
  <2>3. ASSUME NEW c \in Callers, Finish(c)
        PROVE  row'[i] = RemovedRow
    <3>1. EntryFits(caller[c])
      BY <1>1 DEF RegInv, EntriesFit
    <3>2. CASE InsertRow(c)
      BY <1>1, <2>1, <3>2 DEF InsertRow, RegInv, RegTypeOK
    <3>3. CASE SaveWholeRow(c)
      <4>1. caller[c].id # i
        BY <1>1, <2>1, <3>1, <3>3 DEF EntryFits, SaveWholeRow
      <4>2. row'[i] = row[i]
        BY <1>1, <3>3, <4>1, SMT DEF SaveWholeRow, RegInv, RegTypeOK
      <4>3. QED
        BY <1>1, <4>2
    <3>4. CASE UpdateColumns(c)
      BY <1>1, <3>4, SMT DEF UpdateColumns, RegInv, RegTypeOK
    <3>5. CASE DeleteRow(c)
      BY <1>1, <3>5 DEF DeleteRow, RegInv, RegTypeOK
    <3>6. QED
      BY <1>1, <2>3, <3>2, <3>3, <3>4, <3>5 DEF Finish, LoadRow
  <2>4. QED
    BY <1>1, <2>2, <2>3, ReceiveFrame
       DEF RegNext, regVars, CreateApiKey, RevokeApiKey, CanActivate, TouchApiKey, KeysOnly
<1>2. RegInv /\ [RegNext]_regVars => [\A i \in RowIds : row[i] = RemovedRow => row'[i] = RemovedRow]_regVars
  BY <1>1
<1>3. QED
  BY <1>2, RegInvariance, PTL DEF RegSpec, RemovedStaysRemoved

-----------------------------------------------------------------------------
(* Both together: each is a run of its own, in which the other's steps are idle. *)
LEMMA OfficeIsBoth == OfficeSpec => Spec /\ RegSpec
<1>1. OfficeInit => Init /\ RegInit
  BY DEF OfficeInit
<1>2. [OfficeNext]_<<vars, regVars>> => [Next]_vars /\ [RegNext]_regVars
  BY DEF OfficeNext
<1> QED
  BY <1>1, <1>2, PTL DEF OfficeSpec, Spec, RegSpec

(* Every state of the back office is typed; no two accounts share an address and  *)
(* no two customers, products or applications a key.                                *)
THEOREM OfficeTypes == OfficeSpec => []OfficeTypeOK
<1> QED
  BY OfficeIsBoth, AccTypeCorrect, AddressesStayUnique, RegTypeCorrect, KeysStayUnique, PTL DEF OfficeTypeOK

(* What was put away stays away, however the calls under way end.                  *)
THEOREM GoneForGood == OfficeSpec => GoneStaysGone
<1> QED
  BY OfficeIsBoth, DeletedForGood, RevokedForGood, RemovedForGood, PTL DEF GoneStaysGone
=============================================================================
