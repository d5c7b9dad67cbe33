------------------------------ MODULE Accounts ------------------------------
(***************************************************************************)
(* AuthService, UsersService and SessionService: accounts, the sessions     *)
(* opened on them, and the mailed links that confirm or reset them.          *)
(*                                                                           *)
(* A handler advances from one await to the next; lookups in a row that do not *)
(* depend on one another are one step.  A save writes the columns that are      *)
(* defined, deletedAt of the entity read among them, over the row as it is then: *)
(* TypeORM finds it deleted or not.                                              *)
(*                                                                           *)
(* bcrypt is an injective function of a password; a stored hash taken for a   *)
(* password and hashed again is Garbled.  Every chosen password is a new one.  *)
(***************************************************************************)
EXTENDS Integers, FiniteSets

CONSTANTS
  Users,      \* ids of the user table
  Emails, Passwords,
  Socials,    \* identities of a social provider
  Sessions,   \* ids of the session table
  Requests,   \* HTTP requests being served, on all replicas
  MaxHash,    \* bound: refresh hashes drawn
  MaxCalls,   \* bound: calls served
  Given,      \* statuses an administrator gives
  None        \* NULL or undefined

Garbled == "garbled"

ASSUME AccountsAssumption ==
  /\ MaxHash \in Nat /\ MaxCalls \in Nat /\ Given \subseteq {"unset", "inactive", "active"}
  /\ None \notin Users \cup Emails \cup Passwords \cup Socials \cup Sessions \cup {Garbled, "keep"}
  /\ Garbled \notin Passwords /\ "keep" \notin Emails

VARIABLES
  user,       \* user[u]: the row
  session,    \* session[s]: the row
  links,      \* confirmation links mailed: [user, email]; NULL email at sign-up
  resets,     \* users to whom a link to reset the password was mailed
  tokens,     \* refresh tokens handed out: <<session, hash>>
  request,    \* request[r]: the handler r runs
  drawn,      \* refresh hashes drawn so far
  calls,      \* calls served so far
  spent,      \* history: tokens replaced by a rotation
  chosen,     \* history: chosen[u]: the password last saved for u
  used,       \* history: passwords chosen so far
  kept,       \* history: sessions a change of password keeps
  contended   \* history: users on whom two calls worked at once

vars == <<user, session, links, resets, tokens, request, drawn, calls,
          spent, chosen, used, kept, contended>>

-----------------------------------------------------------------------------
User == [status : {"none", "unset", "inactive", "active"}, deleted : BOOLEAN, email : Emails \cup {None},
         password : Passwords \cup {None, Garbled}, social : Socials \cup {None}]
NoUser == [status |-> "none", deleted |-> FALSE, email |-> None, password |-> None, social |-> None]

Session == [user : Users \cup {None}, hash : 0..MaxHash, live : BOOLEAN,
            opened : Passwords \cup {None, Garbled}]
NoSession == [user |-> None, hash |-> 0, live |-> FALSE, opened |-> None]

Link == [user : Users, email : Emails \cup {None}]

(* "keep" and a None password are undefined.  `hashed` tells a password read     *)
(* from the row from one typed by a client; `session` is the caller's, `then`     *)
(* what follows the write of the user.                                            *)
Request == [pc : {"idle", "insert", "revoke", "mail", "check", "merge", "save", "open",
                  "read", "find", "rotate"},
            user : Users \cup {None}, session : Sessions \cup {None},
            email : Emails \cup {None, "keep"}, password : Passwords \cup {None, Garbled},
            hashed : BOOLEAN, status : {"keep", "unset", "inactive", "active"},
            social : Socials \cup {None},
            then : {"end", "mail", "open"}, admin : BOOLEAN]
Idle == [pc |-> "idle", user |-> None, session |-> None, email |-> "keep", password |-> None,
         hashed |-> FALSE, status |-> "keep", social |-> None,
         then |-> "end", admin |-> FALSE]

Live(u) == user[u].status # "none" /\ ~user[u].deleted

FindByEmail(e) == {u \in Users : Live(u) /\ e # None /\ user[u].email = e}

(* The unique constraint knows the deleted rows too. *)
EmailTaken(e, u) == e # None /\ \E v \in Users \ {u} : user[v].status # "none" /\ user[v].email = e

Working(u) == \E r \in Requests : request[r].user = u
Contend(u) == contended' = IF Working(u) THEN contended \cup {u} ELSE contended

Return(r) == request' = [request EXCEPT ![r] = Idle]
Goto(r, pc) == request' = [request EXCEPT ![r].pc = pc]
Count == calls < MaxCalls /\ calls' = calls + 1
Begin(r, call) == Count /\ request[r] = Idle /\ request' = [request EXCEPT ![r] = call]

history == <<spent, chosen, kept>>

(* A handler that hands the whole user it read to UsersService.update. *)
WholeUser(u) == [Idle EXCEPT !.user = u, !.pc = "check", !.email = user[u].email,
                             !.password = user[u].password, !.hashed = user[u].password # None,
                             !.status = IF user[u].status = "unset" THEN "keep" ELSE user[u].status]

-----------------------------------------------------------------------------
(* UsersService.create *)

Create(r, call) ==
  /\ FindByEmail(call.email) = {}
  /\ Begin(r, call)
  /\ call.password \notin used
  /\ used' = used \cup ({call.password} \ {None})
  /\ UNCHANGED <<user, session, links, resets, tokens, drawn, history, contended>>

Register(r, e, p) ==
  Create(r, [Idle EXCEPT !.pc = "insert", !.email = e, !.password = p, !.status = "inactive", !.then = "mail"])

CreateByAdmin(r, e, p, status) ==
  Create(r, [Idle EXCEPT !.pc = "insert", !.email = e, !.password = p, !.status = status])

(* The row, the link mailed at sign-up, and the session of a social sign-up. *)
InsertUser(r) ==
  /\ request[r].pc = "insert"
  /\ LET c == request[r]
     IN  IF EmailTaken(c.email, None)
         THEN Return(r) /\ UNCHANGED <<user, chosen, links>>
         ELSE \E u \in Users :
                /\ user[u] = NoUser
                /\ user' = [user EXCEPT ![u] = [NoUser EXCEPT !.status = c.status, !.email = c.email,
                                                 !.password = c.password, !.social = c.social]]
                /\ chosen' = [chosen EXCEPT ![u] = c.password]
                /\ links' = IF c.then = "mail" THEN links \cup {[user |-> u, email |-> None]} ELSE links
                /\ request' = [request EXCEPT ![r] =
                     IF c.then = "open" THEN [Idle EXCEPT !.pc = "read", !.user = u] ELSE Idle]
  /\ UNCHANGED <<calls, session, resets, tokens, drawn, spent, used, kept, contended>>

-----------------------------------------------------------------------------
(* UsersService.update *)

(* Mutation: the password is hashed whenever there is one. *)
CheckHashesAlways(r) ==
  /\ request[r].pc = "check"
  /\ LET c == request[r]
     IN  IF FindByEmail(c.email) \ {c.user} # {}
         THEN Return(r)
         ELSE request' = [request EXCEPT ![r].pc = "merge",
                            ![r].password = IF c.hashed THEN Garbled ELSE c.password]
  /\ UNCHANGED <<calls, user, session, links, resets, tokens, drawn, history, used, contended>>

(* A password equal to the stored hash is left alone, any other one is hashed; *)
(* the address must be nobody else's.                                            *)
CheckPayload(r) ==
  /\ request[r].pc = "check"
  /\ LET c == request[r]
         password == IF c.password = None \/ ~Live(c.user) THEN None
                     ELSE IF ~c.hashed THEN c.password
                     ELSE IF c.password = user[c.user].password THEN None
                     ELSE Garbled
     IN  IF FindByEmail(c.email) \ {c.user} # {}
         THEN Return(r)
         ELSE request' = [request EXCEPT ![r].pc = "merge", ![r].password = password,
                                         ![r].hashed = FALSE]
  /\ UNCHANGED <<calls, user, session, links, resets, tokens, drawn, history, used, contended>>

(* UserRepository.update: the row is read, the payload laid over it... *)
MergeRow(r) ==
  /\ request[r].pc = "merge"
  /\ IF Live(request[r].user) THEN Goto(r, "save") ELSE Return(r)
  /\ UNCHANGED <<user, session, links, resets, tokens, drawn, calls, history, used, contended>>

(* ... and saved, unless the address is taken: what is undefined is not written, *)
(* deletedAt is, as it was read.                                                   *)
SaveUser(r) ==
  /\ request[r].pc = "save"
  /\ LET c == request[r]
         mine == {s \in Sessions : session[s].user = c.user}
     IN  IF c.email # "keep" /\ EmailTaken(c.email, c.user)
         THEN Return(r) /\ UNCHANGED <<user, chosen, kept>>
         ELSE /\ user' = [user EXCEPT
                   ![c.user].deleted  = FALSE,
                   ![c.user].email    = IF c.email = "keep" THEN @ ELSE c.email,
                   ![c.user].password = IF c.password = None THEN @ ELSE c.password,
                   ![c.user].status   = IF c.status = "keep" THEN @ ELSE c.status]
              /\ IF c.password \in Passwords
                 THEN /\ chosen' = [chosen EXCEPT ![c.user] = c.password]
                      /\ kept' = kept \cup (IF c.admin THEN mine ELSE {c.session} \ {None})
                 ELSE UNCHANGED <<chosen, kept>>
              /\ request' = [request EXCEPT ![r] =
                   IF c.then = "open" THEN [Idle EXCEPT !.pc = "open", !.user = c.user] ELSE Idle]
  /\ UNCHANGED <<calls, session, links, resets, tokens, drawn, spent, used, contended>>

-----------------------------------------------------------------------------
(* The links *)

(* Only an inactive user is confirmed; the address in the link is not used. *)
ConfirmEmail(r, link) ==
  /\ Live(link.user) /\ user[link.user].status = "inactive"
  /\ Begin(r, [WholeUser(link.user) EXCEPT !.status = "active"])
  /\ Contend(link.user)
  /\ UNCHANGED <<user, session, links, resets, tokens, drawn, history, used>>

(* A link without an address keeps the one the user has. *)
ConfirmNewEmail(r, link) ==
  /\ Live(link.user)
  /\ Begin(r, [WholeUser(link.user) EXCEPT !.status = "active",
                 !.email = IF link.email = None THEN "keep" ELSE link.email])
  /\ Contend(link.user)
  /\ UNCHANGED <<user, session, links, resets, tokens, drawn, history, used>>

ForgotPassword(e) ==
  /\ Count /\ FindByEmail(e) # {}
  /\ resets' = resets \cup FindByEmail(e)
  /\ UNCHANGED <<user, session, links, tokens, request, drawn, history, used, contended>>

ResetPassword(r, u, p) ==
  /\ u \in resets /\ Live(u) /\ p \notin used
  /\ Begin(r, [WholeUser(u) EXCEPT !.pc = "revoke", !.password = p, !.hashed = FALSE])
  /\ used' = used \cup {p}
  /\ Contend(u)
  /\ UNCHANGED <<user, session, links, resets, tokens, drawn, history>>

-----------------------------------------------------------------------------
(* AuthService.update, and the administrator's *)

(* The access token names a session that may be gone.  The old password was    *)
(* compared if there is a new one.                                               *)
UpdateMe(r, s, p, e) ==
  LET u == session[s].user
  IN  /\ u # None /\ Live(u)
      /\ p # None => user[u].password \in Passwords /\ p \notin used
      /\ Begin(r, [Idle EXCEPT !.user = u, !.session = s, !.password = p, !.email = e,
                               !.pc = IF p # None THEN "revoke" ELSE "mail"])
      /\ used' = used \cup ({p} \ {None})
      /\ Contend(u)
      /\ UNCHANGED <<user, session, links, resets, tokens, drawn, history>>

(* Mutation: only the caller's session is deleted. *)
RevokeCaller(r) ==
  /\ request[r].pc = "revoke"
  /\ session' = [s \in Sessions |->
                   IF s = request[r].session THEN [session[s] EXCEPT !.live = FALSE] ELSE session[s]]
  /\ Goto(r, IF request[r].session = None THEN "check" ELSE "mail")
  /\ UNCHANGED <<calls, user, links, resets, tokens, drawn, history, used, contended>>

(* The sessions of the user, but for the caller's, are deleted first. *)
RevokeSessions(r) ==
  /\ request[r].pc = "revoke"
  /\ LET c == request[r]
     IN  /\ session' = [s \in Sessions |-> IF session[s].user = c.user /\ s # c.session
                                           THEN [session[s] EXCEPT !.live = FALSE] ELSE session[s]]
         /\ Goto(r, IF c.session = None THEN "check" ELSE "mail")
  /\ UNCHANGED <<calls, user, links, resets, tokens, drawn, history, used, contended>>

(* A new address is mailed a link and is not saved. *)
MailNewEmail(r) ==
  /\ request[r].pc = "mail"
  /\ LET c == request[r]
         new == c.email # "keep" /\ c.email # user[c.user].email
     IN  IF new /\ FindByEmail(c.email) \ {c.user} # {}
         THEN Return(r) /\ UNCHANGED links
         ELSE /\ links' = IF new THEN links \cup {[user |-> c.user, email |-> c.email]} ELSE links
              /\ request' = [request EXCEPT ![r].pc = "check", ![r].email = "keep"]
  /\ UNCHANGED <<calls, user, session, resets, tokens, drawn, history, used, contended>>

(* A null address does not get here: the DTO's transformer makes it undefined. *)
UpdateByAdmin(r, u, p, e, status) ==
  /\ user[u].status # "none" /\ p \notin used
  /\ Begin(r, [Idle EXCEPT !.user = u, !.password = p, !.email = e, !.status = status,
                           !.pc = "check", !.admin = TRUE])
  /\ used' = used \cup ({p} \ {None})
  /\ Contend(u)
  /\ UNCHANGED <<user, session, links, resets, tokens, drawn, history>>

(* The user, or an administrator, soft-deletes the account; its sessions stay. *)
Remove(u) ==
  /\ Count /\ user[u].status # "none"
  /\ user' = [user EXCEPT ![u].deleted = TRUE]
  /\ Contend(u)
  /\ UNCHANGED <<session, links, resets, tokens, request, drawn, history, used>>

-----------------------------------------------------------------------------
(* Sessions *)

(* The password is compared with the one read; the status is not looked at. *)
Login(r, e, p) ==
  \E u \in FindByEmail(e) :
    /\ user[u].social = None /\ user[u].password = p
    /\ Begin(r, [Idle EXCEPT !.user = u, !.pc = "open", !.password = p])
    /\ Contend(u)
    /\ UNCHANGED <<user, session, links, resets, tokens, drawn, history, used>>

(* A known identity is updated, with the profile's address if nobody has it;  *)
(* else the owner of the address logs in, or the identity signs up.             *)
SocialLogin(r, x, e) ==
  LET known == {u \in Users : Live(u) /\ user[u].social = x}
      owner == FindByEmail(e)
  IN  /\ \/ \E u \in known :
              /\ Begin(r, [WholeUser(u) EXCEPT !.then = "open",
                             !.email = IF e # None /\ owner = {} THEN e ELSE @])
              /\ Contend(u)
         \/ known = {} /\ \E u \in owner :
              /\ Begin(r, [Idle EXCEPT !.user = u, !.pc = "open"])
              /\ Contend(u)
         \/ /\ known = {} /\ owner = {}
            /\ Begin(r, [Idle EXCEPT !.pc = "insert", !.email = e, !.social = x,
                                     !.status = "active", !.then = "open"])
            /\ UNCHANGED contended
      /\ UNCHANGED <<user, session, links, resets, tokens, drawn, history, used>>

OpenSession(r) ==
  /\ request[r].pc = "open" /\ drawn < MaxHash
  /\ \E s \in Sessions :
       /\ session[s] = NoSession
       /\ session' = [session EXCEPT ![s] = [user |-> request[r].user, hash |-> drawn + 1,
                                             live |-> TRUE, opened |-> request[r].password]]
       /\ tokens' = tokens \cup {<<s, drawn + 1>>}
  /\ drawn' = drawn + 1
  /\ Return(r)
  /\ UNCHANGED <<calls, user, links, resets, history, used, contended>>

(* refreshToken finds the session with its user, and compares the hash... *)
Refresh(r, s, hash) ==
  /\ session[s].live /\ Live(session[s].user) /\ session[s].hash = hash
  /\ Begin(r, [Idle EXCEPT !.user = session[s].user, !.session = s, !.pc = "read"])
  /\ Contend(session[s].user)
  /\ UNCHANGED <<user, session, links, resets, tokens, drawn, history, used>>

(* ... finds the user, finds the session again...  (A social sign-up also finds  *)
(* the user it inserted.)                                                          *)
ReadUser(r) ==
  /\ request[r].pc = "read"
  /\ IF Live(request[r].user)
     THEN Goto(r, IF request[r].session = None THEN "open" ELSE "find")
     ELSE Return(r)
  /\ UNCHANGED <<calls, user, session, links, resets, tokens, drawn, history, used, contended>>

FindSession(r) ==
  /\ request[r].pc = "find"
  /\ IF session[request[r].session].live /\ Live(request[r].user) THEN Goto(r, "rotate") ELSE Return(r)
  /\ UNCHANGED <<calls, user, session, links, resets, tokens, drawn, history, used, contended>>

(* Mutation: the row read is merged over the new hash. *)
RotateKeepsHash(r) ==
  /\ request[r].pc = "rotate" /\ drawn < MaxHash
  /\ LET s == request[r].session
     IN  /\ session' = [session EXCEPT ![s].live = TRUE]
         /\ tokens' = tokens \cup {<<s, drawn + 1>>}
         /\ spent' = spent \cup {<<s, session[s].hash>>}
  /\ drawn' = drawn + 1
  /\ Return(r)
  /\ UNCHANGED <<calls, user, links, resets, chosen, kept, used, contended>>

(* ... and saves it whole, deletedAt included, with a new hash. *)
RotateHash(r) ==
  /\ request[r].pc = "rotate" /\ drawn < MaxHash
  /\ LET s == request[r].session
     IN  /\ session' = [session EXCEPT ![s].hash = drawn + 1, ![s].live = TRUE]
         /\ tokens' = tokens \cup {<<s, drawn + 1>>}
         /\ spent' = spent \cup {<<s, session[s].hash>>}
  /\ drawn' = drawn + 1
  /\ Return(r)
  /\ UNCHANGED <<calls, user, links, resets, chosen, kept, used, contended>>

Logout(s) ==
  /\ Count /\ session[s].user # None
  /\ session' = [session EXCEPT ![s].live = FALSE]
  /\ Contend(session[s].user)
  /\ UNCHANGED <<user, links, resets, tokens, request, drawn, history, used>>

-----------------------------------------------------------------------------
Init ==
  /\ user = [u \in Users |-> NoUser]
  /\ session = [s \in Sessions |-> NoSession]
  /\ links = {} /\ resets = {} /\ tokens = {} /\ spent = {} /\ used = {} /\ kept = {} /\ contended = {}
  /\ request = [r \in Requests |-> Idle]
  /\ drawn = 0 /\ calls = 0
  /\ chosen = [u \in Users |-> None]

Start(r) ==
  \/ \E e \in Emails, p \in Passwords :
       \/ Register(r, e, p) \/ Login(r, e, p)
       \/ \E status \in Given : CreateByAdmin(r, e, p, status)
  \/ \E link \in links : ConfirmEmail(r, link) \/ ConfirmNewEmail(r, link)
  \/ \E u \in Users, p \in Passwords : ResetPassword(r, u, p)
  \/ \E p \in Passwords \cup {None}, e \in Emails \cup {"keep"} :
       \/ \E s \in Sessions : UpdateMe(r, s, p, e)
       \/ \E u \in Users, status \in ({"keep"} \cup Given) \ {"unset"} : UpdateByAdmin(r, u, p, e, status)
  \/ \E x \in Socials, e \in Emails \cup {None} : SocialLogin(r, x, e)
  \/ \E t \in tokens : Refresh(r, t[1], t[2])

Continue(r) ==
  \/ InsertUser(r) \/ RevokeSessions(r) \/ MailNewEmail(r) \/ CheckPayload(r) \/ MergeRow(r)
  \/ SaveUser(r) \/ OpenSession(r) \/ ReadUser(r) \/ FindSession(r) \/ RotateHash(r)

Next ==
  \/ \E r \in Requests : Start(r) \/ Continue(r)
  \/ \E e \in Emails : ForgotPassword(e)
  \/ \E u \in Users : Remove(u)
  \/ \E s \in Sessions : Logout(s)

Spec == Init /\ [][Next]_vars

-----------------------------------------------------------------------------
(* Properties *)

(* Rows and requests are typed. *)
TypeOK ==
  /\ user \in [Users -> User]
  /\ session \in [Sessions -> Session]
  /\ links \subseteq Link /\ resets \subseteq Users
  /\ tokens \subseteq Sessions \X (1..MaxHash) /\ spent \subseteq tokens
  /\ request \in [Requests -> Request]
  /\ drawn \in 0..MaxHash /\ calls \in 0..MaxCalls
  /\ chosen \in [Users -> Passwords \cup {None}]
  /\ used \subseteq Passwords /\ kept \subseteq Sessions /\ contended \subseteq Users

(* However lookups and writes interleave, two rows never hold one address, a  *)
(* deleted row's included.                                                      *)
EmailIsUnique ==
  \A u, v \in Users : user[u].email # None /\ user[u].email = user[v].email => u = v

(* A refresh token that was rotated is never the session's again, although    *)
(* two refreshes can pass the comparison with one token and the row is saved    *)
(* from an entity read before.                                                   *)
SpentTokensStaySpent == \A s \in Sessions : <<s, session[s].hash>> \notin spent

(* As long as calls on a user did not overlap, the stored password is the one  *)
(* last chosen: handlers that save the whole user they read, hash included,      *)
(* do not hash it again.                                                         *)
PasswordIsTheOneChosen ==
  \A u \in Users \ contended : ~Working(u) => user[u].password = chosen[u]

(* As long as calls on a user did not overlap, a session opened with an older  *)
(* password is the one that changed it or outlived an administrator's change.    *)
OldPasswordOpensNothing ==
  \A s \in Sessions :
    LET u == session[s].user
    IN  session[s].live /\ u \notin contended /\ session[s].opened # None
          => session[s].opened = user[u].password \/ s \in kept

(* As long as calls on it did not overlap, a deleted account stays deleted and *)
(* is handed no token, its sessions never having been deleted.                   *)
DeletedStaysOut ==
  [][ /\ \A u \in Users : user[u].deleted /\ u \notin contended' => user'[u].deleted
      /\ \A t \in tokens' \ tokens :
           session'[t[1]].user \in contended' \/ ~user[session'[t[1]].user].deleted
    ]_vars
=============================================================================
