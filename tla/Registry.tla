------------------------------ MODULE Registry ------------------------------
(***************************************************************************)
(* What the administrator and the SaaS register: customers, products,        *)
(* applications with their API keys and webhook endpoints, and the accounts    *)
(* that receive payments.                                                      *)
(*                                                                            *)
(* Customers, products, applications and endpoints are found, changed in        *)
(* memory and saved whole; receiving accounts, and the marks of an API key,       *)
(* are updated column by column.  A call advances from one await to the next.     *)
(* Columns without a rule of their own are "name" and "detail"; an application has  *)
(* a "mode", and its name, which has no rule of its own either, is left out.         *)
(***************************************************************************)
EXTENDS Integers, FiniteSets

CONSTANTS
  Keys,       \* emails of a country, skus, slugs
  Values,
  RowIds,
  ApiKeys,
  Callers,    \* requests being served, on all replicas
  MaxWrites,  \* bound: requests that write
  Null,
  Keep        \* undefined: a column the request does not give

Modes == {"live", "test"}

ASSUME RegistryAssumption ==
  MaxWrites \in Nat /\ {Null, Keep} \cap (Keys \cup Values \cup Modes \cup RowIds) = {} /\ Null # Keep

VARIABLES
  row,        \* row[i]: one row of one of the tables
  caller,     \* caller[c]: the service call c is in
  apiKey,     \* apiKey[k]: application and whether it is revoked
  touching,   \* keys whose lastUsedAt a request has yet to write
  writes,
  said,       \* history: said[i]: the last value given for each column of i
  clashed     \* history: rows two calls worked on at once

regVars == <<row, caller, apiKey, touching, writes, said, clashed>>

-----------------------------------------------------------------------------
Columns == {"name", "detail", "mode"}
Cols == [Columns -> Values \cup Modes \cup {Null}]
Patch == [Columns -> Values \cup Modes \cup {Null, Keep}]
Blank == [f \in Columns |-> Null]

KeyedTables == {"customer", "product", "application"}
Tables == KeyedTables \cup {"endpoint", "account"}

Stored == [table : Tables \cup {"none", "removed"}, key : Keys \cup {Null}, cols : Cols]
NoRow == [table |-> "none", key |-> Null, cols |-> Blank]
RemovedRow == [NoRow EXCEPT !.table = "removed"]

(* `patch` is what the service writes, `given` what the request gave. *)
Call == [pc : {"idle", "insert", "load", "save", "update", "delete"}, table : Tables \cup {"none"},
         id : RowIds \cup {Null}, key : Keys \cup {Null, Keep}, patch : Patch, given : Patch,
         loaded : Stored]
NoCall == [pc |-> "idle", table |-> "none", id |-> Null, key |-> Keep, patch |-> Blank,
           given |-> Blank, loaded |-> NoRow]

Key == [app : RowIds \cup {Null}, revoked : BOOLEAN]

FindByKey(table, key) == {i \in RowIds : row[i].table = table /\ row[i].key = key}
RowsOf(table) == {i \in RowIds : row[i].table = table}

(* The mappers' toPersistence: only the columns that are given are assigned. *)
Assign(cols, patch) == [f \in Columns |-> IF patch[f] = Keep THEN cols[f] ELSE patch[f]]

(* dto.phone ?? existing.phone *)
OrElse(patch, cols) == [f \in Columns |-> IF patch[f] \in {Null, Keep} THEN cols[f] ELSE patch[f]]

(* dto.websiteUrl ?? undefined: a column of an application is never cleared. *)
NeverCleared(patch) == [f \in Columns |-> IF patch[f] = Null THEN Keep ELSE patch[f]]

(* mode?: ApplicationMode = 'live', which the DTO of an update inherits. *)
ModeOrLive(patch) == [patch EXCEPT !["mode"] = IF @ = Keep THEN "live" ELSE @]

-----------------------------------------------------------------------------
Serve(c, call) ==
  /\ writes < MaxWrites /\ writes' = writes + 1
  /\ caller[c] = NoCall
  /\ caller' = [caller EXCEPT ![c] = call]
  /\ clashed' = IF call.id # Null /\ \E d \in Callers : caller[d].id = call.id
                THEN clashed \cup {call.id} ELSE clashed
  /\ UNCHANGED <<row, apiKey, touching, said>>

Answered(c) == caller' = [caller EXCEPT ![c] = NoCall]
KeysOnly == UNCHANGED <<row, caller, writes, said, clashed>>
RowsOnly == UNCHANGED <<apiKey, touching, writes, clashed>>

(* Mutation: a column that is omitted is written as NULL. *)
UpsertCustomerBlank(c, key, given) ==
  IF FindByKey("customer", key) = {}
  THEN Serve(c, [NoCall EXCEPT !.pc = "insert", !.table = "customer", !.key = key,
                               !.patch = OrElse(given, Blank), !.given = OrElse(given, Blank)])
  ELSE \E i \in FindByKey("customer", key) :
         Serve(c, [NoCall EXCEPT !.pc = "load", !.table = "customer", !.id = i,
                                 !.patch = OrElse(given, Blank), !.given = given])

(* An existing customer keeps, as it was when it was found, what is omitted. *)
UpsertCustomer(c, key, given) ==
  IF FindByKey("customer", key) = {}
  THEN Serve(c, [NoCall EXCEPT !.pc = "insert", !.table = "customer", !.key = key,
                               !.patch = OrElse(given, Blank), !.given = OrElse(given, Blank)])
  ELSE \E i \in FindByKey("customer", key) :
         Serve(c, [NoCall EXCEPT !.pc = "load", !.table = "customer", !.id = i,
                                 !.patch = OrElse(given, row[i].cols), !.given = given])

(* A new row; the database keeps its key unique when it has one. *)
CreateRow(c, table, key, patch, given) ==
  Serve(c, [NoCall EXCEPT !.pc = "insert", !.table = table, !.key = key,
                          !.patch = OrElse(patch, Blank), !.given = OrElse(given, Blank)])

CreateProduct(c, sku, given) ==
  FindByKey("product", sku) = {} /\ CreateRow(c, "product", sku, given, given)

CreateApplication(c, slug, given) ==
  FindByKey("application", slug) = {} /\ CreateRow(c, "application", slug, ModeOrLive(given), given)

CreateWebhookEndpoint(c, given) ==
  RowsOf("application") # {} /\ CreateRow(c, "endpoint", Null, given, given)

CreateAccount(c, given) == CreateRow(c, "account", Null, given, given)

(* The row is found by its id; a key that is given is not looked up. *)
UpdateById(c, table, i, key, patch, given) ==
  /\ i \in RowsOf(table)
  /\ Serve(c, [NoCall EXCEPT !.pc = "load", !.table = table, !.id = i, !.key = key,
                             !.patch = patch, !.given = given])

UpdateProduct(c, i, sku, given) == UpdateById(c, "product", i, sku, given, given)

(* An update that does not give the mode writes the DTO's initial value, live. *)
UpdateApplication(c, i, slug, given) ==
  UpdateById(c, "application", i, slug, ModeOrLive(NeverCleared(given)), given)

UpdateWebhookEndpoint(c, i, given) == UpdateById(c, "endpoint", i, Keep, given, given)

UpdateAccount(c, i, given) ==
  /\ row[i].table = "account"
  /\ Serve(c, [NoCall EXCEPT !.pc = "update", !.table = "account", !.id = i, !.patch = given, !.given = given])

RemoveAccount(c, i) ==
  /\ row[i].table = "account"
  /\ Serve(c, [NoCall EXCEPT !.pc = "delete", !.table = "account", !.id = i])

-----------------------------------------------------------------------------
(* Mutation: the table has no unique index. *)
InsertUnindexed(c) ==
  /\ caller[c].pc = "insert"
  /\ \E i \in RowIds :
       /\ row[i] = NoRow
       /\ row' = [row EXCEPT ![i] = [table |-> caller[c].table, key |-> caller[c].key, cols |-> caller[c].patch]]
       /\ said' = [said EXCEPT ![i] = caller[c].given]
  /\ Answered(c) /\ RowsOnly

(* The loser of a race for a key gets the database's error. *)
InsertRow(c) ==
  /\ caller[c].pc = "insert"
  /\ IF caller[c].key # Null /\ FindByKey(caller[c].table, caller[c].key) # {}
     THEN UNCHANGED <<row, said>>
     ELSE \E i \in RowIds :
            /\ row[i] = NoRow
            /\ row' = [row EXCEPT ![i] = [table |-> caller[c].table, key |-> caller[c].key,
                                          cols |-> caller[c].patch]]
            /\ said' = [said EXCEPT ![i] = caller[c].given]
  /\ Answered(c) /\ RowsOnly

LoadRow(c) ==
  /\ caller[c].pc = "load"
  /\ caller' = [caller EXCEPT ![c].pc = "save", ![c].loaded = row[caller[c].id]]
  /\ UNCHANGED <<row, said>> /\ RowsOnly

(* The row as it was loaded, with the columns assigned, is written whole. *)
SaveWholeRow(c) ==
  /\ caller[c].pc = "save"
  /\ LET i == caller[c].id
         key == IF caller[c].key = Keep THEN caller[c].loaded.key ELSE caller[c].key
     IN  IF FindByKey(caller[c].table, key) \ {i} # {} /\ key # Null
         THEN UNCHANGED <<row, said>>
         ELSE /\ row' = [row EXCEPT ![i] = [@ EXCEPT !.key = key, !.cols = Assign(caller[c].loaded.cols, caller[c].patch)]]
              /\ said' = [said EXCEPT ![i] = Assign(@, caller[c].given)]
  /\ Answered(c) /\ RowsOnly

(* An UPDATE of the columns given finds no row to update once it is removed. *)
UpdateColumns(c) ==
  /\ caller[c].pc = "update"
  /\ LET i == caller[c].id
     IN  IF row[i] = RemovedRow
         THEN UNCHANGED <<row, said>>
         ELSE /\ row' = [row EXCEPT ![i].cols = Assign(@, caller[c].patch)]
              /\ said' = [said EXCEPT ![i] = Assign(@, caller[c].given)]
  /\ Answered(c) /\ RowsOnly

DeleteRow(c) ==
  /\ caller[c].pc = "delete"
  /\ row' = [row EXCEPT ![caller[c].id] = RemovedRow]
  /\ Answered(c) /\ RowsOnly /\ UNCHANGED said

-----------------------------------------------------------------------------
(* API keys.  Their ids and secrets are random and never meet. *)
CreateApiKey(k, i) ==
  /\ apiKey[k].app = Null /\ row[i].table = "application"
  /\ apiKey' = [apiKey EXCEPT ![k].app = i]
  /\ UNCHANGED touching /\ KeysOnly

RevokeApiKey(k) ==
  /\ apiKey[k].app # Null
  /\ apiKey' = [apiKey EXCEPT ![k].revoked = TRUE]
  /\ UNCHANGED touching /\ KeysOnly

(* The guard admits the request and leaves the mark of use to be written later. *)
CanActivate(k) ==
  /\ apiKey[k].app # Null /\ ~apiKey[k].revoked
  /\ touching' = touching \cup {k}
  /\ UNCHANGED apiKey /\ KeysOnly

(* Mutation: the key read by the guard is saved whole. *)
TouchBySave(k) ==
  /\ k \in touching
  /\ touching' = touching \ {k}
  /\ apiKey' = [apiKey EXCEPT ![k].revoked = FALSE]
  /\ KeysOnly

TouchApiKey(k) ==
  /\ k \in touching
  /\ touching' = touching \ {k}
  /\ UNCHANGED apiKey /\ KeysOnly

-----------------------------------------------------------------------------
RegInit ==
  /\ row = [i \in RowIds |-> NoRow]
  /\ caller = [c \in Callers |-> NoCall]
  /\ apiKey = [k \in ApiKeys |-> [app |-> Null, revoked |-> FALSE]]
  /\ touching = {} /\ writes = 0 /\ clashed = {}
  /\ said = [i \in RowIds |-> Blank]

(* What a request may give: it clears no name and no mode. *)
Edits(names, modes) == {given \in Patch : /\ given["name"] \in names \cup {Keep}
                                          /\ given["detail"] \in Values \cup {Null, Keep}
                                          /\ given["mode"] \in modes \cup {Keep}}
RowEdits == Edits(Values, {})
ApplicationEdits == Edits({}, Modes)

Receive(c) ==
  \/ \E given \in RowEdits :
       /\ given["name"] # Keep
       /\ \/ \E key \in Keys : UpsertCustomer(c, key, given) \/ CreateProduct(c, key, given)
          \/ CreateWebhookEndpoint(c, given) \/ CreateAccount(c, given)
  \/ \E slug \in Keys, given \in ApplicationEdits : CreateApplication(c, slug, given)
  \/ \E i \in RowIds, given \in RowEdits :
       \/ UpdateAccount(c, i, given)
       \/ UpdateWebhookEndpoint(c, i, given)
       \/ \E sku \in Keys \cup {Keep} : UpdateProduct(c, i, sku, given)
  \/ \E i \in RowIds, slug \in Keys \cup {Keep}, given \in ApplicationEdits : UpdateApplication(c, i, slug, given)
  \/ \E i \in RowIds : RemoveAccount(c, i)

Finish(c) == InsertRow(c) \/ LoadRow(c) \/ SaveWholeRow(c) \/ UpdateColumns(c) \/ DeleteRow(c)

RegNext ==
  \/ \E c \in Callers : Receive(c) \/ Finish(c)
  \/ \E k \in ApiKeys : \/ \E i \in RowIds : CreateApiKey(k, i)
                        \/ RevokeApiKey(k) \/ CanActivate(k) \/ TouchApiKey(k)

RegSpec == RegInit /\ [][RegNext]_regVars

-----------------------------------------------------------------------------
(* Properties *)

RegTypeOK ==
  /\ row \in [RowIds -> Stored]
  /\ caller \in [Callers -> Call]
  /\ apiKey \in [ApiKeys -> Key]
  /\ touching \subseteq {k \in ApiKeys : apiKey[k].app # Null}
  /\ writes \in 0..MaxWrites
  /\ said \in [RowIds -> Cols] /\ clashed \subseteq RowIds

(* No two customers share an email in a country, no two products a sku, no two  *)
(* applications a slug, whoever creates, upserts or renames them at once.         *)
KeysAreUnique ==
  \A i, j \in RowIds : row[i].key # Null /\ row[i].table = row[j].table /\ row[i].key = row[j].key => i = j

(* What was last given for a column of a row is what it holds: always for a      *)
(* receiving account, whose columns are updated one by one; for a row saved      *)
(* whole, unless two calls worked on it at once.  Two things that were given do    *)
(* not stay, without any overlap: a null on a customer or an application, which      *)
(* writes nothing, and the mode of an application, which every update that does      *)
(* not repeat it sets back to live.  No application is in test unasked.              *)
Holds(table, f, held, asked) ==
  \/ held = asked
  \/ asked = Null /\ table \in {"customer", "application"}
  \/ f = "mode" /\ held = "live" /\ table = "application"

HoldsAll(table, cols, asked) == \A f \in Columns : Holds(table, f, cols[f], asked[f])

EditsStay ==
  \A i \in RowIds : row[i].table \in Tables /\ (i \notin clashed \/ row[i].table = "account") =>
    HoldsAll(row[i].table, row[i].cols, said[i])

(* A revoked key stays revoked ("no se puede deshacer") whatever requests it      *)
(* admitted before, and a removed account is not brought back by a late update.    *)
RevokedStaysRevoked ==
  [][\A k \in ApiKeys : apiKey[k].revoked => apiKey'[k].revoked]_regVars
RemovedStaysRemoved ==
  [][\A i \in RowIds : row[i] = RemovedRow => row'[i] = RemovedRow]_regVars
=============================================================================
