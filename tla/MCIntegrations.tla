--------------------------- MODULE MCIntegrations ---------------------------
(* Small instances of the modules that face a third party.  They share no     *)
(* state, so each runs while the others rest in their initial state; they share *)
(* model values, so that one set of permutations serves them all.               *)
EXTENDS Routing, FxRates, SitefExchange, SitefFields, TLC

CONSTANTS uA, uB, sA, sB

SourceOrder == <<"DOLARAPI", "YADIO">>
TwoUsers == {uA, uB}
TwoSecrets == {sA, sB}
OneSecretEach == (sA :> uA) @@ (sB :> uB)

Symmetry == Permutations(Ticks \cup Admins) \cup Permutations(Connections \cup Methods)
            \cup Permutations(Applications)
            \cup {(uA :> uB) @@ (uB :> uA) @@ (sA :> sB) @@ (sB :> sA)}

(* Fields as they are written; the last numbers are the largest that still fit. *)
Phones == {<<"4", "1", "2", "0", "5", "8", "7", "6", "5", "4">>, <<"4", "2", "4", "5", "8", "0", "4", "1", "2", "0">>}
References == {<<"0", "0", "1", "2", "3", "4", "5", "6">>, <<"7", "0", "0", "0", "1", "2", "3", "4", "5", "6", "0", "9">>}
Documents == {<<"V", "1", "2", "3", "4", "5", "6", "7", "8">>, <<"E", "8", "4", "0", "0", "0">>,
              <<"J", "3", "0", "7", "4", "9", "5", "5", "1", "0", "2", "2", "1">>}
CardNumbers == {<<"5", "0", "1", "8", "7", "8", "0", "1", "2", "3", "4", "5", "6">>,
                <<"4", "5", "3", "2", "0", "1", "2", "3", "4", "5", "6", "7", "8", "9", "0", "1">>}
CardExpiries == {<<year, month>> : year \in {<<"2", "0", "1", "3">>, <<"2", "0", "2", "9">>},
                                   month \in {<<"0", "1">>, <<"0", "9">>, <<"1", "2">>}}
InvoiceNumbers == {<<"2", "0", "2", "6">>} \X {<<"0", "0", "0", "0", "0", "1">>, <<"1", "0", "0", "0", "0", "0", "0">>,
                                              <<"9", "9", "9", "9", "9", "9", "9", "9">>}

vars == <<routeVars, fxVars, sitefVars, field>>

Init == RouteInit /\ FxInit /\ SitefInit /\ FieldsInit

Next ==
  \/ FxInit /\ SitefInit /\ FieldsInit /\ RouteNext /\ UNCHANGED <<fxVars, sitefVars, field>>
  \/ RouteInit /\ SitefInit /\ FieldsInit /\ FxNext /\ UNCHANGED <<routeVars, sitefVars, field>>
  \/ RouteInit /\ FxInit /\ FieldsInit /\ SitefNext /\ UNCHANGED <<routeVars, fxVars, field>>
  \/ RouteInit /\ FxInit /\ SitefInit /\ FieldsNext /\ UNCHANGED <<routeVars, fxVars, sitefVars>>

Spec == Init /\ [][Next]_vars

(* The state is typed, and no row has a column for the number of a card.         *)
IntegrationsTypeOK == RouteTypeOK /\ FxTypeOK /\ SitefTypeOK /\ CardIsNotKept
=============================================================================
