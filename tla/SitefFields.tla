----------------------------- MODULE SitefFields -----------------------------
(***************************************************************************)
(* What the adapter makes of the fields a payer types before it asks Sitef:   *)
(* phone, reference, document, card and its expiry; and of the number of the   *)
(* invoice.  Sitef takes one form of each, and the payer may write many.         *)
(*                                                                                *)
(* A value is a sequence of characters: digits, the letters of a document, "-"     *)
(* for any other.  A converter returns what is sent, or Rejected where the code      *)
(* throws.  Values are typed whole (upper case is taken for granted).                *)
(***************************************************************************)
EXTENDS Integers, Sequences

CONSTANTS
  Subscribers,  \* phones meant: the ten digits after the country's
  Transfers,    \* references meant, as the payer's bank shows them
  Citizens,     \* documents meant: a letter and its digits
  Cards,        \* cards meant
  Expiries,     \* dates of expiry meant: <<year, month>>
  BillNumbers,  \* invoices meant: <<year, number in the year>>
  Rejected

Digits == {"0", "1", "2", "3", "4", "5", "6", "7", "8", "9"}
DocumentLetters == {"V", "E", "J", "P", "G"}
Written == Seq(Digits \cup DocumentLetters \cup {"-"})

IsMonth(digits) ==
  digits \in {<<"0", d>> : d \in Digits \ {"0"}} \cup {<<"1", d>> : d \in {"0", "1", "2"}}

(* A card that is paid with is of this century and has a year that is no month. *)
ASSUME FieldsAssumption ==
  /\ \A phone \in Subscribers : phone \in Seq(Digits) /\ Len(phone) = 10 /\ phone[1] = "4"
  /\ \A reference \in Transfers : reference \in Seq(Digits) /\ Len(reference) >= 8
  /\ \A document \in Citizens :
       /\ document \in Written /\ Len(document) \in 6..13 /\ document[1] \in DocumentLetters
       /\ \A k \in 2..Len(document) : document[k] \in Digits
  /\ \A card \in Cards : card \in Seq(Digits) /\ Len(card) \in 13..19
  /\ \A expiry \in Expiries :
       /\ expiry \in Seq(Digits) \X Seq(Digits)
       /\ Len(expiry[1]) = 4 /\ expiry[1][1] = "2" /\ expiry[1][2] = "0"
       /\ IsMonth(expiry[2]) /\ ~IsMonth(SubSeq(expiry[1], 3, 4))
  /\ \A bill \in BillNumbers :
       /\ bill \in Seq(Digits) \X Seq(Digits)
       /\ Len(bill[1]) = 4 /\ Len(bill[2]) \in 6..8
  /\ Rejected \notin Written \cup (Written \X Written)

VARIABLE field  \* the last field converted: [kind, meant, form, typed, sent]

-----------------------------------------------------------------------------
(* The first n characters of a value, without those that are not to be kept. *)
KeptUpTo(value, chars, n) ==
  LET kept[k \in 0..n] == IF k = 0 THEN <<>>
                          ELSE IF value[k] \in chars THEN Append(kept[k - 1], value[k]) ELSE kept[k - 1]
  IN  kept[n]

Kept(value, chars) == KeptUpTo(value, chars, Len(value))
DigitsOf(value) == Kept(value, Digits)
LastOf(value, n) == IF Len(value) > n THEN SubSeq(value, Len(value) - n + 1, Len(value)) ELSE value

(* Ten digits, or eleven with a zero before, or twelve with the country's. *)
ToInternationalPhone(value) ==
  LET digits == DigitsOf(value)
  IN  CASE Len(digits) = 12 /\ digits[1] = "5" /\ digits[2] = "8" -> digits
        [] Len(digits) = 11 /\ digits[1] = "0"                -> <<"5", "8">> \o Tail(digits)
        [] Len(digits) = 10                                   -> <<"5", "8">> \o digits
        [] OTHER                                              -> Rejected

ToPaymentReference(value) ==
  IF DigitsOf(value) = <<>> THEN Rejected ELSE LastOf(DigitsOf(value), 8)

(* Without a letter it is a Venezuelan's. *)
ToIdentityDocument(value) ==
  LET cleaned  == Kept(value, Digits \cup DocumentLetters)
      document == IF cleaned # <<>> /\ Head(cleaned) \in DocumentLetters THEN cleaned ELSE <<"V">> \o cleaned
  IN  IF Len(document) \in 6..13 /\ \A k \in 2..Len(document) : document[k] \in Digits
      THEN document ELSE Rejected

ToCardNumber(value) == IF Len(DigitsOf(value)) \in 13..19 THEN DigitsOf(value) ELSE Rejected

(* Mutation: of two groups of two digits the year is the first. *)
ToCardExpirationYearFirst(first, second) ==
  LET yearFirst == Len(first) = 4 \/ Len(second) = 2
      typed     == IF yearFirst THEN first ELSE second
      month     == IF yearFirst THEN second ELSE first
  IN  IF IsMonth(month) THEN <<IF Len(typed) = 4 THEN typed ELSE <<"2", "0">> \o typed, month>>
      ELSE Rejected

(* Two groups of two or four digits, a bar between them: the year is the one of    *)
(* four, and of two groups of two the second.                                        *)
ToCardExpiration(first, second) ==
  LET yearFirst == Len(first) = 4
      typed     == IF yearFirst THEN first ELSE second
      month     == IF yearFirst THEN second ELSE first
  IN  IF IsMonth(month) THEN <<IF Len(typed) = 4 THEN typed ELSE <<"2", "0">> \o typed, month>>
      ELSE Rejected

(* Mercantil takes twelve characters at most: CLI-YYYY-NNNNNN is left its digits. *)
ToMercantilInvoiceNumber(value) == LastOf(DigitsOf(value), 12)

-----------------------------------------------------------------------------
(* How a value may be typed.  The documented forms are those the code's comments  *)
(* accept; the others are refused, or mean the same.                                *)

Form(documented, value) == [documented |-> documented, value |-> value]

PhoneForms(phone) ==
  {Form(TRUE, phone), Form(TRUE, <<"0">> \o phone), Form(TRUE, <<"5", "8">> \o phone),
   Form(FALSE, <<"0", "0", "5", "8">> \o phone), Form(FALSE, <<"5", "8", "0">> \o phone)}

ReferenceForms(reference) == {Form(TRUE, LastOf(reference, n)) : n \in 8..Len(reference)}

DocumentForms(document) ==
  {Form(TRUE, document)} \cup (IF Head(document) = "V" THEN {Form(TRUE, Tail(document))} ELSE {})

ExpiryForms(expiry) ==
  LET year == expiry[1]  month == expiry[2]  short == LastOf(year, 2)
  IN  {Form(TRUE, <<month, short>>), Form(TRUE, <<month, year>>), Form(TRUE, <<year, month>>),
       Form(FALSE, <<short, month>>)}

(* With something that is neither digit nor letter anywhere in it, or nowhere. *)
Separated(value) ==
  {value} \cup {SubSeq(value, 1, k) \o <<"-">> \o SubSeq(value, k + 1, Len(value)) : k \in 0..Len(value)}

-----------------------------------------------------------------------------
Converted(kind, meant, form, typed, sent) ==
  field' = [kind |-> kind, meant |-> meant, form |-> form, typed |-> typed, sent |-> sent]

SendPhone ==
  \E phone \in Subscribers : \E form \in PhoneForms(phone) : \E typed \in Separated(form.value) :
    Converted("phone", <<"5", "8">> \o phone, form, typed, ToInternationalPhone(typed))

SendReference ==
  \E reference \in Transfers : \E form \in ReferenceForms(reference) : \E typed \in Separated(form.value) :
    Converted("reference", LastOf(reference, 8), form, typed, ToPaymentReference(typed))

SendDocument ==
  \E document \in Citizens : \E form \in DocumentForms(document) : \E typed \in Separated(form.value) :
    Converted("document", document, form, typed, ToIdentityDocument(typed))

SendCard ==
  \E card \in Cards : \E typed \in Separated(card) :
    Converted("card", card, Form(TRUE, card), typed, ToCardNumber(typed))

SendExpiry ==
  \E expiry \in Expiries : \E form \in ExpiryForms(expiry) :
    Converted("expiry", expiry, form, form.value, ToCardExpiration(form.value[1], form.value[2]))

SendInvoiceNumber ==
  \E bill \in BillNumbers :
    LET typed == <<"-", "-", "-", "-">> \o bill[1] \o <<"-">> \o bill[2]
    IN  Converted("invoice", bill[1] \o bill[2], Form(TRUE, typed), typed, ToMercantilInvoiceNumber(typed))

FieldsInit == field = Rejected

FieldsNext ==
  SendPhone \/ SendReference \/ SendDocument \/ SendCard \/ SendExpiry \/ SendInvoiceNumber

FieldsSpec == FieldsInit /\ [][FieldsNext]_field

-----------------------------------------------------------------------------
(* Properties *)

(* However a payer writes it, Sitef is asked about the phone, transfer, citizen,  *)
(* card or date that was meant, never about another: the forms the comments         *)
(* promise are understood, and a form they do not mention is refused or understood.   *)
(* And Mercantil is told the whole number of the invoice, though it takes twelve        *)
(* characters.                                                                            *)
MeantIsSent ==
  field # Rejected =>
    /\ field.sent \in {field.meant, Rejected}
    /\ field.form.documented => field.sent # Rejected
=============================================================================
