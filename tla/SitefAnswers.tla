--------------------------- MODULE SitefAnswers -----------------------------
(***************************************************************************)
(* What the Sitef adapter may make of the bank's answers, by method and step. *)
(* Payments rests on these sets; SitefExchange checks that the mapping of the   *)
(* bank's bodies stays inside them.                                             *)
(***************************************************************************)

VerificationAnswers == {"succeeded", "failed"}
C2pAnswers == {"requires_otp", "succeeded", "failed"}
CardAnswers == {"requires_otp", "succeeded", "failed"}
CardPayAnswers == {"succeeded", "failed"}
CcrAnswers == {"requires_otp", "requires_action", "failed"}
CcrFinalAnswers == {"succeeded", "failed"}
WebButtonAnswers == {"requires_action", "failed"}
PollAnswers == {"pending", "succeeded", "failed"}

CreateAnswers(m) ==
  CASE m \in {"transfer", "pago_movil"} -> VerificationAnswers
    [] m = "c2p"        -> C2pAnswers
    [] m = "card"       -> CardAnswers
    [] m = "card_ccr"   -> CcrAnswers
    [] m = "web_button" -> WebButtonAnswers
    [] OTHER            -> {}
OtpAnswers(m) ==
  CASE m = "card_ccr" -> CcrFinalAnswers
    [] m = "card"     -> CardPayAnswers
    [] OTHER          -> C2pAnswers
StatusAnswers(m) == IF m = "card_ccr" THEN {"pending"} ELSE PollAnswers
=============================================================================
