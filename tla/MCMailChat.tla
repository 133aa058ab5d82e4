----------------------------- MODULE MCMailChat ------------------------------
(* A mail with a quotation and one without, and three questions.           *)
EXTENDS MailChat, TLC

CONSTANTS m1, m2, r1

MailWith(m, kind, refs, value) ==
  [mail |-> m, kind |-> kind, refs |-> refs, found |-> TRUE, value |-> value]
MCDocuments ==
  {MailWith(m1, "mail", {r1}, TRUE), MailWith(m2, "mail", {}, FALSE)}

Plain == [ids |-> {}, words |-> TRUE, content |-> TRUE, field |-> FALSE, order |-> FALSE,
          follows |-> FALSE, short |-> FALSE, many |-> FALSE, body |-> FALSE]
(* The delivery date of a quotation, that of it, the newest mail.          *)
MCQuestions ==
  {[Plain EXCEPT !.ids = {r1}, !.field = TRUE],
   [Plain EXCEPT !.follows = TRUE, !.short = TRUE],
   [Plain EXCEPT !.content = FALSE, !.order = TRUE, !.short = TRUE]}

Symmetry == Permutations(Pages) \cup Permutations(SessionIds)
=============================================================================
