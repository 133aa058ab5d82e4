------------------------ MODULE MCAttachmentAnalysis ------------------------
(***************************************************************************)
(* The documents of the runs: tables with a cell to a line as PDF prints   *)
(* them, every cell twice in the header, with numbers that are also        *)
(* quantities, a repeated description, a code that is wrapped and a price  *)
(* equal to the amount; ruled tables and rows of words; pages without a    *)
(* text layer; pictures; and files that cannot be read.                    *)
(***************************************************************************)
EXTENDS AttachmentAnalysis

CONSTANT Row   \* an item a model made

MCDigits == <<"1", "2", "3">>
MCAmounts == {"18,000", "54,000", "6,500"}
MCWords == {"EA", "Pump", "KRW"}
MCCodes == {"A-1", "A-", "9B"}
MCFooters == {"Remark", "PAGE 1 /"}
MCModelItems == {<<>>, <<Row>>}

Down(cells) == [i \in DOMAIN cells |-> Cell(cells[i])]
Twice(cells) == FlattenSeq([i \in DOMAIN cells |-> <<cells[i], cells[i]>>])
QuoteHeader == Down(Twice(<<"No", "Description", "Code", "Qty", "Unit", "U/Price", "Amount">>))
InquiryHeader == Down(Twice(<<"No", "Description", "Code", "Qty", "Unit">>))
Quoted(d, q, u, p, a) == Item("quote", <<"Description", "Qty", "Unit", "U/Price", "Amount">>, <<d, <<q>>, <<u>>, <<p>>, <<a>>>>)
Asked(n, d, c, q, u) == Item("rfq", <<"No", "Description", "Code", "Qty", "Unit">>, <<<<n>>, d, c, <<q>>, <<u>>>>)
Timer == Quoted(<<"Timer X">>, "3", "EA", "18,000", "54,000")
Relay == Quoted(<<"Relay B">>, "1", "EA", "6,500", "6,500")

Page(layer, title, labels, lines, items) ==
  [layer |-> layer, title |-> title, labels |-> labels, lines |-> lines, items |-> items]
Doc(kind, name, pages) == [kind |-> kind, name |-> name, mime |-> TRUE, pages |-> pages]

RelayCells(no) == Down(<<no, "Relay B", "1", "EA", "6,500">>)
TimerCells(no) == Down(<<no, "Timer X", "3", "EA", "18,000", "54,000">>)
Remark == Down(<<"Remark", "3">>)
QuotePage(layer) ==
  Page(layer, "quote", FALSE, QuoteHeader \o RelayCells("1") \o TimerCells("2") \o Remark, <<Relay, Timer>>)
Letter(layer) == Page(layer, "rfq", TRUE, <<Line(FALSE, <<"Pump", "1">>)>>, <<>>)
Sheet ==
  Page(TRUE, "quote", TRUE,
       <<Line(TRUE, <<"No", "Description", "Qty", "Unit", "U/Price", "Amount">>),
         Line(TRUE, <<"1", "Timer X", "3", "EA", "18,000", "54,000">>),
         Line(TRUE, <<"2", "Relay B", "1", "EA", "6,500", "6,500">>)>>, <<Timer, Relay>>)
Compact ==
  Page(TRUE, "none", FALSE,
       <<Line(FALSE, <<"No", "Description", "Code", "Qty", "Unit">>),
         Line(FALSE, <<"1", "Relay B", "A-1", "2", "EA">>),
         Line(FALSE, <<"2", "Pump", "Relay B", "A-1", "1", "EA">>), Line(FALSE, <<"Remark">>)>>,
       <<Asked("1", <<"Relay B">>, <<"A-1">>, "2", "EA"), Asked("2", <<"Pump", "Relay B">>, <<"A-1">>, "1", "EA")>>)
Wrapped(layer) ==
  Page(layer, "rfq", FALSE,
       InquiryHeader \o Down(<<"1", "Relay B", "A-1", "2", "EA", "2", "Relay B", "A-", "9B", "1", "EA", "PAGE 1 /">>),
       <<Asked("1", <<"Relay B">>, <<"A-1">>, "2", "EA"), Asked("2", <<"Relay B">>, <<"A-", "9B">>, "1", "EA")>>)
Photo == Page(FALSE, "none", FALSE, <<>>, <<>>)

MCDocuments ==
  {Doc("pdf", "unknown", <<QuotePage(TRUE)>>),
   Doc("pdf", "unknown", <<Letter(TRUE), Wrapped(FALSE)>>),
   Doc("pdf", "rfq", <<Compact>>),
   Doc("image", "unknown", <<QuotePage(FALSE)>>),
   Doc("image", "unknown", <<Photo>>),
   [Doc("image", "unknown", <<QuotePage(FALSE)>>) EXCEPT !.mime = FALSE],
   Doc("text", "unknown", <<Sheet>>),
   Doc("text", "unknown", <<>>),
   Doc("archive", "unknown", <<>>),
   Doc("broken", "unknown", <<QuotePage(TRUE)>>)}

(* A quotation whose table goes on below the foot of its first page.       *)
LongQuotes ==
  {Doc("pdf", "quote",
       <<Page(TRUE, "quote", FALSE, QuoteHeader \o TimerCells("1") \o Down(<<"PAGE 1 /">>), <<Timer>>),
         Page(TRUE, "none", FALSE, RelayCells("2") \o Remark, <<Relay>>)>>)}
=============================================================================
