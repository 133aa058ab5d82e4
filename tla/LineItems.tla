------------------------------ MODULE LineItems ------------------------------
(***************************************************************************)
(* The rows of a quotation or an inquiry, read out of the text of the      *)
(* document (app/document_processing/parsers.py), and the check that none  *)
(* is missing.                                                             *)
(*                                                                         *)
(* A text is a sequence of lines, a line a sequence of cells.  A ruled     *)
(* line (with | or tabs) is split at its cells; of any other line the      *)
(* cells are its words, which only the patterns for compact rows tell      *)
(* apart.  A PDF often has one cell to a line, and many of them twice.     *)
(* Strings are told apart by what the patterns ask of them.                *)
(***************************************************************************)
EXTENDS Naturals, Sequences, FiniteSets, SequencesExt, FiniteSetsExt

CONSTANTS
  Digits,      \* strings of digits, Digits[n] the one that reads n
  Amounts,     \* amounts that are no such string (1,500)
  Words,       \* words of letters (EA, Pump)
  Currencies,  \* those of them that are currencies
  Codes,       \* strings of letters, digits and marks (A-1)
  Hyphenated,  \* those of them that end with a hyphen or the like
  Footers,     \* what ends a table (Total Price, Remark, PAGE 1 /)
  RowWindow,   \* bound: data rows read below the header of a table (11)
  CountWindow  \* bound: lines looked at for numbers, or as cells (79, 119)

ASSUME WindowsAssumption == RowWindow \in Nat /\ CountWindow \in Nat
ASSUME StringsAssumption ==
  Digits \in Seq(ToSet(Digits)) /\ Currencies \subseteq Words /\ Hyphenated \subseteq Codes

IsNumber(t) == t \in ToSet(Digits)
Value(t) == CHOOSE n \in DOMAIN Digits : Digits[n] = t
IsAmount(t) == IsNumber(t) \/ t \in Amounts
IsWord(t) == t \in Words
CodeLike(t) == IsNumber(t) \/ t \in Words \cup Codes

Line(ruled, cells) == [ruled |-> ruled, cells |-> cells]
Cell(t) == Line(TRUE, <<t>>)

(* At most n elements of s from position i on.                             *)
Window(s, i, n) == SubSeq(s, i, IF i + n - 1 <= Len(s) THEN i + n - 1 ELSE Len(s))
Least(indexes) == IF indexes = {} THEN 0 ELSE Min(indexes)
FirstIndex(s, Test(_)) == Least({i \in DOMAIN s : Test(s[i])})
Where(s, Test(_)) == SetToSortSeq({i \in DOMAIN s : Test(i)}, <)

QuoteColumns == {"Description", "Qty", "Unit", "U/Price", "Amount"}
InquiryColumns == {"No", "Description", "Code", "Qty", "Unit"}
Columns(type) == IF type = "quote" THEN QuoteColumns
                 ELSE IF type = "rfq" THEN InquiryColumns ELSE {}
Labels == QuoteColumns \cup InquiryColumns

(* _looks_like_table_footer                                                *)
Footer(line) == \E t \in ToSet(line.cells) : t \in Footers
UpTo(lines, end) == IF end = 0 THEN lines ELSE SubSeq(lines, 1, end - 1)
UpToFooter(lines) == UpTo(lines, FirstIndex(lines, Footer))
OrElse(items, others) == IF items # <<>> THEN items ELSE others

(* _split_table_row: a line of all column names is a header, ruled or not. *)
Whole == "words"
SplitTableRow(line) ==
  IF line.ruled \/ Len(line.cells) = 1 \/ ToSet(line.cells) \subseteq Labels
  THEN line.cells ELSE <<Whole>>
(* A line that is one cell, as the code compares whole lines.              *)
CellOf(line) == IF Len(line.cells) = 1 THEN line.cells[1] ELSE Whole
HeaderOf(line, columns) == columns \subseteq ToSet(SplitTableRow(line))
RowsBelow(lines, i, n) == UpToFooter(Window(lines, i + 1, n))

-----------------------------------------------------------------------------
(* Rows on one line each; an item maps its columns to what stands there.   *)

Each(cells) == [i \in DOMAIN cells |-> <<cells[i]>>]
Item(type, names, cells) ==
  [c \in {names[i] : i \in {k \in DOMAIN names : names[k] \in Columns(type)}} |->
     cells[CHOOSE i \in DOMAIN names : names[i] = c]]

(* _parse_compact_quote_line_item: a number or none, the description, the  *)
(* quantity, the unit, the price, the amount.                              *)
CompactQuote(w) ==
  LET n == Len(w)
      first == IF n > 5 /\ IsNumber(w[1]) THEN 2 ELSE 1
  IN  IF n >= 5 /\ IsAmount(w[n]) /\ IsAmount(w[n - 1]) /\ IsWord(w[n - 2]) /\ IsNumber(w[n - 3])
      THEN <<Item("quote", <<"Description", "Qty", "Unit", "U/Price", "Amount">>,
                  <<SubSeq(w, first, n - 4)>> \o Each(SubSeq(w, n - 3, n)))>>
      ELSE <<>>

(* _parse_compact_rfq_line_item                                            *)
CompactInquiry(w, names) ==
  LET n == Len(w)
      first == IF n > 4 /\ IsNumber(w[1]) THEN 2 ELSE 1
      number == IF first = 2 /\ "No" \in ToSet(names) THEN <<"No">> ELSE <<>>
  IN  IF n >= 4 /\ IsWord(w[n]) /\ IsNumber(w[n - 1]) /\ CodeLike(w[n - 2])
      THEN <<Item("rfq", number \o <<"Description", "Code", "Qty", "Unit">>,
                  Each(SubSeq(w, 1, Len(number))) \o <<SubSeq(w, first, n - 3)>>
                    \o Each(SubSeq(w, n - 2, n)))>>
      ELSE <<>>

CompactItem(type, line, names) ==
  CASE line.ruled -> <<>>
    [] type = "rfq" /\ InquiryColumns \ {"No"} \subseteq ToSet(names) -> CompactInquiry(line.cells, names)
    [] type = "quote" /\ QuoteColumns \subseteq ToSet(names) -> CompactQuote(line.cells)
    [] OTHER -> <<>>

(* The table of _extract_line_items: the first header, then at most        *)
(* RowWindow rows.                                                         *)
ItemOfRow(type, names, line, cells) ==
  IF Len(cells) >= 2 /\ Len(cells) = Len(names)
  THEN <<Item(type, names, Each(cells))>> ELSE CompactItem(type, line, names)
ItemsOfRows(type, names, rows) ==
  FlattenSeq([i \in DOMAIN rows |-> ItemOfRow(type, names, rows[i], SplitTableRow(rows[i]))])
ItemsBelow(type, lines, header) ==
  IF header = 0 THEN <<>>
  ELSE ItemsOfRows(type, SplitTableRow(lines[header]), RowsBelow(lines, header, RowWindow))
TableItems(type, lines) ==
  ItemsBelow(type, lines, FirstIndex(lines, LAMBDA l : HeaderOf(l, {"Description", "Qty"})))

(* _quote_horizontal_line_item_numbers, _rfq_horizontal_line_item_numbers: *)
(* the first cell, or the first word of a line with a quantity in place.   *)
QuantityInPlace(type, w, k) ==
  /\ IsNumber(w[k])
  /\ IF type = "quote" THEN k >= 3 /\ k + 2 <= Len(w) ELSE k >= 4 /\ k + 1 = Len(w)
NumbersOfRow(type, line) ==
  LET w == line.cells
  IN  IF IsNumber(w[1]) /\ (SplitTableRow(line) = w \/ \E k \in DOMAIN w : QuantityInPlace(type, w, k))
      THEN {Value(w[1])} ELSE {}
NumbersBelow(type, lines, header) ==
  IF header = 0 THEN {}
  ELSE UNION {NumbersOfRow(type, l) : l \in ToSet(RowsBelow(lines, header, CountWindow))}
TableNumbers(type, lines) ==
  LET columns == IF type = "rfq" THEN InquiryColumns ELSE {"No", "Description", "Qty"}
  IN  NumbersBelow(type, lines, FirstIndex(lines, LAMBDA l : HeaderOf(l, columns)))

-----------------------------------------------------------------------------
(* One cell to a line.                                                     *)

(* _dedupe_adjacent                                                        *)
DedupeAdjacent(s) ==
  FoldLeft(LAMBDA kept, t : IF kept # <<>> /\ Last(kept) = t THEN kept ELSE Append(kept, t),
           <<>>, s)

(* The cells below the last label of a header that begins with the label   *)
(* first, up to a footer.                                                  *)
VerticalHeader(lines, first, columns, size) ==
  FirstIndex([i \in DOMAIN lines |-> i],
             LAMBDA i : /\ CellOf(lines[i]) = first
                        /\ columns \subseteq {CellOf(l) : l \in ToSet(Window(lines, i, size))})
CellsBelow(lines, start, header, last) ==
  LET end == start - 1 + Max({i \in DOMAIN header : CellOf(header[i]) = last})
  IN  DedupeAdjacent([i \in DOMAIN RowsBelow(lines, end, CountWindow) |-> CellOf(lines[end + i])])
CellsFrom(lines, start, size, last) ==
  IF start = 0 THEN <<>> ELSE CellsBelow(lines, start, Window(lines, start, size), last)
Cells(lines, first, columns, size, last) ==
  CellsFrom(lines, VerticalHeader(lines, first, columns, size), size, last)

(* _looks_like_vertical_quote_item_start                                   *)
ItemStart(t, i) ==
  /\ i + 4 <= Len(t)
  /\ IsNumber(t[i]) /\ IsAmount(t[i + 2]) /\ IsWord(t[i + 3]) /\ IsAmount(t[i + 4])

(* The amount of the row whose number is at i: with the quantity 1 it is   *)
(* the price, and was dropped as a repetition.                             *)
AmountAt(t, i) ==
  IF i + 5 > Len(t) \/ ItemStart(t, i + 5) \/ t[i + 5] \in Footers THEN t[i + 4] ELSE t[i + 5]

QuoteItemAt(t, i) ==
  /\ i + 4 <= Len(t) /\ IsNumber(t[i])
  /\ IsAmount(t[i + 2]) /\ IsWord(t[i + 3]) /\ IsAmount(t[i + 4]) /\ IsAmount(AmountAt(t, i))

QuoteRows(t) == Where(t, LAMBDA i : QuoteItemAt(t, i))

(* _extract_vertical_quote_line_items; the currency of prices is one of    *)
(* the next cells, and not kept here.                                      *)
QuoteItemsAt(t, rows) ==
  [n \in DOMAIN rows |->
     Item("quote", <<"Description", "Qty", "Unit", "U/Price", "Amount">>,
          Each(SubSeq(t, rows[n] + 1, rows[n] + 4) \o <<AmountAt(t, rows[n])>>))]
QuoteItems(t) == QuoteItemsAt(t, QuoteRows(t))
VerticalQuoteItems(lines) == QuoteItems(Cells(lines, "Description", QuoteColumns, 16, "Amount"))

(* _quote_vertical_line_item_numbers                                       *)
QuoteNumbers(t) == {Value(t[i]) : i \in ToSet(QuoteRows(t))}
VerticalQuoteNumbers(lines) == QuoteNumbers(Cells(lines, "No", QuoteColumns \cup {"No"}, 18, "Amount"))

(* _parse_segmented_rfq_item: the cells between two numbers; the last word *)
(* below an amount is the unit, and what looks like code above it is code. *)
UnitAt(s) == Max({0} \cup {i \in 4 .. Len(s) : IsWord(s[i]) /\ IsAmount(s[i - 1])})
Continues(s, i) == s[i] \in Hyphenated \/ (CodeLike(s[i]) /\ CodeLike(s[i + 1]))
CodeStart(s, qty) == Min({i \in 1 .. qty - 1 : \A k \in i .. qty - 2 : Continues(s, k)})
InquiryItem(no, s, code, qty) ==
  IF code = 1 THEN <<>>
  ELSE <<Item("rfq", <<"No", "Description", "Code", "Qty", "Unit">>,
              <<<<no>>, SubSeq(s, 1, code - 1), SubSeq(s, code, qty - 1), <<s[qty]>>, <<s[qty + 1]>>>>)>>
SegmentUpTo(no, s, unit) ==
  IF unit = 0 THEN <<>> ELSE InquiryItem(no, s, CodeStart(s, unit - 1), unit - 1)
SegmentItem(no, s) == SegmentUpTo(no, s, UnitAt(s))

(* _extract_segmented_vertical_rfq_line_items: the row of number n starts  *)
(* at the next cell that reads n and ends at the first cell that reads     *)
(* n + 1 with which it makes an item.  item[i][j] is that of the cells     *)
(* between i and j, rows[i][n] are the rows from i on, number n first.     *)
Reads(t, i, n) == i <= Len(t) /\ IsNumber(t[i]) /\ Value(t[i]) = n
RowsFrom(t, item, rows, i, n) ==
  LET end == Len(t) + 1
      next == {j \in i + 1 .. Len(t) : Reads(t, j, n + 1)}
      ends == {j \in (IF next = {} THEN {end} ELSE next) : item[i][j] # <<>>}
  IN  CASE i = end -> <<>>
        [] i # end /\ (~Reads(t, i, n) \/ ends = {}) -> rows[i + 1][n]
        [] OTHER -> item[i][Min(ends)] \o (IF next = {} THEN <<>> ELSE rows[Min(ends)][n + 1])
Chain(t, item) ==
  LET rows[i \in 1 .. Len(t) + 1] ==
        [n \in 1 .. Len(Digits) + 1 |-> RowsFrom(t, item, rows, i, n)]
  IN  rows[1][1]
Segmented(t) ==
  Chain(t, [i \in 1 .. Len(t) + 1 |-> [j \in 1 .. Len(t) + 1 |->
              IF i < j THEN SegmentItem(t[i], SubSeq(t, i + 1, j - 1)) ELSE <<>>]])

(* The loop of _extract_vertical_rfq_line_items: number, description,      *)
(* code, quantity and unit, or the description first.                      *)
InquiryItemAt(t, i, d, n) ==
  IF i + 4 <= Len(t) /\ IsNumber(t[i + n]) /\ IsAmount(t[i + 3]) /\ IsWord(t[i + 4])
  THEN <<Item("rfq", <<"No", "Description", "Code", "Qty", "Unit">>,
              Each(<<t[i + n], t[i + d], t[i + 2], t[i + 3], t[i + 4]>>))>>
  ELSE <<>>
PlainInquiry(t) ==
  LET f[i \in 1 .. Len(t) + 5] ==
        LET item == OrElse(InquiryItemAt(t, i, 1, 0), InquiryItemAt(t, i, 0, 1))
        IN  IF i > Len(t) THEN <<>>
            ELSE IF item # <<>> THEN item \o f[i + 5] ELSE f[i + 1]
  IN  f[1]

InquiryItems(t) == OrElse(Segmented(t), PlainInquiry(t))
VerticalInquiryItems(lines) == InquiryItems(Cells(lines, "No", InquiryColumns, 12, "Unit"))

-----------------------------------------------------------------------------
(* _extract_line_items                                                     *)
ExtractLineItems(type, lines) ==
  OrElse(TableItems(type, lines),
         CASE type = "quote" -> VerticalQuoteItems(lines)
           [] type = "rfq" -> VerticalInquiryItems(lines)
           [] OTHER -> <<>>)

(* _expected_quote_line_item_count, _expected_rfq_line_item_count: the     *)
(* largest number, and 0 without any.                                      *)
ExpectedLineItems(type, lines) ==
  Max({0} \cup CASE type = "quote" -> TableNumbers(type, lines) \cup VerticalQuoteNumbers(lines)
                 [] type = "rfq" -> TableNumbers(type, lines) \cup
                      {Value(item["No"][1]) : item \in ToSet(VerticalInquiryItems(lines))}
                 [] OTHER -> {})

(* Mutant: the items of a model are kept, be they too few.                 *)
RecoverIfNone(expected, found, items) == IF items = <<>> THEN found ELSE items
(* _recover_incomplete_quote_line_items, _recover_incomplete_rfq_...: too  *)
(* few items give way to those of the text, if these are more.             *)
RecoverLineItems(expected, found, items) ==
  IF Len(items) < expected /\ Len(found) > Len(items) THEN found ELSE items

(* The warning fixed_quote_line_items_missing, fixed_rfq_line_items_missing. *)
LineItemsMissing(expected, items) == Len(items) < expected
=============================================================================
