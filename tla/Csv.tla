---------------------------------- MODULE Csv ----------------------------------
(***************************************************************************)
(* Vaults to CSV files and back: buildCsv of src/web/export.js, and the    *)
(* parser and the columns of src/web/import.js, which also reads the files *)
(* of 1Password, with headers and without.  A text is a sequence of        *)
(* characters; the name of a column and the part of an otpauth address     *)
(* before its secret count as one.                                         *)
(***************************************************************************)
EXTENDS Integers, Sequences, SequencesExt

CONSTANTS
  Vaults,    \* the sequences of items that may be exported
  Tables     \* what 1Password may have written: [rows, eol, quoted]

VARIABLES
  stage,     \* how far the file has got
  source,    \* what was written: [by, ...]
  text,      \* the file
  rows,      \* the cells found in it
  items      \* the items they become

vars == <<stage, source, text, rows, items>>

CR == "CR"
LF == "LF"
Quote == "quote"
Comma == "comma"
Blanks == {"blank", CR, LF}

Has(s, chars) == \E i \in DOMAIN s : s[i] \in chars

Joined(parts, separator) ==
  FlattenSeq([i \in DOMAIN parts |-> IF i = 1 THEN parts[1] ELSE separator \o parts[i]])

\* The members of a sequence that pass a test, in their order.
Where(s, Test(_)) ==
  FlattenSeq([i \in DOMAIN s |-> IF Test(s[i]) THEN <<s[i]>> ELSE <<>>])

-----------------------------------------------------------------------------
(* Writing *)

Quoted(s) ==
  <<Quote>> \o FlattenSeq([i \in DOMAIN s |-> IF s[i] = Quote THEN <<Quote, Quote>> ELSE <<s[i]>>])
            \o <<Quote>>

\* Mutant of csvCell: a lone carriage return does not ask for quotes.
csvCellNoCR(v) == IF Has(v, {Quote, Comma, LF}) THEN Quoted(v) ELSE v

csvCell(v) == IF Has(v, {Quote, Comma, LF, CR}) THEN Quoted(v) ELSE v

Header ==
  <<"type", "title", "username", "password", "url", "notes", "totp", "tags">>

\* The fields a CSV has no column for follow the notes, a line for each: those
\* of its type that have a value, and the custom ones, which have a label.
Notes(d) ==
  LET shown == Where(d.extras, LAMBDA x : x.custom \/ x.value # <<>>)
      lines == Joined([i \in DOMAIN shown |-> <<shown[i].label, "colon">> \o shown[i].value], <<LF>>)
  IN CASE shown = <<>> -> d.notes
       [] shown # <<>> /\ d.notes = <<>> -> lines
       [] OTHER -> d.notes \o <<LF>> \o lines

Row(d) ==
  << <<d.type>>, d.title, d.username, d.password, d.url, Notes(d), d.totp,
     Joined([i \in DOMAIN d.tags |-> <<d.tags[i]>>], <<"semicolon">>) >>

Line(cells) == Joined([i \in DOMAIN cells |-> csvCell(cells[i])], <<Comma>>)

\* The mark at the beginning is dropped by the reader of the file.
buildCsv(vault) ==
  LET lines == <<Line([i \in DOMAIN Header |-> <<Header[i]>>])>>
               \o [i \in DOMAIN vault |-> Line(Row(vault[i]))]
  IN Joined(lines, <<CR, LF>>) \o <<CR, LF>>

\* What 1Password writes (external): every cell in quotes or only where it
\* must be, lines that end one way or the other.
Written(t) ==
  LET Cell(c) == IF t.quoted THEN Quoted(c) ELSE csvCell(c)
  IN Joined([i \in DOMAIN t.rows |->
               Joined([j \in DOMAIN t.rows[i] |-> Cell(t.rows[i][j])], <<Comma>>)], t.eol)

-----------------------------------------------------------------------------
(* Reading *)

\* One character more.  in: "start" of a cell, "plain", "quoted", "quote"
\* after a quote inside quotes, "cr" after a carriage return that ended a row.
\* What follows the closing quote directly begins a row.
Char(p, c) ==
  LET Grow(state) == [p EXCEPT !.in = state, !.row[Len(p.row)] = Append(@, c)]
      EndRow(state, cell) == [rows |-> Append(p.rows, p.row), row |-> <<cell>>, in |-> state]
      AtStart == p.in \in {"start", "cr"}
  IN CASE p.in = "quoted" -> IF c = Quote THEN [p EXCEPT !.in = "quote"] ELSE Grow("quoted")
       [] p.in = "quote" /\ c = Quote -> Grow("quoted")
       [] p.in = "quote" /\ c \notin {Quote, Comma, CR, LF} -> EndRow("plain", <<c>>)
       [] AtStart /\ c = Quote -> [p EXCEPT !.in = "quoted"]
       [] p.in = "cr" /\ c = LF -> [p EXCEPT !.in = "start"]
       [] p.in # "quoted" /\ c = Comma -> [p EXCEPT !.in = "start", !.row = Append(@, <<>>)]
       [] p.in \notin {"quoted", "cr"} /\ c = LF -> EndRow("start", <<>>)
       [] p.in # "quoted" /\ c = CR -> EndRow("cr", <<>>)
       [] OTHER -> Grow("plain")

parseCSV(s) ==
  LET f[i \in 0..Len(s)] ==
        IF i = 0 THEN [rows |-> <<>>, row |-> << <<>> >>, in |-> "start"]
        ELSE LET p == f[i - 1] IN Char(p, s[i])
      end == f[Len(s)]
  IN IF end.row = << <<>> >> /\ end.in \in {"start", "cr"} THEN end.rows
     ELSE Append(end.rows, end.row)

trim(s) ==
  LET solid == {i \in DOMAIN s : s[i] \notin Blanks}
  IN IF solid = {} THEN <<>>
     ELSE SubSeq(s, CHOOSE i \in solid : \A j \in solid : i <= j,
                    CHOOSE i \in solid : \A j \in solid : j <= i)

extractTOTPSecret(s) ==
  IF s # <<>> /\ Head(s) = "otpauth" THEN Tail(s) ELSE <<>>

KnownHeaders ==
  {"title", "username", "password", "url", "website", "notes", "otpauth", "type"}

csvHasHeaders(row) ==
  \E i, j \in DOMAIN row :
    i # j /\ \A k \in {i, j} : \E h \in KnownHeaders : trim(row[k]) = <<h>>

\* The first column of a name, 0 for none.
idx(headers, name) ==
  LET at == {i \in DOMAIN headers : trim(headers[i]) = <<name>>}
  IN IF at = {} THEN 0 ELSE CHOOSE i \in at : \A j \in at : i <= j

Max2(a, b) == IF a > b THEN a ELSE b

Columns(h) ==
  [title |-> idx(h, "title"), username |-> Max2(idx(h, "username"), idx(h, "email")),
   password |-> idx(h, "password"), url |-> Max2(idx(h, "website"), idx(h, "url")),
   notes |-> idx(h, "notes"), otpauth |-> idx(h, "otpauth"), type |-> idx(h, "type")]

OP_CSV_COLUMNS ==
  [otpauth |-> 1, notes |-> 2, password |-> 3, title |-> 4, type |-> 5, url |-> 6, username |-> 7]

mapCSVToItems(table) ==
  LET headed == table # <<>> /\ csvHasHeaders(table[1])
      C == IF headed THEN Columns(table[1]) ELSE OP_CSV_COLUMNS
      At(row, k) == IF C[k] \in DOMAIN row THEN trim(row[C[k]]) ELSE <<>>
      kept == Where(IF headed THEN Tail(table) ELSE table,
                LAMBDA row : At(row, "type") # <<"document">> /\ At(row, "title") # <<>>)
  IN [i \in DOMAIN kept |->
        [title |-> At(kept[i], "title"), username |-> At(kept[i], "username"),
         password |-> At(kept[i], "password"), url |-> At(kept[i], "url"),
         notes |-> At(kept[i], "notes"), totp |-> extractTOTPSecret(At(kept[i], "otpauth"))]]

-----------------------------------------------------------------------------
Init ==
  /\ stage = "none" /\ source = [by |-> "nobody"]
  /\ text = <<>> /\ rows = <<>> /\ items = <<>>

runExport(vault) ==
  /\ stage = "none" /\ stage' = "written"
  /\ source' = [by |-> "export", vault |-> vault]
  /\ text' = buildCsv(vault)
  /\ UNCHANGED <<rows, items>>

OtherExport(t) ==
  /\ stage = "none" /\ stage' = "written"
  /\ source' = [by |-> "other", table |-> t]
  /\ text' = Written(t)
  /\ UNCHANGED <<rows, items>>

Import ==
  /\ stage = "written" /\ stage' = "done"
  /\ rows' = parseCSV(text)
  /\ items' = mapCSVToItems(rows')
  /\ UNCHANGED <<source, text>>

Next ==
  \/ \E v \in Vaults : runExport(v)
  \/ \E t \in Tables : OtherExport(t)
  \/ Import

Spec == Init /\ [][Next]_vars

-----------------------------------------------------------------------------
(* What must hold *)

\* The cells are those that were written, whatever quotes, separators and
\* line ends are in them, and each titled item comes back with its login,
\* up to blanks around the values.  CSV carries no one-time code of an item:
\* the column has another name than the one that is read.
CsvRoundTrip ==
  stage = "done" =>
    IF source.by = "export"
    THEN LET titled == Where(source.vault, LAMBDA d : trim(d.title) # <<>> /\ d.type # "document")
         IN /\ rows = <<[i \in DOMAIN Header |-> <<Header[i]>>]>>
                      \o [i \in DOMAIN source.vault |-> Row(source.vault[i])]
            /\ items = [i \in DOMAIN titled |->
                 [title |-> trim(titled[i].title), username |-> trim(titled[i].username),
                  password |-> trim(titled[i].password), url |-> trim(titled[i].url),
                  notes |-> trim(Notes(titled[i])), totp |-> <<>>]]
    ELSE rows = source.table.rows
=============================================================================
