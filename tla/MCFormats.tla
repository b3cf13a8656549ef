------------------------------- MODULE MCFormats -------------------------------
(***************************************************************************)
(* Formats in one run.  Its parts share nothing: `part` says which of them *)
(* a behaviour is about.                                                   *)
(***************************************************************************)
EXTENDS Formats

VARIABLE part

kdbx == <<stage, source, file, entries, imported, code>>
argon2 == <<par, at, written, addrCounter, ref, result>>
csv == <<progress, table, text, rows, read>>

-----------------------------------------------------------------------------
(* KeePass files: items of every type, their custom fields named like      *)
(* fields of each meaning a name can have; databases with earlier          *)
(* versions, two groups, one of them the recycle bin, in every format,     *)
(* with secrets that end within, at and beyond a block of keystream.       *)

CardFields == {"Card Holder", "Card Number", "Card Brand", "Card PIN"}
IdentityFields == {"Full Name", "Email"}

T(s) == [i \in DOMAIN s |-> [c |-> s[i], pads |-> {}]]

CF(label, value, hidden) == [label |-> label, value |-> value, hidden |-> hidden]
Labels == {<<"note">>, <<"Password">>, <<"Password", 2>>, <<"otp">>, <<"TOTP Seed">>,
           <<"TOTP Settings">>, <<"Card Number">>, <<"Full Name">>, <<>>}
Customs ==
  {<<>>} \cup {<<CF(l, T(<<"v", "ctl">>), h)>> : l \in Labels, h \in BOOLEAN}
  \cup {<<CF(l, T(<<"v">>), FALSE), CF(m, T(<<"w", "x", "y">>), TRUE)>> :
          l, m \in {<<"note">>, <<"pin">>, <<"Password">>, <<"Password", 2>>}}
  \cup {<<CF(<<"note">>, <<>>, TRUE), CF(<<>>, <<>>, TRUE)>>}

Item(type, u, p, totp, extra, custom, tags) ==
  [type |-> type, title |-> T(<<"t">>), username |-> u, password |-> p, url |-> <<>>,
   notes |-> T(<<"n">>), totp |-> totp, extra |-> extra, custom |-> custom, tags |-> tags]

Logins ==
  {Item("login", T(u), T(p), T(s), <<>>, c, <<>>) :
     u \in {<<>>, <<"u">>}, p \in {<<>>, <<"p", "q">>},
     s \in {<<>>, <<"s">>}, c \in Customs}
  \cup {Item("login", T(<<"u">>), T(<<"p", "q">>), T(<<"otpauth", "s">>), <<>>, <<>>,
             <<T(<<"a">>), T(<<"b">>)>>)}
Extra(keys, given) == [k \in keys |-> IF k \in given THEN T(<<"e", k>>) ELSE <<>>]
Cards ==
  {Item("card", <<>>, <<>>, <<>>, Extra(CardFields, g), c, <<>>) :
     g \in {{}, {"Card PIN"}, {"Card Number", "Card Brand"}, CardFields},
     c \in {x \in Customs : Len(x) < 2}}
Identities ==
  {Item("identity", <<>>, <<>>, <<>>, Extra(IdentityFields, g), <<>>, <<>>) :
     g \in {{"Email"}, IdentityFields}}

Full == CHOOSE d \in Logins : d.username # <<>> /\ d.password # <<>> /\ d.totp # <<>> /\ Len(d.custom) = 2
KdbxVaultsHere ==
  {<<d>> : d \in Logins \cup Cards \cup Identities}
  \cup {<<Full, Item("card", <<>>, <<>>, <<>>, Extra(CardFields, {"Card PIN"}), <<>>, <<>>)>>}

F(k, v, p) == [key |-> <<k>>, value |-> v, protected |-> p]
Entry(c, hist) ==
  [fields |-> <<F("Title", T(<<c>>), FALSE), F("Password", T(<<c, "p", "q">>), TRUE)>>, tags |-> <<>>,
   history |-> hist]
Old(c) == <<F("Title", T(<<c>>), FALSE), F("Password", T(<<c, "o">>), TRUE)>>
Group(n, es) == [name |-> n, entries |-> es]

KdbxDatabasesHere ==
  {[major |-> m, cipher |-> c, kdf |-> k, zipped |-> z, stream |-> s, hashed |-> h, bin |-> b,
    entries |-> <<Entry("a", <<Old("a")>>), Entry("c", <<>>)>>,
    groups |-> <<Group("g1", <<Entry("d", <<Old("d")>>)>>), Group("g2", <<Entry("e", <<>>)>>)>>] :
     m \in {3, 4}, c \in {"aes", "chacha", "twofish"}, k \in {"argon", "other"}, z \in BOOLEAN,
     s \in {"chacha", "salsa", "plain"}, h \in BOOLEAN, b \in {"none", "g1"}}

-----------------------------------------------------------------------------
(* Key derivation: one to three lanes, more memory than whole segments fill *)
(* and less than the least, up to three passes.                             *)

P(l, m, t, v) == [lanes |-> l, memKiB |-> m, passes |-> t, variant |-> v]

MCParams ==
  {P(1, 8, 2, 0), P(1, 20, 2, 2), P(2, 1, 3, 0), P(2, 24, 2, 2), P(3, 40, 2, 2), P(1, 1, 1, 1)}
MCUppers == {0, 1, 15}
MCLengths == {0, 1, 3, 4, 5, 6, 7, 8, 9, 15, 16, 17, 24, 31, 32, 33, 40}

-----------------------------------------------------------------------------
(* CSV files: cells of up to two characters. *)

Chars == {"a", "comma", "quote", "CR", "LF", "blank"}
Texts == UNION {[1..n -> Chars] : n \in 0..2}
D(title, u, p, notes, extras) ==
  [type |-> "login", title |-> title, username |-> u, password |-> p, url |-> <<"h">>,
   notes |-> notes, totp |-> <<"s">>, tags |-> <<"x", "y">>, extras |-> extras]
X(custom, v) == [custom |-> custom, label |-> "label", value |-> v]
CsvVaultsHere ==
  {<<D(<<"t">>, u, p, <<>>, <<>>)>> : u, p \in Texts}
  \cup {<<D(t, <<"u">>, <<"quote">>, n, <<X(FALSE, <<"LF", "quote">>), X(FALSE, <<>>), X(TRUE, <<>>)>>), D(<<"t">>, n, t, t, <<>>)>> :
          t \in {<<>>, <<"blank">>, <<"a", "comma">>}, n \in Texts}
Op(h, t) == << <<"otpauth", "s">>, <<"n">>, t, <<"t">>, <<"login">>, <<"h">>, <<"u">> >>
CsvTablesHere ==
  {[rows |-> h \o <<Op("", t), Op("", <<"p">>)>>, eol |-> e, quoted |-> q] :
     t \in Texts, e \in {<<"LF">>, <<"CR", "LF">>}, q \in BOOLEAN,
     h \in {<<>>, << << <<"otpauth">>, <<"notes">>, <<"password">>, <<"title">>, <<"type">>,
                        <<"website">>, <<"username">> >> >>}}

-----------------------------------------------------------------------------
(* The values of the constants: names for the sets above, which are built  *)
(* once that way.                                                          *)

MCKdbxVaults == KdbxVaultsHere
MCKdbxDatabases == KdbxDatabasesHere
MCCsvVaults == CsvVaultsHere
MCCsvTables == CsvTablesHere
MCCharacters ==
  Chars \cup {"colon", "semicolon", "type", "title", "username", "password", "url", "website", "notes",
             "totp", "otpauth", "tags", "label", "login", "", "h", "n", "p", "s", "t", "u", "x", "y"}

-----------------------------------------------------------------------------
Init ==
  /\ part \in {"kdbx", "argon2", "csv"} /\ K!Init /\ A!Init /\ C!Init
  /\ part # "argon2" => par = P(1, 1, 1, 1)

Next ==
  \/ part = "kdbx" /\ K!Next /\ UNCHANGED <<part, argon2, csv>>
  \/ part = "argon2" /\ A!Next /\ UNCHANGED <<part, kdbx, csv>>
  \/ part = "csv" /\ C!Next /\ UNCHANGED <<part, kdbx, argon2>>

Spec == Init /\ [][Next]_<<part, kdbx, argon2, csv>>
================================================================================
