-------------------------------- MODULE Kdbx --------------------------------
(***************************************************************************)
(* Vaults to KeePass files and back: src/web/export.js writes a KDBX 4     *)
(* file, src/web/kdbx-read.js reads KDBX 3 and 4 files, its own and those  *)
(* of other programs, and maps their entries to items again.  Between the  *)
(* two the file may be damaged: cut short, a block lost, repeated or moved,*)
(* one of its parts altered.                                               *)
(*                                                                         *)
(* A text is a sequence of bytes, a byte a character with the set of       *)
(* keystream bytes it has been XORed with: XOR with the same one twice     *)
(* gives the character back, with another one gives rubbish.  Hashes, MACs *)
(* and encryptions are the terms they are computed from.  A document is    *)
(* the sequence of its tags and texts.                                     *)
(***************************************************************************)
EXTENDS Integers, Sequences, SequencesExt

CONSTANTS
  Vaults,      \* the sequences of items that may be exported
  Databases,   \* the databases another program may have written
  StreamBlock, \* bytes of one keystream block (64 in the code)
  Damaged,     \* stands for data that is not what was written
  NoData       \* the data of the block that ends a file

VARIABLES
  stage,    \* how far the file has got
  source,   \* what was written: [by, items or groups, hashed]
  file,     \* the file

  entries,  \* the entries found in it
  items,    \* the items they become
  code      \* of the error that stopped the reading

vars == <<stage, source, file, entries, items, code>>

-----------------------------------------------------------------------------
(* Texts and keys *)

NewStream(key) == [key |-> key, counter |-> 0, pos |-> StreamBlock]

Toggle(b, pad) ==
  [b EXCEPT !.pads = IF pad \in @ THEN @ \ {pad} ELSE @ \cup {pad}]

\* One byte: a block is used up before the next is computed.
XorByte(r, b) ==
  LET fresh == r.s.pos = StreamBlock
      block == IF fresh THEN r.s.counter ELSE r.s.counter - 1
      at == IF fresh THEN 0 ELSE r.s.pos
      pad == [key |-> r.s.key, block |-> block, pos |-> at]
  IN [s |-> [key |-> r.s.key, counter |-> block + 1, pos |-> at + 1],
      out |-> Append(r.out, Toggle(b, pad))]

xor(s, text) ==
  LET f[i \in 0..Len(text)] ==
        IF i = 0 THEN [s |-> s, out |-> <<>>]
        ELSE LET r == f[i - 1] IN XorByte(r, text[i])
  IN IF s.key.id = "plain" THEN [s |-> s, out |-> text] ELSE f[Len(text)]

\* Control characters do not go into an XML text; the others come back as
\* they were.
xmlEsc(text) == SelectSeq(text, LAMBDA b : b.c # "ctl")

otpauthUri(d) ==
  IF d.totp = <<>> \/ Head(d.totp).c = "otpauth" THEN d.totp
  ELSE <<[c |-> "otpauth", pads |-> {}]>> \o d.totp

totpSecretFrom(v) ==
  IF v # <<>> /\ Head(v).c = "otpauth" THEN Tail(v) ELSE v

Key(name) == <<name>>

\* Of the fields of a type, those that tell the type, and one of each kind of the
\* others, which all fare like it: shown (the brand, the email) or hidden (the PIN).
CardKeys == {"Card Holder", "Card Number", "Card Brand", "Card PIN"}
IdentityKeys == {"Full Name", "Email"}

ExtraOrder(type) ==
  CASE type = "card" -> <<"Card Holder", "Card Number", "Card Brand", "Card PIN">>
    [] type = "identity" -> <<"Full Name", "Email">>
    [] OTHER -> <<>>

Hidden == {"Card Number", "Card PIN"}

Field(key, value, protected) ==
  [key |-> key, value |-> value, protected |-> protected]

-----------------------------------------------------------------------------
(* From items to a document *)

Standard(d) ==
  << Field(Key("Title"), d.title, FALSE), Field(Key("UserName"), d.username, FALSE),
     Field(Key("Password"), d.password, TRUE), Field(Key("URL"), d.url, FALSE),
     Field(Key("Notes"), d.notes, FALSE) >>
  \o (IF otpauthUri(d) = <<>> THEN <<>> ELSE <<Field(Key("otp"), otpauthUri(d), TRUE)>>)

extraFields(d) ==
  [i \in DOMAIN ExtraOrder(d.type) |->
     LET k == ExtraOrder(d.type)[i] IN Field(Key(k), d.extra[k], k \in Hidden)]

KeysOf(fields) == {fields[i].key : i \in DOMAIN fields}

\* A label that is taken gets the first number, from 2 on, that is free.
Fresh(label, used) ==
  IF label \notin used THEN label
  ELSE Append(label, CHOOSE n \in 2..Len(ExtraOrder("card")) + 6 :
                       /\ Append(label, n) \notin used
                       /\ \A m \in 2..n - 1 : Append(label, m) \in used)

WithCustom(fields, custom) ==
  LET f[i \in 0..Len(custom)] ==
        IF i = 0 THEN fields
        ELSE LET done == f[i - 1]
                 cf == custom[i]
                 label == IF cf.label = <<>> THEN Key("Field") ELSE cf.label
             IN IF cf.label = <<>> /\ cf.value = <<>> THEN done
                ELSE Append(done, Field(Fresh(label, KeysOf(done)), cf.value, cf.hidden))
  IN f[Len(custom)]

itemsToKdbxEntries(vault) ==
  [i \in DOMAIN vault |->
     [fields |-> WithCustom(Standard(vault[i]) \o extraFields(vault[i]), vault[i].custom),
      tags |-> vault[i].tags, history |-> <<>>]]

Token(kind, tag, text, protected) ==
  [kind |-> kind, tag |-> tag, text |-> text, protected |-> protected]

Element(tag, body) ==
  <<Token("open", tag, <<>>, FALSE)>> \o body \o <<Token("close", tag, <<>>, FALSE)>>

\* An element that has a text and nothing else counts as one.
Leaf(tag, text, protected) == << Token("leaf", tag, text, protected) >>

StringXml(f) ==
  Element("String", Leaf("Key", f.key, FALSE)
    \o Leaf("Value", IF f.protected THEN f.value ELSE xmlEsc(f.value), f.protected))

Separator == [c |-> ";", pads |-> {}]

Joined(tags) ==
  FlattenSeq([i \in DOMAIN tags |-> IF i = 1 THEN tags[1] ELSE <<Separator>> \o tags[i]])

Strings(fields) ==
  FlattenSeq([i \in DOMAIN fields |->
                IF fields[i].value = <<>> THEN <<>> ELSE StringXml(fields[i])])

\* Other programs keep the earlier versions of an entry inside it.
entryXml(e) ==
  Element("Entry",
    (IF e.tags = <<>> THEN <<>> ELSE Leaf("Tags", xmlEsc(Joined(e.tags)), FALSE))
    \o Strings(e.fields)
    \o (IF e.history = <<>> THEN <<>>
        ELSE Element("History", FlattenSeq([i \in DOMAIN e.history |->
                                  Element("Entry", Strings(e.history[i]))]))))

Entries(es) == FlattenSeq([i \in DOMAIN es |-> entryXml(es[i])])

Char(c) == <<[c |-> c, pads |-> {}]>>

databaseXml(es) ==
  Element("KeePassFile", Element("Meta", Leaf("DatabaseName", Char("name"), FALSE))
    \o Element("Root", Element("Group", Leaf("Name", Char("name"), FALSE) \o Entries(es))))

\* The writer encrypts the protected values as it comes to them.
Sealed(doc, stream) ==
  LET f[i \in 0..Len(doc)] ==
        IF i = 0 THEN [s |-> stream, out |-> <<>>]
        ELSE LET p == f[i - 1]
                 r == xor(p.s, doc[i].text)
             IN IF doc[i].protected
                THEN [s |-> r.s, out |-> Append(p.out, [doc[i] EXCEPT !.text = r.out])]
                ELSE [s |-> p.s, out |-> Append(p.out, doc[i])]
  IN f[Len(doc)].out

-----------------------------------------------------------------------------
(* The file *)

Header(id, data) == [id |-> id, data |-> data]

Composite(password) == [password |-> password]
Transformed(kdf, composite) == [kdf |-> kdf, of |-> composite]
CipherKey(seed, transformed) == [use |-> "cipher", seed |-> seed, of |-> transformed]
HmacKeyBase(seed, transformed) == [use |-> "hmac", seed |-> seed, of |-> transformed]
Hash(data) == [hash |-> data]
HeaderHmac(base, header) == [key |-> base, index |-> -1, data |-> header]
BlockHmac(base, index, data) == [key |-> base, index |-> index, data |-> data]

Part(cipher, key, iv, payload, k) ==
  <<[cipher |-> cipher, key |-> key, iv |-> iv, payload |-> payload, part |-> k]>>

\* Two parts stand for a payload longer than one block.
PayloadParts == 2

\* o: the choices of the program that writes it.
File4(o, xml) ==
  LET header == << Header(2, o.cipher), Header(3, o.zipped), Header(4, "seed"),
                   Header(7, "iv"), Header(11, o.kdf), Header(0, "end") >>
      transformed == Transformed(o.kdf, Composite("password"))
      base == HmacKeyBase("seed", transformed)
      payload == [zipped |-> o.zipped, stream |-> [id |-> o.stream, key |-> "inner"], xml |-> xml]
      data == [k \in 1..PayloadParts |->
                 Part(o.cipher, CipherKey("seed", transformed), "iv", payload, k)]
  IN [magic |-> TRUE, major |-> 4, header |-> header,
      rest |-> << Hash(header), HeaderHmac(base, header) >>
        \o [k \in 1..PayloadParts |->
              [data |-> data[k], hmac |-> BlockHmac(base, k - 1, data[k])]]
        \o << [data |-> NoData, hmac |-> BlockHmac(base, PayloadParts, NoData)] >>]

buildKdbx(vault) ==
  File4([cipher |-> "aes", zipped |-> FALSE, kdf |-> "aes", stream |-> "chacha"],
        Sealed(databaseXml(itemsToKdbxEntries(vault)),
               NewStream([id |-> "chacha", key |-> "inner"])))

-----------------------------------------------------------------------------
(* What another program writes (KeePass; external).  A database has groups *)
(* inside its root group, one of which may be the recycle bin.             *)

\* The n-th protected byte of the document meets the n-th keystream byte.
SealedByOffset(doc, key) ==
  LET before[i \in 0..Len(doc)] ==
        IF i = 0 THEN 0
        ELSE before[i - 1] + (IF doc[i].protected
                              THEN Len(doc[i].text) ELSE 0)
      Pad(n) == [key |-> key, block |-> n \div StreamBlock, pos |-> n % StreamBlock]
  IN [i \in DOMAIN doc |->
        IF doc[i].protected /\ key.id # "plain"
        THEN [doc[i] EXCEPT !.text = [k \in DOMAIN doc[i].text |->
                Toggle(doc[i].text[k], Pad(before[i - 1] + k - 1))]]
        ELSE doc[i]]

GroupXml(g) ==
  Element("Group", Leaf("UUID", Char(g.name), FALSE) \o Leaf("Name", Char(g.name), FALSE)
                   \o Entries(g.entries))

\* h: the header, for the versions that keep its hash in the document.
ForeignXml(db, h) ==
  Element("KeePassFile",
    Element("Meta", (IF db.bin = "none" THEN <<>> ELSE Leaf("RecycleBinUUID", Char(db.bin), FALSE))
      \o (IF db.major = 3 /\ db.hashed THEN Leaf("HeaderHash", Hash(h), FALSE) ELSE <<>>))
    \o Element("Root", Element("Group", Leaf("UUID", Char("root"), FALSE) \o Entries(db.entries)
      \o FlattenSeq([i \in DOMAIN db.groups |-> GroupXml(db.groups[i])]))))

Hashed(data) == [data |-> data, hash |-> Hash(data)]
Start == Hashed("start")

File3(db) ==
  LET header == << Header(2, db.cipher), Header(3, db.zipped), Header(4, "seed"),
                   Header(5, "kdfseed"), Header(7, "iv"), Header(8, "inner"), Header(9, Start),
                   Header(10, db.stream), Header(0, "end") >>
      xml == SealedByOffset(ForeignXml(db, header), [id |-> db.stream, key |-> "inner"])
      block == [zipped |-> db.zipped, xml |-> xml]
  IN [magic |-> TRUE, major |-> 3, header |-> header,
      rest |-> << [cipher |-> db.cipher, iv |-> "iv",
                   key |-> CipherKey("seed", Transformed("kdfseed", Composite("password"))),
                   parts |-> << Start, Hashed(block), Hashed(NoData) >>] >>]

Foreign(db) ==
  IF db.major = 3 THEN File3(db)
  ELSE File4(db, SealedByOffset(ForeignXml(db, <<>>), [id |-> db.stream, key |-> "inner"]))

-----------------------------------------------------------------------------
(* Opening the file *)

Refused(c) == [code |-> c, entries |-> <<>>]

\* The last field with an id counts; a header cut short has no end.
HeaderField(h, id) ==
  LET at == {i \in DOMAIN h : h[i].id = id}
  IN h[CHOOSE i \in at : \A j \in at : j <= i].data
HeaderEnds(h) == \E i \in DOMAIN h : h[i].id = 0

innerStreamFor(id, key) ==
  [id |-> IF id \in {"chacha", "salsa", "arc4"} THEN id ELSE "plain", key |-> key]

deriveTransformed(kdf, composite) == Transformed(kdf, composite)

\* The ciphertext is right when every part of it is there, in order.  What
\* comes out of another one is any text.
decryptOuter(cipher, key, iv, parts) ==
  LET whole == /\ Len(parts) = PayloadParts
               /\ \A k \in DOMAIN parts : /\ parts[k].key = key /\ parts[k].iv = iv
                                          /\ parts[k].part = k
  IN IF whole THEN parts[1].payload
     ELSE [zipped |-> FALSE, stream |-> [id |-> "plain", key |-> "inner"], xml |-> Damaged]

Ends(b) == b.data = NoData

BlocksEnd(blocks) ==
  CHOOSE n \in DOMAIN blocks : Ends(blocks[n]) /\ \A m \in 1..n - 1 : ~Ends(blocks[m])

\* [code, xml, stream, header], the last for the versions that check it later.
readKdbx4(f, password) ==
  LET transformed == deriveTransformed(HeaderField(f.header, 11), Composite(password))
      seed == HeaderField(f.header, 4)
      base == HmacKeyBase(seed, transformed)
      blocks == SubSeq(f.rest, 3, Len(f.rest))
      end == BlocksEnd(blocks)
      payload == decryptOuter(HeaderField(f.header, 2), CipherKey(seed, transformed),
                   HeaderField(f.header, 7), FlattenSeq([k \in 1..end - 1 |-> blocks[k].data]))
  IN IF Len(f.rest) < 1 \/ Head(f.rest) # Hash(f.header) THEN Refused("corrupt")
     ELSE IF HeaderField(f.header, 11) \notin {"aes", "argon"} THEN Refused("unsupported")
     ELSE IF Len(f.rest) < 2 \/ f.rest[2] # HeaderHmac(base, f.header) THEN Refused("bad-password")
     ELSE IF \/ ~\E n \in DOMAIN blocks : Ends(blocks[n])
             \/ \E n \in 1..end : blocks[n].hmac # BlockHmac(base, n - 1, blocks[n].data)
          THEN Refused("corrupt")
     ELSE IF HeaderField(f.header, 2) \notin {"aes", "chacha"} THEN Refused("unsupported")
     ELSE [code |-> "ok", xml |-> payload.xml, header |-> NoData,
           stream |-> innerStreamFor(payload.stream.id, payload.stream.key)]

readKdbx3(f, password) ==
  LET Of(id) == HeaderField(f.header, id)
      masterKey == CipherKey(Of(4), Transformed(Of(5), Composite(password)))
      body == f.rest[1]
      parts == IF body.iv = Of(7) THEN body.parts ELSE [body.parts EXCEPT ![1].data = Damaged]
      blocks == Tail(parts)
      end == BlocksEnd(blocks)
      block == blocks[1].data
  IN IF Len(f.rest) < 1 THEN Refused("bad-password")
     ELSE IF Of(2) \notin {"aes", "chacha"} THEN Refused("unsupported")
     \* Without its end the padding is wrong.
     ELSE IF body.key # masterKey \/ (Of(2) = "aes" /\ Len(parts) < 3) THEN Refused("bad-password")
     ELSE IF parts[1] # Of(9) THEN Refused("bad-password")
     ELSE IF \/ ~\E n \in DOMAIN blocks : Ends(blocks[n])
             \/ \E n \in 1..end - 1 : blocks[n].hash # Hash(blocks[n].data)
          THEN Refused("corrupt")
     ELSE IF Of(3) = TRUE /\ ~block.zipped THEN Refused("uncoded")
     ELSE IF Of(3) # TRUE /\ block.zipped THEN Refused("corrupt")
     ELSE [code |-> "ok", xml |-> block.xml, header |-> f.header,
           stream |-> innerStreamFor(Of(10), Of(8))]

-----------------------------------------------------------------------------
(* From the document to entries *)

\* up: the element it is in, the last one on the stack.
XmlToken(p, t) ==
  LET new == [tag |-> t.tag, up |-> Last(p.stack), text |-> t.text, protected |-> t.protected]
  IN CASE t.kind = "open" -> [stack |-> Append(p.stack, Len(p.els) + 1), els |-> Append(p.els, new)]
       [] t.kind = "close" -> [stack |-> IF Len(p.stack) > 1 THEN Front(p.stack) ELSE p.stack,
                               els |-> p.els]
       [] t.kind = "leaf" -> [stack |-> p.stack, els |-> Append(p.els, new)]

parseXml(doc) ==
  LET f[i \in 0..Len(doc)] ==
        IF i = 0 THEN [stack |-> <<0>>, els |-> <<>>] ELSE XmlToken(f[i - 1], doc[i])
  IN f[Len(doc)].els

\* In document order; meant: the values that are decrypted.
Unprotected(es, stream, meant) ==
  LET f[i \in 0..Len(es)] ==
        IF i = 0 THEN [s |-> stream, out |-> <<>>]
        ELSE LET p == f[i - 1]
                 r == xor(p.s, es[i].text)
             IN IF i \in meant
                THEN [s |-> r.s, out |-> Append(p.out, [es[i] EXCEPT !.text = r.out])]
                ELSE [s |-> p.s, out |-> Append(p.out, es[i])]
  IN f[Len(es)].out

Protected(es) == {i \in DOMAIN es : es[i].tag = "Value" /\ es[i].protected}

\* Mutant of unprotectAll: the values of earlier versions are passed over.
UnprotectLatest(es, stream) ==
  Unprotected(es, stream,
    {i \in Protected(es) : es[es[es[es[i].up].up].up].tag # "History"})

\* History and recycle bin included.
unprotectAll(es, stream) == Unprotected(es, stream, Protected(es))

Children(es, i, tag) ==
  SelectSeq([j \in DOMAIN es |-> j], LAMBDA j : es[j].up = i /\ es[j].tag = tag)
childText(es, i, tag) ==
  IF Children(es, i, tag) = <<>> THEN <<>> ELSE es[Head(Children(es, i, tag))].text

Split(text) ==
  LET f[i \in 0..Len(text)] ==
        IF i = 0 THEN << <<>> >>
        ELSE LET p == f[i - 1]
             IN IF text[i].c \in {";", ","} THEN Append(p, <<>>)
                ELSE [p EXCEPT ![Len(p)] = Append(@, text[i])]
  IN SelectSeq(f[Len(text)], LAMBDA s : s # <<>>)

entryFromXml(es, i, path) ==
  LET strings == Children(es, i, "String")
      Value(j) == Children(es, j, "Value")
  IN [fields |-> [n \in DOMAIN strings |->
                    Field(childText(es, strings[n], "Key"), childText(es, strings[n], "Value"),
                          Value(strings[n]) # <<>> /\ es[Head(Value(strings[n]))].protected)],
      tags |-> Split(childText(es, i, "Tags")), group |-> path]

walkGroup(es, recycleUuid) ==
  LET Top(i) == es[es[i].up].tag = "Root"
      \* Entered: a group not in the recycle bin, nor in a group that is.
      in[i \in DOMAIN es] ==
        /\ es[i].tag = "Group"
        /\ \/ Top(i)
           \/ in[es[i].up] /\ ~(recycleUuid # <<>> /\ childText(es, i, "UUID") = recycleUuid)
      path[i \in DOMAIN es] ==
        IF es[i].up = 0 \/ Top(i) THEN <<>> ELSE Append(path[es[i].up], childText(es, i, "Name"))
      found == SelectSeq([j \in DOMAIN es |-> j],
                 LAMBDA j : es[j].tag = "Entry" /\ in[es[j].up])
  IN [n \in DOMAIN found |-> entryFromXml(es, found[n], path[es[found[n]].up])]

readKdbx(f, password) ==
  LET opened == IF f.major = 4 THEN readKdbx4(f, password) ELSE readKdbx3(f, password)
      es == unprotectAll(parseXml(opened.xml), NewStream(opened.stream))
      meta == Head(Children(es, 1, "Meta"))
      declared == childText(es, meta, "HeaderHash")
  IN IF ~f.magic THEN Refused("not-kdbx")
     ELSE IF f.major \notin {3, 4} THEN Refused("unsupported")
     ELSE IF ~HeaderEnds(f.header) THEN Refused("corrupt")
     ELSE IF opened.code # "ok" THEN Refused(opened.code)
     ELSE IF opened.xml = Damaged THEN [code |-> "ok", entries |-> <<Damaged>>]
     ELSE IF opened.header # NoData /\ declared # <<>> /\ declared # Hash(opened.header)
          THEN Refused("corrupt")
     ELSE [code |-> "ok", entries |-> walkGroup(es, childText(es, meta, "RecycleBinUUID"))]

-----------------------------------------------------------------------------
(* From entries to items *)

Last1(fields, key) ==
  LET at == {i \in DOMAIN fields : fields[i].key = key}
  IN IF at = {} THEN <<>> ELSE fields[CHOOSE i \in at : \A j \in at : j <= i].value

Typed(fields, keys) == [k \in keys |-> Last1(fields, Key(k))]

StandardKeys ==
  {"Title", "UserName", "Password", "URL", "Notes", "TOTP Settings"}

\* Mutant of Consumed: what makes the type stays a field.
ConsumedStandard(otp, typed) == {Key(k) : k \in otp \cup StandardKeys}

Consumed(otp, typed) == {Key(k) : k \in typed \cup otp \cup StandardKeys}

ToItem(e) ==
  LET val(k) == Last1(e.fields, Key(k))
      has(k) == Key(k) \in KeysOf(e.fields)
      bare == val("UserName") = <<>> /\ val("Password") = <<>>
      type == IF bare /\ (has("Card Number") \/ has("Card Holder")) THEN "card"
              ELSE IF bare /\ has("Full Name") THEN "identity" ELSE "login"
      typed == CASE type = "card" -> CardKeys [] type = "identity" -> IdentityKeys [] OTHER -> {}
      otp == IF has("otp") THEN {"otp"} ELSE IF has("TOTP Seed") THEN {"TOTP Seed"} ELSE {}
      left == SelectSeq(e.fields, LAMBDA f : f.key \notin Consumed(otp, typed) /\ f.value # <<>>)
      First(a, b) == IF a # <<>> THEN a ELSE b
  IN [type |-> type, username |-> val("UserName"), password |-> val("Password"),
      url |-> val("URL"), notes |-> val("Notes"),
      title |-> First(val("Title"), First(val("UserName"), First(val("URL"), Char("KeePass")))),
      totp |-> IF otp = {} THEN <<>> ELSE totpSecretFrom(val(CHOOSE k \in otp : TRUE)),
      extra |-> Typed(e.fields, typed),
      custom |-> [i \in DOMAIN left |-> [label |-> left[i].key, value |-> left[i].value,
                                         hidden |-> left[i].protected]],
      tags |-> e.tags \o SelectSeq(e.group, LAMBDA g : g \notin ToSet(e.tags))]

kdbxEntriesToItems(es) ==
  LET kept == SelectSeq(es, LAMBDA e : \E k \in {"Title", "UserName", "Password", "URL"} :
                                         Last1(e.fields, Key(k)) # <<>>)
  IN [i \in DOMAIN kept |-> ToItem(kept[i])]

-----------------------------------------------------------------------------
(* The steps *)

Init ==
  /\ stage = "none" /\ source = Damaged /\ file = Damaged
  /\ entries = <<>> /\ items = <<>> /\ code = "ok"

runExport(vault) ==
  /\ stage = "none" /\ stage' = "written"
  /\ source' = [by |-> "export", vault |-> vault]
  /\ file' = buildKdbx(vault)
  /\ UNCHANGED <<entries, items, code>>

OtherExport(db) ==
  /\ stage = "none" /\ stage' = "written"
  /\ source' = [by |-> "other", db |-> db]
  /\ file' = Foreign(db)
  /\ UNCHANGED <<entries, items, code>>

\* What can happen to the file: cut short, or one part of it altered, lost,
\* repeated or moved.
Damages(f) ==
  LET rest == f.rest
  IN {[magic |-> f.magic, major |-> f.major, header |-> SubSeq(f.header, 1, n), rest |-> <<>>] :
         n \in 0..Len(f.header)}
     \cup {[f EXCEPT !.header[n].data = Damaged] : n \in 1..Len(f.header) - 1}
     \cup {[f EXCEPT !.magic = FALSE], [f EXCEPT !.major = 1],
            [f EXCEPT !.header[2].data = ~@]}
     \cup (IF f.major = 4
           THEN {[f EXCEPT !.rest = SubSeq(@, 1, n)] : n \in DOMAIN rest}
             \cup {[f EXCEPT !.rest[n] = Damaged] : n \in {1, 2}}
             \cup {[f EXCEPT !.rest = RemoveAt(@, n)] : n \in 3..Len(rest)}
             \cup {[f EXCEPT !.rest[n].data = Damaged] : n \in 3..Len(rest)}
             \cup {[f EXCEPT !.rest = [@ EXCEPT ![p[1]] = rest[p[2]], ![p[2]] = rest[p[1]]]] :
                    p \in (3..Len(rest)) \X (3..Len(rest))}
           ELSE {[f EXCEPT !.rest[1].parts = SubSeq(@, 1, n)] : n \in 1..3}
             \cup {[f EXCEPT !.rest[1].parts[n].data = Damaged] : n \in 1..3})

Damage ==
  /\ stage = "written" /\ stage' = "damaged"
  /\ file' \in Damages(file)
  /\ UNCHANGED <<source, entries, items, code>>

Read(password) ==
  /\ stage \in {"written", "damaged"} /\ stage' = "read"
  /\ LET r == readKdbx(file, password)
     IN code' = r.code /\ entries' = r.entries
  /\ UNCHANGED <<source, file, items>>

Import ==
  /\ stage = "read" /\ code = "ok" /\ entries # <<Damaged>>
  /\ stage' = "done"
  /\ items' = kdbxEntriesToItems(entries)
  /\ UNCHANGED <<source, file, entries, code>>

Next ==
  \/ \E v \in Vaults : runExport(v)
  \/ \E db \in Databases : OtherExport(db)
  \/ Damage
  \/ \E p \in {"password", "mistyped"} : Read(p)
  \/ Import

Spec == Init /\ [][Next]_vars

-----------------------------------------------------------------------------
(* What must hold *)

\* An entry as it was written: without the fields that are empty, the
\* characters no XML text can hold, and its earlier versions.
ReadBack(e, path) ==
  LET shown == SelectSeq(e.fields, LAMBDA f : f.value # <<>>)
  IN [fields |-> [i \in DOMAIN shown |->
                    IF shown[i].protected THEN shown[i]
                    ELSE [shown[i] EXCEPT !.value = xmlEsc(@)]],
      tags |-> e.tags, group |-> path]

Written ==
  IF source.by = "export"
  THEN [i \in DOMAIN source.vault |-> ReadBack(itemsToKdbxEntries(source.vault)[i], <<>>)]
  ELSE LET db == source.db
           alive == SelectSeq(db.groups, LAMBDA g : g.name # db.bin)
       IN [i \in DOMAIN db.entries |-> ReadBack(db.entries[i], <<>>)]
          \o FlattenSeq([g \in DOMAIN alive |->
               [i \in DOMAIN alive[g].entries |->
                  ReadBack(alive[g].entries[i], <<Char(alive[g].name)>>)]])

\* The versions before 4 vouch for their header only inside the document,
\* and not every program writes that.
Vouched == source.by = "export" \/ source.db.major = 4 \/ source.db.hashed

\* What is read is what was written: whatever happened to the file, an
\* import either ends with an error or finds each entry outside the recycle
\* bin with its values decrypted, those that come after the values of earlier
\* versions and of deleted entries in the document included.
ReadsWhatWasWritten ==
  stage \in {"read", "done"} /\ code = "ok" /\ Vouched => entries = Written

\* Its custom fields have names that mean nothing else and values, and no
\* two of them have the same name.
Named(d) ==
  /\ \A c \in ToSet(d.custom) : c.label \in {<<"note">>, <<"pin">>} /\ c.value # <<>>
  /\ \A i, j \in DOMAIN d.custom : d.custom[i].label = d.custom[j].label => i = j

\* An item whose type shows in its entry: KeePass knows no types.
Recognisable(d) ==
  CASE d.type = "card" -> d.extra["Card Number"] # <<>> \/ d.extra["Card Holder"] # <<>>
    [] d.type = "identity" -> d.extra["Full Name"] # <<>>
    [] OTHER -> TRUE

\* "a Sesamo -> KDBX -> Sesamo round trip reconstructs typed items": an item
\* whose type can be told and whose custom fields have names of their own
\* comes back as it was.
RoundTrip ==
  stage = "done" /\ source.by = "export" =>
    /\ Len(items) = Len(source.vault)
    /\ \A i \in DOMAIN items :
         LET d == source.vault[i]
         IN Recognisable(d) /\ Named(d) =>
              items[i] = [d EXCEPT !.totp = totpSecretFrom(@),
                                   !.custom = [n \in DOMAIN @ |-> [@[n] EXCEPT !.value =
                                     IF d.custom[n].hidden THEN @ ELSE xmlEsc(@)]]]

ValuesOf(d) ==
  ({d.title, d.username, d.password, d.url, d.notes, totpSecretFrom(d.totp)}
   \cup {d.extra[k] : k \in DOMAIN d.extra} \cup {c.value : c \in ToSet(d.custom)}) \ {<<>>}

\* Each value of d is one of e, up to what no XML text can hold.
Survives(d, e) ==
  \A v \in ValuesOf(d) : \E w \in ValuesOf(e) : w \in {v, xmlEsc(v), totpSecretFrom(v)}

\* The reader drops a field of this name, which a plugin of KeePass writes.
Dropped(c) == c.label = Key("TOTP Settings")

\* Nothing else that was kept in an item is lost on the way, whatever its custom
\* fields are called: a label that is taken is numbered, one that has a
\* meaning to the reader gets its value a place of its own.
ValuesSurvive ==
  stage = "done" /\ source.by = "export" =>
    \A i \in DOMAIN items :
      LET d == source.vault[i]
      IN Survives([d EXCEPT !.custom = SelectSeq(@, LAMBDA c : ~Dropped(c))], items[i])

\* Together: what the program exports to a KeePass file it can import again.
ItemsComeBack == RoundTrip /\ ValuesSurvive

\* The same without the exception, which is refuted.
NothingIsLost ==
  stage = "done" /\ source.by = "export" =>
    \A i \in DOMAIN items : Survives(source.vault[i], items[i])

\* "Errors carry a `code`": a file that is refused is refused with one.
RefusalsAreCoded == code # "uncoded"
=============================================================================
