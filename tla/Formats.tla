-------------------------------- MODULE Formats --------------------------------
(***************************************************************************)
(* What the web client computes from nothing but its input: KeePass files  *)
(* (K), the key derivation they ask for (A), CSV files (C).  These share   *)
(* nothing.                                                                *)
(***************************************************************************)
EXTENDS Integers, Sequences

CONSTANTS
  KdbxVaults, KdbxDatabases, StreamBlock, Damaged, NoData,   \* Kdbx
  Params, Limb, AddrWords, Digest, Uppers, Lengths, Nothing,  \* Argon2
  CsvVaults, CsvTables, Characters                           \* Csv

VARIABLES
  stage, source, file, entries, imported, code,  \* Kdbx
  par, at, written, addrCounter, ref, result,    \* Argon2
  progress, table, text, rows, read              \* Csv

K == INSTANCE Kdbx WITH Vaults <- KdbxVaults, Databases <- KdbxDatabases, items <- imported
A == INSTANCE Argon2 WITH None <- Nothing
C == INSTANCE Csv WITH Vaults <- CsvVaults, Tables <- CsvTables, stage <- progress,
       source <- table, items <- read

-----------------------------------------------------------------------------
(* What the code knows of its own numbers, and of what a file may ask for. *)

\* A limb has an even number of values, and the counter of bytes is not
\* shorter than what it counts at a time.
NumbersAssumption ==
  /\ Limb \in Nat /\ Limb > 0 /\ Limb % 2 = 0
  /\ Digest \in Nat /\ Digest > 0 /\ Digest % 2 = 0 /\ 2 * Digest <= Limb * Limb
  /\ Uppers \subseteq 0..Limb * Limb - 1
  /\ Lengths \subseteq Nat

\* At least one lane; the three variants of Argon2.
MemoryAssumption ==
  /\ AddrWords \in Nat /\ AddrWords > 0
  /\ Params \subseteq [lanes : Nat \ {0}, memKiB : Nat, passes : Nat, variant : 0..2]

\* Vaults of items, and tables whose rows have cells.  A table without quotes
\* does not end in a row that is one empty cell: nothing is written of that.
Text == Seq(Characters)

CsvItems ==
  [type : Characters, title : Text, username : Text, password : Text, url : Text, notes : Text,
   totp : Text, tags : Text, extras : Seq([custom : BOOLEAN, label : Characters, value : Text])]

CsvAssumption ==
  /\ {"CR", "LF", "quote", "comma", "colon", "semicolon"} \subseteq Characters
  /\ {"type", "title", "username", "password", "url", "notes", "totp", "tags"} \subseteq Characters
  /\ CsvVaults \subseteq Seq(CsvItems)
  /\ \A t \in CsvTables :
       /\ t.rows \in Seq(Seq(Text) \ {<<>>}) /\ t.quoted \in BOOLEAN
       /\ t.eol \in {<<"LF">>, <<"CR", "LF">>}
       /\ ~t.quoted /\ t.rows # <<>> => t.rows[Len(t.rows)] # << <<>> >>

\* What is kept secret in a KeePass file is a text, and none is encrypted yet.
IsSeq(s) == s \in Seq({s[i] : i \in DOMAIN s})
Secret(t) == t \in Seq([c : {t[i].c : i \in DOMAIN t}, pads : {{}}])

KdbxItem(d) ==
  /\ Secret(d.password) /\ Secret(d.totp)
  /\ d.type = "card" => \A k \in K!CardKeys : Secret(d.extra[k])
  /\ IsSeq(d.custom)
  /\ \A i \in DOMAIN d.custom : Secret(d.custom[i].value) /\ d.custom[i].hidden \in BOOLEAN

KdbxFields(fs) ==
  /\ IsSeq(fs)
  /\ \A i \in DOMAIN fs : fs[i].protected \in BOOLEAN /\ (fs[i].protected => Secret(fs[i].value))

KdbxEntries(es) ==
  /\ IsSeq(es)
  /\ \A i \in DOMAIN es :
       /\ KdbxFields(es[i].fields) /\ IsSeq(es[i].history)
       /\ \A j \in DOMAIN es[i].history : KdbxFields(es[i].history[j])

\* What is in a file can be told from what is not: the blocks before the last
\* have data, and that is not what is found in a damaged file.
Intact(f) ==
  /\ \A n \in 3..K!PayloadParts + 2 : f.rest[n].data # NoData
  /\ f.rest[3].data[1].payload.xml # Damaged

\* A block of keystream has bytes.
StreamAssumption == StreamBlock \in Nat /\ StreamBlock > 0

KdbxAssumption ==
  /\ StreamAssumption
  /\ \A v \in KdbxVaults :
       IsSeq(v) /\ (\A i \in DOMAIN v : KdbxItem(v[i])) /\ Intact(K!buildKdbx(v))
  /\ \A db \in KdbxDatabases :
       /\ db.major \in {3, 4} /\ db.hashed \in BOOLEAN
       /\ db.stream \in {"chacha", "salsa", "arc4", "plain"}
       /\ KdbxEntries(db.entries)
       /\ IsSeq(db.groups) /\ \A i \in DOMAIN db.groups : KdbxEntries(db.groups[i].entries)
       /\ db.major = 4 => Intact(K!Foreign(db))

ASSUME FormatsAssumption ==
  NumbersAssumption /\ MemoryAssumption /\ CsvAssumption /\ KdbxAssumption

-----------------------------------------------------------------------------
(* The properties of the parts, which state them in words *)

\* A KeePass file that is not refused is read as it was written, whatever
\* happened to it.
ReadsWhatWasWritten == K!ReadsWhatWasWritten
\* A typed item comes back from a KeePass file as it was, and of no item is a
\* value lost on the way, unless a field is called what the reader drops.
ItemsComeBack == K!ItemsComeBack
\* Errors of the reader carry a code; this one does not hold.
RefusalsAreCoded == K!RefusalsAreCoded
\* Argon2 refers to the blocks RFC 9106 prescribes.
RefersAsPrescribed == A!RefersAsPrescribed
\* Arithmetic on halves of words is exact.
NumbersAreExact == A!NumbersAreExact
\* The cells of a CSV file are those that were written.
CsvRoundTrip == C!CsvRoundTrip
===============================================================================
