------------------------------- MODULE Metadata -------------------------------
(***************************************************************************)
(* The metadata of a trusted process: the scanner of its text, the scanner *)
(* of its ID sets and the MetadataInfo built from them.  Init picks the    *)
(* metadata as a list of entries and writes it down in the documented      *)
(* syntax; the code scans the text, and what it finds is compared with the *)
(* entries.                                                                *)
(* Sources: libcommon/src/MDScan.c and MetadataInfo.c.                     *)
(*                                                                         *)
(* Characters are one-letter strings.    *)
(***************************************************************************)
EXTENDS Integers, Sequences, FiniteSets, SequencesExt

CONSTANTS
    Entries,        \* entries of metadata: [name, eq, value, ids]
    MaxEntries,     \* bound on entries in a text
    Domains,        \* domains a loader may set
    MaxName,        \* MDInfo_MAX_APP_NAME_LEN
    Expand          \* IDLIST_DEFAULT_EXPAND_SIZE

VARIABLES
    entries,    \* the metadata as meant
    text,       \* the metadata as written
    scan,       \* MDScan: [pos, name, value]
    ids,        \* IDScan: [on, readIndex, id, maskBits]
    me,         \* MetadataInfo
    seen,       \* entries scanned so far
    phase       \* "parse", "ids", "ready" or "failed"

vars == <<entries, text, scan, ids, me, seen, phase>>

-----------------------------------------------------------------------------
(* The documented syntax.                                                  *)

Written(e) == e.name \o (IF e.eq THEN <<"=">> ELSE <<>>) \o e.value
WrittenAll(es) ==
    FoldLeft(LAMBDA acc, e : acc \o (IF acc = <<>> THEN <<>> ELSE <<";">>) \o Written(e), <<>>, es)

Bit(d, k) == (d \div (2^k)) % 2 = 1
(* The IDs that an entry stands for: the first one, and the one 4 * (i - 1)*)
(* + k + 1 above it for each bit k of the i-th digit of the mask.          *)
Masked(s) ==
    {s.id + 4 * (p[1] - 1) + p[2] + 1 : p \in
        {q \in (1..Len(s.mask)) \X (0..3) : Bit(s.mask[q[1]], q[2])}}
MeantIds(e) ==
    FoldLeft(LAMBDA acc, s : acc \o <<s.id>> \o SetToSortSeq(Masked(s), <), <<>>, e.ids)

-----------------------------------------------------------------------------
(* MDScan.c.                                                               *)

Digits == <<"0", "1", "2", "3", "4", "5", "6", "7", "8", "9", "A", "B", "C", "D", "E", "F">>
LowerDigits == <<"a", "b", "c", "d", "e", "f">>
_hexValue(ch) ==
    CASE ch \in ToSet(Digits) -> (CHOOSE d \in 1..16 : Digits[d] = ch) - 1
      [] ch \in ToSet(LowerDigits) -> (CHOOSE d \in 1..6 : LowerDigits[d] = ch) + 9
      [] OTHER -> -1
RBuf_get(buf, index) == IF index <= Len(buf) THEN buf[index] ELSE "NUL"

(* The first occurrence from `start` on, or `end`.                         *)
_findCharEnd(start, end, ch) ==
    LET found == {i \in start..(end - 1) : text[i] = ch}
    IN IF found = {} THEN end ELSE CHOOSE i \in found : \A j \in found : i <= j

(* The entry at `pos` and the position after it.                           *)
ScanEntry(pos) ==
    LET end == Len(text) + 1
        valueEnd == _findCharEnd(pos, end, ";")
        nameEnd == _findCharEnd(pos, valueEnd, "=")
        valueStart == IF nameEnd < valueEnd THEN nameEnd + 1 ELSE nameEnd
    IN [name |-> SubSeq(text, pos, nameEnd - 1), value |-> SubSeq(text, valueStart, valueEnd - 1),
        pos |-> IF valueEnd < end THEN valueEnd + 1 ELSE valueEnd]

(* As if an entry with no name ended the scan.                             *)
MDScan_next_stops(pos) ==
    IF pos > Len(text) THEN [pos |-> pos, name |-> <<>>, value |-> <<>>] ELSE ScanEntry(pos)
(* MDScan_next skips entries with empty names; no name means no entry.     *)
MDScan_next(pos) ==
    LET from[p \in 1..(Len(text) + 1)] ==
            IF p > Len(text) THEN [pos |-> p, name |-> <<>>, value |-> <<>>]
            ELSE IF ScanEntry(p).name # <<>> THEN ScanEntry(p) ELSE from[ScanEntry(p).pos]
    IN from[pos]

(* MDScan_readString: two hex digits after a % are one character; what     *)
(* does not fit is cut, and the last character written is the terminator.  *)
Escaped(v, i) == v[i] = "%" /\ _hexValue(RBuf_get(v, i + 1)) >= 0 /\ _hexValue(RBuf_get(v, i + 2)) >= 0
Char(v, i) == IF Escaped(v, i) THEN v[i + 1] \o v[i + 2] ELSE v[i]
Read(v) ==
    LET from[i \in 1..(Len(v) + 1)] ==
            IF i > Len(v) THEN <<>>
            ELSE <<Char(v, i)>> \o from[IF Escaped(v, i) THEN i + 3 ELSE i + 1]
    IN from[1]
MDScan_readString(v, destLen) ==
    LET all == Read(v)
    IN IF destLen = 0 THEN <<>>
       ELSE SubSeq(all, 1, IF Len(all) < destLen THEN Len(all) ELSE destLen - 1)

(* IDScan_next: the bits of the current digit, lowest first, behind a      *)
(* marker; then the next digit; then the next ID.  The result is `none`,   *)
(* `more` (no ID yet) or `id`.                                             *)
NextId(s, buf) ==
    LET start == IF RBuf_get(buf, s.readIndex) = "," THEN s.readIndex + 1 ELSE s.readIndex
        stop == CHOOSE i \in start..(Len(buf) + 1) :
                    /\ _hexValue(RBuf_get(buf, i)) < 0
                    /\ \A j \in start..(i - 1) : _hexValue(buf[j]) >= 0
        value == FoldLeft(LAMBDA acc, ch : acc * 16 + _hexValue(ch), 0, SubSeq(buf, start, stop - 1))
        colon == RBuf_get(buf, stop) = ":"
    IN IF stop = start THEN [s EXCEPT !.found = "none", !.maskBits = 0]
       ELSE [found |-> "id", id |-> value, maskBits |-> IF colon THEN 1 ELSE 0,
             readIndex |-> IF colon THEN stop + 1 ELSE stop]
NextBit(s) ==
    [s EXCEPT !.id = @ + 1, !.maskBits = @ \div 2,
              !.found = IF s.maskBits % 2 = 1 THEN "id" ELSE "more"]
NextDigit_unmarked(s, buf) ==
    [s EXCEPT !.maskBits = _hexValue(RBuf_get(buf, s.readIndex)), !.readIndex = @ + 1,
              !.found = "more"]
NextDigit(s, buf) ==
    [s EXCEPT !.maskBits = _hexValue(RBuf_get(buf, s.readIndex)) + 16, !.readIndex = @ + 1,
              !.found = "more"]
IDScan_next(s, buf) ==
    CASE s.maskBits > 1 -> NextBit(s)
      [] s.maskBits = 1 /\ _hexValue(RBuf_get(buf, s.readIndex)) >= 0 -> NextDigit(s, buf)
      [] OTHER -> NextId(s, buf)

-----------------------------------------------------------------------------
(* MetadataInfo.c.                                                         *)

NoText == <<"null">>
NewInfo ==
    [appName |-> NoText, neverUnload |-> FALSE, unloadSet |-> FALSE, domain |-> "null",
     rot |-> 0, rotSet |-> FALSE, distName |-> <<>>, privileges |-> <<>>, services |-> <<>>]
IDScan_init == [found |-> "none", readIndex |-> 1, id |-> 0, maskBits |-> 0]

TypeOK ==
    /\ scan.pos \in 1..(Len(text) + 1) /\ phase \in {"parse", "ids", "ready", "failed"}
    /\ ids.maskBits \in 0..31 /\ ids.readIndex \in 1..(Len(text) + 1)
    /\ me.neverUnload \in BOOLEAN /\ me.domain \in Domains \cup {"null"}

Init ==
    /\ \E n \in 1..MaxEntries : entries \in [1..n -> Entries]
    /\ text = WrittenAll(entries) /\ text # <<>>
    /\ scan = [pos |-> 1, name |-> <<>>, value |-> <<>>] /\ ids = IDScan_init
    /\ me = NewInfo /\ seen = <<>> /\ phase = "parse"

(* One turn of _parseMetaData, by the first character of the name.         *)
Known(c, md) ==
    CASE c = "n" -> [me EXCEPT !.appName = MDScan_readString(md.value, MaxName)]
      [] c = "U" -> [me EXCEPT !.unloadSet = TRUE,
                               !.neverUnload = @ \/ (/\ md.value # <<>>
                                                     /\ IsPrefix(md.value, <<"t", "r", "u", "e">>))]
      [] OTHER -> me
_parseMetaData ==
    LET md == MDScan_next(scan.pos)
    IN /\ phase = "parse" /\ md.name # <<>>
       /\ scan' = md /\ seen' = Append(seen, <<md.name, md.value>>)
       /\ me' = Known(Head(md.name), md) /\ ids' = IDScan_init
       /\ phase' = IF Head(md.name) \in {"p", "s"} THEN "ids" ELSE "parse"
       /\ UNCHANGED <<entries, text>>

(* One turn of the loop over IDScan_next; _insertId grows the list when it *)
(* is full, and fails when there is no memory.                             *)
List == IF Head(scan.name) = "p" THEN me.privileges ELSE me.services
_insertId(id) ==
    IF Head(scan.name) = "p" THEN [me EXCEPT !.privileges = Append(@, id)]
    ELSE [me EXCEPT !.services = Append(@, id)]
ParseId ==
    LET next == IDScan_next(ids, scan.value)
    IN /\ phase = "ids"
       /\ \/ /\ next.found = "none" /\ phase' = "parse" /\ UNCHANGED me
          \/ /\ next.found = "more" /\ UNCHANGED <<phase, me>>
          \/ /\ next.found = "id" /\ me' = _insertId(next.id) /\ UNCHANGED phase
          \/ /\ next.found = "id" /\ Len(List) % Expand = 0 /\ phase' = "failed" /\ UNCHANGED me
       /\ ids' = next /\ UNCHANGED <<entries, text, scan, seen>>

(* The end of _parseMetaData and of MetadataInfo_new.                      *)
MetadataInfo_new ==
    /\ phase = "parse" /\ MDScan_next(scan.pos).name = <<>>
    /\ phase' = "ready" /\ me' = [me EXCEPT !.unloadSet = TRUE]
    /\ UNCHANGED <<entries, text, scan, ids, seen>>

(* The domain is set once.                                                 *)
MetadataInfo_setDomain(d) ==
    /\ phase = "ready" /\ me.domain = "null" /\ me' = [me EXCEPT !.domain = d]
    /\ UNCHANGED <<entries, text, scan, ids, seen, phase>>
MetadataInfo_setRot(r) ==
    /\ phase = "ready" /\ me' = [me EXCEPT !.rot = r, !.rotSet = TRUE]
    /\ UNCHANGED <<entries, text, scan, ids, seen, phase>>

(* _generateDistinguishedName, once both parts are there; the              *)
(* distinguished ID is its digest.                                         *)
_generateDistinguishedName == <<me.domain>> \o me.appName
MetadataInfo_getDistId ==
    /\ phase = "ready" /\ me.appName # NoText /\ me.domain # "null" /\ me.distName = <<>>
    /\ me' = [me EXCEPT !.distName = _generateDistinguishedName]
    /\ UNCHANGED <<entries, text, scan, ids, seen, phase>>

Next ==
    \/ _parseMetaData \/ ParseId \/ MetadataInfo_new \/ MetadataInfo_getDistId
    \/ \E d \in Domains : MetadataInfo_setDomain(d)
    \/ \E r \in {1} : MetadataInfo_setRot(r)

Spec == Init /\ [][Next]_vars

(* MetadataInfo_getPropertyByIndex: the entry with the index.              *)
MetadataInfo_getPropertyByIndex(index) ==
    LET after[i \in 0..index] ==
            IF i = 0 THEN MDScan_next(1) ELSE MDScan_next(after[i - 1].pos)
    IN <<after[index].name, after[index].value>>

(* MetadataInfo_getValueByName: what the kernel keeps, else the value of   *)
(* the first entry with the name.                                          *)
_strKey(name) == IF Len(name) > 4 THEN <<>> ELSE name
Generic(name) ==
    LET named == {i \in DOMAIN seen : seen[i][1] = name}
    IN IF named = {} THEN NoText
       ELSE Read(seen[CHOOSE i \in named : \A j \in named : i <= j][2])
MetadataInfo_getValueByName_generic(name) ==
    IF Generic(name) # NoText THEN Generic(name) ELSE <<me.domain>>
MetadataInfo_getValueByName(name) ==
    CASE _strKey(name) = <<"n">> /\ me.appName \notin {NoText, <<>>} -> me.appName
      [] _strKey(name) = <<"d", "m", "n">> /\ me.domain # "null" -> <<me.domain>>
      [] OTHER -> Generic(name)

-----------------------------------------------------------------------------
(* The scan finds every entry of the metadata that has a name, in order    *)
(* and with its value, and nothing else: "MData := ( ";"? Name "="? Value  *)
(* )*".                                                                    *)
EntriesFound ==
    LET named == SelectSeq(entries, LAMBDA e : e.name # <<>>)
    IN phase = "ready" =>
          /\ seen = [i \in DOMAIN named |-> <<named[i].name, named[i].value>>]
          /\ \A i \in DOMAIN seen : MetadataInfo_getPropertyByIndex(i - 1) = seen[i]

(* The lists of privileges and services hold exactly the IDs that the      *)
(* entries stand for, in increasing order within a mask, however many      *)
(* digits it has: "10:A5" is [16, 18, 20, 21, 23].                         *)
MeantOf(c) ==
    FoldLeft(LAMBDA acc, e : acc \o MeantIds(e), <<>>,
             SelectSeq(entries, LAMBDA e : e.name # <<>> /\ Head(e.name) = c))
IdsListed ==
    phase = "ready" => me.privileges = MeantOf("p") /\ me.services = MeantOf("s")

(* Once the loader has set the domain, asking for it never answers with    *)
(* what the metadata itself says under that name.                          *)
DomainIsTheLoaders ==
    me.domain # "null" => MetadataInfo_getValueByName(<<"d", "m", "n">>) = <<me.domain>>
=============================================================================
