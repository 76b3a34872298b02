------------------------------ MODULE ElfImage ------------------------------
(***************************************************************************)
(* The relocation of a trusted application's image, libcommon's ElfImage.  *)
(* ElfImage_ctor reads the program headers and the dynamic table of an     *)
(* image that is already in memory.  ElfImage_relocate is a coroutine: it  *)
(* walks the REL, RELA and PLT tables in this order and returns            *)
(* ELFFILE_LOOKUP whenever an entry names a symbol of another image.  Its  *)
(* client resolves the symbol and calls it again, and the entry is applied *)
(* at the start of that next call, so the position (relIndex, relInfo) and *)
(* the client's ElfSymbol carry the state from one call to the next.       *)
(* Addresses are virtual addresses of the image (base is added by the      *)
(* code); a table is a sequence at its address; words wrap at Word.        *)
(***************************************************************************)
EXTENDS Naturals, Sequences

CONSTANTS
  Images,     \* [machine, pht, at, mem]: headers, tables by address, words by address
  Base,       \* where the image is in memory
  Word,       \* 2^XX
  Answers,    \* [value, type] a client may resolve a symbol to
  Hash        \* elfHash of the names a client may search for

VARIABLES
  image,      \* the file's headers and the tables of the segments in memory
  mem,        \* the words the relocation entries are about
  me,         \* the ElfImage
  sym,        \* the client's ElfSymbol
  status,     \* what the last call returned
  resolved,   \* the client's answers, by the index of the entry
  answer      \* what the last query about the relocated image gave

vars == <<image, mem, me, sym, status, resolved, answer>>

NoAddr == Word
RelSize == 2
RelaSize == 3
MaxRanges == 8
Machines == {"ARM", "AARCH64"}

(* ElfImage_getAddr: an address is valid when a loaded range holds it all. *)
ElfImage_getAddr(ranges, offset, size) ==
  IF \E i \in DOMAIN ranges : /\ offset >= ranges[i].start
                              /\ offset + size <= ranges[i].end
  THEN offset ELSE NoAddr

(* The value of the last entry with this tag, 0 when there is none. *)
DynValue(dyns, tag) ==
  LET at == {i \in DOMAIN dyns : dyns[i].tag = tag}
  IN  IF at = {} THEN 0 ELSE dyns[CHOOSE i \in at : \A j \in at : j <= i].val

(* The tables.  A RELA table is taken only beside a REL table: the check   *)
(* of its entry size tests relTable instead.                               *)
popRelocInfo(img, ranges, dynTable) ==
  LET dyns == img.at[dynTable]
      Val(tag) == DynValue(dyns, tag)
      Table(tag, size) == ElfImage_getAddr(ranges, Val(tag), size)
      rela == Val("PLTREL") = "RELA"
      hash == Table("HASH", 2)
      cells == img.at[hash]
      hashLen == cells[1] + cells[2] + 2
      Refused ==
        \/ Val("RELSZ") # 0 /\ \/ Val("RELENT") # RelSize
                               \/ Table("REL", Val("RELSZ")) = NoAddr
        \/ Val("RELASZ") # 0 /\ \/ Val("RELSZ") = 0
                                \/ Table("RELA", Val("RELASZ")) = NoAddr
        \/ Val("PLTRELSZ") # 0 /\ Table("JMPREL", Val("PLTRELSZ")) = NoAddr
        \/ Val("STRSZ") = 0
        \/ Table("STRTAB", Val("STRSZ")) = NoAddr
        \/ hash = NoAddr
        \/ Table("HASH", hashLen) = NoAddr
        \/ Table("SYMTAB", cells[2]) = NoAddr
  IN  IF Refused THEN [ok |-> FALSE]
      ELSE [ok |-> TRUE, ranges |-> ranges, dynTable |-> dynTable,
            relTable |-> Val("REL"), relLen |-> Val("RELSZ") \div RelSize,
            relaTable |-> Val("RELA"),
            relaLen |-> IF Val("RELASZ") = 0 THEN 0 ELSE Val("RELASZ") \div Val("RELAENT"),
            pltrelTable |-> Val("JMPREL"), isPltRela |-> rela,
            pltrelLen |-> Val("PLTRELSZ") \div (IF rela THEN RelaSize ELSE RelSize),
            stringTable |-> Val("STRTAB"), stringLen |-> Val("STRSZ"),
            hashTable |-> hash, hashLen |-> hashLen, nbucket |-> cells[1],
            symTable |-> Val("SYMTAB"), symLen |-> cells[2],
            relIndex |-> 0, relInfo |-> [table |-> NoAddr, index |-> 0,
                                         isRela |-> FALSE, symIndex |-> 0]]

ElfImage_ctor(img) ==
  LET Headers(type) == SelectSeq(img.pht, LAMBDA p : p.type = type)
      loads == Headers("LOAD")
      ranges == [i \in DOMAIN loads |->
                   [start |-> loads[i].vaddr, end |-> loads[i].vaddr + loads[i].memsz]]
      dynamic == Headers("DYNAMIC")
      dynHdr == dynamic[Len(dynamic)]
  IN  IF \/ img.machine \notin Machines
         \/ Len(loads) > MaxRanges
         \/ dynamic = <<>>
         \/ ElfImage_getAddr(ranges, dynHdr.vaddr, dynHdr.memsz) = NoAddr
      THEN [ok |-> FALSE]
      ELSE popRelocInfo(img, ranges, dynHdr.vaddr)

(* Which entry a 1-based index over the three tables names.  For a PLT     *)
(* entry isRela keeps what the entry before it left there.                 *)
ElfImage_getRelInfo_rel(m, globalIndex) ==
  LET index == globalIndex - 1
      inRela == index - m.relLen
      inPlt == inRela - m.relaLen
  IN  IF index < m.relLen THEN [table |-> m.relTable, index |-> index + 1, isRela |-> FALSE]
      ELSE IF inRela < m.relaLen
      THEN [table |-> m.relaTable, index |-> inRela + 1, isRela |-> TRUE]
      ELSE IF inPlt < m.pltrelLen
      THEN [table |-> m.pltrelTable, index |-> inPlt + 1, isRela |-> FALSE]
      ELSE [table |-> NoAddr, index |-> 0, isRela |-> m.relInfo.isRela]

ElfImage_getRelInfo(m, globalIndex) ==
  LET index == globalIndex - 1
      inRela == index - m.relLen
      inPlt == inRela - m.relaLen
  IN  IF index < m.relLen THEN [table |-> m.relTable, index |-> index + 1, isRela |-> FALSE]
      ELSE IF inRela < m.relaLen
      THEN [table |-> m.relaTable, index |-> inRela + 1, isRela |-> TRUE]
      ELSE IF inPlt < m.pltrelLen
      THEN [table |-> m.pltrelTable, index |-> inPlt + 1, isRela |-> m.relInfo.isRela]
      ELSE [table |-> NoAddr, index |-> 0, isRela |-> m.relInfo.isRela]

(* A symbol this image defines has its value; the value of one to be       *)
(* looked up is left as it was in the ElfSymbol that is filled.            *)
ElfImage_getSymbol(m, symIndex, old) ==
  LET s == image.at[m.symTable][symIndex + 1]
  IN  IF symIndex >= m.symLen \/ s.name >= m.stringLen THEN [old EXCEPT !.ok = FALSE]
      ELSE [ok |-> TRUE, name |-> image.at[m.stringTable][s.name + 1], type |-> s.type,
            bind |-> s.bind, needsLookup |-> s.shndx = "UNDEF" /\ s.bind # "WEAK",
            value |-> CASE s.shndx = "ABS" -> s.value
                        [] s.shndx = "SECTION" -> (s.value + Base) % Word
                        [] s.shndx = "UNDEF" /\ s.bind = "WEAK" -> s.value
                        [] OTHER -> old.value]

(* The n-th DT_NEEDED entry's name; the output is left alone past the end. *)
ElfImage_getLibraryName(m, ndx, old) ==
  LET needed == SelectSeq(image.at[m.dynTable], LAMBDA d : d.tag = "NEEDED")
  IN  IF ndx < Len(needed) /\ needed[ndx + 1].val < m.stringLen
      THEN image.at[m.stringTable][needed[ndx + 1].val + 1] ELSE old

(* The search along a hash chain, at most symLen turns.  The bucket is     *)
(* computed modulo nbucket after the 2 is added, and a symbol index other  *)
(* than 0 ends the search with an error.                                   *)
ElfImage_findSymbol(m, name) ==
  LET cells == image.at[m.hashTable]
      Entry(h) == ElfImage_getSymbol(m, cells[h + 1], sym)
      Found(h) == /\ Entry(h).ok
                  /\ Entry(h).name = name
                  /\ ~Entry(h).needsLookup
                  /\ Entry(h).bind # "LOCAL"
      Search[limit \in 0 .. m.symLen, h \in 0 .. m.hashLen] ==
        IF limit = 0 \/ h >= m.hashLen THEN "ERROR"
        ELSE IF cells[h + 1] # 0 \/ ~Entry(h).ok THEN "ERROR"
        ELSE IF Found(h) THEN "SUCCESS"
        ELSE Search[limit - 1, 2 + m.nbucket + cells[h + 1]]
  IN  IF m.nbucket = 0 THEN "ERROR"
      ELSE Search[m.symLen, (2 + Hash[name]) % m.nbucket]

(* S, A, B and T of the ELF specification; T is the Thumb bit. *)
ElfImage_updateRel(relInfo, s) ==
  LET rel == image.at[relInfo.table][relInfo.index]
      thumb == s.type = "FUNC" /\ s.value % 2 = 1
      S == IF thumb THEN s.value - 1 ELSE s.value
      A == IF relInfo.isRela THEN rel.addend ELSE mem[rel.place]
      Or1(v) == IF thumb /\ v % 2 = 0 THEN v + 1 ELSE v
  IN  CASE rel.type = "RELATIVE" -> [mem EXCEPT ![rel.place] = (Base + A) % Word]
        [] rel.type = "ABS" -> [mem EXCEPT ![rel.place] = (S + A) % Word]
        [] rel.type \in {"JUMP_SLOT", "GLOB_DAT"} ->
             [mem EXCEPT ![rel.place] = Or1((S + A) % Word)]

RelType(relInfo) == image.at[relInfo.table][relInfo.index].type

RelPlace(relInfo) == image.at[relInfo.table][relInfo.index].place

-----------------------------------------------------------------------------

Init ==
  /\ image \in Images
  /\ mem = image.mem
  /\ me = ElfImage_ctor(image)
  /\ sym = [ok |-> TRUE, name |-> "", type |-> "NOTYPE", bind |-> "LOCAL",
            needsLookup |-> FALSE, value |-> 0]
  /\ status = IF me.ok THEN "constructed" ELSE "ERROR"
  /\ resolved = <<>>
  /\ answer = ""

(* The pending entry cannot be applied: its type or its place is refused. *)
Unappliable ==
  /\ me.relIndex > 0
  /\ \/ RelType(me.relInfo) \notin {"RELATIVE", "ABS", "JUMP_SLOT", "GLOB_DAT"}
     \/ ElfImage_getAddr(me.ranges, RelPlace(me.relInfo), 1) = NoAddr

(* One turn of the loop: the pending entry is applied, the next one read.  *)
RelocateNext ==
  LET info == ElfImage_getRelInfo(me, me.relIndex + 1)
      symIndex == image.at[info.table][info.index].sym
      next == ElfImage_getSymbol(me, symIndex, sym)
  IN  /\ mem' = IF me.relIndex > 0 THEN ElfImage_updateRel(me.relInfo, sym) ELSE mem
      /\ IF info.table = NoAddr
         THEN /\ status' = "SUCCESS"
              /\ me' = [me EXCEPT !.relIndex = @ + 1]
              /\ UNCHANGED sym
         ELSE /\ me' = [me EXCEPT !.relIndex = @ + 1,
                                  !.relInfo = [table |-> info.table, index |-> info.index,
                                               isRela |-> info.isRela, symIndex |-> symIndex]]
              /\ sym' = next
              /\ status' = CASE ~next.ok -> "ERROR"
                             [] next.ok /\ symIndex # 0 /\ next.needsLookup -> "LOOKUP"
                             [] OTHER -> "relocating"

ElfImage_relocate ==
  /\ status \in {"constructed", "relocating", "resolved"}
  /\ \/ Unappliable /\ status' = "ERROR" /\ UNCHANGED <<mem, me, sym>>
     \/ ~Unappliable /\ RelocateNext
  /\ UNCHANGED <<image, resolved, answer>>

(* The client fills the other fields of the symbol it was asked for. *)
Resolve ==
  /\ status = "LOOKUP"
  /\ \E a \in Answers :
       /\ sym' = [sym EXCEPT !.value = a.value, !.type = a.type]
       /\ resolved' = Append(resolved, [index |-> me.relIndex, answer |-> a])
  /\ status' = "resolved"
  /\ UNCHANGED <<image, mem, me, answer>>

(* The client asks about the relocated image. *)
Query ==
  /\ status = "SUCCESS"
  /\ \/ \E name \in DOMAIN Hash : answer' = ElfImage_findSymbol(me, name)
     \/ \E ndx \in 0 .. 1 : answer' = ElfImage_getLibraryName(me, ndx, answer)
  /\ UNCHANGED <<image, mem, me, sym, status, resolved>>

Next == ElfImage_relocate \/ Resolve \/ Query

Spec == Init /\ [][Next]_vars

-----------------------------------------------------------------------------

TypeOK ==
  /\ image \in Images
  /\ mem \in [DOMAIN image.mem -> 0 .. Word - 1]
  /\ status \in {"constructed", "relocating", "LOOKUP", "resolved", "SUCCESS", "ERROR"}
  /\ sym.value \in 0 .. Word - 1

(* Every entry of the image, with its place in the order of relocation. *)
Entries ==
  LET rels == image.at[me.relTable]
      relas == image.at[me.relaTable]
      plts == image.at[me.pltrelTable]
  IN  {[n |-> i, e |-> rels[i], rela |-> FALSE] : i \in 1 .. me.relLen}
        \cup {[n |-> me.relLen + i, e |-> relas[i], rela |-> TRUE] : i \in 1 .. me.relaLen}
        \cup {[n |-> me.relLen + me.relaLen + i, e |-> plts[i], rela |-> me.isPltRela] :
                i \in 1 .. me.pltrelLen}

(* What the ELF rules give an entry: its own symbol, resolved by the       *)
(* client when it is undefined, and its own addend, in the entry or in     *)
(* the place as the file had it.                                           *)
Prescribed(x) ==
  LET s == image.at[me.symTable][x.e.sym + 1]
      answers == {i \in DOMAIN resolved : resolved[i].index = x.n}
      given == resolved[CHOOSE i \in answers : TRUE].answer
      looked == s.shndx = "UNDEF" /\ s.bind # "WEAK"
      S == IF looked THEN given.value
           ELSE IF s.shndx = "SECTION" THEN (s.value + Base) % Word ELSE s.value
      type == IF looked THEN given.type ELSE s.type
      A == IF x.rela THEN x.e.addend ELSE image.mem[x.e.place]
      thumb == type = "FUNC" /\ S % 2 = 1
      sum == (S + A - (IF thumb THEN 1 ELSE 0)) % Word
  IN  IF x.e.type = "RELATIVE" THEN (Base + A) % Word
      ELSE IF thumb /\ sum % 2 = 0 THEN sum + 1 ELSE sum

(* When ElfImage_relocate reports success every entry of the three tables  *)
(* has been applied once, with its own addend and its own symbol, though   *)
(* the calls that read an entry and apply it are different ones and the    *)
(* client's symbol is overwritten by every entry in between.               *)
RelocatedAsPrescribed ==
  status = "SUCCESS" => \A x \in Entries : mem[x.e.place] = Prescribed(x)

=============================================================================
