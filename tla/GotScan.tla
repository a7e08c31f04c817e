------------------------------- MODULE GotScan -------------------------------
(***************************************************************************)
(* How ril-shim/k50sv1_ril_shim.c finds the two GOT words it will rewrite: *)
(* gotScanCallback walks the dynamic section of the loaded library and     *)
(* findGotEntry its PLT relocations.  Every pointer found there is checked *)
(* by inModule before it is followed; the walk of the dynamic section is   *)
(* not, it starts where PT_DYNAMIC says and goes on to a DT_NULL.          *)
(* Addresses are machine words; an addition wraps, as ElfW(Addr) does.     *)
(***************************************************************************)
EXTENDS Integers, FiniteSets

CONSTANTS
  UINTPTR_MAX,                        \* the largest address
  DYN_SIZE, RELA_SIZE, SYM_SIZE,      \* sizeof(ElfW(Dyn)), ElfW(Rela), ElfW(Sym)
  POINTER_SIZE,                       \* sizeof(void *)
  NAME_SIZE,                          \* symbolLen, the same for both names
  PAGE_SIZE                           \* sysconf(_SC_PAGESIZE)

ASSUME SizesAssumption ==
  /\ UINTPTR_MAX \in Nat
  /\ {DYN_SIZE, RELA_SIZE, SYM_SIZE, POINTER_SIZE, NAME_SIZE, PAGE_SIZE} \subseteq Nat \ {0}

Word == 0 .. UINTPTR_MAX

Symbols == {"unsol", "complete"}

\* An entry of the dynamic section: d_tag and d_un.
Tags == {"NULL", "JMPREL", "PLTRELSZ", "SYMTAB", "STRTAB", "PLTREL", "other"}
Dyn == [tag : Tags, value : Word]
DT_RELA == 7

\* A PLT relocation: whether it is a JUMP_SLOT, ELF64_R_SYM and r_offset.
Relocation == [jump : BOOLEAN, symbol : Word, offset : Word]

\* What the loader mapped: the load bias, the PT_LOAD segments, PT_DYNAMIC, the
\* entries in memory from there on, and the tables they point at.  The words of
\* all of it may be anything.
Segment == [vaddr : Word, memsz : Word]
Image == [base : Word, loads : SUBSET Segment,
          dynamic : BOOLEAN,       \* it has a PT_DYNAMIC
          section : Segment,       \* which says where the section is
          dyn : [Word -> Dyn],
          relocation : [Word -> Relocation],
          st_name : [Word -> Word],
          text : [Word -> Symbols \cup {"other"}]]  \* what the name of a symbol reads

\* An unsigned sum of two words.
Plus(a, b) == IF a + b <= UINTPTR_MAX THEN a + b ELSE a + b - (UINTPTR_MAX + 1)
-----------------------------------------------------------------------------
\* Is [addr, addr+len) inside one of this module's PT_LOAD segments?
inModule(img, addr, len) ==
  \E ph \in img.loads :
    /\ ph.vaddr <= UINTPTR_MAX - img.base
    /\ LET start == Plus(img.base, ph.vaddr) IN
         /\ ph.memsz <= UINTPTR_MAX - start
         /\ LET end == Plus(start, ph.memsz)
            IN  start <= addr /\ addr <= end /\ len <= end - addr

\* The biased form, then the raw one, then NULL.
resolveDynPtr(img, value, len) ==
  IF value <= UINTPTR_MAX - img.base /\ inModule(img, Plus(img.base, value), len)
    THEN Plus(img.base, value)
  ELSE IF inModule(img, value, len)
    THEN value
    ELSE 0

\* The entries the walk reads, the one it ends at included: a DT_NULL, or a
\* DT_PLTREL that does not say RELA.
dynAddr(img, k) == Plus(img.base, img.section.vaddr) + k * DYN_SIZE
EndsWalk(d) == d.tag = "NULL" \/ (d.tag = "PLTREL" /\ d.value # DT_RELA)
Walked(img) == {k \in Word : img.dynamic /\ \A j \in 0 .. k - 1 : ~EndsWalk(img.dyn[j])}

\* What the walk leaves in the variable of a tag: the last entry, else 0.
Last(img, tag) ==
  LET with == {k \in Walked(img) : img.dyn[k].tag = tag}
  IN  {k \in with : \A j \in with : j <= k}
Value(img, tag) ==
  IF Last(img, tag) = {} THEN 0 ELSE img.dyn[CHOOSE k \in Last(img, tag) : TRUE].value

pltrelsz(img) == Value(img, "PLTRELSZ")
jmprel(img) == resolveDynPtr(img, Value(img, "JMPREL"), pltrelsz(img))
jmprelCount(img) == pltrelsz(img) \div RELA_SIZE
symtab(img) == resolveDynPtr(img, Value(img, "SYMTAB"), SYM_SIZE)
strtab(img) == resolveDynPtr(img, Value(img, "STRTAB"), 1)

\* scan->found when gotScanCallback is done with the library: the walk came to
\* a DT_NULL, and what it found resolves.
gotScanCallback(img) ==
  /\ \E k \in Walked(img) : img.dyn[k].tag = "NULL"
  /\ pltrelsz(img) # 0 /\ pltrelsz(img) % RELA_SIZE = 0
  /\ jmprel(img) # 0 /\ symtab(img) # 0 /\ strtab(img) # 0
-----------------------------------------------------------------------------
(***************************************************************************)
(* findGotEntry, for the relocation at index i                             *)
(***************************************************************************)
relaAddr(img, i) == jmprel(img) + i * RELA_SIZE
symAddr(img, i) ==
  Plus(symtab(img), (img.relocation[i].symbol * SYM_SIZE) % (UINTPTR_MAX + 1))
nameAddr(img, i) == Plus(strtab(img), img.st_name[img.relocation[i].symbol])
slotAddr(img, i) == Plus(img.base, img.relocation[i].offset)

\* What the loop reads of the i-th relocation before it goes on to the next.
SymbolRead(img, i) == img.relocation[i].jump /\ inModule(img, symAddr(img, i), SYM_SIZE)
NameRead(img, i) ==
  /\ SymbolRead(img, i)
  /\ img.st_name[img.relocation[i].symbol] <= UINTPTR_MAX - strtab(img)
  /\ inModule(img, nameAddr(img, i), NAME_SIZE)
Names(img, i, e) == NameRead(img, i) /\ img.text[img.relocation[i].symbol] = e
SlotRead(img, i) ==
  /\ img.relocation[i].offset <= UINTPTR_MAX - img.base
  /\ inModule(img, slotAddr(img, i), POINTER_SIZE)

Indices(img) == 0 .. jmprelCount(img) - 1
Matches(img, e) == {i \in Indices(img) : Names(img, i, e)}

\* Mutant: the search returns at the first match.
findGotEntry_First(img, e) ==
  LET matches == Matches(img, e)
  IN  {i \in matches : SlotRead(img, i) /\ \A j \in matches : i <= j}

\* The entry for e, if there is one: a second match, or a slot that cannot be
\* read, ends the search with none.
findGotEntry(img, e) ==
  LET matches == Matches(img, e)
  IN  {i \in matches : matches = {i} /\ SlotRead(img, i)}

page(addr) == addr - (addr % PAGE_SIZE)
-----------------------------------------------------------------------------
\* The reference for inModule: in unbounded arithmetic, one segment that fits
\* the address space holds every byte of the range.
Inside(img, addr, len) ==
  \E ph \in img.loads : /\ img.base + ph.vaddr + ph.memsz <= UINTPTR_MAX
                        /\ img.base + ph.vaddr <= addr
                        /\ addr + len <= img.base + ph.vaddr + ph.memsz

\* What the loader needs to have found when it linked the library, and no line
\* here checks: PT_DYNAMIC lies in a segment, with a DT_NULL in it.
DynamicMapped(img) ==
  /\ Inside(img, img.base + img.section.vaddr, img.section.memsz)
  /\ \E k \in Word : (k + 1) * DYN_SIZE <= img.section.memsz /\ img.dyn[k].tag = "NULL"

\* Every byte read through a pointer of the dynamic section belongs to the
\* library; those of the section itself do if the loader's own walk stayed there.
ReadsInside(img) ==
  /\ DynamicMapped(img) => \A k \in Walked(img) : Inside(img, dynAddr(img, k), DYN_SIZE)
  /\ gotScanCallback(img) =>
       \A i \in Indices(img) :
         /\ Inside(img, relaAddr(img, i), RELA_SIZE)
         /\ SymbolRead(img, i) => Inside(img, symAddr(img, i), SYM_SIZE)
         /\ NameRead(img, i) => Inside(img, nameAddr(img, i), NAME_SIZE)
         /\ SlotRead(img, i) => Inside(img, slotAddr(img, i), POINTER_SIZE)
=============================================================================
