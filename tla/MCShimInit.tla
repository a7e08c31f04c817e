------------------------------ MODULE MCShimInit ------------------------------
(* Model-checking instances of ShimInit; the .cfg files give the bounds.     *)
EXTENDS ShimInit, TLC

\* A library of 28 bytes in an address space of 38: text with three PLT
\* relocations at 0, two symbols at 6, their names at 10 and the dynamic section
\* at 14, data at 20.
MCText == [vaddr |-> 0, memsz |-> 20]
MCSection == [vaddr |-> 14, memsz |-> 6]
MCEntry(tag, value) == [tag |-> tag, value |-> value]
MCRelocation(jump, symbol, offset) == [jump |-> jump, symbol |-> symbol, offset |-> offset]

\* The first relocation is unsol's; the second is complete's or goes wrong: the
\* same slot, a slot past the end of memory, a symbol that wraps around into the
\* text, no JUMP_SLOT; the third may be a second slot for either symbol.
MCSecond == {MCRelocation(TRUE, 1, o) : o \in {20, 22, 26, 37}}
              \cup {MCRelocation(TRUE, 16, 22), MCRelocation(FALSE, 1, 22)}
MCThird == {MCRelocation(TRUE, 0, 24), MCRelocation(TRUE, 1, 24), MCRelocation(FALSE, 0, 24)}

MCImage(base, data, plt, size, name, second, third) ==
  [base |-> base, loads |-> {MCText, [vaddr |-> 20, memsz |-> data]},
   dynamic |-> TRUE, section |-> MCSection,
   dyn |-> 0 :> MCEntry("STRTAB", 10) @@ 1 :> MCEntry("PLTRELSZ", size)
             @@ 2 :> MCEntry("JMPREL", plt) @@ 3 :> MCEntry("SYMTAB", 6)
             @@ 4 :> MCEntry("PLTREL", DT_RELA) @@ [k \in Word |-> MCEntry("NULL", 0)],
   relocation |-> 0 :> MCRelocation(TRUE, 0, 20) @@ 1 :> second @@ [i \in Word |-> third],
   st_name |-> 0 :> 0 @@ [symbol \in Word |-> name],
   text |-> 0 :> "unsol" @@ 1 :> "complete" @@ [symbol \in Word |-> "other"]]

\* The load bias leaves room for the data or not; the data holds the last slot
\* or cuts it; the table is two or three entries, or no whole number; the name
\* is in the text, crosses its end, or lies past the memory.
MCTables ==
  {MCImage(base, data, 0, size, name, second, third) :
     base \in {6, 16}, data \in {8, 7}, size \in {4, 5, 6},
     name \in {2, 9, 25}, second \in MCSecond, third \in MCThird}

\* A table that ends past the memory, and an empty one.
MCOtherTables ==
  {MCImage(6, 8, 36, 4, 2, second, second) : second \in MCSecond}
  \cup {MCImage(6, 8, 0, 0, 2, second, second) : second \in MCSecond}

\* No dynamic section; one that lies across the end of the text, past the end
\* of memory, or has its DT_NULL behind its end; a PLT that is not RELA; an entry
\* less, or one more that is the last for its tag.
MCDynamics ==
  LET images == {MCImage(6, 8, 0, 4, 2, second, second) : second \in MCSecond}
  IN  {[img EXCEPT !.dynamic = FALSE] : img \in images}
      \cup {[img EXCEPT !.section.vaddr = vaddr] : img \in images, vaddr \in {17, 34}}
      \cup {[img EXCEPT !.dyn[5] = entry] :
              img \in images,
              entry \in {MCEntry("other", 0), MCEntry("PLTRELSZ", 6), MCEntry("JMPREL", 36)}}
      \cup {[img EXCEPT !.dyn[k] = entry] :
              img \in images, k \in {0, 4}, entry \in {MCEntry("PLTREL", 0), MCEntry("other", 0)}}

MCImages == MCTables \cup MCOtherTables \cup MCDynamics
=============================================================================
