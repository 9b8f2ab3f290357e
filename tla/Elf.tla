-------------------------------- MODULE Elf --------------------------------
(***************************************************************************)
(* The ELF parser (lib/elf): a context loads an image, keeps the sections  *)
(* that hold its symbols, and answers which symbol an address belongs to.  *)
(* An image is [magic, class, sections], a section [name, symbols], and a  *)
(* symbol [name, value].                                                   *)
(***************************************************************************)
EXTENDS Integers, SequencesExt

CONSTANTS Images, CodeAddresses

VARIABLES context,  \* [img, is64, symtab, strtab]; sections by index, 0 = null
          load_status,  \* what the last load returned
          asked     \* the last address asked for and the answers

elfVars == <<context, load_status, asked>>

NoImage == [magic |-> FALSE, class |-> 0, sections |-> <<>>]
NoAnswer == [addr |-> -1, null |-> FALSE, name |-> "", value |-> 0]

\* The first section of this name; 0 is the null pointer.
find_section(img, name) == SelectInSeq(img.sections, LAMBDA x : x.name = name)

\* Mutant: the best value so far is not kept.
nearest_last(tab, addr) ==
  FoldLeft(LAMBDA best, sym : IF sym.value > 0 /\ sym.value <= addr THEN sym ELSE best,
           [name |-> "", value |-> 0], tab)

\* The loop of get_symbol_name and get_symbol_addr; "" is the null pointer.
nearest(tab, addr) ==
  FoldLeft(LAMBDA best, sym : IF sym.value > best.value /\ sym.value <= addr THEN sym ELSE best,
           [name |-> "", value |-> 0], tab)

-----------------------------------------------------------------------------
ElfInit ==
  /\ context = [img |-> NoImage, is64 |-> FALSE, symtab |-> 0, strtab |-> 0]
  /\ load_status = "none" /\ asked = NoAnswer

\* A 32-bit image is not implemented: the context keeps the image it had.
Load(img) ==
  /\ load_status' = IF ~img.magic \/ img.class \notin {32, 64} THEN "INVALID"
                    ELSE IF img.class = 32 THEN "NOT_IMPLEMENTED" ELSE "OK"
  /\ context' = CASE load_status' = "INVALID" -> context
                  [] load_status' = "NOT_IMPLEMENTED" -> [context EXCEPT !.is64 = FALSE]
                  [] load_status' = "OK" ->
                       [img |-> img, is64 |-> TRUE,
                        symtab |-> find_section(img, ".symtab"), strtab |-> find_section(img, ".strtab")]
  /\ asked' = NoAnswer

\* get_symbol_name and get_symbol_addr.  Neither tests that its tables exist:
\* without a ".symtab", or without a ".strtab" when a symbol is found, it reads
\* through null.
AskSymbol(addr) ==
  LET sym == IF context.symtab = 0 THEN [name |-> "", value |-> 0]
             ELSE nearest(context.img.sections[context.symtab].symbols, addr)
  IN /\ asked' = [addr |-> addr, name |-> sym.name, value |-> sym.value,
                  null |-> context.symtab = 0 \/ (sym.value > 0 /\ context.strtab = 0)]
     /\ UNCHANGED <<context, load_status>>

ElfNext ==
  /\ ~asked.null
  /\ (\E img \in Images : Load(img)) \/ \E addr \in CodeAddresses : AskSymbol(addr)

-----------------------------------------------------------------------------
\* Whatever images were loaded or refused before, the answer is about the
\* image in the context: of the symbols of its first ".symtab" at or below the
\* address, the nearest one, the first of several at one value, and none when
\* all are above it or at 0 (elf64_parser.cc:11-51, parser.cc:9-22).  An image
\* with both tables is always answered; of others nothing is said.
SymbolsNearest ==
  LET sections == context.img.sections
      tables(name) == {k \in DOMAIN sections : sections[k].name = name}
      tab == sections[Min(tables(".symtab"))].symbols
      below == {i \in DOMAIN tab : tab[i].value \in 1..asked.addr}
      best == {i \in below : \A j \in below : tab[j].value <= tab[i].value}
  IN asked # NoAnswer /\ tables(".symtab") # {} /\ tables(".strtab") # {} =>
       /\ ~asked.null
       /\ [name |-> asked.name, value |-> asked.value] =
            IF below = {} THEN [name |-> "", value |-> 0] ELSE tab[Min(best)]
=============================================================================
