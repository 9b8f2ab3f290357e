----------------------------- MODULE MCLibrary -----------------------------
(* The library's parts share no state: each is checked on its own, and     *)
(* subject says which one a behaviour is about.                             *)
EXTENDS CString, Stdio, Elf

VARIABLE subject

libraryVars == <<subject, stringVars, stdioVars, elfVars>>

NoItem == [conv |-> "char", flags |-> {}, width |-> -1, precision |-> -1, length |-> "", arg |-> 0, text |-> <<>>]
Chars(text) == [NoItem EXCEPT !.text = text]
LetterA == 10

\* A line, half a line, an empty line, a number, and a format that ends early.
MCFormats == {<<Chars(<<1>>), Chars(<<NewLine>>)>>, <<Chars(<<LetterA>>)>>, <<Chars(<<NewLine>>)>>,
              <<[NoItem EXCEPT !.conv = "d", !.arg = 7]>>,
              <<Chars(<<2>>), [NoItem EXCEPT !.conv = "bad"], Chars(<<3>>)>>}

FlagSets == {{}, {"ZEROPAD"}, {"FPLUS"}, {"SPLUS"}, {"PREFIX"}, {"LEFT"},
             {"LEFT", "FPLUS"}, {"ZEROPAD", "PREFIX"}, {"ZEROPAD", "FPLUS"}}
Numbers == {0, 1, 7, 8, 9, 15, 31, 32, 33, 63}

MCDirectives ==
  {[conv |-> conv, flags |-> flags, width |-> width, precision |-> precision,
    length |-> length, arg |-> arg, text |-> <<>>] :
     conv \in {"d", "u", "o", "x", "X", "p"}, flags \in FlagSets, width \in {-3, -1, 0, 2, 6},
     precision \in {-1, 0, 2}, length \in {"", "h", "l"}, arg \in Numbers}
  \cup {[NoItem EXCEPT !.conv = conv, !.flags = flags, !.width = width, !.text = <<LetterA>>] :
          conv \in {"s", "%", "n"}, flags \in {{}, {"LEFT"}}, width \in {-3, -1, 0, 4}}

Symbol(name, value) == [name |-> name, value |-> value]
Section(name, symbols) == [name |-> name, symbols |-> symbols]
Symbols == {Symbol("a", 0), Symbol("b", 2), Symbol("c", 2), Symbol("d", 5), Symbol("e", 7)}
Tables == UNION {[1..n -> Symbols] : n \in 0..2} \cup {[i \in 1..5 |-> CHOOSE s \in Symbols : s.name = name[i]] :
              name \in {<<"d", "a", "c", "b", "e">>, <<"e", "d", "b", "c", "a">>}}
Elf64(sections) == [magic |-> TRUE, class |-> 64, sections |-> sections]

MCImages ==
  {Elf64(<<Section("", <<>>), Section(".symtab", tab), Section(".symtab", <<Symbol("x", 3)>>),
           Section(".strtab", <<>>)>>) : tab \in Tables}
  \cup {Elf64(<<>>), Elf64(<<Section(".strtab", <<>>)>>), Elf64(<<Section(".symtab", <<Symbol("a", 2)>>)>>), NoImage,
        [magic |-> TRUE, class |-> 32, sections |-> <<>>], [magic |-> TRUE, class |-> 0, sections |-> <<>>]}

LibraryInit ==
  /\ subject \in {"string", "stdio", "elf"}
  /\ StringInit /\ StdioInit /\ ElfInit
  /\ subject = "string" \/ store = [a \in Addresses |-> 0]

LibraryNext ==
  /\ UNCHANGED subject
  /\ \/ subject = "string" /\ StringNext /\ UNCHANGED <<stdioVars, elfVars>>
     \/ subject = "stdio" /\ StdioNext /\ UNCHANGED <<stringVars, elfVars>>
     \/ subject = "elf" /\ ElfNext /\ UNCHANGED <<stringVars, stdioVars>>

LibrarySpec == LibraryInit /\ [][LibraryNext]_libraryVars
=============================================================================
