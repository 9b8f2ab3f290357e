------------------------------ MODULE CString ------------------------------
(***************************************************************************)
(* The string functions of lib/ebl/string.cc on a memory of a few cells.   *)
(* Each call is a step; what it returned and what it did to memory is      *)
(* compared with what the function is for, told in terms of sequences.     *)
(***************************************************************************)
EXTENDS Integers, SequencesExt, Bitwise

CONSTANTS Cells,     \* cells of memory; the last one always holds a 0
          CellBits,  \* bits of a cell
          CellValues,
          WordCells  \* cells that strlen looks at in one go

VARIABLES store, earlier,  \* memory, and memory before the last call
          scall            \* the last call: its name, arguments and result

stringVars == <<store, earlier, scall>>

Addresses == 0..Cells - 1
NullPtr == -1
NoCall == [fn |-> "none", args |-> <<>>, ret |-> 0]

Memories == {m \in [Addresses -> CellValues] : m[Cells - 1] = 0}

\* The cells that a loop of len turns goes through.
Upward(len) == [i \in 1..len |-> i - 1]
Downward(len) == Reverse(Upward(len))

-----------------------------------------------------------------------------
Copied(m, d, s, offsets) == FoldLeft(LAMBDA x, i : [x EXCEPT ![d + i] = x[s + i]], m, offsets)

memcpy(m, d, s, len) == Copied(m, d, s, Upward(len))
memset(m, d, c, len) == [i \in Addresses |-> IF i \in d..d + len - 1 THEN c ELSE m[i]]

\* Mutant: the direction is chosen the wrong way round.
memmove_swapped(m, d, s, len) == Copied(m, d, s, IF d < s THEN Downward(len) ELSE Upward(len))

memmove(m, d, s, len) == Copied(m, d, s, IF d < s THEN Upward(len) ELSE Downward(len))

\* The word test of strlen: some byte of the word is 0.
Repeated(byte) == FoldLeft(LAMBDA x, i : x * 2^CellBits + byte, 0, Upward(WordCells))
lomagic == Repeated(1)
himagic == Repeated(2^(CellBits - 1))
WordModulus == 2^(CellBits * WordCells)
Word(m, p) == FoldLeft(LAMBDA x, i : x * 2^CellBits + m[p + i], 0, Downward(WordCells))
MayHaveZero(w) == (((w - lomagic) % WordModulus) & (WordModulus - 1 - w) & himagic) # 0

\* Cells up to the first aligned one are tested one by one, then whole words;
\* in a word that may have a zero they are tested one by one again.
strlen(m, s) ==
  LET aligned == Min({p \in s..s + WordCells - 1 : p % WordCells = 0})
      tested == s..aligned - 1 \cup
                UNION {p..p + WordCells - 1 : p \in {q \in aligned..Cells - 1 :
                                                       q % WordCells = 0 /\ MayHaveZero(Word(m, q))}}
  IN Min({p \in tested : m[p] = 0}) - s

strcpy(m, d, s) == memcpy(m, d, s, strlen(m, s))
strcat(m, d, s) == strcpy(m, d + strlen(m, d), s)

\* The first place, of at most len, where a loop that compares stops.
Stop(m, a, b, len, zero) ==
  Min({len} \cup {i \in 0..len - 1 : m[a + i] # m[b + i] \/ (zero /\ m[a + i] = 0)})
Difference(m, a, b, i, len) == IF i = len THEN 0 ELSE m[a + i] - m[b + i]

memcmp(m, a, b, len) == Difference(m, a, b, Stop(m, a, b, len, FALSE), len)
strncmp(m, a, b, len) == Difference(m, a, b, Stop(m, a, b, len, TRUE), len)
strcmp(m, a, b) == LET len == Cells - Max({a, b}) IN Difference(m, a, b, Stop(m, a, b, len, TRUE), len)

strchr(m, s, c) ==
  LET p == Min({q \in s..Cells - 1 : m[q] \in {c, 0}}) IN IF m[p] = c THEN p ELSE NullPtr

\* Every place of the first character of t is tried; with an empty t that is
\* the end of s only.
strstr(m, s, t) ==
  LET len == strlen(m, t)
      places == {p \in s..s + strlen(m, s) : strchr(m, p, m[t]) = p}
      found == {p \in places : strncmp(m, p, t, Min({len, Cells - p})) = 0}
  IN IF found = {} THEN NullPtr ELSE Min(found)

-----------------------------------------------------------------------------
Within(p, len) == p + len <= Cells - 1  \* the last 0 is never overwritten

Return(fn, args, m, ret) ==
  /\ scall' = [fn |-> fn, args |-> args, ret |-> ret]
  /\ earlier' = store /\ store' = m

StringInit == store \in Memories /\ earlier = store /\ scall = NoCall

CopyCall ==
  \E d, s \in Addresses, len \in 0..Cells - 2 :
    /\ Within(d, len) /\ Within(s, len)
    /\ \/ Return("memmove", <<d, s, len>>, memmove(store, d, s, len), d)
       \/ (d + len <= s \/ s + len <= d) /\ Return("memcpy", <<d, s, len>>, memcpy(store, d, s, len), d)
       \/ \E c \in CellValues : s = 0 /\ Return("memset", <<d, c, len>>, memset(store, d, c, len), d)

StringCall ==
  \E d, s \in Addresses :
    /\ d + strlen(store, d) + strlen(store, s) < Cells - 1
    /\ d + strlen(store, d) + strlen(store, s) < s \/ s + strlen(store, s) < d
    /\ \/ Return("strcpy", <<d, s>>, strcpy(store, d, s), d)
       \/ Return("strcat", <<d, s>>, strcat(store, d, s), d)

CompareCall ==
  \E a, b \in Addresses :
    \/ Return("strcmp", <<a, b>>, store, strcmp(store, a, b))
    \/ Return("strstr", <<a, b>>, store, strstr(store, a, b))
    \/ \E c \in CellValues : b = 0 /\ Return("strchr", <<a, c>>, store, strchr(store, a, c))
    \/ b = 0 /\ Return("strlen", <<a>>, store, strlen(store, a))
    \/ \E len \in 0..Cells - Max({a, b}) :
         \/ Return("memcmp", <<a, b, len>>, store, memcmp(store, a, b, len))
         \/ Return("strncmp", <<a, b, len>>, store, strncmp(store, a, b, len))

StringNext == scall = NoCall /\ (CopyCall \/ StringCall \/ CompareCall)

-----------------------------------------------------------------------------
\* What memory is to a caller: sequences of cells, and strings up to their 0.
Block(m, p, len) == [i \in 1..len |-> m[p + i - 1]]
Text(m, p) == Block(m, p, Min({q \in p..Cells - 1 : m[q] = 0}) - p)

\* The order of two sequences decides the sign of a comparison.
SameSign(x, y) == (x > 0) = (y > 0) /\ (x < 0) = (y < 0)
Order(x, y) ==
  LET common == Min({Len(x), Len(y)})
      differ == {i \in 1..common : x[i] # y[i]}
  IN IF differ # {} THEN x[Min(differ)] - y[Min(differ)] ELSE Len(x) - Len(y)
FirstN(x, n) == SubSeq(x, 1, Min({n, Len(x)}))

\* Memory after data is put at d, and nowhere else.
Put(m, d, data) ==
  [i \in Addresses |-> IF i \in d..d + Len(data) - 1 THEN data[i - d + 1] ELSE m[i]]

\* What IEEE Std 1003.1 says of the last call, which left memory as after.
AsPosix(after) ==
  LET a == scall.args
      r == scall.ret
      m == earlier
      texts == <<Text(m, a[1]), Text(m, a[2])>>
      places(x, y) == {p \in 0..Len(x) - Len(y) : SubSeq(x, p + 1, p + Len(y)) = y}
  IN CASE scall.fn \in {"memcpy", "memmove"} -> after = Put(m, a[1], Block(m, a[2], a[3]))
       [] scall.fn = "memset" -> after = Put(m, a[1], [i \in 1..a[3] |-> a[2]])
       [] scall.fn = "strcpy" -> after = Put(m, a[1], Append(texts[2], 0))
       [] scall.fn = "strcat" -> after = Put(m, a[1], Append(texts[1] \o texts[2], 0))
       [] scall.fn = "strlen" -> r = Len(Text(m, a[1]))
       [] scall.fn = "strcmp" -> SameSign(r, Order(texts[1], texts[2]))
       [] scall.fn = "strncmp" -> SameSign(r, Order(FirstN(texts[1], a[3]), FirstN(texts[2], a[3])))
       [] scall.fn = "memcmp" -> SameSign(r, Order(Block(m, a[1], a[3]), Block(m, a[2], a[3])))
       [] scall.fn = "strchr" -> LET at == {p \in a[1]..a[1] + Len(Text(m, a[1])) : m[p] = a[2]}
                                 IN r = IF at = {} THEN NullPtr ELSE Min(at)
       [] scall.fn = "strstr" -> LET at == places(texts[1], texts[2])
                                 IN r = IF at = {} THEN NullPtr ELSE a[1] + Min(at)
       [] OTHER -> TRUE

\* Memory with the final 0 of strcpy and strcat, which the code leaves out.
WithEnd ==
  LET a == scall.args
      copied == Len(Text(earlier, a[2]))
  IN CASE scall.fn = "strcpy" -> [store EXCEPT ![a[1] + copied] = 0]
       [] scall.fn = "strcat" -> [store EXCEPT ![a[1] + Len(Text(earlier, a[1])) + copied] = 0]
       [] OTHER -> store

\* Every function is as string.h says, at every alignment and overlap, and
\* writes nothing else: strlen's test of whole words finds the first 0, memmove
\* copies what was there before, comparisons have the sign of the order of
\* their strings, and a search finds the first place (string.cc:8-139).  Two
\* disagreements are left out: strcpy and strcat owe the final 0, which
\* WithEnd supplies, and nothing is said of strstr with an empty string, which
\* the standard finds at the start and the code at the end.
StringsAgree ==
  ~(scall.fn = "strstr" /\ Text(earlier, scall.args[2]) = <<>>) => AsPosix(WithEnd)
=============================================================================
